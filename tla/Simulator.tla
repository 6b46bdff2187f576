----------------------------- MODULE Simulator -----------------------------
(***************************************************************************)
(* The discrete-event kernel of pyramulator/sim.py: one Simulator object   *)
(* and the single thread of control that moves between its run loop and    *)
(* the callbacks of its clients.  The call stack is explicit, because a    *)
(* callback may itself call schedule, at, cancel, step, run and, as Dram   *)
(* does, _advance_to, may return, and may raise: the exception then        *)
(* unwinds through every active run() until some callback, or the main     *)
(* program, catches it.                                                    *)
(*                                                                         *)
(* An event's callback is left open (any client action may follow) and the *)
(* label counted in event_counts is left out.  Time is in base units.      *)
(***************************************************************************)
EXTENDS Integers, Sequences, FiniteSets

CONSTANTS
    Priorities,  \* the priorities clients pass to schedule() and at()
    Limits,      \* the max_events values clients pass to run()
    None,        \* Python's None: no horizon, no limit
    MaxTime,     \* bound: the latest time an event or a jump may name
    MaxEvents,   \* bound: the number of events ever scheduled
    MaxDepth     \* bound: the number of frames on the call stack

ASSUME PrioritiesAssumption == Priorities \subseteq Int
ASSUME LimitsAssumption == Limits \subseteq Nat
ASSUME NoneAssumption == None \notin Int
ASSUME BoundsAssumption ==
    /\ MaxTime \in Nat
    /\ MaxEvents \in Nat
    /\ MaxDepth \in Nat

Times == 0 .. MaxTime

VARIABLES
    now,        \* Simulator._now
    event,      \* the _Event objects by seq: [time, priority, cancelled]
    heap,       \* Simulator._heap: the seqs of its entries
    byId,       \* Simulator._by_id: its keys
    seq,        \* Simulator._seq
    live,       \* Simulator._live
    processed,  \* Simulator._processed
    runUntil,   \* Simulator._run_until
    stack,      \* the active run() calls and callbacks, innermost last
    raising,    \* an exception is propagating to the caller
    fired       \* history: [id, known] of each fired event, where known is
                \* the value of seq when it fired

vars == <<now, event, heap, byId, seq, live, processed, runUntil, stack,
          raising, fired>>

RunFrame == [kind : {"run"}, until : Times \cup {None},
             limit : Limits \cup {None}, start : Nat,
             prevUntil : Times \cup {None}]
CallbackFrame == [kind : {"callback"}, id : Nat]

-----------------------------------------------------------------------------
(* The event order and the heap.                                           *)

\* Mutant of Before: later insertions run first (LIFO).
BeforeLIFO(i, j) ==
    \/ event[i].time < event[j].time
    \/ /\ event[i].time = event[j].time
       /\ \/ event[i].priority < event[j].priority
          \/ event[i].priority = event[j].priority /\ i > j

\* _Event.__lt__: the order of the keys (time, priority, seq).
Before(i, j) ==
    \/ event[i].time < event[j].time
    \/ /\ event[i].time = event[j].time
       /\ \/ event[i].priority < event[j].priority
          \/ event[i].priority = event[j].priority /\ i < j

Scheduled == {i \in heap : ~event[i].cancelled}

\* The cancelled entries _peek() pops: those in front of every live one.
DeadHeads ==
    {i \in heap : event[i].cancelled /\ \A j \in Scheduled : Before(i, j)}

\* Mutant of IsHead: the cancelled flag is not looked at.
IsHeadOrCancelled(i) == i \in heap /\ \A j \in heap \ {i} : Before(i, j)

\* Mutant of IsHead: the key is the time alone.
IsHeadByTime(i) ==
    i \in Scheduled /\ \A j \in Scheduled : event[i].time <= event[j].time

\* What _peek() returns: the live entry before all others, if there is one.
IsHead(i) == i \in Scheduled /\ \A j \in Scheduled \ {i} : Before(i, j)

\* Mutant of Peek: the ids of cancelled entries stay in the id table.
PeekLeavingIds ==
    /\ heap' = heap \ DeadHeads
    /\ UNCHANGED byId

\* The side effect of _peek() on the heap and on the id table.
Peek ==
    /\ heap' = heap \ DeadHeads
    /\ byId' = byId \ DeadHeads

-----------------------------------------------------------------------------
(* The call stack.                                                         *)

Top == stack[Len(stack)]
Pop == SubSeq(stack, 1, Len(stack) - 1)
InCallback == stack # <<>> /\ Top.kind = "callback"
InRun == stack # <<>> /\ Top.kind = "run" /\ ~raising

\* The main program or a callback is executing, not the kernel.
ClientTurn == ~raising /\ (stack = <<>> \/ InCallback)

-----------------------------------------------------------------------------
Init ==
    /\ now = 0
    /\ event = [i \in {} |-> 0]
    /\ heap = {}
    /\ byId = {}
    /\ seq = 0
    /\ live = 0
    /\ processed = 0
    /\ runUntil = None
    /\ stack = <<>>
    /\ raising = FALSE
    /\ fired = <<>>

-----------------------------------------------------------------------------
(* Client calls.                                                           *)

\* Mutant of Push: the counter is increased before the event is numbered.
PushRenumbered(time, priority) ==
    /\ seq < MaxEvents
    /\ event' = [i \in 0 .. seq |->
                   IF i = seq
                     THEN [time |-> time, priority |-> priority,
                           cancelled |-> FALSE]
                     ELSE event[i]]
    /\ seq' = seq + 1
    /\ heap' = heap \cup {seq'}
    /\ live' = live + 1
    /\ byId' = byId \cup {seq'}
    /\ UNCHANGED <<now, processed, runUntil, stack, raising, fired>>

\* _push(): a new event, numbered and entered in the heap and the id table.
Push(time, priority) ==
    /\ seq < MaxEvents
    /\ event' = [i \in 0 .. seq |->
                   IF i = seq
                     THEN [time |-> time, priority |-> priority,
                           cancelled |-> FALSE]
                     ELSE event[i]]
    /\ seq' = seq + 1
    /\ heap' = heap \cup {seq}
    /\ live' = live + 1
    /\ byId' = byId \cup {seq}
    /\ UNCHANGED <<now, processed, runUntil, stack, raising, fired>>

\* schedule(): a negative delay is refused and changes nothing.
Schedule(delay, priority) ==
    /\ ClientTurn
    /\ delay >= 0
    /\ Push(now + delay, priority)

\* at(): a time in the past is refused and changes nothing.
At(time, priority) ==
    /\ ClientTurn
    /\ time >= now
    /\ Push(time, priority)

\* cancel() when it returns True; otherwise it changes nothing.
Cancel(id) ==
    /\ ClientTurn
    /\ id \in byId
    /\ ~event[id].cancelled
    /\ event' = [event EXCEPT ![id].cancelled = TRUE]
    /\ live' = live - 1
    /\ UNCHANGED <<now, heap, byId, seq, processed, runUntil, stack, raising,
                   fired>>

\* The next_time property: reading it drops cancelled heads.
NextTime ==
    /\ ClientTurn
    /\ Peek
    /\ UNCHANGED <<now, event, seq, live, processed, runUntil, stack, raising,
                   fired>>

\* Mutant of MayAdvanceTo: only the horizon is checked.
MayAdvanceOver(time) == runUntil # None => time <= runUntil

\* May _advance_to() jump to time?  Neither over a live event (none is before
\* time when the head is not) nor past the horizon of the active run().
MayAdvanceTo(time) ==
    /\ \A i \in Scheduled : event[i].time >= time
    /\ runUntil # None => time <= runUntil

\* _advance_to(): a refused jump raises, but only after it has peeked.
AdvanceTo(time) ==
    /\ ClientTurn
    /\ time >= now
    /\ Peek
    /\ now' = IF MayAdvanceTo(time) THEN time ELSE now
    /\ UNCHANGED <<event, seq, live, processed, runUntil, stack, raising,
                   fired>>

\* Mutant of Fire: the id is dropped only after the callback, so that the
\* callback can still cancel its own event (fixed in release 0.5.3).
FireKeepingId(i) ==
    /\ heap' = heap \ (DeadHeads \cup {i})
    /\ live' = live - 1
    /\ now' = event[i].time
    /\ byId' = byId \ DeadHeads
    /\ stack' = Append(stack, [kind |-> "callback", id |-> i])
    /\ fired' = Append(fired, [id |-> i, known |-> seq])
    /\ UNCHANGED <<event, seq, processed, runUntil, raising>>

\* The head of the heap leaves it and _fire() enters its callback.
Fire(i) ==
    /\ heap' = heap \ (DeadHeads \cup {i})
    /\ live' = live - 1
    /\ now' = event[i].time
    /\ byId' = byId \ (DeadHeads \cup {i})
    /\ stack' = Append(stack, [kind |-> "callback", id |-> i])
    /\ fired' = Append(fired, [id |-> i, known |-> seq])
    /\ UNCHANGED <<event, seq, processed, runUntil, raising>>

\* step() with an event to run; on an empty queue it only peeks (NextTime).
\* It does not look at the horizon of an active run().
Step ==
    /\ ClientTurn
    /\ Len(stack) < MaxDepth
    /\ \E i \in heap : IsHead(i) /\ Fire(i)

\* run(): the new horizon replaces that of the run() it is nested in.
Run(until, limit) ==
    /\ ClientTurn
    /\ Len(stack) + 2 <= MaxDepth
    /\ stack' = Append(stack, [kind |-> "run", until |-> until,
                               limit |-> limit, start |-> processed,
                               prevUntil |-> runUntil])
    /\ runUntil' = until
    /\ UNCHANGED <<now, event, heap, byId, seq, live, processed, raising,
                   fired>>

-----------------------------------------------------------------------------
(* The loop of the innermost run().                                        *)

LimitReached == Top.limit # None /\ processed - Top.start >= Top.limit

WithinHorizon(i) == Top.until # None => event[i].time <= Top.until

RunFire ==
    /\ InRun
    /\ ~LimitReached
    /\ \E i \in heap : IsHead(i) /\ WithinHorizon(i) /\ Fire(i)

\* The finally clause of run(): the previous horizon is active again.
LeaveRun ==
    /\ runUntil' = Top.prevUntil
    /\ stack' = Pop
    /\ UNCHANGED <<now, event, seq, live, processed, raising, fired>>

RunEndAtLimit ==
    /\ InRun
    /\ LimitReached
    /\ LeaveRun
    /\ UNCHANGED <<heap, byId>>

RunEnd ==
    /\ InRun
    /\ ~LimitReached
    /\ \A i \in heap : IsHead(i) => ~WithinHorizon(i)
    /\ Peek
    /\ LeaveRun

-----------------------------------------------------------------------------
(* The end of a callback, and exceptions.                                  *)

\* The callback returns to _fire(), which counts the event; what follows is
\* the loop of run(), or the client that called step().
Return ==
    /\ ClientTurn
    /\ InCallback
    /\ processed' = processed + 1
    /\ stack' = Pop
    /\ UNCHANGED <<now, event, heap, byId, seq, live, runUntil, raising,
                   fired>>

\* The callback raises, or lets an exception of a call it made through.
Raise ==
    /\ InCallback
    /\ raising' = TRUE
    /\ stack' = Pop
    /\ UNCHANGED <<now, event, heap, byId, seq, live, processed, runUntil,
                   fired>>

\* Mutant of UnwindRun: run() restores the horizon outside a finally clause.
UnwindRunWithoutFinally ==
    /\ raising
    /\ stack # <<>>
    /\ Top.kind = "run"
    /\ stack' = Pop
    /\ UNCHANGED <<now, event, heap, byId, seq, live, processed, runUntil,
                   raising, fired>>

\* The exception passes through run() and its finally clause.
UnwindRun ==
    /\ raising
    /\ stack # <<>>
    /\ Top.kind = "run"
    /\ LeaveRun
    /\ UNCHANGED <<heap, byId>>

\* The main program or a callback handles the exception and goes on.
Catch ==
    /\ raising
    /\ stack = <<>> \/ InCallback
    /\ raising' = FALSE
    /\ UNCHANGED <<now, event, heap, byId, seq, live, processed, runUntil,
                   stack, fired>>

-----------------------------------------------------------------------------
ClientCall ==
    \/ \E delay \in Times, priority \in Priorities :
          now + delay <= MaxTime /\ Schedule(delay, priority)
    \/ \E time \in Times, priority \in Priorities : At(time, priority)
    \/ \E id \in byId : Cancel(id)
    \/ NextTime
    \/ \E time \in Times : AdvanceTo(time)
    \/ Step
    \/ \E until \in Times \cup {None}, limit \in Limits \cup {None} :
          Run(until, limit)

Kernel == RunFire \/ RunEndAtLimit \/ RunEnd \/ UnwindRun

EndCallback == Return \/ Raise

Next == ClientCall \/ Kernel \/ EndCallback \/ Catch

Spec == Init /\ [][Next]_vars

-----------------------------------------------------------------------------
\* Types, and the id of an entry is one that was given out.
TypeOK ==
    /\ now \in Times
    /\ seq \in 0 .. MaxEvents
    /\ event \in [0 .. seq - 1 ->
                    [time : Times, priority : Priorities, cancelled : BOOLEAN]]
    /\ heap \subseteq 0 .. seq - 1
    /\ byId \subseteq 0 .. seq - 1
    /\ live \in Int
    /\ processed \in Nat
    /\ runUntil \in Times \cup {None}
    /\ stack \in Seq(RunFrame \cup CallbackFrame)
    /\ raising \in BOOLEAN
    /\ fired \in Seq([id : 0 .. seq - 1, known : 0 .. seq])

\* The id table and the heap hold the same events, so that cancel() finds an
\* event exactly while it can still run, even inside its own callback, and
\* cancelled entries leave no id behind (_fire, _peek).
IdsMatchHeap == byId = heap

\* The pending property counts the events that are still to run, whatever
\* was cancelled twice, cancelled while running, or fired by a nested run.
LiveCountsScheduled == live = Cardinality(Scheduled)

\* "Time never advances past an event without processing it" (sim.py:46):
\* no live event is behind the clock, whoever moves the clock.
NothingSkipped == \A i \in Scheduled : event[i].time >= now

Fired(i) == \E k \in DOMAIN fired : fired[k].id = i

\* Every event ever scheduled is still to run, was cancelled, or has fired,
\* and only one of these; none fires twice, also when callbacks raise.
EveryEventAccountedFor ==
    /\ \A i \in 0 .. seq - 1 :
          \/ i \in Scheduled /\ ~Fired(i)
          \/ event[i].cancelled /\ ~Fired(i)
          \/ Fired(i) /\ i \notin heap /\ ~event[i].cancelled
    /\ \A j, k \in DOMAIN fired : fired[j].id = fired[k].id => j = k

\* The deterministic order of the module's first comment: of two events both
\* known when the first of them fired, that first one comes before the other
\* by time, priority and insertion, whichever calls fired them.
FiringOrder ==
    \A j, k \in DOMAIN fired :
        j < k /\ fired[k].id < fired[j].known
            => Before(fired[j].id, fired[k].id)

\* The run() calls among the first n frames of a stack.
RunsAmong(frames, n) == {m \in 1 .. n : frames[m].kind = "run"}

\* With the first n frames active, horizon is that of the innermost run().
IsHorizon(frames, n, horizon) ==
    \/ RunsAmong(frames, n) = {} /\ horizon = None
    \/ \E m \in RunsAmong(frames, n) :
          /\ \A l \in RunsAmong(frames, n) : l <= m
          /\ horizon = frames[m].until

\* The horizon _advance_to() consults is always that of the innermost active
\* run(), after nested runs have returned and after exceptions have unwound.
HorizonIsInnermost == IsHorizon(stack, Len(stack), runUntil)

\* The abstraction: the live entries of the heap are the pending events.
Pending ==
    {[id |-> i, time |-> event[i].time, priority |-> event[i].priority] :
        i \in Scheduled}

EL == INSTANCE EventList WITH pending <- Pending, nextId <- seq

\* The simulator is a future event list.
ImplementsEventList == EL!Spec
=============================================================================
