-------------------------------- MODULE Dram --------------------------------
(***************************************************************************)
(* The DRAM component of pyramulator/dram.py over its engine (_engine.py,  *)
(* cpp/bindings.cpp): requests enter the engine at any moment, a chain of  *)
(* _tick events runs the engine while requests are pending, a burst of     *)
(* empty cycles costs one event, completions become zero-delay events, and *)
(* with idle refresh a coarse chain of _idle_tick events runs the engine   *)
(* while nothing is pending.                                               *)
(*                                                                         *)
(* A _tick and an _idle_tick run no client code (what the engine calls     *)
(* back only appends to _completed), so each is one step.  Clients, that   *)
(* is the main program, other components and completion callbacks, call    *)
(* read and write between any two steps.  The engine proper (Ramulator) is *)
(* not in the repository: here it may service any pending requests in any  *)
(* cycle, and may have refresh requests of its own pending.                *)
(*                                                                         *)
(* Times are in simulator units and relative to now (see Agenda).          *)
(***************************************************************************)
EXTENDS Agenda

CONSTANTS
    Reads, Writes,       \* the requests clients have, free to be reused
    Silent,              \* those sent without a callback
    Queue,               \* the requests the engine takes before it refuses
    Period,              \* the DRAM clock period
    BurstCap,            \* the most cycles of one burst (1_000_000)
    CompletionPriority,  \* Dram._completion_priority
    IdleModes,           \* the values of the argument idle_refresh
    IdleBatch,           \* Dram._idle_batch_cycles
    MaxIdleBatch,        \* Dram._max_idle_batch (16 * IdleBatch)
    BadBatches,          \* may a batch hold an address that is no integer?
    None,                \* Python's None: no horizon
    MaxRefreshes,        \* bound: the engine's own pending requests
    Delays,              \* bound: how far ahead clients schedule and run
    MaxClients,          \* bound: the clients' events on the agenda
    MaxBehind            \* bound: behind is not counted further while idle

ASSUME DramAssumption ==
    /\ Reads \cap Writes = {} /\ Silent \subseteq Reads \cup Writes
    /\ {Queue, Period, BurstCap, IdleBatch} \subseteq Nat \ {0}
    /\ MaxIdleBatch \in Nat /\ MaxIdleBatch >= IdleBatch
    /\ CompletionPriority \in Int
    /\ IdleModes \subseteq BOOLEAN /\ BadBatches \in BOOLEAN
    /\ None \notin Int
    /\ Delays \subseteq Nat
    /\ {MaxRefreshes, MaxClients, MaxBehind} \subseteq Nat
    /\ MaxBehind >= MaxIdleBatch * Period

Requests == Reads \cup Writes

VARIABLES
    idleRefresh,  \* Dram._idle_refresh, which never changes
    agenda,       \* the scheduled events
    horizon,      \* Simulator._run_until relative to now, or None; -1: passed
    inFlight,     \* the requests accepted and not yet serviced
    refreshes,    \* the number of the engine's own pending requests
    ticking,      \* Dram._ticking
    idleTicking,  \* Dram._idle_ticking
    idleBatch,    \* Dram._current_idle_batch
    idleEventId,  \* Dram._idle_event_id
    completed,    \* Dram._completed: callbacks not yet made events
    owed,         \* history: the requests accepted, callback not yet called
    behind        \* history: now - cycles * Period, the engine's lag

vars == <<idleRefresh, agenda, horizon, inFlight, refreshes, ticking,
          idleTicking, idleBatch, idleEventId, completed, owed, behind>>

-----------------------------------------------------------------------------
(* Events.                                                                 *)

TickEvent == [due |-> Period, priority |-> 0, run |-> "tick"]
IdleEvent(cycles, id) ==
    [due |-> cycles * Period, priority |-> 0, run |-> "idle", id |-> id]
ClientEvent(delay) == [due |-> delay, priority |-> 0, run |-> "client"]
\* The zero-delay event of a completion.
DoneEvent(r) ==
    [due |-> 0, priority |-> CompletionPriority, run |-> "done", req |-> r]
DoneTime == [due |-> 0, priority |-> CompletionPriority]

Scheduled(run) == {k \in DOMAIN agenda : agenda[k].run = run}

\* The id of a new idle event.  All that matters of an id is whether it is
\* still the one that is stored, so it is only told apart from that.
NewId == IF idleEventId = 0 THEN 1 ELSE 0

\* Mutant of Stored: the id stored stays that of the first idle event.
StoredFirst(id) == idleEventId

\* _idle_tick() stores the id of the event it schedules.
Stored(id) == id

\* Cancelling the event that _idle_event_id names, if it is still scheduled.
WithoutIdle(events) ==
    LET Named == {k \in DOMAIN events : /\ events[k].run = "idle"
                                        /\ events[k].id = idleEventId}
    IN IF Named = {} THEN events
       ELSE RemoveAt(events, CHOOSE k \in Named : TRUE)

\* Mutant of Delivered: the loop is an if.
DeliveredFirst(events, completions) ==
    IF completions = <<>> THEN events
    ELSE Inserted(events, DoneEvent(Head(completions)))

\* _deliver_completed(): the completions as events, behind their equals.
Delivered(events, completions) ==
    InsertedAll(events, DoneTime,
                [k \in DOMAIN completions |-> DoneEvent(completions[k])])

\* What the engine reports of the requests rs, in one order: they differ in
\* nothing but their names.  A completion without a callback is dropped when
\* it is delivered, so it is left out.
Completions(rs) == SetToSeq(rs \ Silent)

\* _start_ticking(), called while idle says if the idle clock is running.
TickingStarted(events, idle) ==
    IF ticking
      THEN events
      ELSE Inserted(IF idle THEN WithoutIdle(events) ELSE events, TickEvent)

\* The engine's pending count.
Pending(requests, own) == Cardinality(requests) + own

\* delay relative to a clock that has moved on by delta; -1 is "passed".
Later(delay, delta) ==
    IF delay = None THEN None
    ELSE IF delay - delta < 0 THEN -1 ELSE delay - delta

\* The lag is not counted beyond the bound while the engine stands still.
Capped(lag, busy) == IF busy \/ lag < MaxBehind THEN lag ELSE MaxBehind

-----------------------------------------------------------------------------
Init ==
    /\ idleRefresh \in IdleModes
    /\ agenda = IF idleRefresh THEN <<IdleEvent(IdleBatch, 0)>> ELSE <<>>
    /\ idleEventId = IF idleRefresh THEN 0 ELSE None
    /\ horizon = None
    /\ inFlight = {}
    /\ refreshes = 0
    /\ ticking = FALSE
    /\ idleTicking = idleRefresh
    /\ idleBatch = IdleBatch
    /\ completed = <<>>
    /\ owed = {}
    /\ behind = 0

-----------------------------------------------------------------------------
(* Client calls.                                                           *)

\* A request that is not under way.
Free(r) ==
    /\ r \notin inFlight \cup owed \cup ToSet(completed)
    /\ \A k \in Scheduled("done") : agenda[k].req # r

Room == Queue - Cardinality(inFlight)

\* Some requests of a batch that the engine accepts.
Acceptable(rs) ==
    /\ rs # {} /\ IsFiniteSet(rs) /\ Cardinality(rs) <= Room
    /\ \A r \in rs : Free(r)

\* Mutant of SendReads: a read completes upon acceptance, as a write does.
SendReadsCompleting(rs) ==
    /\ rs \subseteq Reads /\ Acceptable(rs)
    /\ inFlight' = inFlight \cup rs
    /\ owed' = owed \cup (rs \ Silent)
    /\ agenda' = TickingStarted(Delivered(agenda, Completions(rs)), idleTicking)
    /\ ticking' = TRUE
    /\ idleTicking' = FALSE
    /\ UNCHANGED <<horizon, refreshes, idleBatch, idleEventId, completed,
                   behind>>

\* Mutant of SendReads: with requests pending the clock is taken to run.
SendReadsTrusting(rs) ==
    /\ rs \subseteq Reads /\ Acceptable(rs)
    /\ inFlight' = inFlight \cup rs
    /\ owed' = owed \cup (rs \ Silent)
    /\ IF inFlight = {}
         THEN /\ agenda' = TickingStarted(agenda, idleTicking)
              /\ ticking' = TRUE
              /\ idleTicking' = FALSE
         ELSE UNCHANGED <<agenda, ticking, idleTicking>>
    /\ UNCHANGED <<horizon, refreshes, idleBatch, idleEventId, completed,
                   behind>>

\* read() and reads() accepting the requests rs; a refused one changes nothing.
SendReads(rs) ==
    /\ rs \subseteq Reads /\ Acceptable(rs)
    /\ inFlight' = inFlight \cup rs
    /\ owed' = owed \cup (rs \ Silent)
    /\ agenda' = TickingStarted(agenda, idleTicking)
    /\ ticking' = TRUE
    /\ idleTicking' = FALSE
    /\ UNCHANGED <<horizon, refreshes, idleBatch, idleEventId, completed,
                   behind>>

\* write() and writes(): the callback is due at acceptance.  Whatever is in
\* _completed at that time is delivered as well.
SendWrites(rs) ==
    /\ rs \subseteq Writes /\ Acceptable(rs)
    /\ inFlight' = inFlight \cup rs
    /\ owed' = owed \cup (rs \ Silent)
    /\ agenda' = TickingStarted(Delivered(agenda, completed \o Completions(rs)),
                                idleTicking)
    /\ completed' = <<>>
    /\ ticking' = TRUE
    /\ idleTicking' = FALSE
    /\ UNCHANGED <<horizon, refreshes, idleBatch, idleEventId, behind>>

\* reads() or writes() with an address that does not convert: send_batch()
\* raises after it has sent the requests rs before it, and neither the write
\* completions nor _start_ticking() are reached.
SendFailing(rs) ==
    /\ BadBatches
    /\ (rs \subseteq Reads \/ rs \subseteq Writes) /\ Acceptable(rs)
    /\ inFlight' = inFlight \cup rs
    /\ owed' = owed \cup (rs \ Silent)
    /\ UNCHANGED <<agenda, horizon, refreshes, ticking, idleTicking,
                   idleBatch, idleEventId, completed, behind>>

\* Another component or the main program schedules an event of its own.
ScheduleClient(delay) ==
    /\ Cardinality(Scheduled("client")) < MaxClients
    /\ agenda' = Inserted(agenda, ClientEvent(delay))
    /\ UNCHANGED <<horizon, inFlight, refreshes, ticking, idleTicking,
                   idleBatch, idleEventId, completed, owed, behind>>

\* A run(until) begins, or ends and leaves an outer one's horizon in force.
SetHorizon(delay) ==
    /\ horizon' = delay
    /\ UNCHANGED <<agenda, inFlight, refreshes, ticking, idleTicking,
                   idleBatch, idleEventId, completed, owed, behind>>

-----------------------------------------------------------------------------
(* Events firing.                                                          *)

Fires(run) == agenda # <<>> /\ Head(agenda).run = run

\* Integer minimum of two.
Least(m, n) == IF m <= n THEN m ELSE n

\* Mutants of MaxTickBurst: events do not bound it, ...
MaxTickBurstOverEvents(events, until) ==
    IF until = None THEN BurstCap
    ELSE IF until < 0 THEN 1
    ELSE Least(BurstCap, until \div Period + 1)

\* ... events bound it inclusively.
MaxTickBurstInclusive(events, until) ==
    LET byEvent ==
            IF events = <<>> THEN BurstCap
            ELSE IF Head(events).due <= 0 THEN 1
            ELSE Least(BurstCap, Head(events).due \div Period + 1)
    IN IF until = None THEN byEvent
       ELSE IF until < 0 THEN 1
       ELSE Least(byEvent, until \div Period + 1)

\* _max_tick_burst() at a tick, when events are left and until is in force.
\* An event bounds the burst exclusively, the horizon inclusively.
MaxTickBurst(events, until) ==
    LET byEvent ==
            IF events = <<>> THEN BurstCap
            ELSE IF Head(events).due <= 0 THEN 1
            ELSE Least(BurstCap, (Head(events).due - 1) \div Period + 1)
    IN IF until = None THEN byEvent
       ELSE IF until < 0 THEN 1
       ELSE Least(byEvent, until \div Period + 1)

\* run_until_progress(): n cycles that service done may end before the burst
\* does only with a read completed or nothing pending.
Progress(n, burst, done, own) ==
    n < burst => done \cap Reads # {} \/ Pending(inFlight \ done, own) = 0

\* Mutant of JumpOver: cycle 0 of the burst is not now.
JumpOverAll(n) == n * Period

\* How far a burst of n cycles moves the time: its first cycle is now.
JumpOver(n) == (n - 1) * Period

\* Mutant of RestartedBatch: the backoff is not restarted.
RestartedBatchKept(batch) == batch

\* _start_idle_ticking() restarts the backoff.
RestartedBatch(batch) == IdleBatch

\* _tick(): a burst of n cycles that services done, then the jump, the
\* deliveries and the next tick, or the idle clock.  _advance_to() would
\* refuse a jump over an event or the horizon: see BurstsFit.
Tick(n, done, own) ==
    LET rest == AfterHead(agenda)
        until == Later(horizon, Head(agenda).due)
        jump == JumpOver(n)
        busy == Pending(inFlight \ done, own) > 0
        startIdle == ~busy /\ idleRefresh /\ ~idleTicking
        events == Delivered(Elapsed(rest, jump),
                            completed \o Completions(done \cap Reads))
    IN /\ Fires("tick")
       /\ n <= MaxTickBurst(rest, until)
       /\ Progress(n, MaxTickBurst(rest, until), done, own)
       /\ inFlight' = inFlight \ done
       /\ refreshes' = own
       /\ horizon' = Later(until, jump)
       /\ behind' = behind + Head(agenda).due + jump - n * Period
       /\ completed' = <<>>
       /\ ticking' = busy
       /\ idleTicking' = (idleTicking \/ startIdle)
       /\ idleBatch' = IF startIdle THEN RestartedBatch(idleBatch) ELSE idleBatch
       /\ idleEventId' = IF startIdle THEN NewId ELSE idleEventId
       /\ agenda' = IF busy THEN Inserted(events, TickEvent)
                    ELSE IF startIdle
                      THEN Inserted(events, IdleEvent(IdleBatch, NewId))
                    ELSE events
       /\ UNCHANGED owed

\* _idle_tick(): the batch runs; then the idle clock goes on at twice the
\* batch, or hands over to the tick chain if a request is pending.
IdleTick(done, own) ==
    LET rest == AfterHead(agenda)
    IN /\ Fires("idle")
       /\ inFlight' = inFlight \ done
       /\ refreshes' = own
       /\ completed' = completed \o Completions(done \cap Reads)
       /\ horizon' = Later(horizon, Head(agenda).due)
       /\ behind' = behind + Head(agenda).due - idleBatch * Period
       /\ IF Pending(inFlight', own) > 0
            THEN /\ idleTicking' = FALSE
                 /\ idleBatch' = IdleBatch
                 /\ agenda' = TickingStarted(rest, FALSE)
                 /\ ticking' = TRUE
                 /\ UNCHANGED idleEventId
            ELSE /\ idleBatch' = Least(idleBatch * 2, MaxIdleBatch)
                 /\ agenda' = Inserted(rest, IdleEvent(idleBatch', NewId))
                 /\ idleEventId' = Stored(NewId)
                 /\ UNCHANGED <<ticking, idleTicking>>
       /\ UNCHANGED owed

\* A completion event runs its callback, an event of a client runs.
OtherFires(run) ==
    /\ Fires(run)
    /\ agenda' = AfterHead(agenda)
    /\ horizon' = Later(horizon, Head(agenda).due)
    /\ behind' = Capped(behind + Head(agenda).due, ticking)
    /\ UNCHANGED <<inFlight, refreshes, ticking, idleTicking, idleBatch,
                   idleEventId, completed>>

Done == OtherFires("done") /\ owed' = owed \ {Head(agenda).req}
Client == OtherFires("client") /\ UNCHANGED owed

TickServing(done) ==
    /\ \E n \in 1 .. BurstCap, own \in 0 .. MaxRefreshes : Tick(n, done, own)
    /\ UNCHANGED idleRefresh

ClientCall ==
    /\ \/ \E rs \in SUBSET Reads : SendReads(rs)
       \/ \E rs \in SUBSET Writes : SendWrites(rs)
       \/ \E rs \in SUBSET Requests : SendFailing(rs)
       \/ \E delay \in Delays : ScheduleClient(delay)
       \/ \E delay \in Delays \cup {None} : SetHorizon(delay)
    /\ UNCHANGED idleRefresh

EventFires ==
    \/ \E done \in SUBSET inFlight : TickServing(done)
    \/ /\ \/ \E done \in SUBSET inFlight, own \in 0 .. MaxRefreshes :
                IdleTick(done, own)
          \/ Done
          \/ Client
       /\ UNCHANGED idleRefresh

Next == ClientCall \/ EventFires

Spec == Init /\ [][Next]_vars

(***************************************************************************)
(* Someone runs the simulator, and the engine services every request that  *)
(* is pending for ever while it is ticked.  Clients whose events reschedule*)
(* themselves at the same time for ever would stop time: liveness is for   *)
(* positive Delays.                                                        *)
(***************************************************************************)
Fairness ==
    /\ WF_vars(EventFires)
    /\ \A r \in Requests :
          SF_vars(\E done \in SUBSET inFlight : r \in done /\ TickServing(done))

-----------------------------------------------------------------------------
(* Properties.                                                             *)

EventOK(e) ==
    /\ e.due \in Nat
    /\ \/ e.run \in {"tick", "client"}
       \/ e.run = "idle" /\ e.id \in {0, 1}
       \/ e.run = "done" /\ e.req \in Requests

TypeOK ==
    /\ \A k \in DOMAIN agenda : EventOK(agenda[k])
    /\ horizon \in Nat \cup {-1, None}
    /\ inFlight \subseteq Requests
    /\ Cardinality(inFlight) <= Queue
    /\ refreshes \in 0 .. MaxRefreshes
    /\ idleRefresh \in IdleModes
    /\ ticking \in BOOLEAN
    /\ idleTicking \in BOOLEAN
    /\ idleBatch \in IdleBatch .. MaxIdleBatch
    /\ idleEventId \in {0, 1, None}
    /\ completed \in Seq(Requests)
    /\ owed \subseteq Requests
    /\ behind \in Int

\* The two clocks: each flag says whether its one event is scheduled, and the
\* engine is never driven by both, through every handover: the idle event is
\* found by the id stored when it was scheduled.  "Any accepted
\* request starts the DRAM clock" (dram.py:151), and it runs until the engine
\* is empty: a pending request is never left without ticks.
OneClock ==
    /\ Cardinality(Scheduled("tick")) = (IF ticking THEN 1 ELSE 0)
    /\ Cardinality(Scheduled("idle")) = (IF idleTicking THEN 1 ELSE 0)
    /\ ~(ticking /\ idleTicking)
    /\ idleRefresh => ticking \/ idleTicking
    /\ inFlight # {} => ticking

\* _advance_to() accepts every jump a burst may end with: no event is skipped
\* and the horizon of run() is not passed (sim.py:147-162).  And a cycle runs
\* after the events that are due at its time and were scheduled before it, as
\* without bursts: no burst reaches the time of an event.
BurstsFit ==
    Fires("tick") =>
        LET rest == AfterHead(agenda)
            until == Later(horizon, Head(agenda).due)
            n == MaxTickBurst(rest, until)
            Jumps == {JumpOver(m) : m \in 2 .. n}
        IN /\ \A jump \in Jumps : /\ MayElapse(rest, jump)
                                 /\ until # None => jump <= until
           /\ \A k \in DOMAIN rest : n > 1 => rest[k].due > (n - 1) * Period

\* The places a request's callback can come from.
Sources(r) ==
    {<<"event", k>> : k \in {j \in Scheduled("done") : agenda[j].req = r}}
    \cup {<<"completed", k>> : k \in {j \in DOMAIN completed : completed[j] = r}}
    \cup (IF r \in inFlight \cap Reads THEN {<<"engine", 0>>} ELSE {})

\* Each callback that is owed is on its way exactly once, and none is under
\* way that is not owed: no completion is lost or delivered twice.  "Read
\* completions are delivered as zero-delay events at the simulator time of the
\* DRAM tick" (dram.py:6-7): one on the agenda is due now, and none is left
\* behind in _completed.
CallbackUnderWay ==
    /\ \A r \in Requests \ Silent :
          Cardinality(Sources(r)) = (IF r \in owed THEN 1 ELSE 0)
    /\ completed = <<>>
    /\ \A k \in Scheduled("done") : agenda[k].due = 0

\* The lag of the engine once the event on the agenda that runs n cycles has
\* fired.
LagAfter(run, n) ==
    behind + agenda[CHOOSE k \in Scheduled(run) : TRUE].due - n * Period

\* While one of its clocks runs, the DRAM's cycles keep their phase: bursts,
\* jumps, growing idle batches and other components' events leave
\* "cycles == now / period" as far off as it was when the clock was started.
ClocksKeepPhase ==
    [][/\ Scheduled("tick") # {} /\ Scheduled("tick")' # {}
          => LagAfter("tick", 1)' = LagAfter("tick", 1)
       /\ /\ Scheduled("idle") # {} /\ Scheduled("idle")' # {}
          /\ behind' < MaxBehind
          => LagAfter("idle", idleBatch)' = LagAfter("idle", idleBatch)]_vars

\* The engine has never run more cycles than time has passed, whatever the
\* idle backoff and the handovers between the two clocks.
NeverAhead == behind >= 0

Port == INSTANCE MemoryPort WITH unserviced <- inFlight

\* To its clients the DRAM is the memory port of module MemoryPort.
ImplementsMemoryPort == Port!Spec
=============================================================================
