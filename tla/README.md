# A TLA+ verification of pyramulator

pyramulator is a discrete-event simulation framework for hardware (Python) around
the cycle-accurate DRAM simulator Ramulator (C++). This directory holds TLA+
models of its core, the TLC configurations that check them on small instances,
and proofs that TLAPS checks for every value of the constants. `PROJECT.json`
lists the components, the runs, the mutants that show each property can fail, the
source lines of each definition, the findings, the hazards and the theorems.

To run one check: `tlc -config MCPipe.cfg MCPipe`; to check proofs:
`tlapm SimulatorProofs.tla`, and so for the other modules whose names end in `Proofs`
(`DramProofs` takes several minutes).

## 1. The system

| Component | State | Operations | What makes it hard | What makes it correct |
|---|---|---|---|---|
| `Simulator` (`pyramulator/sim.py`) | a heap of events, a table id → event, `now`, counters, the horizon `_run_until` | `schedule`, `at`, `cancel`, `next_time`, `_advance_to`, `step`, `run` | callbacks run inside `step`/`run` and call everything again, to any depth, or raise; cancelled entries stay in the heap until they surface; components jump the time | events fire once, by time, priority and insertion; none is skipped; the counts and the id table follow the heap; the horizon is the innermost `run`'s |
| `Clock`, `Component` (`hardware.py`) | constants | `cycles`, `schedule_cycles` | – | delays are whole cycles |
| `FIFO` (`hardware.py`) | a bounded deque | `put`, `get`, `peek`, `clear` | each operation is one step | order and bound |
| `Pipe` (`hardware.py`) | slots in use, the stalled items, the id of a shared retry event | `put`, `_deliver`, `_retry` | the consumer runs in the middle of both handlers: it may put, stall, raise, or step the simulator | no slot leaks, no item is lost or accepted twice, stalled items are retried and keep their order |
| `Dram` (`dram.py`) | two clocks (tick chain, idle chain), completions to deliver | `read(s)`, `write(s)`, `flush`, `_tick`, `_idle_tick` | bursts of cycles in one event against foreign events and the horizon; handovers between the clocks; batches that fail half way | pending requests are ticked, cycles keep their phase, a callback runs once and in time |
| `MemorySystem` (`_engine.py`) and `PyMemorySystem` (`cpp/bindings.cpp`) | cycle count, completions recorded by C++ | sends, batches, `tick`, `run*`, `drive*` | callbacks that raise in a dispatch loop; a truncated `drive` | counts agree, each completion is dispatched once |
| Registry of instances (`cpp/bindings.cpp`) | a global list of statistics, a range of it per instance, the live instances | construction, destruction, `get_stats`, `reset_stats` of an instance and of the module | instances come and go in any order, and construction may throw half way | each instance reads and resets its own statistics |
| Copy engine (`examples/pipe_fifo_dram.py`) | two pipes, a FIFO, credits, a hold | refill, issue, load, store handlers | four back pressures at once; progress by triggers only | a completion finds its slot, no line is lost or copied twice, it ends |
| Windowed clients (`accel_sim.py`, `spmm_hbm.py`, `benchmark.py`) | counts of what is to issue, in flight, computed, stored | issue loops, completion and store callbacks, barriers | `flush()` inside an event; refused requests wait for a completion to retry them | windows are kept, loads precede compute precedes stores, they end |
| Ramulator | the DRAM controller | `send`, `tick` | not in the repository | modelled from its use |
| `Config`, `configs`, `metrics`, `workload` | values | pure functions | validation | defaults, ranges |

Everything runs in one thread. The interleavings are those of events, and of
client code that runs *inside* a handler: completion callbacks, consumers, and
nested `run`/`step`/`flush` calls. Components interact by calling `schedule` and
`cancel`, by reading `next_time` and `_run_until`, by `_advance_to`, and by calling
each other's `put`, `read` and `write` from callbacks.

## 2. Modules

| Module | What it is | Source |
|---|---|---|
| `EventList` | abstract specification of a future event list: a set of events, fired in order | `sim.py` |
| `Simulator` | the kernel with its heap, id table and call stack; implements `EventList` and `AgendaSpec` | `sim.py` |
| `Agenda`, `AgendaSpec` | the event list as components use it: a sequence in firing order with relative times, and the machine that has only this list | `sim.py` |
| `Stage` | abstract specification of a pipeline stage: takes an item, hands it over once | `hardware.py` |
| `Pipe` | the pipeline stage with its consumer; implements `Stage` | `hardware.py` 136-223 |
| `Fifo` | the bounded queue as operators on a sequence | `hardware.py` 77-133 |
| `MemoryPort` | abstract specification of a memory: accept, service, notify | `dram.py` |
| `Dram` | the DRAM component over an engine that services anything pending; implements `MemoryPort` | `dram.py`, `bindings.cpp` |
| `DramFlush` | `Dram` with a client inside `flush()` | `dram.py` 173-188 |
| `Engine` | `MemorySystem` over the C++ bindings; implements `MemoryPort` | `_engine.py` 225-595, `bindings.cpp` 170-389 |
| `Instances` | the registry of statistics and live instances | `bindings.cpp` 73-176, 434-526 |
| `CopyEngine` | the copy engine over two stages, a FIFO and a memory port | `examples/pipe_fifo_dram.py` |
| `Clients` | the accelerator, SpMM and the two benchmark loops over a memory port | `examples/accel_sim.py`, `examples/spmm_hbm.py`, `benchmark.py` |
| `SimulatorProofs`, `PipeProofs`, `DramProofs`, `EngineProofs`, `InstancesProofs`, `CopyEngineProofs`, `ClientsProofs` | theorems about the module of that name | |
| `AgendaProofs` | lemmas about the operators of `Agenda`, for `PipeProofs` and `DramProofs` | |
| `MC*` | what TLC runs | |

The layers meet at abstract specifications, so that a model never repeats the one
below it:

    Clients, CopyEngine            over MemoryPort and Stage
    Pipe => Stage   Dram, Engine => MemoryPort
    Pipe, Dram                     over Agenda
    Simulator => EventList, AgendaSpec

(`=>` is a refinement that a run checks.) `ImplementsAgenda` maps the heap
to the sorted sequence of its live events: insertion behind equals and relative times,
which `Pipe` and `Dram` are built on, are what the heap's order by time, priority
and insertion amounts to. `CopyEngine` and `Clients` state the port's actions over their
own sets and counts instead of instantiating it, since they track lines and numbers.

**Simulator.** `frames` is the Python call stack: a `run` frame holds what `run()`
keeps in locals (`until`, the saved horizon, the limit and the start count), a
callback frame the event whose callback is running. Client code is on
top of the stack whenever a callback (or the main program) is; each of its calls is an
action. `run()` is one action per part between two callbacks: entering, firing
the next event, ending; an exception unwinds frame by frame (`UnwindRun` is the
`finally`). Priorities are any set of integers; heap order is `_Event.__lt__`.
`event_counts`, labels and the callbacks' contents are left out.

**Pipe.** `calls` holds the activations of `_deliver` and `_retry` that wait for
their consumer. Without `ConsumerSteps` there is at most one; with it they nest,
because a consumer that steps the simulator (as `flush()` does) lets other
events of the stage run. `ConsumerRaises` adds the consumer that lets an exception out: one of
its own, or one that comes out of the `step()` it made, such as the `IndexError` of a `popleft()`
in an activation nested in it. Such an exception ends one activation per step of the model
(`RetryAccepted`, then `ConsumerFails` for the one around it); a consumer without
`ConsumerRaises` catches it.

**Engine.** `calls` holds the calls that are calling back (`tick`, the run calls, the loop
over accepted writes) or driving, innermost last; callbacks are client code and call
again, to any depth, or raise. `drive()` is modelled step by step, since its window and
limits are what it is about; the other loops of C++ run no client code
and are one step each. `drift` is the engine's cycles minus `_clk`. A drive on the stack remembers
in `left` (a history field) which requests an earlier, cut off `drive()` had left in flight when it started:
`DriveCountsItsOwn` says that just these are counted in addition to its own, so it holds with
and without them, and the window is off by exactly what `engine_drive` shows.

**Dram.** Times are relative to now, so that a component that runs for ever has
finitely many states. `_tick` and `_idle_tick` run no client code, because the
engine only appends to `_completed`; so each is one step, with the length
of the burst and the requests serviced chosen freely within what
`run_until_progress` can return. Clients send, schedule and set horizons between any
two events. `behind` is a history variable, simulator time minus cycles times
period; `owed` records which callbacks have still to run. Each idle event carries its id, and
`idleEventId` is the id that is stored; the handover cancels the event of that id, if there is one. As
an id is only ever compared with the stored one, two values do: a new id differs from the stored one.
`DramFlush` adds the history `stranded`: the requests of batches that raised, since the last call that
accepted requests and returned. `flush()` ends by draining, stalling, giving up, or with
the exception of a callback it steps over (`FlushRaises`).

**Instances.** The global list grows only; an entry records whose statistic it is, whether its
pointer is still good, and what it counted. Ramulator may register any number of
statistics per system and may throw after any of them.

**CopyEngine.** A handler is one action, including the read pump each of them ends in. The
FIFO and the hold are sequences; pipes and DRAM queues are sets, from which the stage or the
port takes any item. Where the code returns False and is asked again, the action is
not enabled yet.

**Clients.** Requests of one type are interchangeable, so they are counted. `phase` says where
the main loop or `_store_tile()` is; `flush()` runs events between two of its actions.
`VectorSize` is a multiple of `NumLanes`: otherwise the accelerator leaves out the
remaining elements, which it does not claim to process. The accelerator's `flush()` is taken to
return: it sends no batches, so the stall of `DramFlush` cannot occur, and a tile takes far fewer
events than the million `flush()` allows.

## 3. Runs

| Run | Shows |
|---|---|
| `simulator` | the kernel's invariants under all nestings of two priorities and three events; that it implements `EventList` and `AgendaSpec` |
| `pipe` | with a consumer that accepts or stalls: slots match items, one retry event, every item is accepted in the end; implements `Stage` |
| `pipe_unruly` | what survives a consumer that raises and steps the simulator: the slot bound, the order of stalled items |
| `dram` | with and without idle refresh: one clock (the stored id is that of the idle event, if one is scheduled), never ahead of time, bursts stop for events, both clocks keep their phase, callbacks are under way; implements `MemoryPort` |
| `dram_flush` | with batches that fail half way and callbacks that raise: `flush()` ends; a call that accepts requests and returns starts the clock for those of failed batches too, and every read is then called back |
| `engine` | under nested and raising callbacks: each read called back once, nothing left in C++, the clock accounted for, what `drive()` counts, also after one that was cut off; implements `MemoryPort` |
| `instances` | an instance's range holds its own statistics, and they count since its own last reset |
| `copy_engine` | credits reserve a slot for each read, each line is in one place, the copy ends |
| `clients` | windows, the order of loads, compute and stores, and termination of four programs |
| `pipe_raising`, `engine_drive`, `accel_window` | violations: see findings |

**Bounds, and why they are enough.** `Simulator`: `MaxEvents` 3, times 0..1 and a stack of
4 reach a nested `run` inside a callback of an outer `run` with an event
of equal time left over, cancelled heads, self-cancel and a jump; the same
invariants are proved without bounds. `Pipe`: four items over three slots with latency
2 let an item travel, one be offered and two wait stalled; the unruly consumer
nests two activations, each of which can change what the other looked at, and its three items compete
for two slots, so that a slot released early lets one in too many. `Dram`: three reads, one of
them without a callback, and a write in a queue of two (so that one tick can complete two reads),
period 2 and bursts of up to 3 cycles, client events at delays on and off the
clock edge, two of them at once; the idle batch doubles once and then stays at its
limit. `MaxBehind` stops counting the lag while no tick chain runs; it is at least the
longest batch, so that the cap can only lower a lag that no batch uses up; with 6 the lag of the longest
idle batch stays under it. `Engine`: three reads
and a write in a queue of two, calls nested two deep, drives cut off by 1 cycle
or not by 4. `Instances`: three systems and five statistics let a system be destroyed,
its address be used again between two others, and a construction fail in the middle; the
systems are interchangeable, hence the symmetry. `CopyEngine`: six lines over an issue pipe of one,
a FIFO of two, a compute pipe of three, `max_outstanding` two, and DRAM queues of one read and one write:
each of them fills up while lines wait before it, and each of the three guards of
`_pump_reads()` (the window, the compute credits, the refused read) is at times the only one that
stops it. That the copy ends is checked for these sizes only; the safety properties are proved for all. `Clients`: a window of three over a DRAM that takes two reads and two writes, and
two lanes of four elements in tiles of three, so that the last tile of a lane is
short, loads and stores are refused, and a tile takes several flushes;
`MaxEvents` lets the bandwidth loop end either way.
What the passing runs check of safety is proved for every size (section 5), so the bounds
matter for liveness and for the violations only.
`CHECK_DEADLOCK FALSE` is set where the system may really stop: when the bounded
supply of items, statistics or events is used up, or when nothing is scheduled.

**Fairness.** `Pipe`: events go on firing (`run_until_idle`), a consumer answers, and one
that is offered items for ever accepts for ever, which the docstring names as the
condition. `DramFlush`: `flush()` is a loop that runs on; someone runs the simulator; and the
engine services each request that it is ticked for infinitely often. Client delays are
positive there: clients that reschedule at the same time for ever stop time in any
event-driven simulator. `CopyEngine`: events that are due run, stalled pipes ask
again (`EventuallyAccepted` of `Pipe`) and the DRAM services what is pending
(`EventuallyCalledBack` of `DramFlush`): weak fairness of each handler. `Clients`: the same; a
benchmark that calls `step()` makes events enabled again and again rather than
for ever, hence strong fairness of the DRAM's progress and of read callbacks. No fairness is
assumed of how often the DRAM services nothing in a tick. The other runs are about
safety and assume nothing.

## 4. Findings and observations

* `pipe_raising`: a consumer that raises out of `_retry()` leaves stalled items without
  a retry (`hardware.py:216`): the event is forgotten before the consumer is called.
* `engine_drive`: reads left over from a `drive()` that `max_cycles` cut off are counted
  as completions of the next one, which returns too early (`bindings.cpp:229`).
* `accel_window`: the accelerator takes one off `outstanding` per store but adds none
  (`accel_sim.py:146`), so from the second tile on more reads may be in flight than
  `max_outstanding`.

Observations without a run of their own:

* A consumer that steps the simulator can be given one item twice, and
  another is dropped, or `popleft()` raises, because `_retry()` pops whatever is at the head when the
  consumer returns (`hardware.py:222`). The docstring does not allow for such consumers.
* An item that arrives at a `Pipe` while others are
  stalled is offered at once and may overtake them (`hardware.py:205`); the docstring promises
  no order, and `StalledLeaveInOrder` is about the stalled items only.
* A batch that raises half way leaves its accepted requests without a clock
  (`dram.py:152`), although "any accepted request starts the DRAM clock" (`dram.py:151`); the next
  request that is accepted by a call that returns starts it for them too, which `dram_flush` shows.
* Each handover from the idle clock to the tick chain drops the time since the last
  idle batch (`dram.py:242`), so the engine's cycles fall behind the simulator's time by a
  part of a batch each time. `NeverAhead` bounds the other side, and `ClocksKeepPhase` says
  that nothing else moves the two clocks apart.
* `flush()` raises when the last event it was allowed has drained the DRAM
  (`dram.py:186`), as the action `FlushSteps` shows.
* A callback that raises out of `tick()` leaves a cycle uncounted (`_engine.py:318`):
  `ClockAccounted` says by how much. One that raises while a batch of writes is accepted costs
  the later writes their callbacks (`_engine.py:447`): `lostCalls`.
* `benchmark_bandwidth()` with `queue_depth=0` issues nothing, steps an empty
  simulator and never returns (`benchmark.py:82`): the model assumes a positive window.
* A core number that is set in the Config beforehand is kept although `num_cores` says
  more (`bindings.cpp:151`). Nothing in the repository sets it.
* The hold of the copy engine is never used: `SlotsReserved` shows that the credits
  make the second branch of `_on_load()` unreachable.

## 5. Proofs

All of them rest only on the named assumptions of the modules about their constants, which
the runs evaluate.

`SimulatorProofs` proves, for all priorities, limits and bounds, what the run
`simulator` checks: `TypeCorrect`, `IdsCorrect`, `LiveCorrect`, `NeverSkips`,
`EventsConserved`, `OrderCorrect`, `HorizonCorrect`, and `Refinement` (initial
states map to initial states of `EventList`, every step to a step or a stutter).
The invariants are not inductive alone:

* `LiveCountsScheduled` needs `IdsMatchHeap`: `cancel` finds events through the id
  table, so the count is right only if the table and the heap hold the same events.
* `FiringOrder` relates two fired events. Its strengthening says that an event that fired when another
  was scheduled precedes it, so that the fired sequence need not be searched again.
* `HorizonIsInnermost` needs that each `run` frame saved the horizon of the next
  one out, at every depth, because a return or an exception restores it.

`InstancesProofs` proves `OwnStats` and `OwnCounts` for any systems and any length of the list.
They are inductive together once ranges are known to end within the list (`RangesEnd`):
what is registered later then lies outside every range there is. That a reset touches
nobody else follows from `StatsAreOwn`, since a statistic has one owner (`SlicesApart`).

`ClientsProofs` proves `CountsInRange`, `WindowCorrect` and `BarrierCorrect` for all
windows, queues, vectors and tiles. The strengthening says where the accelerator is
(`Tiled`): exactly the elements before the current tile can be stored, and behind the last lane
nothing is due; with `Phased` it gives that no callback of a load can come between the compute
event and the end of the barrier.

`CopyEngineProofs` proves `CreditsCorrect` and `LinesCorrect` for all sizes and credits. Neither is
inductive alone: the count of reads in flight is the number of lines being
read only if the pump never reads a line twice, which needs that every line is in one place
(`Located`, as a partition of the lines produced); that in turn needs that nothing is ever held,
which the credits give. `PumpFacts` states once what the pump does that three
handlers end in.

`EngineProofs` proves all that the run `engine` checks, for any depth of calls: `TypeCorrect`,
`NothingLeft`, `ClockCorrect`, `DriveCorrect`, `CallbackOnce`, and `Refinement` (of
`MemoryPort`). The invariant `EngineInv` is about the stack of calls:

* A `drive()` runs no client code, so it is only ever at the top of the stack, and every
  call below the top waits for a callback (`Stacked`). Hence the C++ record of completions is
  empty below the top, and `drift` is the number of `tick()` calls that wait or raised.
* What is to be called back is in one place: in flight, in C++'s list, or in the rest of one call
  on the stack (`RecordedOnce`, `HeldOnce`, `Remembered`). `Waiting(r)` is a sum over the
  stack; that it is one follows since the rests of different calls are apart (`Apart`).
* `DriveCountsItsOwn` has no premise: the count of completions is split into the drive's own requests and
  those left in flight when it started (`SplitCount`, `PartCount`); its window, its own requests and its
  count are tied together from that moment (`DriveOK`).

`AgendaProofs` proves what `Inserted`, `InsertedAll`, `Elapsed`, `AfterHead` and the removal of an
event do to any agenda: the firing order is kept (`Ordered`), the events of a kind
become one or so many more or fewer (`Count`), and no due time appears that was not
there or put there. An order and a count are all that the next two modules need of the sequence, so
neither looks at positions.

`PipeProofs` proves, for any latency, slots, items and depth of nesting:

* With any consumer: `TypeCorrect`, `SlotsKept` and `StalledInOrder`.
* With one that lets no exception out (its own, or one of a `step()` it made), also if it steps the
  simulator: `SlotsExact`.
* With one that does not step the simulator: `Refinement` (of `Stage`), and if it does not
  raise either, `RetryCorrect`.

The findings above show why the hypotheses are there: a raising consumer leaves slots in use and
items without a retry, a stepping one has an item delivered twice. `Slotted` counts the items
in the places a slot can be held for (travelling, offered, stalled) against `_in_flight`;
`Alone` says that without nested steps there is at most one activation and at
most one retry event, and `_retry_eid` knows of it; `OnePlace` says that each item inside is in one
place, which makes the pipe a stage. `StalledInOrder` needs none of it: it is proved
of each step.

`DramProofs` proves all that the run `dram` checks, for every set of requests, period, burst limit,
idle batch, queue and horizon. `TypeCorrect`, `NotAhead`, `BurstsCorrect`, `PhaseKept` and
`Refinement` (of `MemoryPort`) also hold if batches may fail; `ClocksExclusive` and `CallbackOnce`
assume that none does, since the requests of a failed batch wait without a clock and its writes lose
their callbacks (section 4). The invariant `DramInv` is `Counted /\ Named`: `Named` says that an idle
event on the agenda has the id that is stored, and `Counted` has these parts:

* `OneEach`: the number of tick events and of idle events on the agenda is what the flags
  say. That `_start_ticking` cancels the right event, which `Named` gives, and a burst schedules exactly one
  successor, is what keeps it.
* `Timely`: when the event of a clock has run its cycles the engine is still not ahead. It
  bounds due time plus lag for each clock, because neither is bounded alone: a jump moves
  the lag, a handover replaces the event. `NeverAhead` is its consequence. `PhaseKept` is
  proved of each step with it.
* `Accounted`: the callback of a request is counted over the three places it can be in
  (the engine, `_completed`, the agenda); the sum is one while it is owed and zero otherwise. A
  step moves it from one place to the next.
* `Driven`: if no batch fails, completions do not outlive the step that found them, and what
  is pending is ticked.

`BurstsFit` rests on the arithmetic of `_max_tick_burst`: for a gap of `g` to the next event the burst
is at most `(g - 1) \div Period + 1` cycles (exclusive), for the horizon `g \div Period + 1`
(inclusive), and a jump of one cycle less than the burst stays within either.

Only model-checked, because fairness and ENABLED are outside this prover's reach: the liveness
properties `EventuallyAccepted` (`pipe`), `FlushEnds` and `EventuallyCalledBack`
(`dram_flush`), and the termination of `copy_engine` and `clients`; and that the kernel
implements `AgendaSpec` (`ImplementsAgenda`): the sorted sequence of a heap's events is defined by a
choice among all sequences, of which the prover has no induction to say how an insertion
changes it. `DramFlush` adds nothing but liveness to what `DramProofs` proves.

## 6. Not modelled, and the plan

Next: a proof that `Simulator` implements `AgendaSpec`, if the sorted sequence can be
stated so that no induction is needed; the safety part of `CopyEngine` and `Clients` over the
abstract port as a refinement; `FIFO.clear()` once something calls it.

Not modelled:

* `Config`, `configs`, `configs_data` and `metrics`: tables, argument checks and
  floating-point summaries, without state or interaction.
* `workload`: address generators; which addresses a client reads makes no
  difference to the models, whose DRAM services requests in any order.
* Statistics contents, watermarks and `finish()` of the engine wrapper: read-only reports, except
  for the registry that `Instances` models.
* Ramulator itself (a third-party submodule, modelled by what the code
  asks of it), the build scripts, documentation and benchmark printing.
