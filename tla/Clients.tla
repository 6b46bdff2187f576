------------------------------ MODULE Clients -------------------------------
(***************************************************************************)
(* The programs that keep a window of reads in flight: the accelerator of  *)
(* examples/accel_sim.py, which loads, computes and stores tiles, the SpMM *)
(* engine of examples/spmm_hbm.py, and the two loops of benchmark.py.  The *)
(* accelerator and SpMM are driven by completions while the simulator runs *)
(* until it is idle; the benchmarks step the simulator themselves.         *)
(*                                                                         *)
(* The DRAM is a memory port (module MemoryPort) whose requests of a type  *)
(* are interchangeable here, so that they are counted: a tick may service  *)
(* any of them, and callbacks run as events of their own.                  *)
(***************************************************************************)
EXTENDS Integers, FiniteSets

CONSTANTS
    Programs,    \* those of this instance
    NumRequests, \* the reads of SpMM and of the benchmarks
    Window,      \* MAX_INFLIGHT, queue_depth and max_outstanding
    MaxEvents,   \* max_events of benchmark_bandwidth()
    NumLanes, VectorSize, TileSize,  \* of the accelerator
    ReadQueue,   \* the reads the DRAM takes before it refuses
    WriteQueue   \* the writes it takes before it refuses

ASSUME ClientsAssumption ==
    /\ Programs \subseteq {"accel", "spmm", "latency", "bandwidth"}
    /\ {NumRequests, Window, MaxEvents, NumLanes, VectorSize, TileSize,
        ReadQueue, WriteQueue} \subseteq Nat \ {0}
    \* The lanes share the vector evenly.
    /\ NumLanes * (VectorSize \div NumLanes) = VectorSize

VARIABLES
    program,      \* which program runs
    phase,        \* where it is: see below
    toIssue,      \* _pending, or the reads of the stream not yet accepted
    outstanding,  \* outstanding, _inflight or issued - completed
    loads,        \* the accelerator's _loads_outstanding
    computes,     \* its _store_tile() events that are due
    lane, tile,   \* its _lane and _tile_start
    processed,    \* sim.processed, counted for benchmark_bandwidth()
    reads,        \* the reads that wait in the DRAM
    loaded,       \* the reads serviced whose callback is due
    writes,       \* the writes that wait in the DRAM
    storesDue,    \* the writes accepted whose callback is due
    stored        \* history: the elements of the tiles finished

control == <<program, lane, tile, stored>>
dram == <<reads, loaded, writes, storesDue>>
vars == <<control, dram, phase, toIssue, outstanding, loads, computes,
          processed>>

(***************************************************************************)
(* The phases: "issuing", a benchmark runs between two events; "stepping", *)
(* it has called step(); "running", run_until_idle() processes events;     *)
(* "draining" and "barrier", _store_tile() is inside flush();              *)
(* "returned", benchmark_bandwidth() has left its loop.                    *)
(***************************************************************************)

ElemsPerLane == VectorSize \div NumLanes

Least(m, n) == IF m <= n THEN m ELSE n

\* _tile_count of the tile that starts at start.
TileCount(start) == Least(TileSize, ElemsPerLane - start)

\* Does the program issue from its main loop, or from the callbacks?
Stepper == program \in {"latency", "bandwidth"}

\* Mutant of Limit: the comparison with the window is <=.
LimitOneMore == IF program = "latency" THEN NumRequests ELSE Window + 1

\* What bounds the reads in flight; benchmark_latency() has the DRAM only.
Limit == IF program = "latency" THEN NumRequests ELSE Window

\* Mutant of Accepted: what read() returns is not looked at.
AcceptedBlindly(pending, outs) ==
    IF outs >= Limit THEN 0 ELSE Least(pending, Limit - outs)

\* How many of pending the DRAM takes when outs are counted as outstanding.
Accepted(pending, outs) ==
    IF outs >= Limit THEN 0
    ELSE Least(Least(pending, Limit - outs), ReadQueue - reads)

\* The issue loops: reads until the window or the DRAM is full.
IssueReads(pending, outs) ==
    LET n == Accepted(pending, outs)
    IN /\ toIssue' = pending - n
       /\ outstanding' = outs + n
       /\ reads' = reads + n

\* Mutant of ComputeDue: the last read has been issued, not completed.
ComputeDueEarly(pending, lds) == program = "accel" /\ pending = 0

\* _pump_loads() finds that all loads of the tile are complete.
ComputeDue(pending, lds) == program = "accel" /\ pending = 0 /\ lds = 0

\* _issue() of SpMM; _pump_loads(), with lds loads of the tile outstanding.
Pump(pending, outs, lds) ==
    LET issued == Accepted(pending, outs)
    IN /\ IssueReads(pending, outs)
       /\ loads' = IF program = "accel" THEN lds + issued ELSE 0
       /\ computes' = IF ComputeDue(pending - issued, lds + issued)
                        THEN computes + 1 ELSE computes

\* _load_tile(): the reads of A and B for the tile of lane l that starts at
\* start.
LoadTile(l, start) ==
    /\ lane' = l
    /\ tile' = start
    /\ Pump(2 * TileCount(start), outstanding, 0)

Init ==
    /\ program \in Programs
    /\ phase = IF Stepper THEN "issuing" ELSE "running"
    /\ lane = 0 /\ tile = 0
    /\ processed = 0
    /\ computes = 0
    /\ loaded = 0 /\ writes = 0 /\ storesDue = 0
    /\ stored = {}
    \* run() of the accelerator and of SpMM issue what fits at once.
    /\ LET pending == IF program = "accel" THEN 2 * TileCount(0)
                      ELSE NumRequests
           n == IF Stepper THEN 0
                ELSE Least(Least(pending, Window), ReadQueue)
       IN /\ toIssue = pending - n
          /\ outstanding = n
          /\ reads = n
          /\ loads = IF program = "accel" THEN n ELSE 0

-----------------------------------------------------------------------------
(* The main loops of the benchmarks.                                       *)

\* benchmark_latency(): reads until one is refused, then a step of the
\* simulator; run_until_idle() after the last.
IssueLatency ==
    /\ program = "latency" /\ phase = "issuing"
    /\ IssueReads(toIssue, outstanding)
    /\ phase' = IF toIssue' = 0 THEN "running" ELSE "stepping"
    /\ UNCHANGED <<control, loads, computes, processed, loaded, writes,
                   storesDue>>

Completed == NumRequests - toIssue - outstanding

\* benchmark_bandwidth(): fills the window, then a step.
IssueBandwidth ==
    /\ program = "bandwidth" /\ phase = "issuing"
    /\ Completed < NumRequests /\ processed < MaxEvents
    /\ IssueReads(toIssue, outstanding)
    /\ phase' = "stepping"
    /\ UNCHANGED <<control, loads, computes, processed, loaded, writes,
                   storesDue>>

\* The condition of its loop is false.
ReturnBandwidth ==
    /\ program = "bandwidth" /\ phase = "issuing"
    /\ Completed = NumRequests \/ processed >= MaxEvents
    /\ phase' = "returned"
    /\ UNCHANGED <<control, dram, toIssue, outstanding, loads, computes,
                   processed>>

-----------------------------------------------------------------------------
(* Events.                                                                 *)

SimRuns == phase \notin {"issuing", "returned"}

\* An event has been processed; step() returns to its caller.
Stepped ==
    /\ phase' = IF phase = "stepping" THEN "issuing" ELSE phase
    /\ processed' = processed + IF program = "bandwidth" THEN 1 ELSE 0

\* The DRAM ticks as long as it has something to service.
Tick(r, w) ==
    /\ SimRuns
    /\ reads + writes > 0
    /\ r <= reads /\ w <= writes
    /\ reads' = reads - r
    /\ loaded' = loaded + r
    /\ writes' = writes - w
    /\ Stepped
    /\ UNCHANGED <<control, toIssue, outstanding, loads, computes, storesDue>>

\* Mutant of OnComplete: the freed slot does not trigger the issue loop.
OnCompleteOnly ==
    /\ SimRuns
    /\ loaded > 0
    /\ loaded' = loaded - 1
    /\ outstanding' = outstanding - 1
    /\ loads' = IF program = "accel" THEN loads - 1 ELSE 0
    /\ computes' = IF ComputeDue(toIssue, loads - 1)
                     THEN computes + 1 ELSE computes
    /\ Stepped
    /\ UNCHANGED <<control, toIssue, reads, writes, storesDue>>

\* The callback of a read: _on_load_done(), _on_complete(), on_done().
OnComplete ==
    /\ SimRuns
    /\ loaded > 0
    /\ loaded' = loaded - 1
    /\ IF Stepper
         THEN /\ outstanding' = outstanding - 1
              /\ UNCHANGED <<toIssue, reads, loads, computes>>
         ELSE Pump(toIssue, outstanding - 1, loads - 1)
    /\ Stepped
    /\ UNCHANGED <<control, writes, storesDue>>

-----------------------------------------------------------------------------
(* The accelerator's stores.                                               *)

\* _on_store_done() takes off a count that no store was added to.
OnStoreDone ==
    /\ storesDue > 0
    /\ storesDue' = storesDue - 1
    /\ outstanding' = outstanding - 1
    /\ UNCHANGED <<control, phase, toIssue, loads, computes, processed, reads,
                   loaded, writes>>

\* The loop of _store_tile(): writes until one is refused and flush() is
\* called to make room, or none is left and flush() is the barrier.
StoreWrites(pending) ==
    LET n == Least(pending, WriteQueue - writes)
    IN /\ toIssue' = pending - n
       /\ writes' = writes + n
       /\ storesDue' = storesDue + n
       /\ phase' = IF n = pending THEN "barrier" ELSE "draining"
       /\ UNCHANGED <<control, outstanding, loads, processed, reads, loaded>>

\* The compute delay has passed and _store_tile() runs.
StoreTile ==
    /\ computes > 0
    /\ computes' = computes - 1
    /\ StoreWrites(TileCount(tile))

\* The condition under which flush() returns.  That it raises instead is left
\* out: no batch fails here, so events are left while something is pending, and
\* a tile needs far fewer than flush()'s max_events.
Flushed == reads + writes = 0

MakeRoom ==
    /\ phase = "draining" /\ Flushed
    /\ StoreWrites(toIssue)
    /\ UNCHANGED computes

\* The elements of the current tile.
Tile ==
    {lane * ElemsPerLane + tile + k : k \in 0 .. TileCount(tile) - 1}

\* The barrier of _store_tile() returns: _next_tile(), which starts the tile
\* that follows, on the next lane after the last of this one.
NextTile ==
    LET start == tile + TileCount(tile)
    IN /\ phase = "barrier" /\ Flushed
       /\ stored' = stored \cup Tile
       /\ phase' = "running"
       /\ IF start < ElemsPerLane THEN LoadTile(lane, start)
          ELSE IF lane + 1 < NumLanes THEN LoadTile(lane + 1, 0)
          ELSE /\ lane' = lane + 1
               /\ tile' = 0
               /\ UNCHANGED <<toIssue, outstanding, loads, computes, reads>>
       /\ UNCHANGED <<program, processed, loaded, writes, storesDue>>

-----------------------------------------------------------------------------
\* No event is left.
Idle == reads + loaded + writes + storesDue + computes = 0

Ended ==
    \/ phase = "returned"
    \/ phase = "running" /\ Idle

Finished == Ended /\ UNCHANGED vars

TickServing(some) ==
    \E r \in 0 .. ReadQueue, w \in 0 .. WriteQueue :
        (some => r + w > 0) /\ Tick(r, w)

Next ==
    \/ IssueLatency \/ IssueBandwidth \/ ReturnBandwidth
    \/ TickServing(FALSE)
    \/ OnComplete
    \/ OnStoreDone \/ StoreTile \/ MakeRoom \/ NextTile
    \/ Finished

Spec == Init /\ [][Next]_vars

(***************************************************************************)
(* The programs run, the simulator processes the events that are due, and  *)
(* the DRAM services what is pending for ever while it is ticked, also     *)
(* when each step is a call of its own.                                    *)
(***************************************************************************)
FairSpec ==
    /\ Spec
    /\ WF_vars(IssueLatency \/ IssueBandwidth \/ ReturnBandwidth)
    /\ SF_vars(TickServing(TRUE))
    /\ SF_vars(OnComplete)
    /\ WF_vars(OnStoreDone) /\ WF_vars(StoreTile)
    /\ WF_vars(MakeRoom) /\ WF_vars(NextTile)

-----------------------------------------------------------------------------
(* Properties.                                                             *)

TypeOK ==
    /\ program \in Programs
    /\ phase \in {"issuing", "stepping", "running", "draining", "barrier",
                  "returned"}
    /\ outstanding \in Int
    /\ {toIssue, loads, computes, lane, tile, processed, loaded, storesDue}
          \subseteq Nat
    /\ reads \in 0 .. ReadQueue /\ writes \in 0 .. WriteQueue
    /\ stored \subseteq 0 .. VectorSize - 1

\* The reads in flight are those the program counts, through refusals and
\* late callbacks, and SpMM and benchmark_bandwidth() never have more than
\* their window of them ("queue cap", spmm_hbm.py:34; queue_depth).
WindowKept ==
    /\ (IF program = "accel" THEN loads ELSE outstanding) = reads + loaded
    /\ program \in {"spmm", "bandwidth"} => reads + loaded <= Window

\* The accelerator's count of outstanding requests is a "global bound" on the
\* requests in flight (accel_sim.py:54).
AccelWindowKept == program = "accel" => reads + loaded <= Window

\* "wait for all to return ... barrier until truly serviced" (accel_sim.py:
\* 6-8): a tile is computed once and stored when all its loads have returned,
\* and no load is issued while a store is in the DRAM; no tile is done twice.
StoresFollowLoads ==
    program = "accel" =>
        LET storing == phase \in {"draining", "barrier"}
        IN /\ computes <= 1
           /\ computes > 0 \/ storing => reads + loaded = 0
           /\ computes > 0 => ~storing
           /\ ~storing => writes = 0
           /\ lane < NumLanes => Tile \cap stored = {}

\* Every program ends with what it was asked to do: the reads completed, the
\* vector stored; benchmark_bandwidth() may also give up after max_events.
Finishes ==
    <>[](/\ Ended
         /\ program # "bandwidth" => toIssue = 0 /\ Idle
         /\ program \in {"spmm", "latency"} => outstanding = 0
         /\ program = "bandwidth" =>
                Completed = NumRequests \/ processed >= MaxEvents
         /\ program = "accel" => stored = 0 .. VectorSize - 1)
=============================================================================
