------------------------------- MODULE Engine -------------------------------
(***************************************************************************)
(* The engine wrapper: MemorySystem (_engine.py) over PyMemorySystem       *)
(* (cpp/bindings.cpp).  C++ records the completions of reads; each Python  *)
(* call that has ticked the engine fetches them and calls back one by one. *)
(* Callbacks are client code: they send, tick, run and drive again, which  *)
(* dispatches in the middle of a dispatch, or raise.  Writes are called    *)
(* back by the sending call itself.  drive() is a loop inside C++.         *)
(*                                                                         *)
(* Ramulator is not in the repository: it services any pending requests in *)
(* any cycle.  Cycles are counted only where a count decides something, so *)
(* run, run_until_idle and tick_until_progress are one action.             *)
(***************************************************************************)
EXTENDS Integers, FiniteSets, SequencesExt

CONSTANTS
    Reads, Writes,  \* the requests, each sent at most once
    Silent,         \* those sent without a callback
    Queue,          \* the requests Ramulator takes before it refuses
    QueueDepth,     \* drive's queue_depth
    Batch,          \* drive's batch
    CycleLimits,    \* the values of drive's max_cycles
    MaxCalls,       \* bound: the nesting of calls
    MaxDrift        \* bound: the ticks lost to exceptions

ASSUME EngineAssumption ==
    /\ Reads \cap Writes = {} /\ Silent \subseteq Reads \cup Writes
    /\ {Queue, QueueDepth, Batch} \subseteq Nat \ {0}
    /\ CycleLimits \subseteq Nat
    /\ MaxCalls \in Nat /\ MaxDrift \in Nat

Requests == Reads \cup Writes

VARIABLES
    inFlight,        \* the requests accepted and not yet serviced
    driven,          \* those of them that drive() sent
    recorded,        \* PyMemorySystem::completed_
    completedCount,  \* PyMemorySystem::completed_count_
    drift,           \* the engine's cycles minus MemorySystem._clk
    calls,           \* the calls in progress, innermost last
    raising,         \* an exception is on its way to the innermost caller
    sent, called,    \* history: the requests accepted, called back
    lostTicks,       \* history: the ticks whose dispatch raised
    lostCalls        \* history: the callbacks skipped by an exception

vars == <<inFlight, driven, recorded, completedCount, drift, calls, raising,
          sent, called, lostTicks, lostCalls>>

Top == Last(calls)
Below == Front(calls)

\* A call that calls back: _dispatch() for tick() or the run calls, or the
\* loop over the accepted writes.
CallingBack(kind, reqs) ==
    [kind |-> kind, rest |-> reqs, active |-> FALSE, raised |-> FALSE]

\* drive() in its C++ loop, at the end of a round.  History: own, the requests
\* it has issued; left, those that earlier drives left in flight.
Driving(reqs, limit) ==
    [kind |-> "drive", phase |-> "batch", rest |-> reqs, own |-> {},
     cycles |-> 0, ticks |-> Batch, limit |-> limit, left |-> driven]

InDrive(phase) ==
    calls # <<>> /\ ~raising /\ Top.kind = "drive" /\ Top.phase = phase
InDispatch == calls # <<>> /\ ~raising /\ Top.kind # "drive"

\* Client code runs: the main program, or a callback.
ClientTurn == ~raising /\ (calls = <<>> \/ (InDispatch /\ Top.active))
MayCall == ClientTurn /\ Len(calls) < MaxCalls

\* Mutant of Recorded: requests are recorded before they are serviced.
RecordedEarly(done) == SetToSeq((inFlight \cap Reads) \ Silent)

\* What the engine records of the requests it services.
Recorded(done) == SetToSeq((done \cap Reads) \ Silent)

-----------------------------------------------------------------------------
Init ==
    /\ inFlight = {} /\ driven = {}
    /\ recorded = <<>>
    /\ completedCount = 0
    /\ drift = 0
    /\ calls = <<>>
    /\ raising = FALSE
    /\ sent = {} /\ called = {}
    /\ lostTicks = 0 /\ lostCalls = {}

Room == Queue - Cardinality(inFlight)

Sendable(rs, type) ==
    /\ rs # {} /\ rs \subseteq type \ sent
    /\ IsFiniteSet(rs) /\ Cardinality(rs) <= Room

\* send_read(), send_reads(), send_reads_range(): the requests rs are accepted.
SendReads(rs) ==
    /\ ClientTurn
    /\ Sendable(rs, Reads)
    /\ inFlight' = inFlight \cup rs
    /\ sent' = sent \cup rs
    /\ UNCHANGED <<driven, recorded, completedCount, drift, calls, raising,
                   called, lostTicks, lostCalls>>

\* send_write(), send_writes(), send_writes_range(): the call goes on to call
\* back for the writes accepted, in order.
SendWrites(rs) ==
    /\ MayCall
    /\ Sendable(rs, Writes)
    /\ inFlight' = inFlight \cup rs
    /\ sent' = sent \cup rs
    /\ calls' = Append(calls, CallingBack("writes", SetToSeq(rs \ Silent)))
    /\ UNCHANGED <<driven, recorded, completedCount, drift, raising, called,
                   lostTicks, lostCalls>>

\* A batch whose next address does not convert: send_batch() raises after rs.
SendRaises(rs) ==
    /\ ClientTurn
    /\ Sendable(rs, Reads) \/ Sendable(rs, Writes)
    /\ inFlight' = inFlight \cup rs
    /\ sent' = sent \cup rs
    /\ raising' = TRUE
    /\ lostCalls' = lostCalls \cup (rs \cap Writes)
    /\ UNCHANGED <<driven, recorded, completedCount, drift, calls, called,
                   lostTicks>>

\* Some cycles that service the requests done.
Cycles(done) ==
    /\ inFlight' = inFlight \ done
    /\ driven' = driven \ done
    /\ completedCount' = completedCount + Cardinality(done \cap driven)

\* tick(): _clk is counted after the dispatch.
Tick(done) ==
    /\ MayCall
    /\ Cycles(done)
    /\ calls' = Append(calls, CallingBack("tick", recorded \o Recorded(done)))
    /\ recorded' = <<>>
    /\ drift' = drift + 1
    /\ UNCHANGED <<raising, sent, called, lostTicks, lostCalls>>

\* run(), run_until_idle(), flush(), tick_until_progress(): _clk is counted
\* before the dispatch.
Run(done) ==
    /\ MayCall
    /\ Cycles(done)
    /\ calls' = Append(calls, CallingBack("run", recorded \o Recorded(done)))
    /\ recorded' = <<>>
    /\ UNCHANGED <<drift, raising, sent, called, lostTicks, lostCalls>>

-----------------------------------------------------------------------------
(* Dispatching.                                                            *)

CallbackStarts ==
    /\ InDispatch /\ ~Top.active /\ Top.rest # <<>>
    /\ called' = called \cup {Head(Top.rest)}
    /\ calls' = Append(Below, [Top EXCEPT !.active = TRUE, !.rest = Tail(@)])
    /\ UNCHANGED <<inFlight, driven, recorded, completedCount, drift, raising,
                   sent, lostTicks, lostCalls>>

CallbackReturns ==
    /\ InDispatch /\ Top.active
    /\ calls' = Append(Below, [Top EXCEPT !.active = FALSE])
    /\ UNCHANGED <<inFlight, driven, recorded, completedCount, drift, raising,
                   sent, called, lostTicks, lostCalls>>

\* Mutant of CallbackRaises: the exception ends the dispatch.
CallbackRaisesAborting ==
    /\ calls # <<>> /\ Top.kind # "drive" /\ Top.active
    /\ calls' = Below
    /\ raising' = TRUE
    /\ UNCHANGED <<inFlight, driven, recorded, completedCount, drift, sent,
                   called, lostTicks, lostCalls>>

\* A callback raises, by itself or by an exception of a call it made: _dispatch
\* keeps it for later, the loop over the writes ends with it.
CallbackRaises ==
    /\ calls # <<>> /\ Top.kind # "drive" /\ Top.active
    /\ IF Top.kind = "writes"
         THEN /\ calls' = Below
              /\ raising' = TRUE
              /\ lostCalls' = lostCalls \cup ToSet(Top.rest)
         ELSE /\ calls' = Append(Below, [Top EXCEPT !.active = FALSE,
                                                    !.raised = TRUE])
              /\ raising' = FALSE
              /\ UNCHANGED lostCalls
    /\ UNCHANGED <<inFlight, driven, recorded, completedCount, drift, sent,
                   called, lostTicks>>

\* Mutant of DispatchEnds: the cycles of the run calls are counted again.
DispatchEndsCounting ==
    /\ InDispatch /\ ~Top.active /\ Top.rest = <<>>
    /\ calls' = Below
    /\ raising' = Top.raised
    /\ drift' = IF Top.kind = "writes" \/ Top.raised THEN drift ELSE drift - 1
    /\ lostTicks' = IF Top.kind = "tick" /\ Top.raised
                      THEN lostTicks + 1 ELSE lostTicks
    /\ lostTicks' <= MaxDrift
    /\ UNCHANGED <<inFlight, driven, recorded, completedCount, sent, called,
                   lostCalls>>

\* The loop ends; the first exception is raised again, before tick() counts.
DispatchEnds ==
    /\ InDispatch /\ ~Top.active /\ Top.rest = <<>>
    /\ calls' = Below
    /\ raising' = Top.raised
    /\ drift' = IF Top.kind = "tick" /\ ~Top.raised THEN drift - 1 ELSE drift
    /\ lostTicks' = IF Top.kind = "tick" /\ Top.raised
                      THEN lostTicks + 1 ELSE lostTicks
    /\ lostTicks' <= MaxDrift
    /\ UNCHANGED <<inFlight, driven, recorded, completedCount, sent, called,
                   lostCalls>>

\* The main program or a callback handles the exception.
Catch ==
    /\ raising
    /\ raising' = FALSE
    /\ UNCHANGED <<inFlight, driven, recorded, completedCount, drift, calls,
                   sent, called, lostTicks, lostCalls>>

-----------------------------------------------------------------------------
(* drive() and drive_range().                                              *)

\* Mutant of DriveStarts: the count is sticky.
DriveStartsSticky(rs, limit) ==
    /\ MayCall
    /\ rs \subseteq Reads \ sent /\ IsFiniteSet(rs)
    /\ calls' = Append(calls, Driving(SetToSeq(rs), limit))
    /\ UNCHANGED <<inFlight, driven, recorded, completedCount, drift, raising,
                   sent, called, lostTicks, lostCalls>>

\* The reads rs are to be issued; the loop condition comes first.
DriveStarts(rs, limit) ==
    /\ MayCall
    /\ rs \subseteq Reads \ sent /\ IsFiniteSet(rs)
    /\ completedCount' = 0
    /\ calls' = Append(calls, Driving(SetToSeq(rs), limit))
    /\ UNCHANGED <<inFlight, driven, recorded, drift, raising, sent, called,
                   lostTicks, lostCalls>>

\* issued - completed_count_
DriveInFlight == Cardinality(Top.own) - completedCount

MayIssue == Top.rest # <<>> /\ DriveInFlight < QueueDepth

\* A slot of the window is free and Ramulator accepts the next request.
DriveIssues ==
    /\ InDrive("fill") /\ MayIssue /\ Room > 0
    /\ LET r == Head(Top.rest)
       IN /\ inFlight' = inFlight \cup {r}
          /\ driven' = driven \cup {r}
          /\ sent' = sent \cup {r}
          /\ calls' = Append(Below, [Top EXCEPT !.rest = Tail(@),
                                                !.own = @ \cup {r}])
    /\ UNCHANGED <<recorded, completedCount, drift, raising, called, lostTicks,
                   lostCalls>>

DrivePhase(phase) ==
    /\ calls' = Append(Below, [Top EXCEPT !.phase = phase, !.ticks = 0])
    /\ UNCHANGED <<inFlight, driven, recorded, completedCount, drift, raising,
                   sent, called, lostTicks, lostCalls>>

\* The window is full, all is issued, or Ramulator refuses: it has a queue for
\* each channel, so it may refuse when anything is in flight.
DriveFilled ==
    /\ InDrive("fill")
    /\ ~MayIssue \/ inFlight # {}
    /\ DrivePhase("batch")

\* Mutant of MayBatch: off by one.
MayBatchPastLimit ==
    Top.ticks < Batch /\ Top.rest # <<>> /\ Top.cycles <= Top.limit

MayBatch == Top.ticks < Batch /\ Top.rest # <<>> /\ Top.cycles < Top.limit

\* One cycle, in a batch or while the last requests are drained.
DriveTicks(done) ==
    /\ \/ InDrive("batch") /\ MayBatch
       \/ InDrive("drain") /\ DriveInFlight > 0 /\ Top.cycles < Top.limit
    /\ Cycles(done)
    /\ recorded' = recorded \o Recorded(done)
    /\ calls' = Append(Below, [Top EXCEPT !.cycles = @ + 1, !.ticks = @ + 1])
    /\ UNCHANGED <<drift, raising, sent, called, lostTicks, lostCalls>>

\* The batch is over: another round, or the drain.
DriveLoops ==
    /\ InDrive("batch") /\ ~MayBatch
    /\ DrivePhase(IF Top.rest # <<>> /\ Top.cycles < Top.limit
                    THEN "fill" ELSE "drain")

\* Mutant of DriveEnds: the completions are not fetched.
DriveEndsUnfetched ==
    /\ InDrive("drain") /\ ~(DriveInFlight > 0 /\ Top.cycles < Top.limit)
    /\ calls' = Append(Below, CallingBack("run", <<>>))
    /\ UNCHANGED <<inFlight, driven, recorded, completedCount, drift, raising,
                   sent, called, lostTicks, lostCalls>>

\* The loop returns; drive() counts the cycles and dispatches.
DriveEnds ==
    /\ InDrive("drain") /\ ~(DriveInFlight > 0 /\ Top.cycles < Top.limit)
    /\ calls' = Append(Below, CallingBack("run", recorded))
    /\ recorded' = <<>>
    /\ UNCHANGED <<inFlight, driven, completedCount, drift, raising, sent,
                   called, lostTicks, lostCalls>>

-----------------------------------------------------------------------------
ClientCall ==
    \/ \E rs \in SUBSET Requests :
          SendReads(rs) \/ SendWrites(rs) \/ SendRaises(rs)
    \/ \E done \in SUBSET inFlight : Tick(done) \/ Run(done)
    \/ \E rs \in SUBSET Reads, limit \in CycleLimits : DriveStarts(rs, limit)

Dispatch ==
    CallbackStarts \/ CallbackReturns \/ CallbackRaises \/ DispatchEnds

Drive ==
    \/ DriveIssues
    \/ DriveFilled
    \/ \E done \in SUBSET inFlight : DriveTicks(done)
    \/ DriveLoops
    \/ DriveEnds

Next == ClientCall \/ Dispatch \/ Catch \/ Drive

Spec == Init /\ [][Next]_vars

-----------------------------------------------------------------------------
(* Properties.                                                             *)

CallOK(call) ==
    \/ /\ call.kind \in {"tick", "run", "writes"}
       /\ call.rest \in Seq(Requests)
       /\ call.active \in BOOLEAN /\ call.raised \in BOOLEAN
    \/ /\ call.kind = "drive"
       /\ call.phase \in {"fill", "batch", "drain"}
       /\ call.rest \in Seq(Reads) /\ call.own \subseteq Reads
       /\ call.cycles \in 0 .. call.limit /\ call.ticks \in Nat
       /\ call.limit \in CycleLimits /\ call.left \subseteq Requests

TypeOK ==
    /\ driven \subseteq inFlight /\ inFlight \subseteq sent
    /\ sent \subseteq Requests /\ called \subseteq sent \ Silent
    /\ Cardinality(inFlight) <= Queue
    /\ recorded \in Seq(Reads)
    /\ completedCount \in Nat
    /\ drift \in Nat /\ lostTicks \in 0 .. MaxDrift
    /\ \A k \in DOMAIN calls : CallOK(calls[k])
    /\ raising \in BOOLEAN
    /\ lostCalls \subseteq sent

\* Where the callback of a read that was accepted can still come from.
Occurs(r, s) == Cardinality({k \in DOMAIN s : s[k] = r})
Waiting(r) ==
    Cardinality({r} \cap inFlight) + Occurs(r, recorded)
    + Cardinality({k \in DOMAIN calls :
                      calls[k].kind # "drive" /\ Occurs(r, calls[k].rest) > 0})

\* A read's callback runs exactly once, however callbacks raise or dispatch
\* again: "the remaining events in the batch are still delivered"
\* (_engine.py:332-333).
ReadsCalledOnce ==
    \A r \in (sent \cap Reads) \ Silent :
        Waiting(r) = (IF r \in called THEN 0 ELSE 1)

\* No completion is left behind in C++ when control is with a client: each
\* call that ticks also fetches, so nothing waits for a later, unrelated call.
NothingLeftRecorded == ClientTurn => recorded = <<>>

\* _clk falls behind the engine only by the ticks whose callbacks are running
\* and by those whose callbacks raised; the other calls count exactly.
ClockAccounted ==
    drift = lostTicks + Cardinality({k \in DOMAIN calls : calls[k].kind = "tick"})

\* The window of drive(): what it takes to be in flight, issued minus completed,
\* is what it has in flight of its own, short of exactly the completions of
\* requests that an earlier drive(), cut off by max_cycles, left behind.  No
\* other request in flight, before or during the drive, is counted, and
\* without such an earlier drive() the window is exact.
DriveCountsItsOwn ==
    \A k \in DOMAIN calls :
        calls[k].kind = "drive" =>
            Cardinality(calls[k].own) - completedCount
                = Cardinality(calls[k].own \cap inFlight)
                  - Cardinality(calls[k].left \ inFlight)

\* drive() returns when "every request completes or max_cycles is reached"
\* (_engine.py:558-559).
DriveWaitsForAll ==
    [][DriveEnds => Top.own \cap inFlight = {} \/ Top.cycles >= Top.limit]_vars

Port == INSTANCE MemoryPort
          WITH unserviced <- inFlight, owed <- (sent \ Silent) \ called

\* The engine is a memory port too, whoever calls it from where.
ImplementsMemoryPort == Port!Spec
=============================================================================
