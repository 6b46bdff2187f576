----------------------------- MODULE DramFlush -----------------------------
(***************************************************************************)
(* Dram.flush(): a client that steps the simulator until the engine has    *)
(* nothing pending, and gives up after max_events events.  Meanwhile       *)
(* everything else goes on: the events it steps run callbacks that send    *)
(* requests, or raise.  And the requests of a batch that raises, for which *)
(* no clock is started, are followed until a call starts it.               *)
(***************************************************************************)
EXTENDS Dram

CONSTANTS
    MaxEvents  \* flush's max_events

ASSUME FlushAssumption == MaxEvents \in Nat \ {0}

VARIABLES
    flush,     \* "idle", "running", or how the last call ended
    processed, \* the events it has processed, 0 when it is over
    stranded   \* history: the requests of batches that raised, since the last
               \* call that accepted requests and returned

flushVars == <<vars, flush, processed, stranded>>

EnginePending == Pending(inFlight, refreshes) > 0

FlushInit == Init /\ flush = "idle" /\ processed = 0 /\ stranded = {}

\* The main program calls flush() between events.
FlushStarts ==
    /\ flush # "running"
    /\ flush' = "running"
    /\ UNCHANGED <<vars, processed, stranded>>

\* step() processes an event; the count is compared before pending is again.
FlushSteps ==
    /\ flush = "running"
    /\ EnginePending
    /\ EventFires
    /\ IF processed + 1 >= MaxEvents
         THEN flush' = "not drained" /\ processed' = 0
         ELSE flush' = flush /\ processed' = processed + 1
    /\ UNCHANGED stranded

\* The client code that step() runs raises: flush() ends with the exception.
FlushRaises ==
    /\ flush = "running"
    /\ EnginePending
    /\ Done \/ Client
    /\ flush' = "raised"
    /\ processed' = 0
    /\ UNCHANGED <<idleRefresh, stranded>>

\* Mutant of FlushStalls: what step() returns is not looked at.
FlushStallsUnnoticed ==
    /\ flush = "running"
    /\ EnginePending
    /\ agenda = <<>>
    /\ UNCHANGED flushVars

\* step() finds no event.
FlushStalls ==
    /\ flush = "running"
    /\ EnginePending
    /\ agenda = <<>>
    /\ flush' = "stalled"
    /\ processed' = 0
    /\ UNCHANGED <<vars, stranded>>

\* Nothing is pending any more.
FlushReturns ==
    /\ flush = "running"
    /\ ~EnginePending
    /\ flush' = "returned"
    /\ processed' = 0
    /\ UNCHANGED <<vars, stranded>>

\* The calls of clients, the main program between two flushes or a callback.
ClientSteps ==
    /\ \/ \E rs \in SUBSET Reads : SendReads(rs) /\ stranded' = {}
       \/ \E rs \in SUBSET Writes : SendWrites(rs) /\ stranded' = {}
       \/ \E rs \in SUBSET Requests :
             SendFailing(rs) /\ stranded' = stranded \cup rs
       \/ /\ \/ \E delay \in Delays : ScheduleClient(delay)
             \/ \E delay \in Delays \cup {None} : SetHorizon(delay)
          /\ UNCHANGED stranded
    /\ UNCHANGED <<idleRefresh, flush, processed>>

\* With no flush under way, someone else runs the simulator.
EventSteps ==
    /\ flush # "running"
    /\ EventFires
    /\ UNCHANGED <<flush, processed, stranded>>

FlushNext ==
    \/ FlushStarts
    \/ FlushSteps
    \/ FlushRaises
    \/ FlushStalls
    \/ FlushReturns
    \/ ClientSteps
    \/ EventSteps

FlushSpec == FlushInit /\ [][FlushNext]_flushVars

\* flush() is a loop that runs until it ends, whatever it steps over.
FairFlushSpec ==
    /\ FlushSpec
    /\ WF_flushVars(FlushSteps \/ FlushStalls \/ FlushReturns)
    /\ Fairness

-----------------------------------------------------------------------------
\* A call of flush() ends, by draining, stalling, giving up or an exception,
\* although the callbacks it steps send further requests and the engine may
\* never be done.
FlushEnds == flush = "running" ~> flush # "running"

\* A call that accepts requests and returns starts the DRAM clock for all that
\* are pending, those that a failed batch left without one included: every read
\* accepted until then is called back, and so is one that is accepted, by
\* whatever call, while the clock runs.
EventuallyCalledBack ==
    \A r \in Reads :
        r \in owed /\ (ticking \/ r \notin stranded) ~> r \notin owed
=============================================================================
