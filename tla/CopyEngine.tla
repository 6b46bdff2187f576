----------------------------- MODULE CopyEngine -----------------------------
(***************************************************************************)
(* The copy engine of examples/pipe_fifo_dram.py: lines go through an issue*)
(* Pipe and a FIFO to Dram.read, and from its completions through a compute*)
(* Pipe to Dram.write.  Credits keep the compute pipe from overfilling, and*)
(* the engine is kept going by triggers only: a zero-delay refill per line *)
(* issued, the completions of reads and the acceptances of writes.         *)
(*                                                                         *)
(* The pipes are stages (module Stage, which Pipe implements) and the DRAM *)
(* is a memory port (module MemoryPort) with a queue for each request type:*)
(* an item reaches its consumer, and a request is serviced, some time      *)
(* later, in any order.  Each handler is one action; where the code is     *)
(* stalled and asked again every cycle, the action is not enabled yet.     *)
(***************************************************************************)
EXTENDS Fifo, FiniteSets

CONSTANTS
    NLines,          \* n_lines
    IssueSlots,      \* issue_slots
    QueueDepth,      \* queue_depth
    ComputeSlots,    \* compute_slots
    MaxOutstanding,  \* max_outstanding
    ReadQueue,       \* the reads the DRAM takes before it refuses
    WriteQueue       \* the writes it takes before it refuses

ASSUME CopyAssumption ==
    /\ NLines \in Nat
    /\ {IssueSlots, QueueDepth, ComputeSlots, MaxOutstanding, ReadQueue,
        WriteQueue} \subseteq Nat \ {0}

Lines == 1 .. NLines

VARIABLES
    produced,        \* _produced
    refills,         \* the calls of _fill_issue() that are due
    issue,           \* the lines in issue_pipe
    issueQ,          \* the FIFO issue_q
    readsInflight,   \* _reads_inflight
    reading,         \* the lines whose read waits in the DRAM
    loaded,          \* the lines read whose _on_load() is due
    compute,         \* the lines in compute_pipe
    heldCompute,     \* _held_compute
    writing,         \* the lines whose write waits in the DRAM
    storesDue,       \* the lines whose _on_store_accepted() is due
    writesAccepted,  \* _writes_accepted
    stored           \* history: the lines the DRAM accepted a write of

vars == <<produced, refills, issue, issueQ, readsInflight, reading, loaded,
          compute, heldCompute, writing, storesDue, writesAccepted, stored>>

\* run() calls _fill_issue() itself for the first time.
Init ==
    /\ produced = 0
    /\ refills = 1
    /\ issue = {}
    /\ issueQ = <<>>
    /\ readsInflight = 0
    /\ reading = {} /\ loaded = {}
    /\ compute = {}
    /\ heldCompute = <<>>
    /\ writing = {} /\ storesDue = {}
    /\ writesAccepted = 0
    /\ stored = {}

-----------------------------------------------------------------------------
(* The read pump.                                                          *)

\* Mutant of Reserved: a completed load is taken to have left its slot.
ReservedInFlight(inflight, pipe, held) == inflight

\* _compute_reserved(): what occupies, or will occupy, a compute slot.
Reserved(inflight, pipe, held) == inflight + Cardinality(pipe) + Len(held)

\* _drain_held_compute() moves n held lines into the compute pipe.
Drains(n, pipe, held) ==
    /\ n <= Len(held) /\ Cardinality(pipe) + n <= ComputeSlots
    /\ n = Len(held) \/ Cardinality(pipe) + n = ComputeSlots

\* The loop of _pump_reads() goes on after n reads.
IssuesOn(n, q, inflight, pipe, held) ==
    /\ n < Len(q)
    /\ inflight + n < MaxOutstanding
    /\ Reserved(inflight + n, pipe, held) < ComputeSlots
    /\ Cardinality(reading) + n < ReadQueue

\* _pump_reads(), called with these values of the engine's state.
PumpReads(q, inflight, pipe, held) ==
    \E d \in 0 .. Len(held), n \in 0 .. Len(q) :
        /\ Drains(d, pipe, held)
        /\ compute' = pipe \cup Gotten(held, d)
        /\ heldCompute' = AfterGets(held, d)
        /\ \A k \in 0 .. n - 1 : IssuesOn(k, q, inflight, pipe, held)
        /\ ~IssuesOn(n, q, inflight, pipe, held)
        /\ issueQ' = AfterGets(q, n)
        /\ reading' = reading \cup Gotten(q, n)
        /\ readsInflight' = inflight + n

-----------------------------------------------------------------------------
(* Handlers.                                                               *)

\* _fill_issue(): until the pipe is full or the stream has ended.
FillIssue ==
    /\ refills > 0
    /\ refills' = refills - 1
    /\ \E n \in 0 .. NLines - produced :
          /\ Cardinality(issue) + n <= IssueSlots
          /\ produced + n = NLines \/ Cardinality(issue) + n = IssueSlots
          /\ produced' = produced + n
          /\ issue' = issue \cup (produced + 1 .. produced + n)
    /\ UNCHANGED <<issueQ, readsInflight, reading, loaded, compute,
                   heldCompute, writing, storesDue, writesAccepted, stored>>

\* Mutant of OnIssue: the refill runs inside the consumer, which still
\* occupies its slot, instead of after it.
OnIssueRefilling(line) ==
    /\ line \in issue
    /\ CanPut(issueQ, QueueDepth)
    /\ PumpReads(Put(issueQ, line), readsInflight, compute, heldCompute)
    /\ \E n \in 0 .. NLines - produced :
          /\ Cardinality(issue) + n <= IssueSlots
          /\ produced + n = NLines \/ Cardinality(issue) + n = IssueSlots
          /\ produced' = produced + n
          /\ issue' = (issue \cup (produced + 1 .. produced + n)) \ {line}
    /\ UNCHANGED <<refills, loaded, writing, storesDue, writesAccepted, stored>>

\* _on_issue(), the consumer of issue_pipe, when the FIFO has room.  The line
\* leaves the pipe when it returns; the refill is an event of its own.
OnIssue(line) ==
    /\ line \in issue
    /\ CanPut(issueQ, QueueDepth)
    /\ PumpReads(Put(issueQ, line), readsInflight, compute, heldCompute)
    /\ refills' = refills + 1
    /\ issue' = issue \ {line}
    /\ UNCHANGED <<produced, loaded, writing, storesDue, writesAccepted,
                   stored>>

\* _on_load(): held lines first, then this one into the compute pipe, or into
\* the hold if that is full.
OnLoad(line) ==
    /\ line \in loaded
    /\ loaded' = loaded \ {line}
    /\ \E d \in 0 .. Len(heldCompute) :
          LET pipe == compute \cup Gotten(heldCompute, d)
              held == AfterGets(heldCompute, d)
              fits == Cardinality(pipe) < ComputeSlots
          IN /\ Drains(d, compute, heldCompute)
             /\ PumpReads(issueQ, readsInflight - 1,
                          IF fits THEN pipe \cup {line} ELSE pipe,
                          IF fits THEN held ELSE Put(held, line))
    /\ UNCHANGED <<produced, refills, issue, writing, storesDue,
                   writesAccepted, stored>>

\* Mutant of TryStore: the line leaves although the write was refused.
TryStoreDropping(line) ==
    /\ line \in compute
    /\ compute' = compute \ {line}
    /\ IF Cardinality(writing) < WriteQueue
         THEN /\ writing' = writing \cup {line}
              /\ storesDue' = storesDue \cup {line}
              /\ stored' = stored \cup {line}
         ELSE UNCHANGED <<writing, storesDue, stored>>
    /\ UNCHANGED <<produced, refills, issue, issueQ, readsInflight, reading,
                   loaded, heldCompute, writesAccepted>>

\* _try_store(), the consumer of compute_pipe, when the DRAM accepts a write.
TryStore(line) ==
    /\ line \in compute
    /\ Cardinality(writing) < WriteQueue
    /\ compute' = compute \ {line}
    /\ writing' = writing \cup {line}
    /\ storesDue' = storesDue \cup {line}
    /\ stored' = stored \cup {line}
    /\ UNCHANGED <<produced, refills, issue, issueQ, readsInflight, reading,
                   loaded, heldCompute, writesAccepted>>

\* _on_store_accepted(), the callback of a write: a slot has become free.
OnStoreAccepted(line) ==
    /\ line \in storesDue
    /\ storesDue' = storesDue \ {line}
    /\ writesAccepted' = writesAccepted + 1
    /\ PumpReads(issueQ, readsInflight, compute, heldCompute)
    /\ UNCHANGED <<produced, refills, issue, loaded, writing, stored>>

-----------------------------------------------------------------------------
(* The DRAM services a request; the callback of a read is then due.        *)

ServiceRead(line) ==
    /\ line \in reading
    /\ reading' = reading \ {line}
    /\ loaded' = loaded \cup {line}
    /\ UNCHANGED <<produced, refills, issue, issueQ, readsInflight, compute,
                   heldCompute, writing, storesDue, writesAccepted, stored>>

ServiceWrite(line) ==
    /\ line \in writing
    /\ writing' = writing \ {line}
    /\ UNCHANGED <<produced, refills, issue, issueQ, readsInflight, reading,
                   loaded, compute, heldCompute, storesDue, writesAccepted,
                   stored>>

\* run_until_idle() has returned and main() finds all lines copied.
Copied ==
    /\ writesAccepted = NLines
    /\ reading = {} /\ writing = {}

Finished == Copied /\ UNCHANGED vars

Issue == \E line \in Lines : OnIssue(line)
Load == \E line \in Lines : OnLoad(line)
Store == \E line \in Lines : TryStore(line)
StoreAccepted == \E line \in Lines : OnStoreAccepted(line)
Service == \E line \in Lines : ServiceRead(line) \/ ServiceWrite(line)

Next ==
    \/ FillIssue
    \/ Issue
    \/ Load
    \/ Store
    \/ StoreAccepted
    \/ Service
    \/ Finished

Spec == Init /\ [][Next]_vars

(***************************************************************************)
(* The simulator runs until it is idle: events that are due run, a stalled *)
(* pipe asks its consumer every cycle (Pipe, EventuallyAccepted), and the  *)
(* DRAM services what is pending (DramFlush, EventuallyCalledBack).        *)
(***************************************************************************)
FairSpec ==
    /\ Spec
    /\ WF_vars(FillIssue) /\ WF_vars(Issue) /\ WF_vars(Load)
    /\ WF_vars(Store) /\ WF_vars(StoreAccepted) /\ WF_vars(Service)

-----------------------------------------------------------------------------
(* Properties.                                                             *)

SetOf(s) == Gotten(s, Len(s))

\* "Reserve a slot at issue time" (pipe_fifo_dram.py:135): with the credits as
\* they are counted a completion always finds a free slot, so that no line is
\* ever held back; the reads in flight are those the DRAM will still answer.
SlotsReserved ==
    /\ readsInflight = Cardinality(reading) + Cardinality(loaded)
    /\ readsInflight <= MaxOutstanding
    /\ Reserved(readsInflight, compute, heldCompute) <= ComputeSlots
    /\ heldCompute = <<>>

\* The places of a line on its way, in order.
Places(line) ==
    {k \in 1 .. 7 : line \in <<issue, SetOf(issueQ), reading, loaded, compute,
                               SetOf(heldCompute), stored>>[k]}

\* Each line that was produced is in one place, and stored at most once: what
\* pipes, queues, hold and DRAM hand over to each other is neither dropped nor
\* copied twice, whichever of them refuses.
EachLineOnce ==
    /\ \A line \in Lines :
          Cardinality(Places(line)) = (IF line <= produced THEN 1 ELSE 0)
    /\ Len(issueQ) = Cardinality(SetOf(issueQ))
    /\ writesAccepted + Cardinality(storesDue) = Cardinality(stored)

\* main() raises "copy dropped stores" or "DRAM still pending" unless the copy
\* ends with every line stored (pipe_fifo_dram.py:199-204): some trigger is
\* always left, whatever stopped the pump last.  With the sizes of the run each
\* of the window, the credits and a read the DRAM refuses is at times the only
\* reason to stop, and the issue pipe, the FIFO and the writes stall as well.
EventuallyCopied == <>[]Copied
=============================================================================
