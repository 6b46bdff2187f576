----------------------------- MODULE EventList -----------------------------
(***************************************************************************)
(* What Simulator (pyramulator/sim.py) promises its clients: a future      *)
(* event list.  A client schedules events that are not in the past,        *)
(* cancels events that have not run, and lets time jump only over empty    *)
(* time; the events run one by one, the earliest first, equal times by     *)
(* priority and then in the order in which they were scheduled.  There is  *)
(* no heap, no cancelled entry, no id table and no call stack here;        *)
(* Simulator is shown to implement this module.                            *)
(***************************************************************************)
EXTENDS Integers

CONSTANTS
    Times,      \* the simulation times clients use
    Priorities  \* the priorities clients use; a lower one runs earlier

VARIABLES
    now,      \* current simulation time
    pending,  \* the events still to run: records [id, time, priority]
    nextId    \* the id of the next event to be scheduled

vars == <<now, pending, nextId>>

Event == [id : Nat, time : Times, priority : Priorities]

TypeOK ==
    /\ now \in Times
    /\ nextId \in Nat
    /\ pending \in SUBSET Event

\* e runs before f: the order of _Event.key = (time, priority, seq).
Precedes(e, f) ==
    \/ e.time < f.time
    \/ e.time = f.time /\ e.priority < f.priority
    \/ e.time = f.time /\ e.priority = f.priority /\ e.id < f.id

Earliest(e) == \A f \in pending \ {e} : Precedes(e, f)

-----------------------------------------------------------------------------

Init ==
    /\ now = 0
    /\ pending = {}
    /\ nextId = 0

Schedule ==
    \E time \in Times, priority \in Priorities :
        /\ time >= now
        /\ pending' = pending \cup
             {[id |-> nextId, time |-> time, priority |-> priority]}
        /\ nextId' = nextId + 1
        /\ UNCHANGED now

Cancel ==
    \E e \in pending :
        /\ pending' = pending \ {e}
        /\ UNCHANGED <<now, nextId>>

Fire ==
    \E e \in pending :
        /\ Earliest(e)
        /\ now' = e.time
        /\ pending' = pending \ {e}
        /\ UNCHANGED nextId

\* Time passes with nothing to run, as when a component coalesces cycles.
Advance ==
    \E time \in Times :
        /\ time >= now
        /\ \A e \in pending : e.time >= time
        /\ now' = time
        /\ UNCHANGED <<pending, nextId>>

Next == Schedule \/ Cancel \/ Fire \/ Advance

Spec == Init /\ [][Next]_vars
=============================================================================
