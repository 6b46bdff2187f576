----------------------------- MODULE AgendaSpec -----------------------------
(***************************************************************************)
(* A machine whose only state is an agenda and a clock: what the operators *)
(* of Agenda promise the components that are modelled over them.  The      *)
(* simulator is shown to implement it (MCSimulator), so that scheduling,   *)
(* cancelling, firing and waiting on an Agenda is what a client of the     *)
(* heap, the id table and the nested runs observes.                        *)
(***************************************************************************)
EXTENDS Agenda

CONSTANTS
    Priorities,  \* the priorities of the events
    MaxTime,     \* bound: the latest time of an event
    MaxEvents    \* bound: the number of events ever scheduled

Times == 0 .. MaxTime

VARIABLES
    now,     \* the simulation time
    agenda,  \* the scheduled events: [due, priority, id]
    nextId   \* the id of the next event

vars == <<now, agenda, nextId>>

Init ==
    /\ now = 0
    /\ agenda = <<>>
    /\ nextId = 0

Schedule(delay, priority) ==
    /\ nextId < MaxEvents
    /\ now + delay <= MaxTime
    /\ agenda' = Inserted(agenda, [due |-> delay, priority |-> priority,
                                   id |-> nextId])
    /\ nextId' = nextId + 1
    /\ UNCHANGED now

Cancel(k) ==
    /\ agenda' = RemoveAt(agenda, k)
    /\ UNCHANGED <<now, nextId>>

Fire ==
    /\ agenda # <<>>
    /\ now' = now + Head(agenda).due
    /\ agenda' = AfterHead(agenda)
    /\ UNCHANGED nextId

Advance(delta) ==
    /\ now + delta <= MaxTime
    /\ MayElapse(agenda, delta)
    /\ now' = now + delta
    /\ agenda' = Elapsed(agenda, delta)
    /\ UNCHANGED nextId

Next ==
    \/ \E delay \in Times, priority \in Priorities : Schedule(delay, priority)
    \/ \E k \in DOMAIN agenda : Cancel(k)
    \/ Fire
    \/ \E delta \in Times : Advance(delta)

Spec == Init /\ [][Next]_vars

=============================================================================
