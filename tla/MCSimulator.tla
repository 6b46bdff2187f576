---------------------------- MODULE MCSimulator ----------------------------
(* Simulator on a small instance: see the .cfg file. *)
EXTENDS Simulator

LOCAL INSTANCE SequencesExt

\* The live events as an agenda: in firing order, their times relative to now.
LiveAgenda ==
    [k \in 1 .. Cardinality(Scheduled) |->
        LET i == SetToSortSeq(Scheduled, Before)[k]
        IN [due |-> event[i].time - now, priority |-> event[i].priority,
            id |-> i]]

AG == INSTANCE AgendaSpec WITH agenda <- LiveAgenda, nextId <- seq

\* To its clients the simulator is an agenda: insertion behind equals and
\* times relative to now, which the models of the components are built on,
\* amount to the heap's order by time, priority and seq, whatever is
\* cancelled, nested or raised.
ImplementsAgenda == AG!Spec
=============================================================================
