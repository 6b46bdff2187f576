------------------------------- MODULE Agenda -------------------------------
(***************************************************************************)
(* The future event list as the component models use it: a sequence of     *)
(* records with the fields due (time units from now) and priority, kept in *)
(* firing order.  Simulator implements a machine that has only this list   *)
(* (module AgendaSpec); a component is therefore modelled over an Agenda   *)
(* and not over the heap again.  Times are relative so that a component    *)
(* that runs for ever still has finitely many states.                      *)
(***************************************************************************)
EXTENDS Integers, FiniteSets, Sequences, SequencesExt

\* Events due earlier run first; at equal times a lower priority value does.
NotAfter(e, f) ==
    \/ e.due < f.due
    \/ e.due = f.due /\ e.priority <= f.priority

\* Mutant of Inserted: a new event overtakes its equals.
InsertedFirst(agenda, e) ==
    LET ahead == {k \in DOMAIN agenda : ~NotAfter(e, agenda[k])}
    IN InsertAt(agenda, Cardinality(ahead) + 1, e)

\* The agenda with event e scheduled: behind its equals, as a higher seq is.
Inserted(agenda, e) ==
    LET ahead == {k \in DOMAIN agenda : NotAfter(agenda[k], e)}
    IN InsertAt(agenda, Cardinality(ahead) + 1, e)

\* The agenda with the events es scheduled one after the other, which are all
\* of the time and priority of e: each goes behind its equals.
InsertedAll(agenda, e, es) ==
    LET ahead == Cardinality({k \in DOMAIN agenda : NotAfter(agenda[k], e)})
    IN SubSeq(agenda, 1, ahead) \o es \o SubSeq(agenda, ahead + 1, Len(agenda))

\* The agenda when delta time units have passed.
Elapsed(agenda, delta) ==
    [k \in DOMAIN agenda |-> [agenda[k] EXCEPT !.due = @ - delta]]

\* What is left after the head has fired and the clock has moved to it.
AfterHead(agenda) == Elapsed(Tail(agenda), Head(agenda).due)

\* The time that may pass before an event would be skipped.
MayElapse(agenda, delta) == \A k \in DOMAIN agenda : agenda[k].due >= delta
=============================================================================
