----------------------------- MODULE MemoryPort -----------------------------
(***************************************************************************)
(* What a memory promises its clients: a request that is accepted is       *)
(* serviced some time later, the callback of a read runs once and only     *)
(* after the read has been serviced, and the callback of a write, which    *)
(* completes upon acceptance, runs once after that.  Requests free again   *)
(* may be sent again.                                                      *)
(***************************************************************************)
EXTENDS FiniteSets, Naturals

CONSTANTS
    Reads, Writes,  \* the requests
    Silent,         \* those sent without a callback
    Queue           \* the most requests not yet serviced

VARIABLES
    unserviced,     \* the requests accepted and not yet serviced
    owed            \* the requests whose callback has still to run

portVars == <<unserviced, owed>>

Init == unserviced = {} /\ owed = {}

\* Requests of one type are accepted, as far as the queue has room.
Accept(rs) ==
    /\ rs \cap (unserviced \cup owed) = {}
    /\ Cardinality(unserviced \cup rs) <= Queue
    /\ unserviced' = unserviced \cup rs
    /\ owed' = owed \cup (rs \ Silent)

\* The memory services requests.
Service(rs) ==
    /\ unserviced' = unserviced \ rs
    /\ UNCHANGED owed

\* The callback of a request runs.
Notify(r) ==
    /\ r \in owed
    /\ r \in Reads => r \notin unserviced
    /\ owed' = owed \ {r}
    /\ UNCHANGED unserviced

Next ==
    \/ \E rs \in (SUBSET Reads) \cup (SUBSET Writes) : Accept(rs)
    \/ \E rs \in SUBSET unserviced : Service(rs)
    \/ \E r \in owed : Notify(r)

Spec == Init /\ [][Next]_portVars
=============================================================================
