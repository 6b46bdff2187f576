----------------------------- MODULE Instances ------------------------------
(***************************************************************************)
(* The memory systems that live in one process, as cpp/bindings.cpp keeps  *)
(* them: Ramulator registers every statistics object it creates in one     *)
(* global list and never removes it, so that an instance remembers which   *)
(* stretch of the list was created while it was constructed, and the       *)
(* module-level functions look for the only instance alive.                *)
(*                                                                         *)
(* Ramulator is not in the repository: it may register any number of       *)
(* objects, and may throw after it has registered some.  The counters of   *)
(* an instance are one number, the events counted since the last reset.    *)
(***************************************************************************)
EXTENDS Integers, Sequences, FiniteSets

CONSTANTS
    Systems,   \* the PyMemorySystem objects; an address may be used again
    MaxStats,  \* bound: the length of the global list
    MaxCount   \* bound: the events counted

ASSUME InstancesAssumption == {MaxStats, MaxCount} \subseteq Nat

VARIABLES
    allStats,  \* Stats::all_stats: [owner, valid, count] of each object;
               \* not valid: a pointer that dangles
    live,      \* PyMemorySystem::live_
    begin,     \* stats_range_.first of each live system, counted from 0
    end,       \* stats_range_.second
    counted    \* history: what happened to each system since its last reset

vars == <<allStats, live, begin, end, counted>>

Zero == [s \in Systems |-> 0]

Init ==
    /\ allStats = <<>>
    /\ live = {}
    /\ begin = Zero /\ end = Zero
    /\ counted = Zero

-----------------------------------------------------------------------------
\* n objects registered while system s is created.
Registered(s, n, valid) ==
    allStats \o [k \in 1 .. n |-> [owner |-> s, valid |-> valid, count |-> 0]]

\* Mutant of Construct: the stretch is taken to begin after the last one of
\* a live system.
ConstructAfterLive(s, n) ==
    LET last == {end[t] : t \in live} \cup {0}
    IN /\ s \notin live
       /\ Len(allStats) + n <= MaxStats
       /\ allStats' = Registered(s, n, TRUE)
       /\ begin' = [begin EXCEPT ![s] = CHOOSE e \in last :
                                            \A f \in last : f <= e]
       /\ end' = [end EXCEPT ![s] = Len(allStats')]
       /\ live' = live \cup {s}
       /\ counted' = [counted EXCEPT ![s] = 0]

\* The constructors of MemorySystem and PyMemorySystem.  A cacheline or a
\* standard that is refused changes nothing.
Construct(s, n) ==
    /\ s \notin live
    /\ Len(allStats) + n <= MaxStats
    /\ allStats' = Registered(s, n, TRUE)
    /\ begin' = [begin EXCEPT ![s] = Len(allStats)]
    /\ end' = [end EXCEPT ![s] = Len(allStats')]
    /\ live' = live \cup {s}
    /\ counted' = [counted EXCEPT ![s] = 0]

\* create_memory() throws after n objects have been registered: no instance
\* comes to life, and what was registered may not be used.
ConstructFailing(s, n) ==
    /\ s \notin live
    /\ Len(allStats) + n <= MaxStats
    /\ allStats' = Registered(s, n, FALSE)
    /\ UNCHANGED <<live, begin, end, counted>>

\* The destructor, whenever Python collects the object; for a Dram whose
\* constructor refuses its idle batch, after the exception is gone.
Destroy(s) ==
    /\ s \in live
    /\ live' = live \ {s}
    /\ allStats' = [k \in DOMAIN allStats |->
                      IF allStats[k].owner = s
                        THEN [allStats[k] EXCEPT !.valid = FALSE]
                        ELSE allStats[k]]
    /\ begin' = [begin EXCEPT ![s] = 0] /\ end' = [end EXCEPT ![s] = 0]
    /\ counted' = [counted EXCEPT ![s] = 0]

\* The system is driven: its own statistics count.
Count(s) ==
    /\ s \in live
    /\ counted[s] < MaxCount
    /\ counted' = [counted EXCEPT ![s] = @ + 1]
    /\ allStats' = [k \in DOMAIN allStats |->
                      IF allStats[k].valid /\ allStats[k].owner = s
                        THEN [allStats[k] EXCEPT !.count = @ + 1]
                        ELSE allStats[k]]
    /\ UNCHANGED <<live, begin, end>>

\* Mutant of Slice: everything registered so far.
SliceFromStart(s) == 1 .. end[s]

\* What get_stats() and reset_stats() of an instance go through.
Slice(s) == begin[s] + 1 .. end[s]

Zeroed(slice) ==
    [k \in DOMAIN allStats |->
        IF k \in slice THEN [allStats[k] EXCEPT !.count = 0] ELSE allStats[k]]

ResetStats(s) ==
    /\ s \in live
    /\ allStats' = Zeroed(Slice(s))
    /\ counted' = [counted EXCEPT ![s] = 0]
    /\ UNCHANGED <<live, begin, end>>

\* sole_live_instance(): more than one, or none, raises.
SoleLive == {s \in live : live \ {s} = {}}

\* The module-level reset_stats().
ResetSole == \E s \in SoleLive : ResetStats(s)

-----------------------------------------------------------------------------
Next ==
    \/ \E s \in Systems, n \in 0 .. MaxStats :
          Construct(s, n) \/ ConstructFailing(s, n)
    \/ \E s \in Systems : Destroy(s) \/ Count(s) \/ ResetStats(s)
    \/ ResetSole

Spec == Init /\ [][Next]_vars

-----------------------------------------------------------------------------
(* Properties.                                                             *)

\* An instance "only ever reads within that range" (bindings.cpp:73-77), and
\* the range is right for ever: it holds all of its own statistics and never
\* one of another instance, of a failed construction or of an instance that
\* is gone, in whatever order instances come and go; one that is gone has
\* nothing left that could be read.
StatsAreOwn ==
    \A s \in Systems :
        {k \in DOMAIN allStats : allStats[k].valid /\ allStats[k].owner = s}
            = (IF s \in live THEN Slice(s) ELSE {})

\* Every statistic an instance reports counts what that instance did since its
\* own last reset, whatever was reset elsewhere, by the instance or as the
\* sole instance of the process.
CountsAreOwn ==
    \A s \in live : \A k \in Slice(s) :
        k \in DOMAIN allStats => allStats[k].count = counted[s]
=============================================================================
