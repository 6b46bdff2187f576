------------------------------- MODULE Stage --------------------------------
(***************************************************************************)
(* What a pipeline stage (Pipe of pyramulator/hardware.py) promises: put() *)
(* accepts an item while a slot is free, and the consumer accepts each     *)
(* item once, in any order and any time later.  There is no clock, no      *)
(* retry and no stalled queue here: Pipe is shown to implement this        *)
(* module, and CopyEngine is built on stages.                              *)
(***************************************************************************)
EXTENDS FiniteSets, Naturals, Sequences

CONSTANTS
    Items,  \* the items, each put at most once
    Slots   \* the items that fit

VARIABLES
    inside,  \* the items put() has taken and the consumer has not
    taken    \* the items the consumer has accepted, in order

stageVars == <<inside, taken>>

Init == inside = {} /\ taken = <<>>

Put(item) ==
    /\ item \notin inside
    /\ \A k \in DOMAIN taken : taken[k] # item
    /\ Cardinality(inside) < Slots
    /\ inside' = inside \cup {item}
    /\ UNCHANGED taken

\* The consumer returned True.  Until then the item occupies its slot.
Take(item) ==
    /\ item \in inside
    /\ inside' = inside \ {item}
    /\ taken' = Append(taken, item)

Next == \E item \in Items : Put(item) \/ Take(item)

Spec == Init /\ [][Next]_stageVars
=============================================================================
