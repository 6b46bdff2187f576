-------------------------------- MODULE Fifo --------------------------------
(***************************************************************************)
(* FIFO of pyramulator/hardware.py: a bounded queue whose operations take  *)
(* effect at once.  Its state is the sequence q of the items in it, which  *)
(* belongs to the component that uses it; put() on a full queue changes    *)
(* nothing and returns False.                                              *)
(***************************************************************************)
EXTENDS Naturals, Sequences

\* Mutant of CanPut: off by one.
CanPutOneMore(q, capacity) == Len(q) <= capacity

\* full, can_put(): put() will accept an item.
CanPut(q, capacity) == Len(q) < capacity

\* put(), when the queue is not full.
Put(q, item) == Append(q, item)

\* The queue after n items have been taken by get(), each after a peek().
AfterGets(q, n) == SubSeq(q, n + 1, Len(q))

\* The n items that get() returned.
Gotten(q, n) == {q[k] : k \in 1 .. n}
=============================================================================
