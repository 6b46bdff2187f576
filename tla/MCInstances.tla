---------------------------- MODULE MCInstances ----------------------------
(* Instances on a small instance: see the .cfg file. *)
EXTENDS Instances, TLC

\* The systems are interchangeable.
Symmetry == Permutations(Systems)
=============================================================================
