------------------------------ MODULE MCDram -------------------------------
(* Dram on small instances: see the .cfg files. *)
EXTENDS Dram
=============================================================================
