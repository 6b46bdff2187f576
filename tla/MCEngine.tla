----------------------------- MODULE MCEngine ------------------------------
(* Engine on small instances: see the .cfg files. *)
EXTENDS Engine
=============================================================================
