---------------------------- MODULE MCDramFlush -----------------------------
(* DramFlush on small instances: see the .cfg files. *)
EXTENDS DramFlush
=============================================================================
