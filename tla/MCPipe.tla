------------------------------- MODULE MCPipe -------------------------------
(* Pipe on small instances: see the .cfg files. *)
EXTENDS Pipe
=============================================================================
