----------------------------- MODULE MCClients ------------------------------
(* Clients on small instances: see the .cfg files. *)
EXTENDS Clients
=============================================================================
