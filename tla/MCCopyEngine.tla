---------------------------- MODULE MCCopyEngine ----------------------------
(* CopyEngine on a small instance: see the .cfg file. *)
EXTENDS CopyEngine
=============================================================================
