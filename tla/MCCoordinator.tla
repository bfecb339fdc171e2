---------------------------- MODULE MCCoordinator ----------------------------
(* One execution of the coordinator; all bounds are in the .cfg files.     *)
EXTENDS Coordinator
=============================================================================
