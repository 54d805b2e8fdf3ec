-------------------------- MODULE MCBackendDaemon ---------------------------
(* A spawned process and one started by hand, both after the same name.     *)
EXTENDS BackendDaemon
=============================================================================
