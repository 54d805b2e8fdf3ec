-------------------------- MODULE MCAccountWatcher --------------------------
(* Two accounts, stored or not when the daemon starts.                      *)
EXTENDS AccountWatcher
=============================================================================
