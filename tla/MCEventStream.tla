--------------------------- MODULE MCEventStream ----------------------------
(* A few events, two sessions (a remount, or a restart after the crash) and *)
(* a buffer of one, so that bursts overflow it.                             *)
EXTENDS StreamRefinement
=============================================================================
