------------------------- MODULE MCMountCredentials -------------------------
(* Two mounts, two sign-ins, two helpers (the second after the first died   *)
(* or was too slow), and two rotations of each log-in's token.              *)
EXTENDS MountCredentials
=============================================================================
