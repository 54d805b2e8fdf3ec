--------------------------- MODULE MCFileContent ----------------------------
(* Blocks of two bytes, a cache that holds one and a half of them, two      *)
(* revisions that are empty or end with a block, reads that straddle blocks. *)
EXTENDS FileContent
MCSymmetry == Permutations(Handlers)
=============================================================================
