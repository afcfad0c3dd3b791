------------------------------ MODULE MCCache ------------------------------
(* Small instances of Cache for TLC. *)
EXTENDS Cache, TLC

Symmetry == Permutations(Blocks) \cup Permutations(Writers) \cup Permutations(Readers)
=============================================================================
