----------------------------- MODULE MCRollups -----------------------------
(* Small instances of Rollups. *)
EXTENDS Rollups, TLC

Symmetric == Permutations(Rows) \union Permutations(Operators)
=============================================================================
