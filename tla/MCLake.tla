------------------------------- MODULE MCLake -------------------------------
(* A small instance of Lake. *)
EXTENDS Lake, TLC

CONSTANTS w1, w2, e1, e2

\* No exporter, and no window, is told from another.
Symmetry == Permutations(Windows) \union Permutations(Exporters)
=============================================================================
