------------------------------ MODULE MCLoadRun -----------------------------
(* A small instance of LoadRun. *)
EXTENDS LoadRun, TLC

CONSTANTS w1, w2

\* The workers differ in their seeds only.
Symmetry == Permutations(Workers)
=============================================================================
