--------------------------- MODULE MCBackpressure ---------------------------
(* A small instance of Backpressure. *)
EXTENDS Backpressure
=============================================================================
