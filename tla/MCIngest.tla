------------------------------ MODULE MCIngest ------------------------------
(* A small instance of Ingest. *)
EXTENDS Ingest

CONSTANTS m1, m2, m3, b1, b2, p1, p2

\* The batch b1 has a trace in either partition; b2 goes to the first.
MCBatchOf == [m \in Messages |-> IF m = m3 THEN b2 ELSE b1]
MCPartitionOf == [m \in Messages |-> IF m = m2 THEN p2 ELSE p1]
=============================================================================
