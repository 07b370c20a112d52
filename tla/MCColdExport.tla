--------------------------- MODULE MCColdExport ---------------------------
(* Small instances of ColdExport: which mishaps strike, and how often.  The  *)
(* rows all hold the same values, so that they are interchangeable; a damaged *)
(* copy may hold any others.                                                  *)
EXTENDS ColdExport, TLC

Only(kinds) == [m \in Mishaps |-> IF m \in kinds THEN 1 ELSE 0]

\* One mishap of any kind, or a run that is cut short and one that is damaged.
AnyOne == {Only({m}) : m \in Mishaps} \union {Only({"crash", "mangle"})}
OneRewind == {Only({"rewind"})}

TwoSums == 0 .. 1
OneToken == [r \in Rows |-> 1]
OneTrace == [r \in Rows |-> CHOOSE x \in Traces : TRUE]
BeforeAll == -1

RowSymmetry == Permutations(Rows)
=============================================================================
