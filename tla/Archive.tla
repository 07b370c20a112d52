------------------------------ MODULE Archive ------------------------------
(***************************************************************************)
(* What a cold tier promises, without files, windows or clocks.            *)
(*                                                                         *)
(* Rows appear in a hot store that will drop them on its own account.  An  *)
(* archive keeps copies, may make a copy anew while the hot store still    *)
(* has the row, and gives up looking for a row (passes it) only once the   *)
(* row is kept, or is beyond keeping because the hot store has dropped it. *)
(* A row that the archive has passed never turns up in the hot store       *)
(* afterwards.                                                             *)
(***************************************************************************)
CONSTANT Rows

VARIABLES
  live,      \* rows in the hot store
  dropped,   \* rows the hot store has dropped
  kept,      \* rows the archive has a copy of
  passed     \* rows the archive will not look for again

vars == <<live, dropped, kept, passed>>

Init ==
  /\ live = {}
  /\ dropped = {}
  /\ kept = {}
  /\ passed = {}

Arrive(r) ==
  /\ r \notin live \union dropped
  /\ live' = live \union {r}
  /\ UNCHANGED <<dropped, kept, passed>>

Drop(r) ==
  /\ r \in live
  /\ live' = live \ {r}
  /\ dropped' = dropped \union {r}
  /\ UNCHANGED <<kept, passed>>

\* The archive rewrites its copies.  It keeps those of live rows; a new one may
\* have been in hand when the hot store dropped its row.
Keep(S) ==
  /\ kept \intersect live \subseteq S
  /\ S \subseteq live \union dropped
  /\ kept' = S
  /\ UNCHANGED <<live, dropped, passed>>

Pass(S) ==
  /\ S \subseteq kept \union dropped
  /\ passed' = passed \union S
  /\ UNCHANGED <<live, dropped, kept>>

Next ==
  \/ \E r \in Rows : Arrive(r) \/ Drop(r)
  \/ \E S \in SUBSET Rows : Keep(S) \/ Pass(S)

Spec == Init /\ [][Next]_vars

\* Nothing the archive has passed depends on the hot store.
NothingPassedIsPending == passed \intersect live \subseteq kept
=============================================================================
