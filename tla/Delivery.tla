------------------------------ MODULE Delivery ------------------------------
(***************************************************************************)
(* What the way from the collector to ClickHouse promises for each message *)
(* it was handed: it is stored, in the end, or a counter says it was not;  *)
(* and none is lost in silence but by a mishap, which takes what it found  *)
(* at one place.                                                           *)
(***************************************************************************)
EXTENDS Naturals

CONSTANT Messages

VARIABLES
  pending,   \* messages on their way
  stored,    \* messages in their table
  counted,   \* messages a counter has given up
  silent,    \* messages that are gone, uncounted
  mishaps

vars == <<pending, stored, counted, silent, mishaps>>

Init ==
  /\ pending = {}
  /\ stored = {}
  /\ counted = {}
  /\ silent = {}
  /\ mishaps = 0

Known == pending \union stored \union counted \union silent

Accept(ms) ==
  /\ UNCHANGED <<mishaps, stored, counted, silent>>
  /\ pending' = pending \union ms

\* Not taken, and counted at once.
Reject(ms) ==
  /\ UNCHANGED <<mishaps, pending, stored, silent>>
  /\ counted' = counted \union ms

\* A message that is stored may still be on its way, to be stored again.
Store(ms) ==
  /\ UNCHANGED <<mishaps, pending, counted, silent>>
  /\ stored' = stored \union ms

Settle(ms) ==
  /\ UNCHANGED <<mishaps, stored, counted, silent>>
  /\ pending' = pending \ ms

\* A message that a counter has given up may be on its way, or stored, all the same.
GiveUp(ms) ==
  /\ UNCHANGED <<mishaps, stored>>
  /\ counted' = counted \union ms
  /\ silent' = silent \ ms
  /\ pending' \subseteq pending /\ pending \ pending' \subseteq ms

\* Sent once more, whatever has become of it.
Repeat(ms) ==
  /\ mishaps' = mishaps + 1
  /\ UNCHANGED <<stored, counted>>
  /\ pending' = pending \union ms
  /\ silent' = silent \ ms

Lose(ms) ==
  /\ mishaps' = mishaps + 1
  /\ UNCHANGED <<stored, counted>>
  /\ pending' = pending \ ms
  /\ silent' = silent \union (ms \ (stored \union counted))

Next ==
  \/ \E ms \in SUBSET (Messages \ Known) : Accept(ms) \/ Reject(ms)
  \/ \E ms \in SUBSET pending : Store(ms) \/ Lose(ms)
  \/ \E ms \in SUBSET (pending \intersect stored) : Settle(ms)
  \/ \E ms \in SUBSET (pending \union stored \union silent) : GiveUp(ms) \/ Repeat(ms)

Spec == Init /\ [][Next]_vars

\* Time and again nothing is on its way that is not decided: each message accepted
\* is stored, counted or lost in the end.
EachIsDecided == []<>(pending \subseteq stored \union counted \union silent)
=============================================================================
