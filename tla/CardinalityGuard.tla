-------------------------- MODULE CardinalityGuard --------------------------
(***************************************************************************)
(* The cardinality guard (cardinality/guard.py, registry.py): `dimensions  *)
(* apply` writes the registry's values, and the loudest values of recent   *)
(* traffic, into the table dim_allowlist; ClickHouse copies the table into *)
(* a dictionary; and the rollup view looks every column of every span up   *)
(* in the dictionary to choose the key it is counted under (110).          *)
(*                                                                         *)
(* A sync is five requests without a transaction.  Spans arrive between    *)
(* them, the dictionary refreshes itself on its own schedule, and nothing  *)
(* keeps two operators from syncing at once.                               *)
(***************************************************************************)
EXTENDS Integers, FiniteSets, FiniteSetsExt

CONSTANTS
  Dims,        \* names a registry may use for a dimension's column
  Stored,      \* the columns spans_1m really has
  Columns,     \* its key columns, the ones the view looks up
  Values,      \* values a span may carry in a column
  Registries,  \* the revisions of dimensions.yaml
  Syncers,     \* processes that may run `dimensions apply`
  MaxCount,    \* bound on the recent spans counted per value
  MaxSyncs,    \* bound on the number of syncs
  MaxCrashes   \* bound on syncs cut short

\* The key columns whose loudest values some registry asks for.
Volumes == {d \in Columns : \E g \in Registries : d \in DOMAIN g /\ g[d].source = "top_k"}

Empty == "empty"         \* the span does not carry the dimension
Other == "__other__"
Absent == "__none__"

Dimension == [source : {"static", "top_k"}, budget : Nat \ {0}, values : SUBSET Values]

ASSUME CardinalityGuardAssumption ==
  /\ Columns \subseteq Stored
  /\ Stored \subseteq Dims
  /\ IsFiniteSet(Values)
  /\ {Empty, Other, Absent} \intersect Values = {}
  /\ \A g \in Registries :
       /\ DOMAIN g \subseteq Dims
       /\ \A d \in DOMAIN g :
            /\ g[d] \in Dimension
            /\ g[d].source = "static" => Cardinality(g[d].values) <= g[d].budget
  /\ MaxCount \in Nat
  /\ MaxSyncs \in Nat
  /\ MaxCrashes \in Nat

VARIABLES
  registry,    \* dimensions.yaml
  recent,      \* per such column and value: spans in raw within the top-K window
  allowlist,   \* dim_allowlist, per dimension
  dict,        \* dim_allowlist_dict, as the server has it in memory
  seen,        \* the key values of the minute being rolled up, per column
  pc,          \* per sync: its phase; the next three are its locals
  reg,         \* the registry it loaded
  todo,        \* top-K dimensions it has still to compute
  hand,        \* what compute_top_k returned, not yet written
  promised,    \* history: the values a completed sync has reported as written
  inserts,     \* history: how often values of a dimension have been written
  syncs, crashes   \* history: for the bounds

table == <<allowlist, dict>>
locals == <<pc, reg, todo, hand>>
history == <<promised, inserts, syncs, crashes>>
vars == <<registry, recent, table, seen, locals, history>>

TypeOK ==
  /\ registry \in Registries
  /\ recent \in [Volumes -> [Values -> 0 .. MaxCount]]
  /\ allowlist \in [Dims -> SUBSET Values]
  /\ dict \in [Dims -> SUBSET Values]
  /\ seen \in [Columns -> SUBSET (Values \union {Other, Absent})]
  /\ pc \in [Syncers -> {"idle", "static", "top_k", "insert"}]
  /\ reg \in [Syncers -> Registries]
  /\ todo \in [Syncers -> SUBSET Dims]
  /\ hand \in [Syncers -> [Dims -> SUBSET Values]]
  /\ promised \in [Dims -> SUBSET Values]
  /\ inserts \in [Dims -> Nat]
  /\ syncs \in 0 .. MaxSyncs
  /\ crashes \in 0 .. MaxCrashes

-----------------------------------------------------------------------------
(* Spans, through the view. *)

\* Mutant of Key: a missing value is counted under itself.
KeyKeepsEmpty(d, v) == IF v \in dict[d] \/ v = Empty THEN v ELSE Other

\* multiIf(column = '', none, dictHas(...), column, other)
Key(d, v) ==
  IF v = Empty THEN Absent ELSE IF v \in dict[d] THEN v ELSE Other

Spans == [Columns -> Values \union {Empty}]

\* A span reaches spans_raw and, in the same insert, the rollup's view.
Land(span) ==
  /\ seen' = [d \in Columns |-> seen[d] \union {Key(d, span[d])}]
  /\ recent' = [d \in Volumes |-> [v \in Values |->
       IF v = span[d] /\ recent[d][v] < MaxCount THEN recent[d][v] + 1
                                                 ELSE recent[d][v]]]
  /\ UNCHANGED <<registry, table, locals, history>>

\* A span leaves the window compute_top_k looks at.
Age(d, v) ==
  /\ recent[d][v] > 0
  /\ recent' = [recent EXCEPT ![d][v] = @ - 1]
  /\ UNCHANGED <<registry, table, seen, locals, history>>

NextMinute ==
  /\ seen' = [d \in Columns |-> {}]
  /\ UNCHANGED <<registry, recent, table, locals, history>>

-----------------------------------------------------------------------------
(* sync. *)

Sources(g, source) == {d \in DOMAIN g : g[d].source = source}

Stop(s) ==
  /\ pc' = [pc EXCEPT ![s] = "idle"]
  /\ todo' = [todo EXCEPT ![s] = {}]
  /\ hand' = [hand EXCEPT ![s] = [d \in Dims |-> {}]]
  /\ UNCHANGED reg

\* Mutant of Begin: the registry is not validated.
BeginUnchecked(s) ==
  /\ pc[s] = "idle"
  /\ syncs < MaxSyncs
  /\ syncs' = syncs + 1
  /\ reg' = [reg EXCEPT ![s] = registry]
  /\ todo' = [todo EXCEPT ![s] = Sources(registry, "top_k")]
  /\ pc' = [pc EXCEPT ![s] = "static"]
  /\ UNCHANGED <<registry, recent, table, seen, hand, promised, inserts, crashes>>

\* load_registry and validate_columns: a column spans_1m does not have raises
\* here, before the first insert.  A column it has and does not group by passes.
Begin(s) ==
  /\ pc[s] = "idle"
  /\ DOMAIN registry \subseteq Stored
  /\ syncs < MaxSyncs
  /\ syncs' = syncs + 1
  /\ reg' = [reg EXCEPT ![s] = registry]
  /\ todo' = [todo EXCEPT ![s] = Sources(registry, "top_k")]
  /\ pc' = [pc EXCEPT ![s] = "static"]
  /\ UNCHANGED <<registry, recent, table, seen, hand, promised, inserts, crashes>>

\* An insert only ever adds: ReplacingMergeTree by (dimension, value).
Insert(add) == allowlist' = [d \in Dims |-> allowlist[d] \union add[d]]

Count(dims) == inserts' = [d \in Dims |-> inserts[d] + (IF d \in dims THEN 1 ELSE 0)]

SyncStatic(s) ==
  /\ pc[s] = "static"
  /\ LET static == Sources(reg[s], "static") IN
       /\ Insert([d \in Dims |-> IF d \in static THEN reg[s][d].values ELSE {}])
       /\ Count(static)
  /\ pc' = [pc EXCEPT ![s] = "top_k"]
  /\ UNCHANGED <<registry, recent, dict, seen, reg, todo, hand, promised, syncs, crashes>>

\* GROUP BY value ORDER BY count() DESC LIMIT k: ties are cut arbitrarily.
IsTopK(S, d, k) ==
  /\ S \subseteq {v \in Values : recent[d][v] > 0}
  /\ Cardinality(S) <= k
  /\ \A v \in Values \ S :
       recent[d][v] > 0 =>
         Cardinality(S) = k /\ \A w \in S : recent[d][v] <= recent[d][w]

ComputeTopK(s, d) ==
  /\ pc[s] = "top_k"
  /\ d \in todo[s] \intersect Columns
  /\ \E S \in SUBSET Values :
       /\ IsTopK(S, d, reg[s][d].budget)
       /\ hand' = [hand EXCEPT ![s][d] = S]
  /\ todo' = [todo EXCEPT ![s] = @ \ {d}]
  /\ pc' = [pc EXCEPT ![s] = "insert"]
  /\ UNCHANGED <<registry, recent, table, seen, reg, history>>

\* The other columns of spans_1m hold aggregates: spans_raw has no column of
\* that name, or one the query cannot compare with ''.  What the sync has
\* inserted so far stays, and the dictionary is not reloaded.
TopKRaises(s) ==
  /\ pc[s] = "top_k"
  /\ todo[s] \ Columns # {}
  /\ Stop(s)
  /\ UNCHANGED <<registry, recent, table, seen, history>>

InsertTopK(s) ==
  /\ pc[s] = "insert"
  /\ Insert(hand[s])
  /\ Count({d \in Dims : hand[s][d] # {}})
  /\ hand' = [hand EXCEPT ![s] = [d \in Dims |-> {}]]
  /\ pc' = [pc EXCEPT ![s] = "top_k"]
  /\ UNCHANGED <<registry, recent, dict, seen, reg, todo, promised, syncs, crashes>>

\* Mutant of Reload: the dictionary is left to its LIFETIME.
ReloadSkipped(s) ==
  /\ pc[s] = "top_k"
  /\ todo[s] = {}
  /\ promised' = allowlist
  /\ Stop(s)
  /\ UNCHANGED <<registry, recent, table, seen, inserts, syncs, crashes>>

\* SYSTEM RELOAD DICTIONARY, after which sync returns what it has written.
Reload(s) ==
  /\ pc[s] = "top_k"
  /\ todo[s] = {}
  /\ dict' = allowlist
  /\ promised' = allowlist
  /\ Stop(s)
  /\ UNCHANGED <<registry, recent, allowlist, seen, inserts, syncs, crashes>>

\* The process is killed, or one of its requests raises.
Crash(s) ==
  /\ pc[s] # "idle"
  /\ crashes < MaxCrashes
  /\ crashes' = crashes + 1
  /\ Stop(s)
  /\ UNCHANGED <<registry, recent, table, seen, promised, inserts, syncs>>

-----------------------------------------------------------------------------
\* Mutant of Refresh: LIFETIME(0), no automatic refresh.
RefreshNever ==
  /\ dict # dict
  /\ dict' = allowlist
  /\ UNCHANGED <<registry, recent, allowlist, seen, locals, history>>

\* LIFETIME(MIN 60 MAX 120): the server reloads the dictionary by itself.
Refresh ==
  /\ dict # allowlist
  /\ dict' = allowlist
  /\ UNCHANGED <<registry, recent, allowlist, seen, locals, history>>

EditRegistry(g) ==
  /\ g # registry
  /\ registry' = g
  /\ UNCHANGED <<recent, table, seen, locals, history>>

Init ==
  /\ registry \in Registries
  /\ recent = [d \in Volumes |-> [v \in Values |-> 0]]
  /\ allowlist = [d \in Dims |-> {}]
  /\ dict = [d \in Dims |-> {}]
  /\ seen = [d \in Columns |-> {}]
  /\ pc = [s \in Syncers |-> "idle"]
  /\ reg = [s \in Syncers |-> registry]
  /\ todo = [s \in Syncers |-> {}]
  /\ hand = [s \in Syncers |-> [d \in Dims |-> {}]]
  /\ promised = [d \in Dims |-> {}]
  /\ inserts = [d \in Dims |-> 0]
  /\ syncs = 0
  /\ crashes = 0

Sync(s) ==
  SyncStatic(s) \/ (\E d \in Dims : ComputeTopK(s, d)) \/ TopKRaises(s)
    \/ InsertTopK(s) \/ Reload(s)

Traffic ==
  \/ \E span \in Spans : Land(span)
  \/ \E d \in Volumes, v \in Values : Age(d, v)
  \/ NextMinute

Next ==
  \/ \E s \in Syncers : Begin(s) \/ Sync(s) \/ Crash(s)
  \/ Traffic
  \/ Refresh
  \/ \E g \in Registries : EditRegistry(g)

Spec == Init /\ [][Next]_vars

\* The server's own refresh is the only step that is sure to happen.
FairSpec == Spec /\ WF_vars(Refresh)
-----------------------------------------------------------------------------
(* What the guard promises. *)

\* A span lands in __other__ only with a value that no completed sync has
\* written: a registered value is never reported as a shadow deployment, and a
\* span without the dimension is no finding at all, whatever syncs run, crash
\* or overlap meanwhile (110_mv_spans_1m_v2.sql:14-17, guard.py:160-167).
OtherMeansUnregistered ==
  [][\A span \in Spans : Land(span) =>
       \A d \in Columns :
         Other \in seen'[d] \ seen[d] => span[d] \notin promised[d] \union {Empty}]_vars

\* What the registry claims (registry.py:7-13, guard.py:14-16): however the
\* traffic changes, a minute holds at most the budget's values of a dimension and
\* the two sentinels.  A top-K sync only adds, so the values it computed last
\* time stay beside the new ones and the second sync already breaks the bound.
WithinBudget ==
  \A d \in Columns \intersect DOMAIN registry : Cardinality(seen[d]) <= registry[d].budget + 2

\* No revision of the registry gives the dimension a larger budget.
Dominates(k, d) == \A g \in Registries : d \in DOMAIN g => g[d].budget <= k

\* The bound the code does keep: one budget per write of the dimension, and the
\* sentinels.  It is the claimed one only until the second write (sync_top_k).
BudgetPerSync ==
  \A d \in Columns :
    \A k \in {0} \union {g[d].budget : g \in {h \in Registries : d \in DOMAIN h}} :
      Dominates(k, d) => Cardinality(seen[d]) <= inserts[d] * k + 2

\* A registry that names a column spans_1m does not have leaves no trace
\* (Registry.validate_columns).
NoOrphanDimension == \A d \in Dims \ Stored : allowlist[d] = {}

\* What syncs have written reaches the view in the end, though they were cut short
\* before their reload (060_dim_allowlist.sql:26-28).
EventuallyVisible == []<>(\A d \in Columns : allowlist[d] \subseteq dict[d])
=============================================================================
