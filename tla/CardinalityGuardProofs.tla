----------------------- MODULE CardinalityGuardProofs -----------------------
(***************************************************************************)
(* Proofs about CardinalityGuard, for every set of registries and values,  *)
(* and any number of syncs that overlap or are cut short.                  *)
(***************************************************************************)
EXTENDS CardinalityGuard, FiniteSetTheorems, TLAPS

-----------------------------------------------------------------------------
(***************************************************************************)
(* Types: a sync only ever writes values into dimensions of a registry,    *)
(* and a rollup key is a value or one of the two sentinels (guard.py).     *)
(***************************************************************************)
THEOREM GuardTypeCorrect == Spec => []TypeOK
<1>0. /\ \A g \in Registries : \A d \in DOMAIN g : d \in Dims /\ g[d].values \in SUBSET Values
      /\ MaxCount \in Nat /\ MaxSyncs \in Nat /\ MaxCrashes \in Nat
      /\ Volumes \subseteq Columns /\ Columns \subseteq Dims /\ Stored \subseteq Dims
  BY CardinalityGuardAssumption DEF Dimension, Volumes
<1>1. Init => TypeOK
  BY <1>0 DEF Init, TypeOK
<1>2. TypeOK /\ [Next]_vars => TypeOK'
  <2> SUFFICES ASSUME TypeOK, [Next]_vars
               PROVE  TypeOK'
    OBVIOUS
  <2> USE <1>0 DEF TypeOK, table, locals, history
  <2>1. ASSUME NEW s \in Syncers, Begin(s)
        PROVE  TypeOK'
    <3>1. Sources(registry, "top_k") \in SUBSET Dims
      BY DEF Sources
    <3>2. QED
      BY <2>1, <3>1 DEF Begin
  <2>2. ASSUME NEW s \in Syncers, SyncStatic(s)
        PROVE  TypeOK'
    <3>1. allowlist' \in [Dims -> SUBSET Values]
      BY <2>2 DEF SyncStatic, Insert, Sources
    <3>2. inserts' \in [Dims -> Nat]
      BY <2>2 DEF SyncStatic, Count
    <3>3. QED
      BY <2>2, <3>1, <3>2 DEF SyncStatic
  <2>3. ASSUME NEW s \in Syncers, NEW d \in Dims, ComputeTopK(s, d)
        PROVE  TypeOK'
    <3>1. PICK S \in SUBSET Values : hand' = [hand EXCEPT ![s][d] = S]
      BY <2>3 DEF ComputeTopK
    <3>2. hand' \in [Syncers -> [Dims -> SUBSET Values]]
      BY <3>1
    <3>3. QED
      BY <2>3, <3>2 DEF ComputeTopK
  <2>4. ASSUME NEW s \in Syncers, InsertTopK(s)
        PROVE  TypeOK'
    <3>1. allowlist' \in [Dims -> SUBSET Values] /\ inserts' \in [Dims -> Nat]
      BY <2>4 DEF InsertTopK, Insert, Count
    <3>2. QED
      BY <2>4, <3>1 DEF InsertTopK
  <2>5. ASSUME NEW s \in Syncers, Reload(s)
        PROVE  TypeOK'
    BY <2>5 DEF Reload, Stop
  <2>6. ASSUME NEW s \in Syncers, Crash(s)
        PROVE  TypeOK'
    BY <2>6 DEF Crash, Stop
  <2>14. ASSUME NEW s \in Syncers, TopKRaises(s)
         PROVE  TypeOK'
    BY <2>14 DEF TopKRaises, Stop
  <2>7. ASSUME NEW span \in Spans, Land(span)
        PROVE  TypeOK'
    <3>1. \A d \in Columns : Key(d, span[d]) \in Values \union {Other, Absent}
      BY DEF Spans, Key
    <3>2. seen' \in [Columns -> SUBSET (Values \union {Other, Absent})]
      BY <2>7, <3>1 DEF Land
    <3>3. \A d \in Volumes : \A v \in Values : recent[d][v] \in 0 .. MaxCount
      OBVIOUS
    <3>4. recent' \in [Volumes -> [Values -> 0 .. MaxCount]]
      BY <2>7, <3>3 DEF Land
    <3>5. QED
      BY <2>7, <3>2, <3>4 DEF Land
  <2>8. ASSUME NEW d \in Volumes, NEW v \in Values, Age(d, v)
        PROVE  TypeOK'
    <3>1. recent[d][v] \in 0 .. MaxCount /\ recent[d][v] > 0
      BY <2>8 DEF Age
    <3>2. recent[d][v] - 1 \in 0 .. MaxCount
      BY <3>1
    <3>3. recent' \in [Volumes -> [Values -> 0 .. MaxCount]]
      BY <2>8, <3>2 DEF Age
    <3>4. QED
      BY <2>8, <3>3 DEF Age
  <2>9. CASE NextMinute
    BY <2>9 DEF NextMinute
  <2>10. CASE Refresh
    BY <2>10 DEF Refresh
  <2>11. ASSUME NEW g \in Registries, EditRegistry(g)
         PROVE  TypeOK'
    BY <2>11 DEF EditRegistry
  <2>12. CASE UNCHANGED vars
    BY <2>12 DEF vars
  <2>13. QED
    BY <2>1, <2>2, <2>3, <2>4, <2>5, <2>6, <2>7, <2>8, <2>9, <2>10, <2>11, <2>12, <2>14
       DEF Next, Sync, Traffic
<1>3. QED
  BY <1>1, <1>2, PTL DEF Spec

-----------------------------------------------------------------------------
(***************************************************************************)
(* What a sync has reported as written is in the table and in the          *)
(* dictionary from then on: nothing is ever deleted, and the dictionary is *)
(* only ever replaced by the table (sync).                                 *)
(***************************************************************************)
Visible == \A d \in Dims : promised[d] \subseteq dict[d] /\ dict[d] \subseteq allowlist[d]

(***************************************************************************)
(* No step takes a value out of the table, or puts one into the dictionary *)
(* that the table does not have (sync).                                    *)
(***************************************************************************)
LEMMA VisibleStep == TypeOK /\ Visible /\ [Next]_vars => Visible'
<1> SUFFICES ASSUME TypeOK, Visible, [Next]_vars
             PROVE  Visible'
  OBVIOUS
<1>1. ASSUME NEW add, Insert(add), dict' = dict, promised' = promised
      PROVE  Visible'
  BY <1>1 DEF Visible, Insert
<1>2. ASSUME dict' = allowlist, allowlist' = allowlist,
             promised' = promised \/ promised' = allowlist
      PROVE  Visible'
  BY <1>2 DEF Visible
<1>3. ASSUME UNCHANGED <<allowlist, dict, promised>>
      PROVE  Visible'
  BY <1>3 DEF Visible
<1>4. QED
  BY <1>1, <1>2, <1>3
     DEF Next, Sync, Traffic, Begin, SyncStatic, ComputeTopK, TopKRaises, InsertTopK, Reload, Crash,
         Land, Age, NextMinute, Refresh, EditRegistry, vars, table, history

(***************************************************************************)
(* Whoever syncs, crashes or overlaps, a span is counted under __other__   *)
(* only for a value no completed sync has written, and never for a missing *)
(* one (110_mv_spans_1m_v2.sql:14-17).                                     *)
(***************************************************************************)
THEOREM OtherMeansUnregisteredHolds == Spec => OtherMeansUnregistered
<1>1. Init => Visible
  BY DEF Init, Visible
<1>2. TypeOK /\ Visible /\ [Next]_vars =>
        [\A span \in Spans : Land(span) =>
           \A d \in Columns :
             Other \in seen'[d] \ seen[d] => span[d] \notin promised[d] \union {Empty}]_vars
  <2> SUFFICES ASSUME TypeOK, Visible, NEW span \in Spans, Land(span), NEW d \in Columns,
                      Other \in seen'[d] \ seen[d]
               PROVE  span[d] \notin promised[d] \union {Empty}
    OBVIOUS
  <2>1. Key(d, span[d]) = Other
    BY DEF Land
  <2>2. Absent # Other
    BY DEF Absent, Other
  <2>3. span[d] \in Values \union {Empty} /\ Other \notin Values
    BY CardinalityGuardAssumption DEF Spans
  <2>4. span[d] # Empty /\ span[d] \notin dict[d]
    BY <2>1, <2>2, <2>3 DEF Key
  <2>5. promised[d] \subseteq dict[d]
    BY CardinalityGuardAssumption DEF Visible
  <2>6. QED
    BY <2>4, <2>5
<1>3. QED
  BY <1>1, <1>2, VisibleStep, GuardTypeCorrect, PTL DEF Spec, OtherMeansUnregistered

-----------------------------------------------------------------------------
\* A sync under way works from a registry that was validated when it began.
ValidRegistry ==
  \A s \in Syncers :
    /\ pc[s] # "idle" => DOMAIN reg[s] \subseteq Stored
    /\ todo[s] \subseteq Stored
    /\ \A d \in Dims \ Stored : hand[s][d] = {}

(***************************************************************************)
(* A registry that names a column spans_1m does not have is refused before *)
(* the first insert, however often the file changes during a sync          *)
(* (Registry.validate_columns, sync).                                      *)
(***************************************************************************)
THEOREM NoOrphanDimensionHolds == Spec => []NoOrphanDimension
<1> DEFINE Inv == ValidRegistry /\ NoOrphanDimension
<1>1. Init => Inv
  BY DEF Init, ValidRegistry, NoOrphanDimension
<1>2. TypeOK /\ Inv /\ [Next]_vars => Inv'
  <2> SUFFICES ASSUME TypeOK, Inv, [Next]_vars
               PROVE  Inv'
    OBVIOUS
  <2> USE DEF ValidRegistry, NoOrphanDimension, TypeOK
  <2>1. ASSUME NEW s \in Syncers, Begin(s)
        PROVE  Inv'
    <3>1. Sources(registry, "top_k") \subseteq Stored
      BY <2>1 DEF Begin, Sources
    <3>2. QED
      BY <2>1, <3>1 DEF Begin, table
  <2>2. ASSUME NEW s \in Syncers, SyncStatic(s)
        PROVE  Inv'
    <3>1. DOMAIN reg[s] \subseteq Stored
      BY <2>2 DEF SyncStatic
    <3>2. \A d \in Dims \ Stored : d \notin Sources(reg[s], "static")
      BY <3>1 DEF Sources
    <3>3. NoOrphanDimension'
      BY <2>2, <3>2 DEF SyncStatic, Insert
    <3>4. ValidRegistry'
      BY <2>2 DEF SyncStatic
    <3>5. QED
      BY <3>3, <3>4
  <2>3. ASSUME NEW s \in Syncers, NEW d \in Dims, ComputeTopK(s, d)
        PROVE  Inv'
    <3>1. PICK S \in SUBSET Values : hand' = [hand EXCEPT ![s][d] = S]
      BY <2>3 DEF ComputeTopK
    <3>2. d \in Stored
      BY <2>3 DEF ComputeTopK
    <3>3. \A q \in Syncers : \A e \in Dims \ Stored : hand'[q][e] = {}
      BY <3>1, <3>2
    <3>4. QED
      BY <2>3, <3>3 DEF ComputeTopK, table
  <2>4. ASSUME NEW s \in Syncers, InsertTopK(s)
        PROVE  Inv'
    <3>1. NoOrphanDimension'
      BY <2>4 DEF InsertTopK, Insert
    <3>2. ValidRegistry'
      BY <2>4 DEF InsertTopK
    <3>3. QED
      BY <3>1, <3>2
  <2>5. ASSUME NEW s \in Syncers, Reload(s) \/ Crash(s) \/ TopKRaises(s)
        PROVE  Inv'
    BY <2>5 DEF Reload, Crash, TopKRaises, Stop, table
  <2>6. CASE Traffic \/ Refresh \/ (\E g \in Registries : EditRegistry(g)) \/ UNCHANGED vars
    BY <2>6 DEF Traffic, Land, Age, NextMinute, Refresh, EditRegistry, vars, table, locals
  <2>7. QED
    BY <2>1, <2>2, <2>3, <2>4, <2>5, <2>6 DEF Next, Sync
<1>3. QED
  BY <1>1, <1>2, GuardTypeCorrect, PTL DEF Spec

-----------------------------------------------------------------------------
(***************************************************************************)
(* One write adds at most a budget's worth of values, and one to the count *)
(* of writes (sync_static, sync_top_k).                                    *)
(***************************************************************************)
LEMMA OneBudgetPerWrite ==
  ASSUME NEW S \in SUBSET Values, NEW T \in SUBSET Values, NEW k \in Nat, NEW n \in Nat,
         Cardinality(S) <= n * k, Cardinality(T) <= k
  PROVE  Cardinality(S \union T) <= (n + 1) * k
<1>1. IsFiniteSet(S) /\ IsFiniteSet(T)
  BY FS_Subset, CardinalityGuardAssumption
<1>2. Cardinality(S) \in Nat /\ Cardinality(T) \in Nat /\ Cardinality(S \intersect T) \in Nat
  BY <1>1, FS_CardinalityType, FS_Intersection
<1>3. Cardinality(S \union T) = Cardinality(S) + Cardinality(T) - Cardinality(S \intersect T)
  BY <1>1, FS_Union
<1>4. (n + 1) * k = n * k + k /\ n * k \in Nat
  OBVIOUS
<1>5. QED
  BY <1>2, <1>3, <1>4

(***************************************************************************)
(* The keys that are not values are two (registry.py NONE and OTHER).      *)
(***************************************************************************)
LEMMA SentinelPair == IsFiniteSet({Other, Absent}) /\ Cardinality({Other, Absent}) <= 2
<1>1. IsFiniteSet({Other}) /\ Cardinality({Other}) = 1
  BY FS_Singleton
<1>2. {Other, Absent} = {Other} \union {Absent}
  OBVIOUS
<1>3. /\ IsFiniteSet({Other} \union {Absent})
      /\ Cardinality({Other} \union {Absent}) = IF Absent \in {Other} THEN 1 ELSE 2
  BY <1>1, FS_AddElement
<1>4. QED
  BY <1>2, <1>3

(***************************************************************************)
(* The two sentinels add two key values (Dimension.max_distinct).          *)
(***************************************************************************)
LEMMA TwoSentinels ==
  ASSUME NEW S \in SUBSET Values, NEW K \in SUBSET (S \union {Other, Absent})
  PROVE  Cardinality(K) <= Cardinality(S) + 2
<1>1. IsFiniteSet(S)
  BY FS_Subset, CardinalityGuardAssumption
<1>2. IsFiniteSet({Other, Absent}) /\ Cardinality({Other, Absent}) <= 2
  BY SentinelPair
<1>3. IsFiniteSet(S \union {Other, Absent})
  BY <1>1, <1>2, FS_Union
<1>4. Cardinality(S \union {Other, Absent})
        = Cardinality(S) + Cardinality({Other, Absent}) - Cardinality(S \intersect {Other, Absent})
  BY <1>1, <1>2, FS_Union
<1>5. Cardinality(K) <= Cardinality(S \union {Other, Absent})
  BY <1>3, FS_Subset
<1>6. /\ Cardinality(S) \in Nat /\ Cardinality({Other, Absent}) \in Nat
      /\ Cardinality(S \intersect {Other, Absent}) \in Nat /\ Cardinality(K) \in Nat
  BY <1>1, <1>2, <1>3, FS_CardinalityType, FS_Intersection, FS_Subset
<1>7. QED
  BY <1>2, <1>4, <1>5, <1>6

\* The bound as it is passed on: from what syncs hold, to the table, to the keys.
Bounded ==
  /\ \A d \in Columns : seen[d] \subseteq allowlist[d] \union {Other, Absent}
  /\ \A s \in Syncers : todo[s] \subseteq DOMAIN reg[s]
  /\ \A s \in Syncers, d \in Columns, k \in Nat :
       Dominates(k, d) => Cardinality(hand[s][d]) <= k
  /\ \A d \in Columns, k \in Nat :
       Dominates(k, d) => Cardinality(allowlist[d]) <= inserts[d] * k

(***************************************************************************)
(* A minute has at most as many values of a dimension as syncs have        *)
(* written it, times its largest budget, plus two.  The documented bound,  *)
(* one budget plus two (registry.py:10), is what remains for one write.    *)
(***************************************************************************)
THEOREM BudgetPerSyncHolds == Spec => []BudgetPerSync
<1>0. Cardinality({}) = 0 /\ Columns \subseteq Dims
  BY FS_EmptySet, CardinalityGuardAssumption
<1>1. Init => Bounded /\ Visible
  BY <1>0 DEF Init, Bounded, Visible
<1>2. TypeOK /\ Visible /\ Bounded /\ [Next]_vars => Bounded'
  <2> SUFFICES ASSUME TypeOK, Visible, Bounded, [Next]_vars
               PROVE  Bounded'
    OBVIOUS
  <2>1. ASSUME NEW s \in Syncers, Begin(s)
        PROVE  Bounded'
    <3>1. /\ reg' = [reg EXCEPT ![s] = registry]
          /\ todo' = [todo EXCEPT ![s] = Sources(registry, "top_k")]
          /\ UNCHANGED <<allowlist, seen, hand, inserts>>
      BY <2>1 DEF Begin, table
    <3>2. \A q \in Syncers : todo'[q] \subseteq DOMAIN reg'[q]
      BY <3>1 DEF Bounded, TypeOK, Sources
    <3>3. QED
      BY <3>1, <3>2 DEF Bounded
  \* A write of at most a budget's worth of values of each dimension counted.
  <2>2. ASSUME NEW add \in [Dims -> SUBSET Values], NEW dims \in SUBSET Dims, Insert(add), Count(dims),
               \A d \in Columns : d \notin dims => add[d] = {},
               \A d \in Columns, k \in Nat :
                 d \in dims /\ Dominates(k, d) => Cardinality(add[d]) <= k
        PROVE  /\ \A d \in Columns : allowlist[d] \subseteq allowlist'[d]
               /\ \A d \in Columns, k \in Nat :
                    Dominates(k, d) => Cardinality(allowlist'[d]) <= inserts'[d] * k
    <3> SUFFICES ASSUME NEW d \in Columns
                 PROVE  /\ allowlist[d] \subseteq allowlist'[d]
                        /\ \A k \in Nat :
                             Dominates(k, d) => Cardinality(allowlist'[d]) <= inserts'[d] * k
      OBVIOUS
    <3>1. /\ allowlist'[d] = allowlist[d] \union add[d]
          /\ inserts'[d] = inserts[d] + (IF d \in dims THEN 1 ELSE 0)
          /\ inserts[d] \in Nat /\ allowlist[d] \in SUBSET Values /\ add[d] \in SUBSET Values
      BY <1>0, <2>2 DEF Insert, Count, TypeOK
    <3>2. ASSUME NEW k \in Nat, Dominates(k, d)
          PROVE  Cardinality(allowlist'[d]) <= inserts'[d] * k
      <4>1. Cardinality(allowlist[d]) <= inserts[d] * k
        BY <3>2 DEF Bounded
      <4>2. CASE d \in dims
        <5>1. Cardinality(add[d]) <= k
          BY <2>2, <3>2, <4>2
        <5>2. inserts'[d] = inserts[d] + 1
          BY <3>1, <4>2
        <5>3. QED
          BY <3>1, <4>1, <5>1, <5>2, OneBudgetPerWrite
      <4>3. CASE d \notin dims
        <5>1. allowlist'[d] = allowlist[d]
          BY <2>2, <3>1, <4>3
        <5>2. inserts'[d] = inserts[d]
          BY <3>1, <4>3
        <5>3. QED
          BY <4>1, <5>1, <5>2
      <4>4. QED
        BY <4>2, <4>3
    <3>3. QED
      BY <3>1, <3>2
  <2>3. ASSUME NEW s \in Syncers, SyncStatic(s)
        PROVE  Bounded'
    <3> DEFINE static == Sources(reg[s], "static")
               add == [d \in Dims |-> IF d \in static THEN reg[s][d].values ELSE {}]
    <3>1. Insert(add) /\ Count(static) /\ UNCHANGED <<seen, reg, todo, hand>>
      BY <2>3 DEF SyncStatic
    <3>2. reg[s] \in Registries /\ static \in SUBSET Dims
      BY CardinalityGuardAssumption DEF TypeOK, Sources
    <3>3. add \in [Dims -> SUBSET Values]
      BY <3>2, CardinalityGuardAssumption DEF Sources, Dimension
    <3>4. \A d \in Columns, k \in Nat :
            d \in static /\ Dominates(k, d) => Cardinality(add[d]) <= k
      <4> SUFFICES ASSUME NEW d \in Columns, NEW k \in Nat, d \in static, Dominates(k, d)
                   PROVE  Cardinality(add[d]) <= k
        OBVIOUS
      <4>1. /\ d \in DOMAIN reg[s] /\ add[d] = reg[s][d].values /\ reg[s][d].budget <= k
            /\ Cardinality(reg[s][d].values) <= reg[s][d].budget
            /\ reg[s][d].budget \in Nat /\ reg[s][d].values \in SUBSET Values
        BY <1>0, <3>2, CardinalityGuardAssumption DEF Sources, Dominates, Dimension
      <4>2. Cardinality(reg[s][d].values) \in Nat
        BY <4>1, FS_Subset, FS_CardinalityType, CardinalityGuardAssumption
      <4>3. QED
        BY <4>1, <4>2
    <3>5. \A d \in Columns : d \notin static => add[d] = {}
      BY <1>0
    <3> HIDE DEF add, static
    <3>6. /\ \A d \in Columns : allowlist[d] \subseteq allowlist'[d]
          /\ \A d \in Columns, k \in Nat :
               Dominates(k, d) => Cardinality(allowlist'[d]) <= inserts'[d] * k
      BY <2>2, <3>1, <3>2, <3>3, <3>4, <3>5
    <3>7. QED
      BY <3>1, <3>6 DEF Bounded
  <2>4. ASSUME NEW s \in Syncers, NEW d \in Dims, ComputeTopK(s, d)
        PROVE  Bounded'
    <3>1. PICK S \in SUBSET Values :
            IsTopK(S, d, reg[s][d].budget) /\ hand' = [hand EXCEPT ![s][d] = S]
      BY <2>4 DEF ComputeTopK
    <3>2. reg[s] \in Registries /\ d \in DOMAIN reg[s] /\ todo' = [todo EXCEPT ![s] = @ \ {d}]
      BY <2>4 DEF ComputeTopK, TypeOK, Bounded
    <3>3. UNCHANGED <<allowlist, seen, reg, inserts>>
      BY <2>4 DEF ComputeTopK, table, history
    <3>4. \A k \in Nat : Dominates(k, d) => Cardinality(S) <= k
      <4> SUFFICES ASSUME NEW k \in Nat, Dominates(k, d)
                   PROVE  Cardinality(S) <= k
        OBVIOUS
      <4>1. Cardinality(S) <= reg[s][d].budget /\ reg[s][d].budget <= k
        BY <3>1, <3>2 DEF IsTopK, Dominates
      <4>2. Cardinality(S) \in Nat /\ reg[s][d].budget \in Nat
        BY <3>2, FS_Subset, FS_CardinalityType, CardinalityGuardAssumption DEF Dimension
      <4>3. QED
        BY <4>1, <4>2
    <3>5. \A q \in Syncers, e \in Columns, k \in Nat :
            Dominates(k, e) => Cardinality(hand'[q][e]) <= k
      BY <1>0, <3>1, <3>4 DEF Bounded, TypeOK
    <3>6. \A q \in Syncers : todo'[q] \subseteq DOMAIN reg[q]
      BY <3>2 DEF Bounded, TypeOK
    <3>7. QED
      BY <3>3, <3>5, <3>6 DEF Bounded
  <2>5. ASSUME NEW s \in Syncers, InsertTopK(s)
        PROVE  Bounded'
    <3> DEFINE dims == {d \in Dims : hand[s][d] # {}}
    <3>1. /\ Insert(hand[s]) /\ Count(dims) /\ UNCHANGED <<seen, reg, todo>>
          /\ hand' = [hand EXCEPT ![s] = [d \in Dims |-> {}]]
      BY <2>5 DEF InsertTopK
    <3>2. hand[s] \in [Dims -> SUBSET Values]
      BY DEF TypeOK
    <3>3. /\ \A d \in Columns : d \notin dims => hand[s][d] = {}
          /\ \A d \in Columns, k \in Nat :
               d \in dims /\ Dominates(k, d) => Cardinality(hand[s][d]) <= k
      BY <1>0 DEF Bounded
    <3>4. dims \in SUBSET Dims
      OBVIOUS
    <3> HIDE DEF dims
    <3>5. /\ \A d \in Columns : allowlist[d] \subseteq allowlist'[d]
          /\ \A d \in Columns, k \in Nat :
               Dominates(k, d) => Cardinality(allowlist'[d]) <= inserts'[d] * k
      BY <2>2, <3>1, <3>2, <3>3, <3>4
    <3>6. \A q \in Syncers, e \in Columns, k \in Nat :
            Dominates(k, e) => Cardinality(hand'[q][e]) <= k
      BY <1>0, <3>1 DEF Bounded, TypeOK
    <3>7. QED
      BY <3>1, <3>5, <3>6 DEF Bounded
  <2>6. ASSUME NEW s \in Syncers, Reload(s) \/ Crash(s) \/ TopKRaises(s)
        PROVE  Bounded'
    <3>1. Stop(s) /\ UNCHANGED <<allowlist, seen, inserts>>
      BY <2>6 DEF Reload, Crash, TopKRaises, table, history
    <3>2. \A q \in Syncers, e \in Columns, k \in Nat :
            Dominates(k, e) => Cardinality(hand'[q][e]) <= k
      BY <1>0, <3>1 DEF Stop, Bounded, TypeOK
    <3>3. \A q \in Syncers : todo'[q] \subseteq DOMAIN reg'[q]
      BY <3>1 DEF Stop, Bounded, TypeOK
    <3>4. QED
      BY <3>1, <3>2, <3>3 DEF Bounded
  <2>7. ASSUME NEW span \in Spans, Land(span)
        PROVE  Bounded'
    <3>1. UNCHANGED <<allowlist, reg, todo, hand, inserts>>
      BY <2>7 DEF Land, table, locals, history
    <3>2. \A d \in Columns : Key(d, span[d]) \in allowlist[d] \union {Other, Absent}
      BY <1>0 DEF Key, Visible
    <3>3. \A d \in Columns : seen'[d] \subseteq allowlist[d] \union {Other, Absent}
      BY <2>7, <3>2 DEF Land, Bounded
    <3>4. QED
      BY <3>1, <3>3 DEF Bounded
  <2>8. CASE NextMinute
    BY <2>8 DEF NextMinute, table, locals, history, Bounded
  <2>9. ASSUME UNCHANGED <<allowlist, seen, reg, todo, hand, inserts>>
        PROVE  Bounded'
    BY <2>9 DEF Bounded
  <2>10. QED
    BY <2>1, <2>3, <2>4, <2>5, <2>6, <2>7, <2>8, <2>9
       DEF Next, Sync, Traffic, Age, Refresh, EditRegistry, vars, table, locals, history
<1>3. TypeOK /\ Bounded => BudgetPerSync
  <2> SUFFICES ASSUME TypeOK, Bounded, NEW d \in Columns,
                      NEW k \in {0} \union {g[d].budget : g \in {h \in Registries : d \in DOMAIN h}},
                      Dominates(k, d)
               PROVE  Cardinality(seen[d]) <= inserts[d] * k + 2
    BY DEF BudgetPerSync
  <2>1. k \in Nat
    BY CardinalityGuardAssumption DEF Dimension
  <2>2. Cardinality(allowlist[d]) <= inserts[d] * k
    BY <2>1 DEF Bounded
  <2>3. allowlist[d] \in SUBSET Values /\ inserts[d] \in Nat
    BY <1>0 DEF TypeOK
  <2>4. seen[d] \in SUBSET (allowlist[d] \union {Other, Absent})
    BY DEF Bounded
  <2>5. Cardinality(seen[d]) <= Cardinality(allowlist[d]) + 2
    BY <2>3, <2>4, TwoSentinels
  <2>6. /\ Cardinality(allowlist[d]) \in Nat /\ Cardinality(seen[d]) \in Nat
    <3>1. IsFiniteSet(allowlist[d]) /\ IsFiniteSet({Other, Absent})
      BY <2>3, FS_Subset, CardinalityGuardAssumption, SentinelPair
    <3>2. IsFiniteSet(allowlist[d] \union {Other, Absent})
      BY <3>1, FS_Union
    <3>3. IsFiniteSet(seen[d])
      BY <2>4, <3>2, FS_Subset
    <3>4. QED
      BY <3>1, <3>3, FS_CardinalityType
  <2>7. inserts[d] * k \in Nat
    BY <2>1, <2>3
  <2>8. QED
    BY <2>2, <2>5, <2>6, <2>7
<1>4. Spec => []Visible
  BY <1>1, VisibleStep, GuardTypeCorrect, PTL DEF Spec
<1>5. QED
  BY <1>1, <1>2, <1>3, <1>4, GuardTypeCorrect, PTL DEF Spec
=============================================================================
