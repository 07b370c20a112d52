--------------------------- MODULE RollupsProofs ---------------------------
(***************************************************************************)
(* Proofs about Rollups, for every set of rows, every clock and any number *)
(* of backfills, interrupted or not.                                       *)
(***************************************************************************)
EXTENDS Rollups, FiniteSetTheorems, WellFoundedInduction, TLAPS

-----------------------------------------------------------------------------
(***************************************************************************)
(* min(ts) is the timestamp of some row, and of none later than another.   *)
(***************************************************************************)
LEMMA MinFact ==
  ASSUME NEW S \in SUBSET Nat, S # {}
  PROVE  Min(S) \in S /\ \A x \in S : Min(S) <= x
<1>1. PICK m \in S : \A y \in S : <<y, m>> \notin OpToRel(<, Nat)
  BY WFMin, NatLessThanWellFounded
<1>2. \A y \in S : m <= y
  <2> TAKE y \in S
  <2>1. ~ (y < m)
    BY <1>1 DEF OpToRel
  <2>2. QED
    BY <2>1
<1>3. QED
  BY <1>2 DEF Min

(***************************************************************************)
(* Of two numbers, Min and Max are what they should be.                    *)
(***************************************************************************)
LEMMA PairFact ==
  ASSUME NEW a \in Int, NEW b \in Int
  PROVE  /\ Min({a, b}) \in Int /\ Min({a, b}) <= a /\ Min({a, b}) <= b
         /\ Min({a, b}) = a \/ Min({a, b}) = b
         /\ Max({a, b}) \in Int /\ a <= Max({a, b})
<1>1. \E x \in {a, b} : \A y \in {a, b} : x <= y
  BY a <= b \/ b <= a
<1>2. \E x \in {a, b} : \A y \in {a, b} : x >= y
  BY a <= b \/ b <= a
<1>3. Min({a, b}) \in {a, b} /\ \A y \in {a, b} : Min({a, b}) <= y
  BY <1>1 DEF Min
<1>4. Max({a, b}) \in {a, b} /\ \A y \in {a, b} : Max({a, b}) >= y
  BY <1>2 DEF Max
<1>5. QED
  BY <1>3, <1>4

(***************************************************************************)
(* What plan's first query returns.                                        *)
(***************************************************************************)
LEMMA PlanType ==
  /\ Nothing \in BackfillPlan
  /\ \A plan \in BackfillPlan : plan.rows \in Nat /\ plan.min \in Int
<1>1. Time \union {Epoch} \subseteq Int
  BY RollupsAssumption DEF Time, Epoch
<1>2. Nothing \in BackfillPlan
  BY DEF Nothing, BackfillPlan
<1>3. ASSUME NEW plan \in BackfillPlan
      PROVE  plan.rows \in Nat /\ plan.min \in Time \union {Epoch}
  BY DEF BackfillPlan
<1>4. QED
  BY <1>1, <1>2, <1>3

LEMMA EarliestFact ==
  ASSUME TypeOK, NEW S \in SUBSET Rows, S # {}
  PROVE  Earliest(S) \in Time /\ \A r \in S : Earliest(S) <= ts[r]
<1> DEFINE T == {ts[r] : r \in S}
<1>1. Time \subseteq Nat
  BY RollupsAssumption DEF Time
<1>2. \A r \in S : ts[r] \in Time
  BY DEF TypeOK
<1>3. T \in SUBSET Time /\ T \in SUBSET Nat /\ T # {}
  BY <1>1, <1>2
<1>4. Min(T) \in T /\ \A x \in T : Min(T) <= x
  BY <1>3, MinFact
<1>5. QED
  BY <1>3, <1>4 DEF Earliest

LEMMA RawType ==
  ASSUME TypeOK
  PROVE  Raw \in BackfillPlan
<1>1. Cardinality(raw) \in Nat
  BY RollupsAssumption, FS_Subset, FS_CardinalityType DEF TypeOK
<1>2. Earliest(raw) \in Time \union {Epoch}
  <2>1. CASE raw = {}
    BY <2>1 DEF Earliest
  <2>2. CASE raw # {}
    BY <2>2, EarliestFact DEF TypeOK
  <2>3. QED
    BY <2>1, <2>2
<1>3. QED
  BY <1>1, <1>2 DEF Raw, BackfillPlan

(***************************************************************************)
(* The window ends where the rollup begins: no row it counts lies before.  *)
(***************************************************************************)
LEMMA WindowEndFact ==
  ASSUME TypeOK
  PROVE  /\ WindowEnd \in Int
         /\ \A r \in Counted : WindowEnd <= ts[r]
<1>1. CASE Counted = {}
  <2>1. WindowEnd = Epoch
    BY <1>1 DEF WindowEnd
  <2>2. QED
    BY <1>1, <2>1 DEF Epoch
<1>2. CASE Counted # {}
  <2> DEFINE first == Earliest(Counted)
  <2>1. Counted \in SUBSET Rows
    BY DEF Counted
  <2>2. Time \subseteq Nat /\ Minute \in Nat \ {0}
    BY RollupsAssumption DEF Time
  <2>3. first \in Nat /\ \A r \in Counted : first <= ts[r]
    BY <1>2, <2>1, <2>2, EarliestFact
  <2>4. ToStartOfMinute(first) \in Nat /\ ToStartOfMinute(first) <= first
    <3> HIDE DEF first
    <3> QED
      BY <2>2, <2>3 DEF ToStartOfMinute
  <2>5. \A r \in Counted : ts[r] \in Nat
    BY <2>1, <2>2 DEF TypeOK
  <2>6. WindowEnd = ToStartOfMinute(first)
    BY <1>2 DEF WindowEnd
  <2>7. \A r \in Counted : ToStartOfMinute(first) <= ts[r]
    <3> HIDE DEF first
    <3> QED
      BY <2>3, <2>4, <2>5
  <2>8. QED
    BY <2>4, <2>6, <2>7
<1>3. QED
  BY <1>1, <1>2

-----------------------------------------------------------------------------
(***************************************************************************)
(* Types: a backfill under way is within a window that is not empty        *)
(* (backfill).                                                             *)
(***************************************************************************)
Locals ==
  /\ pc \in [Operators -> {"idle", "planned", "chunk"}]
  /\ before \in [Operators -> BackfillPlan]
  /\ start \in [Operators -> Int]
  /\ end \in [Operators -> Int]
  /\ cursor \in [Operators -> Int]
  /\ \A o \in Operators : pc[o] = "chunk" => start[o] <= cursor[o] /\ cursor[o] < end[o]

LEMMA StopType ==
  ASSUME Locals, NEW o \in Operators, Stop(o)
  PROVE  Locals'
<1>1. Nothing \in BackfillPlan
  BY PlanType
<1>2. before' \in [Operators -> BackfillPlan]
  BY <1>1 DEF Locals, Stop
<1>3. /\ pc' \in [Operators -> {"idle", "planned", "chunk"}]
      /\ start' \in [Operators -> Int] /\ end' \in [Operators -> Int]
      /\ cursor' \in [Operators -> Int]
  BY DEF Locals, Stop
<1>4. ASSUME NEW q \in Operators, pc'[q] = "chunk"
      PROVE  start'[q] <= cursor'[q] /\ cursor'[q] < end'[q]
  <2>1. q # o
    BY <1>4 DEF Locals, Stop
  <2>2. /\ pc'[q] = pc[q] /\ start'[q] = start[q]
        /\ end'[q] = end[q] /\ cursor'[q] = cursor[q]
    BY <2>1 DEF Locals, Stop
  <2>3. QED
    BY <1>4, <2>2 DEF Locals
<1>5. QED
  BY <1>2, <1>3, <1>4 DEF Locals

LEMMA WindowType ==
  ASSUME Locals, NEW o \in Operators, NEW s \in Int, NEW e \in Int, s < e,
         pc' = [pc EXCEPT ![o] = "chunk"], start' = [start EXCEPT ![o] = s],
         end' = [end EXCEPT ![o] = e], cursor' = [cursor EXCEPT ![o] = s],
         before' = before
  PROVE  Locals'
<1>1. /\ pc' \in [Operators -> {"idle", "planned", "chunk"}]
      /\ before' \in [Operators -> BackfillPlan]
      /\ start' \in [Operators -> Int] /\ end' \in [Operators -> Int]
      /\ cursor' \in [Operators -> Int]
  BY DEF Locals
<1>2. ASSUME NEW q \in Operators, pc'[q] = "chunk"
      PROVE  start'[q] <= cursor'[q] /\ cursor'[q] < end'[q]
  <2>1. CASE q = o
    <3>1. start'[q] = s /\ cursor'[q] = s /\ end'[q] = e
      BY <2>1 DEF Locals
    <3>2. QED
      BY <3>1
  <2>2. CASE q # o
    <3>1. /\ pc'[q] = pc[q] /\ start'[q] = start[q]
          /\ end'[q] = end[q] /\ cursor'[q] = cursor[q]
      BY <2>2 DEF Locals
    <3>2. QED
      BY <1>2, <3>1 DEF Locals
  <2>3. QED
    BY <2>1, <2>2
<1>3. QED
  BY <1>1, <1>2 DEF Locals

LEMMA AdvanceType ==
  ASSUME Locals, NEW o \in Operators, NEW c \in Int, start[o] <= c, c < end[o],
         cursor' = [cursor EXCEPT ![o] = c], UNCHANGED <<pc, before, start, end>>
  PROVE  Locals'
<1>1. cursor' \in [Operators -> Int]
  BY DEF Locals
<1>2. ASSUME NEW q \in Operators, pc'[q] = "chunk"
      PROVE  start'[q] <= cursor'[q] /\ cursor'[q] < end'[q]
  <2>1. CASE q = o
    BY <2>1 DEF Locals
  <2>2. CASE q # o
    <3>1. cursor'[q] = cursor[q]
      BY <2>2 DEF Locals
    <3>2. QED
      BY <1>2, <3>1 DEF Locals
  <2>3. QED
    BY <2>1, <2>2
<1>3. QED
  BY <1>1, <1>2 DEF Locals

(***************************************************************************)
(* A chunk moves the cursor on, and not beyond the end of the window.      *)
(***************************************************************************)
LEMMA ChunkFact ==
  ASSUME TypeOK, NEW o \in Operators, pc[o] = "chunk"
  PROVE  /\ start[o] \in Int /\ end[o] \in Int /\ cursor[o] \in Int /\ ChunkEnd(o) \in Int
         /\ start[o] <= cursor[o] /\ cursor[o] < ChunkEnd(o) /\ ChunkEnd(o) <= end[o]
<1>1. /\ start[o] \in Int /\ end[o] \in Int /\ cursor[o] \in Int
      /\ start[o] <= cursor[o] /\ cursor[o] < end[o]
  BY DEF TypeOK
<1>2. Hour \in Nat \ {0}
  BY RollupsAssumption
<1>3. DEFINE a == cursor[o] + Hour
<1>4. a \in Int /\ cursor[o] < a
  BY <1>1, <1>2
<1>5. /\ Min({a, end[o]}) \in Int /\ Min({a, end[o]}) <= end[o]
      /\ Min({a, end[o]}) = a \/ Min({a, end[o]}) = end[o]
  BY <1>1, <1>4, PairFact
<1>6. QED
  BY <1>1, <1>4, <1>5 DEF ChunkEnd

(***************************************************************************)
(* The window rollup-backfill computes.                                    *)
(***************************************************************************)
LEMMA WindowFact ==
  ASSUME TypeOK, NEW o \in Operators, NEW length \in Lengths
  PROVE  /\ WindowEnd \in Int
         /\ Max({WindowEnd - length, before[o].min}) \in Int
         /\ \A r \in Counted : WindowEnd <= ts[r]
<1>1. before[o] \in BackfillPlan
  BY DEF TypeOK
<1>2. length \in Int
  BY RollupsAssumption
<1>3. before[o].min \in Int /\ WindowEnd - length \in Int
  BY <1>1, <1>2, PlanType, WindowEndFact
<1>4. QED
  BY <1>1, <1>3, WindowEndFact, PairFact

THEOREM RollupsTypeCorrect == Spec => []TypeOK
<1>0. /\ 0 \in Time /\ Time \subseteq Nat /\ MaxTime \in Nat
      /\ MaxDrops \in Nat /\ MaxCrashes \in Nat
  BY RollupsAssumption DEF Time
<1>1. Init => TypeOK
  <2> SUFFICES ASSUME Init PROVE TypeOK
    OBVIOUS
  <2>1. ts \in [Rows -> Time] /\ rolled \in [Rows -> Nat] /\ now \in Time
    BY <1>0 DEF Init
  <2>2. before \in [Operators -> BackfillPlan]
    BY PlanType DEF Init
  <2>3. /\ pc \in [Operators -> {"idle", "planned", "chunk"}]
        /\ start \in [Operators -> Int] /\ end \in [Operators -> Int]
        /\ cursor \in [Operators -> Int]
        /\ \A o \in Operators : pc[o] # "chunk"
    BY DEF Init
  <2>4. drops \in 0 .. MaxDrops /\ crashes \in 0 .. MaxCrashes
    BY <1>0 DEF Init
  <2>5. /\ raw = {} /\ gone = {} /\ late = {} /\ asked = {}
        /\ view \in BOOLEAN /\ overlapped \in BOOLEAN
    BY DEF Init
  <2>6. QED
    BY <2>1, <2>2, <2>3, <2>4, <2>5 DEF TypeOK
<1>2. TypeOK /\ [Next]_vars => TypeOK'
  <2> SUFFICES ASSUME TypeOK, [Next]_vars
               PROVE  TypeOK'
    OBVIOUS
  <2>0. Locals
    BY DEF TypeOK, Locals
  <2>1. CASE Tick
    BY <1>0, <2>1 DEF Tick, TypeOK, Time, tables, locals, history
  <2>2. ASSUME NEW r \in Rows, NEW t \in Time, Land(r, t)
        PROVE  TypeOK'
    <3>1. rolled' \in [Rows -> Nat]
      BY <2>2 DEF Land, TypeOK
    <3>2. ts' \in [Rows -> Time] /\ raw' \in SUBSET Rows /\ late' \in SUBSET Rows
      BY <2>2 DEF Land, TypeOK
    <3>3. QED
      BY <2>2, <3>1, <3>2 DEF Land, TypeOK, locals
  <2>3. ASSUME NEW r \in Rows, Expire(r)
        PROVE  TypeOK'
    BY <2>3 DEF Expire, TypeOK, clock, locals, history
  <2>4. ASSUME NEW r \in Rows, ExpireRollup(r)
        PROVE  TypeOK'
    BY <2>4 DEF ExpireRollup, TypeOK, clock, locals, history
  <2>5. CASE CreateView
    BY <2>5 DEF CreateView, TypeOK, clock, locals, history
  <2>6. CASE DropView
    <3>1. drops' \in 0 .. MaxDrops
      BY <1>0, <2>6 DEF DropView, TypeOK
    <3>2. UNCHANGED <<now, ts, raw, gone, rolled, locals, late, overlapped, asked, crashes>>
          /\ view' \in BOOLEAN
      BY <2>6 DEF DropView, clock
    <3>3. QED
      BY <3>1, <3>2 DEF TypeOK, locals
  <2>7. ASSUME NEW o \in Operators, ReadRaw(o)
        PROVE  TypeOK'
    <3>1. before' \in [Operators -> BackfillPlan]
      BY <2>7, RawType DEF ReadRaw, TypeOK
    <3>2. pc' \in [Operators -> {"idle", "planned", "chunk"}]
      BY <2>7 DEF ReadRaw, TypeOK
    <3>3. \A q \in Operators : pc'[q] = "chunk" => pc[q] = "chunk"
      BY <2>7 DEF ReadRaw, TypeOK
    <3>4. QED
      BY <2>7, <3>1, <3>2, <3>3 DEF ReadRaw, TypeOK, clock, tables, history
  <2>8. ASSUME NEW o \in Operators, NEW length \in Lengths, ReadRollup(o, length)
        PROVE  TypeOK'
    <3> DEFINE e == WindowEnd
               s == Max({e - length, before[o].min})
    <3>1. e \in Int /\ s \in Int
      BY WindowFact
    <3>2. asked' \in SUBSET Rows /\ overlapped' \in BOOLEAN
      BY <2>8 DEF ReadRollup, TypeOK
    <3>3. Locals'
      <4>1. CASE NeedsBackfill(before[o]) /\ s < e
        <5>1. /\ pc' = [pc EXCEPT ![o] = "chunk"] /\ start' = [start EXCEPT ![o] = s]
              /\ end' = [end EXCEPT ![o] = e] /\ cursor' = [cursor EXCEPT ![o] = s]
              /\ before' = before
          BY <2>8, <4>1 DEF ReadRollup
        <5> HIDE DEF e, s
        <5>2. QED
          BY <2>0, <3>1, <4>1, <5>1, WindowType
      <4>2. CASE ~ (NeedsBackfill(before[o]) /\ s < e)
        BY <2>0, <2>8, <4>2, StopType DEF ReadRollup
      <4>3. QED
        BY <4>1, <4>2
    <3>4. UNCHANGED <<now, ts, raw, gone, rolled, view, late, drops, crashes>>
      BY <2>8 DEF ReadRollup, clock, tables
    <3>5. QED
      BY <3>2, <3>3, <3>4 DEF TypeOK, Locals
  <2>9. ASSUME NEW o \in Operators, Chunk(o)
        PROVE  TypeOK'
    <3>1. rolled' \in [Rows -> Nat]
      BY <2>9 DEF Chunk, TypeOK
    <3>2. Locals'
      <4>1. CASE ChunkEnd(o) < end[o]
        <5>1. cursor' = [cursor EXCEPT ![o] = ChunkEnd(o)] /\ UNCHANGED <<pc, before, start, end>>
          BY <2>9, <4>1 DEF Chunk
        <5>2. ChunkEnd(o) \in Int /\ start[o] <= ChunkEnd(o)
          BY <2>9, ChunkFact DEF Chunk
        <5>3. QED
          BY <2>0, <4>1, <5>1, <5>2, AdvanceType
      <4>2. CASE ~ (ChunkEnd(o) < end[o])
        BY <2>0, <2>9, <4>2, StopType DEF Chunk
      <4>3. QED
        BY <4>1, <4>2
    <3>3. UNCHANGED <<now, ts, raw, gone, view, late, overlapped, asked, drops, crashes>>
      BY <2>9 DEF Chunk, clock, history
    <3>4. QED
      BY <3>1, <3>2, <3>3 DEF TypeOK, Locals
  <2>10. ASSUME NEW o \in Operators, Crash(o)
         PROVE  TypeOK'
    <3>1. Locals'
      BY <2>0, <2>10, StopType DEF Crash
    <3>2. /\ crashes' \in 0 .. MaxCrashes
          /\ UNCHANGED <<now, ts, raw, gone, rolled, view, late, overlapped, asked, drops>>
      BY <1>0, <2>10 DEF Crash, TypeOK, clock, tables
    <3>3. QED
      BY <3>1, <3>2 DEF TypeOK, Locals
  <2>11. CASE UNCHANGED vars
    BY <2>11 DEF vars, TypeOK, clock, tables, locals, history
  <2>12. QED
    BY <2>1, <2>2, <2>3, <2>4, <2>5, <2>6, <2>7, <2>8, <2>9, <2>10, <2>11
       DEF Next, Server, Backfill
<1>3. QED
  BY <1>1, <1>2, PTL DEF Spec

-----------------------------------------------------------------------------
(***************************************************************************)
(* The inductive invariant behind CountedOnce.  What a backfill has yet to *)
(* read of its window is not in the rollup: the window ends where the      *)
(* rollup began, the rows the view has counted since are late, and no      *)
(* other backfill is under way.                                            *)
(***************************************************************************)
Alone ==
  ~ overlapped =>
    \A o, q \in Operators : (pc[o] = "chunk" /\ pc[q] = "chunk") => o = q

OnlyLanded == \A r \in Rows : r \notin raw \union gone => rolled[r] = 0

Ahead ==
  ~ overlapped =>
    \A o \in Operators : \A r \in raw \ late :
      (pc[o] = "chunk" /\ cursor[o] <= ts[r] /\ ts[r] < end[o]) => rolled[r] = 0

OnceInv == Alone /\ OnlyLanded /\ CountedOnce /\ Ahead

(***************************************************************************)
(* A step that begins no backfill and moves none.                          *)
(***************************************************************************)
NoneMoves ==
  \A o \in Operators :
    pc'[o] = "chunk" => /\ pc[o] = "chunk"
                        /\ start'[o] = start[o] /\ end'[o] = end[o] /\ cursor'[o] = cursor[o]

LEMMA StopMovesNone ==
  ASSUME TypeOK, NEW o \in Operators, Stop(o)
  PROVE  NoneMoves
<1> SUFFICES ASSUME NEW q \in Operators, pc'[q] = "chunk"
             PROVE  /\ pc[q] = "chunk"
                    /\ start'[q] = start[q] /\ end'[q] = end[q] /\ cursor'[q] = cursor[q]
  BY DEF NoneMoves
<1>1. q # o
  BY DEF TypeOK, Stop
<1>2. QED
  BY <1>1 DEF TypeOK, Stop

LEMMA ReadRawMovesNone ==
  ASSUME TypeOK, NEW o \in Operators, ReadRaw(o)
  PROVE  NoneMoves
BY DEF TypeOK, ReadRaw, NoneMoves

LEMMA OnceUndisturbed ==
  ASSUME OnceInv, NoneMoves, UNCHANGED <<ts, raw, gone, rolled, late, overlapped>>
  PROVE  OnceInv'
<1>1. Alone'
  BY DEF OnceInv, Alone, NoneMoves
<1>2. OnlyLanded' /\ CountedOnce'
  BY DEF OnceInv, OnlyLanded, CountedOnce
<1>3. Ahead'
  BY DEF OnceInv, Ahead, NoneMoves
<1>4. QED
  BY <1>1, <1>2, <1>3 DEF OnceInv

LEMMA OnceInvHolds == Spec => []OnceInv
<1>1. Init => OnceInv
  <2> SUFFICES ASSUME Init PROVE OnceInv
    OBVIOUS
  <2>1. \A o \in Operators : pc[o] # "chunk"
    BY DEF Init
  <2>2. \A r \in Rows : rolled[r] = 0
    BY DEF Init
  <2>3. QED
    BY <2>1, <2>2 DEF OnceInv, Alone, OnlyLanded, CountedOnce, Ahead
<1>2. TypeOK /\ OnceInv /\ [Next]_vars => OnceInv'
  <2> SUFFICES ASSUME TypeOK, OnceInv, [Next]_vars
               PROVE  OnceInv'
    OBVIOUS
  <2>0. \A r \in Rows : rolled[r] \in Nat /\ ts[r] \in Int
    BY RollupsAssumption DEF TypeOK, Time
  <2>1. CASE Tick
    BY <2>1, OnceUndisturbed DEF Tick, tables, locals, history, NoneMoves
  <2>2. ASSUME NEW r \in Rows, NEW t \in Time, Land(r, t)
        PROVE  OnceInv'
    <3>1. UNCHANGED <<pc, start, end, cursor, overlapped, gone>>
      BY <2>2 DEF Land, locals
    <3>2. \A q \in Rows : q # r => /\ rolled'[q] = rolled[q] /\ ts'[q] = ts[q]
                                   /\ (q \in raw' <=> q \in raw)
                                   /\ (q \in late' <=> q \in late)
      BY <2>2 DEF Land, TypeOK
    <3>3. rolled[r] = 0 /\ (rolled'[r] = 0 \/ rolled'[r] = 1) /\ r \in raw'
      BY <2>2 DEF Land, TypeOK, OnceInv, OnlyLanded
    <3>4. (\E o \in Operators : pc[o] = "chunk") => r \in late'
      BY <2>2 DEF Land
    <3>5. Alone'
      BY <3>1 DEF OnceInv, Alone
    <3>6. OnlyLanded'
      BY <3>1, <3>2, <3>3 DEF OnceInv, OnlyLanded
    <3>7. CountedOnce'
      BY <2>0, <3>1, <3>2, <3>3 DEF OnceInv, CountedOnce
    <3>8. Ahead'
      <4> SUFFICES ASSUME ~ overlapped', NEW o \in Operators, NEW q \in raw' \ late',
                          pc'[o] = "chunk", cursor'[o] <= ts'[q], ts'[q] < end'[o]
                   PROVE  rolled'[q] = 0
        BY DEF Ahead
      <4>1. q # r
        BY <3>1, <3>4
      <4>2. q \in Rows
        BY <2>2 DEF Land, TypeOK
      <4>3. QED
        BY <3>1, <3>2, <4>1, <4>2 DEF OnceInv, Ahead
    <3>9. QED
      BY <3>5, <3>6, <3>7, <3>8 DEF OnceInv
  <2>3. ASSUME NEW r \in Rows, Expire(r)
        PROVE  OnceInv'
    <3>1. /\ UNCHANGED <<pc, end, cursor, overlapped, rolled, ts, late>>
          /\ raw' \subseteq raw /\ raw' \union gone' = raw \union gone
      BY <2>3 DEF Expire, locals, history, clock
    <3>2. QED
      BY <3>1 DEF OnceInv, Alone, OnlyLanded, CountedOnce, Ahead
  <2>4. ASSUME NEW r \in Rows, ExpireRollup(r)
        PROVE  OnceInv'
    <3>1. UNCHANGED <<pc, end, cursor, overlapped, ts, late, raw, gone>>
      BY <2>4 DEF ExpireRollup, locals, history, clock
    <3>2. \A q \in Rows : rolled'[q] = rolled[q] \/ rolled'[q] = 0
      BY <2>4 DEF ExpireRollup, TypeOK
    <3>3. raw \subseteq Rows
      BY DEF TypeOK
    <3>4. QED
      BY <3>1, <3>2, <3>3 DEF OnceInv, Alone, OnlyLanded, CountedOnce, Ahead
  <2>5. CASE CreateView
    BY <2>5, OnceUndisturbed DEF CreateView, clock, locals, history, NoneMoves
  <2>6. CASE DropView
    BY <2>6, OnceUndisturbed DEF DropView, clock, locals, NoneMoves
  <2>7. ASSUME NEW o \in Operators, ReadRaw(o)
        PROVE  OnceInv'
    BY <2>7, ReadRawMovesNone, OnceUndisturbed DEF ReadRaw, clock, tables, history
  <2>8. ASSUME NEW o \in Operators, NEW length \in Lengths, ReadRollup(o, length)
        PROVE  OnceInv'
    <3> DEFINE e == WindowEnd
               s == Max({e - length, before[o].min})
    <3>1. UNCHANGED <<ts, raw, gone, rolled, late>>
      BY <2>8 DEF ReadRollup, clock, tables
    <3>2. CASE NeedsBackfill(before[o]) /\ s < e
      <4>1. /\ pc' = [pc EXCEPT ![o] = "chunk"] /\ end' = [end EXCEPT ![o] = e]
            /\ overlapped' = (overlapped \/ \E q \in Operators : pc[q] = "chunk")
        BY <2>8, <3>2 DEF ReadRollup
      <4>2. /\ e \in Int /\ \A r \in Counted : e <= ts[r]
        BY WindowFact
      <4> HIDE DEF e, s
      <4>3. ~ overlapped' => /\ ~ overlapped
                             /\ \A q \in Operators : pc'[q] = "chunk" => q = o
        BY <4>1 DEF TypeOK
      <4>4. end'[o] = e
        BY <4>1 DEF TypeOK
      <4>5. Ahead'
        <5> SUFFICES ASSUME ~ overlapped', NEW q \in Operators, NEW r \in raw' \ late',
                            pc'[q] = "chunk", cursor'[q] <= ts'[r], ts'[r] < end'[q]
                     PROVE  rolled'[r] = 0
          BY DEF Ahead
        <5>1. q = o /\ r \in Rows
          BY <3>1, <4>3 DEF TypeOK
        <5>2. ts[r] < e
          BY <3>1, <4>4, <5>1
        <5>3. r \notin Counted
          BY <2>0, <4>2, <5>1, <5>2
        <5>4. QED
          BY <2>0, <3>1, <5>1, <5>3 DEF Counted
      <4>6. Alone'
        BY <4>3 DEF Alone
      <4>7. OnlyLanded' /\ CountedOnce'
        BY <3>1, <4>3 DEF OnceInv, OnlyLanded, CountedOnce
      <4>8. QED
        BY <4>5, <4>6, <4>7 DEF OnceInv
    <3>3. CASE ~ (NeedsBackfill(before[o]) /\ s < e)
      <4>1. Stop(o) /\ overlapped' = overlapped
        BY <2>8, <3>3 DEF ReadRollup
      <4>2. QED
        BY <3>1, <4>1, StopMovesNone, OnceUndisturbed
    <3>4. QED
      BY <3>2, <3>3
  <2>9. ASSUME NEW o \in Operators, Chunk(o)
        PROVE  OnceInv'
    <3>1. UNCHANGED <<ts, raw, gone, late, overlapped>> /\ pc[o] = "chunk"
      BY <2>9 DEF Chunk, clock, history
    <3>2. \A r \in Rows : rolled'[r] = IF InRange(r, cursor[o], ChunkEnd(o))
                                         THEN rolled[r] + 1 ELSE rolled[r]
      BY <2>9 DEF Chunk
    <3>3. /\ end[o] \in Int /\ cursor[o] \in Int /\ ChunkEnd(o) \in Int
          /\ cursor[o] < ChunkEnd(o) /\ ChunkEnd(o) <= end[o]
      BY <3>1, ChunkFact
    <3>4. \A q \in Operators : pc'[q] = "chunk" => pc[q] = "chunk"
      <4>1. CASE ChunkEnd(o) < end[o]
        BY <2>9, <4>1 DEF Chunk
      <4>2. CASE ~ (ChunkEnd(o) < end[o])
        BY <2>9, <4>2, StopMovesNone DEF Chunk, NoneMoves
      <4>3. QED
        BY <4>1, <4>2
    <3>5. Alone'
      BY <3>1, <3>4 DEF OnceInv, Alone
    <3>6. OnlyLanded'
      BY <3>1, <3>2 DEF OnceInv, OnlyLanded, InRange
    <3>7. CountedOnce'
      <4> SUFFICES ASSUME ~ overlapped', NEW r \in Rows \ late'
                   PROVE  rolled'[r] <= 1
        BY DEF CountedOnce
      <4>1. rolled[r] \in Nat /\ rolled[r] <= 1 /\ ts[r] \in Int
        BY <2>0, <3>1 DEF OnceInv, CountedOnce
      <4>2. CASE InRange(r, cursor[o], ChunkEnd(o))
        <5>1. r \in raw \ late /\ cursor[o] <= ts[r] /\ ts[r] < end[o]
          BY <3>1, <3>3, <4>1, <4>2 DEF InRange
        <5>2. rolled[r] = 0
          BY <3>1, <5>1 DEF OnceInv, Ahead
        <5>3. QED
          BY <3>2, <4>2, <5>2
      <4>3. CASE ~ InRange(r, cursor[o], ChunkEnd(o))
        BY <3>2, <4>1, <4>3
      <4>4. QED
        BY <4>2, <4>3
    <3>8. Ahead'
      <4> SUFFICES ASSUME ~ overlapped', NEW q \in Operators, NEW r \in raw' \ late',
                          pc'[q] = "chunk", cursor'[q] <= ts'[r], ts'[r] < end'[q]
                   PROVE  rolled'[r] = 0
        BY DEF Ahead
      <4>1. q = o
        BY <3>1, <3>4 DEF OnceInv, Alone
      <4>2. r \in Rows /\ ts[r] \in Int /\ r \in raw \ late
        BY <2>0, <3>1 DEF TypeOK
      <4>3. /\ cursor' = [cursor EXCEPT ![o] = ChunkEnd(o)] /\ end' = end
        BY <2>9, <4>1 DEF Chunk, Stop, TypeOK
      <4>4. ChunkEnd(o) <= ts[r] /\ ts[r] < end[o]
        BY <3>1, <4>1, <4>3 DEF TypeOK
      <4>5. cursor[o] <= ts[r] /\ ~ InRange(r, cursor[o], ChunkEnd(o))
        BY <3>3, <4>2, <4>4 DEF InRange
      <4>6. rolled[r] = 0
        BY <3>1, <4>2, <4>4, <4>5 DEF OnceInv, Ahead
      <4>7. QED
        BY <3>2, <4>2, <4>5, <4>6
    <3>9. QED
      BY <3>5, <3>6, <3>7, <3>8 DEF OnceInv
  <2>10. ASSUME NEW o \in Operators, Crash(o)
         PROVE  OnceInv'
    BY <2>10, StopMovesNone, OnceUndisturbed DEF Crash, clock, tables
  <2>11. CASE UNCHANGED vars
    BY <2>11, OnceUndisturbed DEF vars, clock, tables, locals, history, NoneMoves
  <2>12. QED
    BY <2>1, <2>2, <2>3, <2>4, <2>5, <2>6, <2>7, <2>8, <2>9, <2>10, <2>11
       DEF Next, Server, Backfill
<1>3. QED
  BY RollupsTypeCorrect, <1>1, <1>2, PTL DEF Spec

(***************************************************************************)
(* No row is counted twice, however many backfills are run, interrupted    *)
(* and run again, unless two ran at once (backfill).                       *)
(***************************************************************************)
THEOREM CountedOnceHolds == Spec => []CountedOnce
BY OnceInvHolds, PTL DEF OnceInv

-----------------------------------------------------------------------------
(***************************************************************************)
(* A backfill counts every row of the part of its window it has passed,    *)
(* and the rollup drops no minute that is within its TTL.                  *)
(***************************************************************************)
LEMMA FilledUndisturbed ==
  ASSUME FilledSoFar, NoneMoves, UNCHANGED <<now, ts, raw, rolled, late>>
  PROVE  FilledSoFar'
BY DEF FilledSoFar, NoneMoves, Kept

(***************************************************************************)
(* A minute that is within its TTL was so a tick ago (070's TTL clause).   *)
(***************************************************************************)
LEMMA KeptBefore ==
  ASSUME TypeOK, Tick, NEW r \in Rows, Kept(r)'
  PROVE  Kept(r)
<1> DEFINE limit == ToStartOfMinute(ts[r]) + RollupTTL
<1>1. now \in Int /\ ts[r] \in Nat /\ Minute \in Nat \ {0} /\ RollupTTL \in Nat
  BY RollupsAssumption DEF TypeOK, Time
<1>2. limit \in Int
  BY <1>1 DEF ToStartOfMinute
<1>3. now' = now + 1 /\ ts' = ts
  BY DEF Tick
<1>4. now + 1 < limit
  BY <1>3 DEF Kept
<1> HIDE DEF limit
<1>5. now < limit
  BY <1>1, <1>2, <1>4
<1>6. QED
  BY <1>5 DEF Kept, limit

(***************************************************************************)
(* What a backfill has passed of its window is in the rollup, whatever     *)
(* expires, lands or loses its view meanwhile (backfill).                  *)
(***************************************************************************)
THEOREM FilledSoFarHolds == Spec => []FilledSoFar
<1>1. Init => FilledSoFar
  BY DEF Init, FilledSoFar
<1>2. TypeOK /\ FilledSoFar /\ [Next]_vars => FilledSoFar'
  <2> SUFFICES ASSUME TypeOK, FilledSoFar, [Next]_vars
               PROVE  FilledSoFar'
    OBVIOUS
  <2>0. \A r \in Rows : rolled[r] \in Nat /\ ts[r] \in Int
    BY RollupsAssumption DEF TypeOK, Time
  <2>1. CASE Tick
    <3>1. UNCHANGED <<ts, raw, rolled, late, pc, start, cursor>>
      BY <2>1 DEF Tick, tables, locals, history
    <3>2. \A r \in raw : Kept(r)' => Kept(r)
      BY <2>1, KeptBefore DEF TypeOK
    <3>3. QED
      BY <3>1, <3>2 DEF FilledSoFar
  <2>2. ASSUME NEW r \in Rows, NEW t \in Time, Land(r, t)
        PROVE  FilledSoFar'
    <3>1. UNCHANGED <<now, pc, start, end, cursor>> /\ raw' = raw \union {r}
      BY <2>2 DEF Land, locals
    <3>2. \A q \in Rows : q # r => /\ rolled'[q] = rolled[q] /\ ts'[q] = ts[q]
                                   /\ (q \in late' <=> q \in late)
      BY <2>2 DEF Land, TypeOK
    <3>3. (\E o \in Operators : pc[o] = "chunk") => r \in late'
      BY <2>2 DEF Land
    <3>4. QED
      <4> SUFFICES ASSUME NEW o \in Operators, NEW q \in raw' \ late',
                          pc'[o] = "chunk", start'[o] <= ts'[q], ts'[q] < cursor'[o], Kept(q)'
                   PROVE  rolled'[q] > 0
        BY DEF FilledSoFar
      <4>1. q # r /\ q \in raw /\ q \in Rows
        BY <3>1, <3>3 DEF TypeOK
      <4>2. Kept(q)
        BY <3>1, <3>2, <4>1 DEF Kept
      <4>3. QED
        BY <3>1, <3>2, <4>1, <4>2 DEF FilledSoFar
  <2>3. ASSUME NEW r \in Rows, Expire(r)
        PROVE  FilledSoFar'
    <3>1. UNCHANGED <<now, ts, rolled, late, pc, start, cursor>> /\ raw' \subseteq raw
      BY <2>3 DEF Expire, locals, history, clock
    <3>2. QED
      BY <3>1 DEF FilledSoFar, Kept
  <2>4. ASSUME NEW r \in Rows, ExpireRollup(r)
        PROVE  FilledSoFar'
    <3>1. UNCHANGED <<now, pc, start, cursor, ts, late, raw>> /\ ~ Kept(r)
      BY <2>4 DEF ExpireRollup, locals, history, clock
    <3>2. \A q \in Rows : q # r => rolled'[q] = rolled[q]
      BY <2>4 DEF ExpireRollup, TypeOK
    <3>3. raw \subseteq Rows
      BY DEF TypeOK
    <3>4. QED
      BY <3>1, <3>2, <3>3 DEF FilledSoFar, Kept
  <2>5. CASE CreateView
    BY <2>5, FilledUndisturbed DEF CreateView, clock, locals, history, NoneMoves
  <2>6. CASE DropView
    BY <2>6, FilledUndisturbed DEF DropView, clock, locals, NoneMoves
  <2>7. ASSUME NEW o \in Operators, ReadRaw(o)
        PROVE  FilledSoFar'
    BY <2>7, ReadRawMovesNone, FilledUndisturbed DEF ReadRaw, clock, tables, history
  <2>8. ASSUME NEW o \in Operators, NEW length \in Lengths, ReadRollup(o, length)
        PROVE  FilledSoFar'
    <3> DEFINE e == WindowEnd
               s == Max({e - length, before[o].min})
    <3>1. UNCHANGED <<now, ts, raw, rolled, late>>
      BY <2>8 DEF ReadRollup, clock, tables
    <3>2. CASE NeedsBackfill(before[o]) /\ s < e
      <4>1. /\ pc' = [pc EXCEPT ![o] = "chunk"] /\ start' = [start EXCEPT ![o] = s]
            /\ cursor' = [cursor EXCEPT ![o] = s]
        BY <2>8, <3>2 DEF ReadRollup
      <4>2. s \in Int
        BY WindowFact
      <4> HIDE DEF e, s
      <4> SUFFICES ASSUME NEW q \in Operators, NEW r \in raw \ late,
                          pc'[q] = "chunk", start'[q] <= ts[r], ts[r] < cursor'[q], Kept(r)
                   PROVE  rolled[r] > 0
        BY <3>1 DEF FilledSoFar, Kept
      <4>3. q # o
        <5>1. ts[r] \in Int
          BY <2>0 DEF TypeOK
        <5>2. start'[o] = s /\ cursor'[o] = s
          BY <4>1 DEF TypeOK
        <5>3. QED
          BY <4>2, <5>1, <5>2
      <4>4. pc'[q] = pc[q] /\ start'[q] = start[q] /\ cursor'[q] = cursor[q]
        BY <4>1, <4>3 DEF TypeOK
      <4>5. QED
        BY <4>4 DEF FilledSoFar
    <3>3. CASE ~ (NeedsBackfill(before[o]) /\ s < e)
      <4>1. Stop(o)
        BY <2>8, <3>3 DEF ReadRollup
      <4>2. QED
        BY <3>1, <4>1, StopMovesNone, FilledUndisturbed
    <3>4. QED
      BY <3>2, <3>3
  <2>9. ASSUME NEW o \in Operators, Chunk(o)
        PROVE  FilledSoFar'
    <3>1. UNCHANGED <<now, ts, raw, late>> /\ pc[o] = "chunk"
      BY <2>9 DEF Chunk, clock, history
    <3>2. \A r \in Rows : rolled'[r] = IF InRange(r, cursor[o], ChunkEnd(o))
                                         THEN rolled[r] + 1 ELSE rolled[r]
      BY <2>9 DEF Chunk
    <3>3. cursor[o] \in Int /\ ChunkEnd(o) \in Int /\ cursor[o] < ChunkEnd(o)
      BY <3>1, ChunkFact
    <3> SUFFICES ASSUME NEW q \in Operators, NEW r \in raw \ late,
                        pc'[q] = "chunk", start'[q] <= ts[r], ts[r] < cursor'[q], Kept(r)
                 PROVE  rolled'[r] > 0
      BY <3>1 DEF FilledSoFar, Kept
    <3>4. r \in Rows /\ rolled[r] \in Nat /\ ts[r] \in Int
      BY <2>0 DEF TypeOK
    <3>5. CASE InRange(r, cursor[o], ChunkEnd(o))
      BY <3>2, <3>4, <3>5
    <3>6. CASE ~ InRange(r, cursor[o], ChunkEnd(o))
      <4>1. pc[q] = "chunk" /\ start[q] <= ts[r]
        BY <2>9 DEF Chunk, Stop, TypeOK
      <4>2. ts[r] < cursor[q]
        <5>1. CASE q = o
          <6>1. cursor' = [cursor EXCEPT ![o] = ChunkEnd(o)]
            BY <2>9, <5>1 DEF Chunk, Stop, TypeOK
          <6>2. ts[r] < ChunkEnd(o)
            BY <5>1, <6>1 DEF TypeOK
          <6>3. QED
            BY <3>3, <3>4, <3>6, <5>1, <6>2 DEF InRange
        <5>2. CASE q # o
          <6>1. cursor'[q] = cursor[q]
            BY <2>9, <5>2 DEF Chunk, Stop, TypeOK
          <6>2. QED
            BY <6>1
        <5>3. QED
          BY <5>1, <5>2
      <4>3. rolled[r] > 0
        BY <4>1, <4>2 DEF FilledSoFar
      <4>4. QED
        BY <3>2, <3>4, <3>6, <4>3
    <3>7. QED
      BY <3>5, <3>6
  <2>10. ASSUME NEW o \in Operators, Crash(o)
         PROVE  FilledSoFar'
    BY <2>10, StopMovesNone, FilledUndisturbed DEF Crash, clock, tables
  <2>11. CASE UNCHANGED vars
    BY <2>11, FilledUndisturbed DEF vars, clock, tables, locals, history, NoneMoves
  <2>12. QED
    BY <2>1, <2>2, <2>3, <2>4, <2>5, <2>6, <2>7, <2>8, <2>9, <2>10, <2>11
       DEF Next, Server, Backfill
<1>3. QED
  BY RollupsTypeCorrect, <1>1, <1>2, PTL DEF Spec, FilledSoFar

-----------------------------------------------------------------------------
(***************************************************************************)
(* countMerge(spans): the sum of the counts, over a finite set of rows.    *)
(***************************************************************************)
\* Induction over the numbers.
LEMMA Upwards ==
  ASSUME NEW S \in SUBSET Nat, 0 \in S, \A n \in S : n + 1 \in S
  PROVE  S = Nat
<1>1. SUFFICES ASSUME Nat \ S # {}
               PROVE  FALSE
  OBVIOUS
<1>2. Min(Nat \ S) \in Nat \ S /\ \A m \in Nat \ S : Min(Nat \ S) <= m
  <2>1. Nat \ S \in SUBSET Nat
    OBVIOUS
  <2>2. QED
    BY <1>1, <2>1, MinFact
<1>3. PICK n \in Nat \ S : \A m \in Nat \ S : n <= m
  BY <1>2
<1>4. n # 0 /\ n - 1 \in S
  BY <1>3
<1>5. QED
  BY <1>3, <1>4

\* The sum over s, from the sums g over the sets with one row less.
Sum(g, f, s) ==
  LET x == CHOOSE x \in s : TRUE IN IF s = {} THEN 0 ELSE f[x] + g[s \ {x}]

\* There is such a g.
LEMMA SumsExist ==
  ASSUME NEW f, IsFiniteSet(DOMAIN f)
  PROVE  \E g : g = [s \in SUBSET (DOMAIN f) |-> Sum(g, f, s)]
<1> DEFINE T == DOMAIN f
           UpTo(k) == {s \in SUBSET T : Cardinality(s) <= k}
           S == {k \in Nat : \E g : g = [s \in UpTo(k) |-> Sum(g, f, s)]}
<1>1. \A s \in SUBSET T : /\ IsFiniteSet(s) /\ Cardinality(s) \in Nat
                          /\ Cardinality(s) <= Cardinality(T)
                          /\ Cardinality(s) = 0 <=> s = {}
  BY FS_Subset, FS_CardinalityType, FS_EmptySet
<1>2. ASSUME NEW s \in SUBSET T, s # {}, NEW x \in s
      PROVE  s \ {x} \in SUBSET T /\ Cardinality(s \ {x}) = Cardinality(s) - 1
  BY <1>1, <1>2, FS_RemoveElement
<1>3. 0 \in S
  <2> DEFINE g == [s \in UpTo(0) |-> 0]
  <2>1. \A s \in UpTo(0) : s = {} /\ Sum(g, f, s) = 0
    BY <1>1 DEF Sum
  <2>2. g = [s \in UpTo(0) |-> Sum(g, f, s)]
    BY <2>1
  <2>3. QED
    BY <2>2
<1>4. ASSUME NEW k \in S
      PROVE  k + 1 \in S
  <2>1. PICK g : g = [s \in UpTo(k) |-> Sum(g, f, s)]
    OBVIOUS
  <2> DEFINE h == [s \in UpTo(k + 1) |-> IF s \in UpTo(k) THEN g[s] ELSE Sum(g, f, s)]
  <2>2. \A s \in UpTo(k) : g[s] = Sum(g, f, s) /\ s \in UpTo(k + 1)
    <3>1. \A s \in UpTo(k) : s \in UpTo(k + 1)
      BY <1>1
    <3>2. \A s \in UpTo(k) : g[s] = Sum(g, f, s)
      <4> HIDE DEF UpTo
      <4> QED
        BY <2>1, Zenon
    <3>3. QED
      BY <3>1, <3>2
  <2>3. \A s \in UpTo(k) : h[s] = g[s]
    BY <2>2
  <2>4. ASSUME NEW s \in UpTo(k + 1)
        PROVE  h[s] = Sum(h, f, s)
    <3>1. h[s] = Sum(g, f, s)
      BY <2>2
    <3>2. Sum(h, f, s) = Sum(g, f, s)
      <4>1. CASE s = {}
        BY <4>1 DEF Sum
      <4>2. CASE s # {}
        <5> DEFINE x == CHOOSE x \in s : TRUE
        <5>1. x \in s
          BY <4>2
        <5> HIDE DEF x
        <5>2. s \ {x} \in SUBSET T /\ Cardinality(s \ {x}) = Cardinality(s) - 1
          BY <1>2, <4>2, <5>1
        <5>3. s \ {x} \in UpTo(k)
          BY <1>1, <5>2
        <5>4. h[s \ {x}] = g[s \ {x}]
          BY <2>3, <5>3
        <5> HIDE DEF h
        <5>5. QED
          BY <4>2, <5>4 DEF Sum, x
      <4>3. QED
        BY <4>1, <4>2
    <3>3. QED
      BY <3>1, <3>2
  <2>5. h = [s \in UpTo(k + 1) |-> Sum(h, f, s)]
    BY <2>4
  <2> HIDE DEF h
  <2>6. \E q : q = [s \in UpTo(k + 1) |-> Sum(q, f, s)]
    BY <2>5
  <2>7. k + 1 \in Nat
    OBVIOUS
  <2> HIDE DEF UpTo
  <2>8. QED
    BY <2>6, <2>7
<1>5. Cardinality(T) \in S
  <2>1. S \in SUBSET Nat
    OBVIOUS
  <2>2. Cardinality(T) \in Nat
    BY <1>1
  <2> HIDE DEF S
  <2>3. QED
    BY <1>3, <1>4, <2>1, <2>2, Upwards
<1>6. UpTo(Cardinality(T)) = SUBSET T
  BY <1>1
<1>7. QED
  BY <1>5, <1>6

LEMMA SumByParts ==
  ASSUME NEW f, IsFiniteSet(DOMAIN f)
  PROVE  \E g : g = [s \in SUBSET (DOMAIN f) |-> Sum(g, f, s)] /\ SumFunction(f) = g[DOMAIN f]
<1> DEFINE h == CHOOSE g : g = [s \in SUBSET (DOMAIN f) |-> Sum(g, f, s)]
<1>1. SumFunction(f) = h[DOMAIN f]
  BY Zenon DEF SumFunction, SumFunctionOnSet, FoldFunctionOnSet, MapThenFoldSet, Sum
<1>2. h = [s \in SUBSET (DOMAIN f) |-> Sum(h, f, s)]
  BY SumsExist, Zenon
<1> HIDE DEF h
<1>3. QED
  BY <1>1, <1>2

(***************************************************************************)
(* The sum is at least the number of rows that are counted, and no more    *)
(* when none is counted twice.                                             *)
(***************************************************************************)
LEMMA SumFact ==
  ASSUME NEW T, IsFiniteSet(T), NEW f \in [T -> Nat]
  PROVE  /\ SumFunction(f) \in Nat
         /\ SumFunction(f) >= Cardinality({x \in T : f[x] > 0})
         /\ (\A x \in T : f[x] <= 1) => SumFunction(f) = Cardinality({x \in T : f[x] > 0})
<1> DEFINE Some(s) == {x \in s : f[x] > 0}
           Right(n, s) == /\ n \in Nat
                          /\ n >= Cardinality(Some(s))
                          /\ (\A x \in T : f[x] <= 1) => n = Cardinality(Some(s))
<1>1. PICK g : g = [s \in SUBSET T |-> Sum(g, f, s)] /\ SumFunction(f) = g[T]
  BY SumByParts
<1> DEFINE S == {k \in Nat : \A s \in SUBSET T : Cardinality(s) = k => Right(g[s], s)}
<1>2. \A s \in SUBSET T : /\ IsFiniteSet(s) /\ Cardinality(s) \in Nat
                          /\ Cardinality(s) = 0 <=> s = {}
  BY FS_Subset, FS_CardinalityType, FS_EmptySet
<1>3. \A s \in SUBSET T : g[s] = Sum(g, f, s)
  BY <1>1, Zenon
<1>4. 0 \in S
  <2> SUFFICES ASSUME NEW s \in SUBSET T, Cardinality(s) = 0
               PROVE  Right(g[s], s)
    OBVIOUS
  <2>1. s = {} /\ g[s] = 0
    BY <1>2, <1>3 DEF Sum
  <2>2. Some(s) = {} /\ Cardinality({}) = 0
    BY <2>1, FS_EmptySet
  <2>3. QED
    BY <2>1, <2>2
<1>5. ASSUME NEW k \in S
      PROVE  k + 1 \in S
  <2> SUFFICES ASSUME NEW s \in SUBSET T, Cardinality(s) = k + 1
               PROVE  Right(g[s], s)
    OBVIOUS
  <2> DEFINE x == CHOOSE x \in s : TRUE
             rest == s \ {x}
  <2>1. s # {}
    BY <1>2
  <2>2. x \in s /\ x \in T
    BY <2>1
  <2>3. g[s] = f[x] + g[rest]
    BY <1>3, <2>1 DEF Sum
  <2> HIDE DEF x
  <2>4. rest \in SUBSET T /\ Cardinality(rest) = k
    BY <1>2, <2>2, FS_RemoveElement
  <2>5. Right(g[rest], rest) /\ f[x] \in Nat
    BY <2>2, <2>4
  <2>6. Cardinality(Some(s)) = IF f[x] > 0 THEN Cardinality(Some(rest)) + 1 ELSE Cardinality(Some(rest))
    <3>1. Some(rest) \in SUBSET T
      BY <2>4
    <3>2. IsFiniteSet(Some(rest)) /\ x \notin Some(rest)
      BY <1>2, <3>1
    <3>3. Some(s) = IF f[x] > 0 THEN Some(rest) \union {x} ELSE Some(rest)
      BY <2>2
    <3> HIDE DEF Some
    <3>4. Cardinality(Some(rest) \union {x}) = Cardinality(Some(rest)) + 1
      BY <3>2, FS_AddElement
    <3>5. QED
      BY <3>3, <3>4
  <2>7. Cardinality(Some(rest)) \in Nat
    BY <1>2, <2>4
  <2> HIDE DEF rest, Some
  <2>8. QED
    BY <2>2, <2>3, <2>5, <2>6, <2>7
<1>6. Cardinality(T) \in S
  <2>1. S \in SUBSET Nat
    OBVIOUS
  <2>2. Cardinality(T) \in Nat
    BY <1>2
  <2> HIDE DEF S
  <2>3. QED
    BY <1>4, <1>5, <2>1, <2>2, Upwards
<1>7. QED
  BY <1>1, <1>6

-----------------------------------------------------------------------------
(***************************************************************************)
(* The two queries of plan are not one: rows land, expire and are counted  *)
(* between them.  What the first found is still no more than what has ever *)
(* landed when the second asks what is in the rollup.                      *)
(***************************************************************************)
Planned ==
  \A o \in Operators : pc[o] = "planned" => before[o].rows <= Cardinality(raw \union gone)

LEMMA SubsetsAreFinite ==
  ASSUME NEW S \in SUBSET Rows, NEW T \in SUBSET S
  PROVE  /\ IsFiniteSet(S) /\ Cardinality(S) \in Nat
         /\ IsFiniteSet(T) /\ Cardinality(T) \in Nat /\ Cardinality(T) <= Cardinality(S)
         /\ Cardinality(S) = Cardinality(T) => S = T
<1>1. IsFiniteSet(S)
  BY RollupsAssumption, FS_Subset
<1>2. /\ IsFiniteSet(T) /\ Cardinality(T) <= Cardinality(S)
      /\ Cardinality(S) = Cardinality(T) => S = T
  BY <1>1, FS_Subset
<1>3. QED
  BY <1>1, <1>2, FS_CardinalityType

LEMMA RawRows ==
  ASSUME TypeOK
  PROVE  Raw.rows = Cardinality(raw)
BY FS_EmptySet DEF Raw, Nothing

LEMMA RowsInRollup ==
  ASSUME TypeOK
  PROVE  /\ SumFunction(rolled) \in Nat
         /\ SumFunction(rolled) >= Cardinality(Counted)
         /\ (\A r \in Rows : rolled[r] <= 1) => SumFunction(rolled) = Cardinality(Counted)
BY RollupsAssumption, SumFact DEF TypeOK, Counted

\* What has landed stays landed, and a plan stays what it was.
LEMMA PlannedLater ==
  ASSUME TypeOK, TypeOK', Planned, raw \union gone \subseteq raw' \union gone',
         \A o \in Operators : pc'[o] = "planned" => pc[o] = "planned" /\ before'[o] = before[o]
  PROVE  Planned'
<1> SUFFICES ASSUME NEW o \in Operators, pc'[o] = "planned"
             PROVE  before'[o].rows <= Cardinality(raw' \union gone')
  BY DEF Planned
<1> DEFINE S == raw' \union gone'
           T == raw \union gone
<1>1. before'[o].rows <= Cardinality(T)
  BY DEF Planned
<1>2. before[o] \in BackfillPlan /\ before'[o] = before[o]
  BY DEF TypeOK
<1>3. before'[o].rows \in Nat
  BY <1>2, PlanType
<1>4. S \in SUBSET Rows /\ T \in SUBSET S
  BY DEF TypeOK
<1> HIDE DEF S, T
<1>5. Cardinality(S) \in Nat /\ Cardinality(T) \in Nat /\ Cardinality(T) <= Cardinality(S)
  BY <1>4, SubsetsAreFinite
<1>6. before'[o].rows <= Cardinality(S)
  BY <1>1, <1>3, <1>5
<1>7. QED
  BY <1>6 DEF S

LEMMA StopPlansNone ==
  ASSUME TypeOK, NEW o \in Operators, Stop(o)
  PROVE  \A q \in Operators : pc'[q] = "planned" => pc[q] = "planned" /\ before'[q] = before[q]
<1> SUFFICES ASSUME NEW q \in Operators, pc'[q] = "planned"
             PROVE  pc[q] = "planned" /\ before'[q] = before[q]
  OBVIOUS
<1>1. q # o
  BY DEF TypeOK, Stop
<1>2. QED
  BY <1>1 DEF TypeOK, Stop

LEMMA PlannedHolds == Spec => []Planned
<1>1. Init => Planned
  BY DEF Init, Planned
<1>2. TypeOK /\ TypeOK' /\ Planned /\ [Next]_vars => Planned'
  <2> SUFFICES ASSUME TypeOK, TypeOK', Planned, [Next]_vars
               PROVE  Planned'
    OBVIOUS
  <2>1. CASE Tick
    BY <2>1, PlannedLater DEF Tick, tables, locals
  <2>2. ASSUME NEW r \in Rows, NEW t \in Time, Land(r, t)
        PROVE  Planned'
    BY <2>2, PlannedLater DEF Land, locals
  <2>3. ASSUME NEW r \in Rows, Expire(r)
        PROVE  Planned'
    BY <2>3, PlannedLater DEF Expire, locals
  <2>4. ASSUME NEW r \in Rows, ExpireRollup(r)
        PROVE  Planned'
    BY <2>4, PlannedLater DEF ExpireRollup, locals
  <2>5. CASE CreateView
    BY <2>5, PlannedLater DEF CreateView, locals
  <2>6. CASE DropView
    BY <2>6, PlannedLater DEF DropView, locals
  <2>7. ASSUME NEW o \in Operators, ReadRaw(o)
        PROVE  Planned'
    <3>1. UNCHANGED <<raw, gone>> /\ before' = [before EXCEPT ![o] = Raw]
          /\ pc' = [pc EXCEPT ![o] = "planned"]
      BY <2>7 DEF ReadRaw, tables
    <3> SUFFICES ASSUME NEW q \in Operators, pc'[q] = "planned"
                 PROVE  before'[q].rows <= Cardinality(raw \union gone)
      BY <3>1 DEF Planned
    <3>2. CASE q = o
      <4>1. before'[q].rows = Cardinality(raw)
        BY <3>1, <3>2, RawRows DEF TypeOK
      <4>2. raw \union gone \in SUBSET Rows /\ raw \in SUBSET (raw \union gone)
        BY DEF TypeOK
      <4>3. Cardinality(raw) <= Cardinality(raw \union gone)
        BY <4>2, SubsetsAreFinite
      <4>4. QED
        BY <4>1, <4>3
    <3>3. CASE q # o
      <4>1. before'[q] = before[q] /\ pc'[q] = pc[q]
        BY <3>1, <3>3 DEF TypeOK
      <4>2. QED
        BY <4>1 DEF Planned
    <3>4. QED
      BY <3>2, <3>3
  <2>8. ASSUME NEW o \in Operators, NEW length \in Lengths, ReadRollup(o, length)
        PROVE  Planned'
    <3>1. UNCHANGED <<raw, gone>>
      BY <2>8 DEF ReadRollup, tables
    <3>2. \/ Stop(o)
          \/ pc' = [pc EXCEPT ![o] = "chunk"] /\ before' = before
      BY <2>8 DEF ReadRollup
    <3>3. \A q \in Operators : pc'[q] = "planned" => pc[q] = "planned" /\ before'[q] = before[q]
      <4>1. CASE Stop(o)
        BY <4>1, StopPlansNone
      <4>2. CASE pc' = [pc EXCEPT ![o] = "chunk"] /\ before' = before
        BY <4>2 DEF TypeOK
      <4>3. QED
        BY <3>2, <4>1, <4>2
    <3>4. QED
      BY <3>1, <3>3, PlannedLater
  <2>9. ASSUME NEW o \in Operators, Chunk(o)
        PROVE  Planned'
    <3>1. UNCHANGED <<raw, gone>>
      BY <2>9 DEF Chunk
    <3>2. Stop(o) \/ UNCHANGED <<pc, before>>
      BY <2>9 DEF Chunk
    <3>3. \A q \in Operators : pc'[q] = "planned" => pc[q] = "planned" /\ before'[q] = before[q]
      BY <3>2, StopPlansNone
    <3>4. QED
      BY <3>1, <3>3, PlannedLater
  <2>10. ASSUME NEW o \in Operators, Crash(o)
         PROVE  Planned'
    <3>1. UNCHANGED <<raw, gone>> /\ Stop(o)
      BY <2>10 DEF Crash, tables
    <3>2. QED
      BY <3>1, StopPlansNone, PlannedLater
  <2>11. CASE UNCHANGED vars
    BY <2>11, PlannedLater DEF vars, tables, locals
  <2>12. QED
    BY <2>1, <2>2, <2>3, <2>4, <2>5, <2>6, <2>7, <2>8, <2>9, <2>10, <2>11
       DEF Next, Server, Backfill
<1>3. QED
  BY RollupsTypeCorrect, <1>1, <1>2, PTL DEF Spec

(***************************************************************************)
(* The status is right both ways: a gap between plan's two counts means    *)
(* that a row which has landed is not in the rollup, and no gap that every *)
(* row of raw is, when nothing has expired from raw and no row could be    *)
(* counted twice (plan, describe).                                         *)
(***************************************************************************)
THEOREM PlanIsRightHolds == Spec => []PlanIsRight
<1>1. TypeOK /\ OnceInv /\ Planned => PlanIsRight
  <2> SUFFICES ASSUME TypeOK, OnceInv, Planned
               PROVE  PlanIsRight
    OBVIOUS
  <2>0. Counted \in SUBSET Rows
    BY DEF Counted
  <2>1. ASSUME NEW o \in Operators, pc[o] = "planned", NeedsBackfill(before[o]),
               \A r \in raw \union gone : rolled[r] # 0
        PROVE  FALSE
    <3>1. raw \union gone \in SUBSET Counted
      BY <2>1 DEF TypeOK, Counted
    <3>2. /\ Cardinality(raw \union gone) \in Nat /\ Cardinality(Counted) \in Nat
          /\ Cardinality(raw \union gone) <= Cardinality(Counted)
      BY <2>0, <3>1, SubsetsAreFinite
    <3>3. SumFunction(rolled) \in Nat /\ SumFunction(rolled) >= Cardinality(Counted)
      BY RowsInRollup
    <3>4. before[o].rows \in Nat
      <4>1. before[o] \in BackfillPlan
        BY DEF TypeOK
      <4>2. QED
        BY <4>1, PlanType
    <3>5. before[o].rows <= Cardinality(raw \union gone)
      BY <2>1 DEF Planned
    <3>6. before[o].rows > SumFunction(rolled)
      BY <2>1 DEF NeedsBackfill
    <3>7. QED
      BY <3>2, <3>3, <3>4, <3>5, <3>6
  <2>2. ASSUME gone = {}, late = {}, ~ overlapped, ~ NeedsBackfill(Raw)
        PROVE  \A r \in raw : rolled[r] > 0
    <3>1. \A r \in Rows : rolled[r] <= 1
      BY <2>2 DEF OnceInv, CountedOnce
    <3>2. SumFunction(rolled) = Cardinality(Counted)
      BY <3>1, RowsInRollup
    <3>3. raw \in SUBSET Rows /\ Counted \in SUBSET raw
      BY <2>2 DEF TypeOK, OnceInv, OnlyLanded, Counted
    <3>4. /\ Cardinality(raw) \in Nat /\ Cardinality(Counted) \in Nat
          /\ Cardinality(Counted) <= Cardinality(raw)
          /\ Cardinality(raw) = Cardinality(Counted) => raw = Counted
      BY <3>3, SubsetsAreFinite
    <3>5. ~ (Cardinality(raw) > Cardinality(Counted))
      BY <2>2, <3>2, RawRows DEF NeedsBackfill
    <3>6. raw = Counted
      BY <3>4, <3>5
    <3>7. QED
      BY <3>6 DEF Counted
  <2>3. QED
    BY <2>1, <2>2 DEF PlanIsRight
<1>2. QED
  BY <1>1, RollupsTypeCorrect, OnceInvHolds, PlannedHolds, PTL
=============================================================================
