------------------------------ MODULE Rollups ------------------------------
(***************************************************************************)
(* The minute rollup and its backfill (storage/rollups.py, rollup-backfill *)
(* in cli.py, 070, 080 and 110).  A row that lands in spans_raw is counted *)
(* in spans_1m by a materialized view, if the view exists at that moment.  *)
(* What landed before is counted by a backfill, hour by hour, over a       *)
(* window that ends where the rollup begins.  Aggregate states merge: what *)
(* is counted twice stays counted twice.                                   *)
(*                                                                         *)
(* The keys of the rollup are left out (see CardinalityGuard); what counts *)
(* here is how often each row of spans_raw is in it.                       *)
(***************************************************************************)
EXTENDS Integers, FiniteSets, FiniteSetsExt

CONSTANTS
  Rows,       \* the physical rows that may land in spans_raw
  Operators,  \* processes that may run `rollup-backfill`
  Lengths,    \* the --hours they may ask for, in ticks
  MaxTime,    \* bound on the clock
  Minute,     \* ticks in a minute
  Hour,       \* ticks in an hour, the length of a chunk
  RawTTL,     \* spans_raw's TTL
  RollupTTL,  \* spans_1m's TTL
  MaxLate,    \* a row lands at most this long after its own timestamp
  MaxDrops,   \* bound on how often the view is dropped
  MaxCrashes  \* bound on backfills cut short

ASSUME RollupsAssumption ==
  /\ IsFiniteSet(Rows)
  /\ Lengths \subseteq Nat \ {0}
  /\ MaxTime \in Nat
  /\ Minute \in Nat \ {0}
  /\ Hour \in Nat \ {0}
  /\ RawTTL \in Nat \ {0}
  /\ RollupTTL \in Nat \ {0}
  /\ MaxLate \in Nat
  /\ MaxDrops \in Nat
  /\ MaxCrashes \in Nat

Time == 0 .. MaxTime

VARIABLES
  now,      \* the server's clock
  ts,       \* each landed row's timestamp
  raw,      \* the rows spans_raw holds
  gone,     \* the rows its TTL has dropped
  rolled,   \* how often spans_1m counts each row
  view,     \* mv_spans_1m exists
  pc,       \* per backfill: its phase; the rest are its locals
  before,   \* what plan's first query returned: raw_rows, raw_min
  start, end, cursor,
  late,        \* history: rows that landed while a backfill had its window
  overlapped,  \* history: two backfills have had their windows at once
  asked,       \* history: rows that were in a backfill's window when it began
  drops, crashes   \* history: for the bounds

clock == <<now, ts>>
tables == <<raw, gone, rolled, view>>
locals == <<pc, before, start, end, cursor>>
history == <<late, overlapped, asked, drops, crashes>>
vars == <<clock, tables, locals, history>>

\* 1970-01-01: what min(ts) and min(ts_minute) are of an empty table.
Epoch == -1

BackfillPlan == [rows : Nat, min : Time \union {Epoch}]
Nothing == [rows |-> 0, min |-> Epoch]

TypeOK ==
  /\ now \in Time
  /\ ts \in [Rows -> Time]
  /\ raw \in SUBSET Rows
  /\ gone \in SUBSET Rows
  /\ rolled \in [Rows -> Nat]
  /\ view \in BOOLEAN
  /\ pc \in [Operators -> {"idle", "planned", "chunk"}]
  /\ before \in [Operators -> BackfillPlan]
  /\ start \in [Operators -> Int]
  /\ end \in [Operators -> Int]
  /\ cursor \in [Operators -> Int]
  /\ \A o \in Operators : pc[o] = "chunk" => start[o] <= cursor[o] /\ cursor[o] < end[o]
  /\ late \in SUBSET Rows
  /\ overlapped \in BOOLEAN
  /\ asked \in SUBSET Rows
  /\ drops \in 0 .. MaxDrops
  /\ crashes \in 0 .. MaxCrashes

-----------------------------------------------------------------------------
(* The tables, as plan() reads them. *)

ToStartOfMinute(t) == (t \div Minute) * Minute

Counted == {r \in Rows : rolled[r] > 0}

Earliest(S) == IF S = {} THEN Epoch ELSE Min({ts[r] : r \in S})

Raw == [rows |-> Cardinality(raw), min |-> Earliest(raw)]

\* Mutant of NeedsBackfill: raw_rows >= rollup_spans.
NeedsBackfillOrEqual(plan) == plan.rows > 0 /\ plan.rows >= SumFunction(rolled)

\* missing_spans > 0, with countMerge(spans)
NeedsBackfill(plan) == plan.rows > SumFunction(rolled)

\* rollup_min or raw_max: the first is a datetime whatever the rollup holds, and a
\* datetime is true, so the second is never used.
WindowEnd == IF Counted = {} THEN Epoch ELSE ToStartOfMinute(Earliest(Counted))

\* Mutant of InRange: ts > start.
InRangeOpen(r, from, to) == r \in raw /\ from < ts[r] /\ ts[r] < to

InRange(r, from, to) == r \in raw /\ from <= ts[r] /\ ts[r] < to

-----------------------------------------------------------------------------
(* Rows and views. *)

Tick ==
  /\ now < MaxTime
  /\ now' = now + 1
  /\ UNCHANGED <<ts, tables, locals, history>>

\* A row reaches spans_raw; the view is an insert trigger.
Land(r, t) ==
  /\ r \notin raw \union gone
  /\ t <= now
  /\ now <= t + MaxLate
  /\ ts' = [ts EXCEPT ![r] = t]
  /\ raw' = raw \union {r}
  /\ rolled' = IF view THEN [rolled EXCEPT ![r] = @ + 1] ELSE rolled
  /\ late' = IF \E o \in Operators : pc[o] = "chunk" THEN late \union {r} ELSE late
  /\ UNCHANGED <<now, gone, view, locals, overlapped, asked, drops, crashes>>

Expire(r) ==
  /\ r \in raw
  /\ ts[r] + RawTTL <= now
  /\ raw' = raw \ {r}
  /\ gone' = gone \union {r}
  /\ UNCHANGED <<clock, rolled, view, locals, history>>

\* The minute of the row is within the rollup's TTL.
Kept(r) == now < ToStartOfMinute(ts[r]) + RollupTTL

ExpireRollup(r) ==
  /\ rolled[r] > 0
  /\ ~ Kept(r)
  /\ rolled' = [rolled EXCEPT ![r] = 0]
  /\ UNCHANGED <<clock, raw, gone, view, locals, history>>

\* 080, and 110's second statement.
CreateView ==
  /\ ~ view
  /\ view' = TRUE
  /\ UNCHANGED <<clock, raw, gone, rolled, locals, history>>

\* 110's first statement.
DropView ==
  /\ view
  /\ drops < MaxDrops
  /\ drops' = drops + 1
  /\ view' = FALSE
  /\ UNCHANGED <<clock, raw, gone, rolled, locals, late, overlapped, asked, crashes>>

-----------------------------------------------------------------------------
(* rollup-backfill. *)

Stop(o) ==
  /\ pc' = [pc EXCEPT ![o] = "idle"]
  /\ before' = [before EXCEPT ![o] = Nothing]
  /\ start' = [start EXCEPT ![o] = 0]
  /\ end' = [end EXCEPT ![o] = 0]
  /\ cursor' = [cursor EXCEPT ![o] = 0]

\* plan's first query.
ReadRaw(o) ==
  /\ pc[o] = "idle"
  /\ before' = [before EXCEPT ![o] = Raw]
  /\ pc' = [pc EXCEPT ![o] = "planned"]
  /\ UNCHANGED <<clock, tables, start, end, cursor, history>>

\* Mutant of ReadRollup: an empty window does not raise.
ReadRollupEmpty(o, length) ==
  /\ pc[o] = "planned"
  /\ LET e == WindowEnd
         s == Max({e - length, before[o].min})
     IN IF NeedsBackfill(before[o])
          THEN /\ start' = [start EXCEPT ![o] = s]
               /\ end' = [end EXCEPT ![o] = e]
               /\ cursor' = [cursor EXCEPT ![o] = s]
               /\ pc' = [pc EXCEPT ![o] = "chunk"]
               /\ overlapped' = (overlapped \/ \E q \in Operators : pc[q] = "chunk")
               /\ asked' = asked \union {r \in raw : InRange(r, s, e)}
               /\ UNCHANGED before
          ELSE Stop(o) /\ UNCHANGED <<overlapped, asked>>
  /\ UNCHANGED <<clock, tables, late, drops, crashes>>

\* plan's second query, and the window the operator confirms.  Without a gap the
\* command says so and ends; an empty window raises.
ReadRollup(o, length) ==
  /\ pc[o] = "planned"
  /\ LET e == WindowEnd
         s == Max({e - length, before[o].min})
     IN IF NeedsBackfill(before[o]) /\ s < e
          THEN /\ start' = [start EXCEPT ![o] = s]
               /\ end' = [end EXCEPT ![o] = e]
               /\ cursor' = [cursor EXCEPT ![o] = s]
               /\ pc' = [pc EXCEPT ![o] = "chunk"]
               /\ overlapped' = (overlapped \/ \E q \in Operators : pc[q] = "chunk")
               /\ asked' = asked \union {r \in raw : InRange(r, s, e)}
               /\ UNCHANGED before
          ELSE Stop(o) /\ UNCHANGED <<overlapped, asked>>
  /\ UNCHANGED <<clock, tables, late, drops, crashes>>

\* Mutant of ChunkEnd: the last chunk is a whole hour.
ChunkEndUnclipped(o) == cursor[o] + Hour

ChunkEnd(o) == Min({cursor[o] + Hour, end[o]})

\* One INSERT ... SELECT; the last one ends the command.
Chunk(o) ==
  /\ pc[o] = "chunk"
  /\ rolled' = [r \in Rows |-> IF InRange(r, cursor[o], ChunkEnd(o))
                                 THEN rolled[r] + 1 ELSE rolled[r]]
  /\ IF ChunkEnd(o) < end[o]
       THEN cursor' = [cursor EXCEPT ![o] = ChunkEnd(o)] /\ UNCHANGED <<pc, before, start, end>>
       ELSE Stop(o)
  /\ UNCHANGED <<clock, raw, gone, view, history>>

\* The command is interrupted, at the prompt too, or an INSERT raises.
Crash(o) ==
  /\ pc[o] # "idle"
  /\ crashes < MaxCrashes
  /\ crashes' = crashes + 1
  /\ Stop(o)
  /\ UNCHANGED <<clock, tables, late, overlapped, asked, drops>>

Init ==
  /\ now = 0
  /\ ts = [r \in Rows |-> 0]
  /\ raw = {}
  /\ gone = {}
  /\ rolled = [r \in Rows |-> 0]
  /\ view = FALSE
  /\ pc = [o \in Operators |-> "idle"]
  /\ before = [o \in Operators |-> Nothing]
  /\ start = [o \in Operators |-> 0]
  /\ end = [o \in Operators |-> 0]
  /\ cursor = [o \in Operators |-> 0]
  /\ late = {}
  /\ overlapped = FALSE
  /\ asked = {}
  /\ drops = 0
  /\ crashes = 0

Server ==
  \/ Tick
  \/ \E r \in Rows : (\E t \in Time : Land(r, t)) \/ Expire(r) \/ ExpireRollup(r)
  \/ CreateView
  \/ DropView

Backfill(o) == ReadRaw(o) \/ (\E length \in Lengths : ReadRollup(o, length)) \/ Chunk(o)

Next == Server \/ \E o \in Operators : Backfill(o) \/ Crash(o)

Spec == Init /\ [][Next]_vars

-----------------------------------------------------------------------------
(* What the rollup promises. *)

\* No row is counted twice, however often the command is run, interrupted and
\* run again, unless it landed while a backfill was under way, or two backfills
\* were (rollups.py:16-19, cli.py:367-368).
CountedOnce == ~ overlapped => \A r \in Rows \ late : rolled[r] <= 1

\* A backfill leaves nothing behind: what it has passed of its window is counted
\* in the rollup for as long as the rollup keeps it, whatever expires, lands or
\* loses its view meanwhile (backfill).
FilledSoFar ==
  \A o \in Operators : \A r \in raw \ late :
    (pc[o] = "chunk" /\ start[o] <= ts[r] /\ ts[r] < cursor[o] /\ Kept(r)) => rolled[r] > 0

\* The status is right both ways.  When plan's second query finds fewer spans than
\* its first, some landed row really is not in the rollup, however many land, expire
\* or are backfilled between the two; and when the counts say there is no gap, the
\* rollup has every row of raw, as long as nothing has expired from raw and nothing
\* was counted twice (plan, describe).
PlanIsRight ==
  /\ \A o \in Operators :
       pc[o] = "planned" /\ NeedsBackfill(before[o]) => \E r \in raw \union gone : rolled[r] = 0
  /\ gone = {} /\ late = {} /\ ~ overlapped /\ ~ NeedsBackfill(Raw) =>
       \A r \in raw : rolled[r] > 0

-----------------------------------------------------------------------------
(* What the repository's text says and the code does not do. *)

\* rollups.py:16: a backfill can be resumed after a failure.  What it was to
\* count and did not lies before the end of the next window.
CanResume ==
  (\A o \in Operators : pc[o] = "idle") =>
    \A r \in asked \intersect raw : rolled[r] = 0 => ts[r] < WindowEnd

\* cli.py:386-389: the window ends at the rollup's earliest row or, where the
\* rollup is empty, at raw's latest: a rollup that was created after the rows is
\* filled by the command (rollups.py:3-9).
EmptyRollupIsFilled ==
  [][\A o \in Operators, length \in Lengths :
       (/\ ReadRollup(o, length)
        /\ NeedsBackfill(before[o])
        /\ Counted = {}
        /\ \E r \in raw : before[o].min < ts[r]) => pc'[o] = "chunk"]_vars

\* cli.py:367-369, runbook.md:127-128: a backfill fills the window before the
\* rollup's earliest row, so that it cannot overlap what the view already covers.
\* While only one runs, no row is counted twice, one that lands meanwhile included.
NothingCountedTwice == ~ overlapped => \A r \in Rows : rolled[r] <= 1

\* cli.py:357, rollups.py:47: "rollup covers all raw spans" is said only when no span
\* of raw is missing in the rollup, although raw keeps two days and the rollup seven;
\* once the TTL has dropped all it is to drop, and if nothing was counted twice.
GapIsSeen ==
  (late = {} /\ ~ overlapped /\ (\A r \in raw : now < ts[r] + RawTTL) /\ ~ NeedsBackfill(Raw)) =>
    \A r \in raw : rolled[r] > 0

\* rollups.py:4-5, cli.py:353-355: a hole that replacing the view has left is what
\* rollup-status tells the operator to run rollup-backfill for.  Some row that is
\* missing lies before the end of the window the command would fill, or in the
\* rollup's first minute.
GapIsReachable ==
  (\A o \in Operators : pc[o] = "idle") /\ Counted # {} /\ NeedsBackfill(Raw) =>
    \E r \in raw : rolled[r] = 0 /\ ts[r] < WindowEnd + Minute
=============================================================================
