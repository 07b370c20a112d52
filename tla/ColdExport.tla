----------------------------- MODULE ColdExport -----------------------------
(***************************************************************************)
(* The cold-tier exporter (coldtier/export.py): one process copies raw     *)
(* spans from ClickHouse's spans_raw into a lake of Parquet files, window  *)
(* by window, and moves a watermark behind each window it has committed.   *)
(*                                                                         *)
(* Time is counted in ticks.  The hot tier is the set of rows spans_raw    *)
(* holds now; rows land with a timestamp that may already lie in the past  *)
(* and are dropped by the table's TTL.  Between any two steps of the       *)
(* exporter the clock, the ingest path and the TTL may all move.           *)
(***************************************************************************)
EXTENDS Integers, FiniteSets, Functions

CONSTANTS
  Rows,      \* the physical rows that may land in spans_raw
  Tokens,    \* what a summed column may hold
  Traces,    \* what an identifier column may hold
  TokensOf,  \* each row's value in the summed columns ...
  TraceOf,   \* ... and in the identifier columns
  Epoch,     \* min(ts) of a table without rows: 1970-01-01
  MaxTime,   \* bound on the clock
  Hour,      \* ticks in a clock hour
  Day,       \* ticks from one midnight to the next
  Width,     \* plan_windows' window argument (DEFAULT_WINDOW: one hour)
  Margin,    \* DEFAULT_LAG_MARGIN
  TTL,       \* spans_raw's TTL
  MaxLate,   \* a row lands at most this long after its own timestamp
  Budget     \* the mishaps that may strike, as numbers of each kind

Mishaps == {"crash", "rewind", "mangle", "lake_loss"}

ASSUME ColdExportAssumption ==
  /\ IsFiniteSet(Rows)
  /\ Tokens \subseteq Nat
  /\ TokensOf \in [Rows -> Tokens]
  /\ TraceOf \in [Rows -> Traces]
  /\ Epoch \in Int /\ Epoch <= 0
  /\ MaxTime \in Nat
  /\ Hour \in Nat \ {0}
  /\ Day \in Nat \ {0}
  /\ Width \in Nat \ {0}
  /\ Margin \in Nat
  /\ TTL \in Nat \ {0}
  /\ MaxLate \in Nat
  /\ Budget \subseteq [Mishaps -> Nat]

Time == 0 .. MaxTime
None == Epoch - 1   \* no watermark row: smaller than every time

VARIABLES
  now,        \* the server's clock
  ts,         \* each landed row's timestamp
  hot,        \* the rows spans_raw holds
  gone,       \* the rows its TTL has dropped
  lake,       \* the row copies in committed files: window, row and values
  watermark,  \* what SELECT ... FINAL returns for source spans_raw
  origin,     \* history: where the archive begins (the start of a first run,
              \* the watermark at a loss of files, the target of a --since)
  pc,         \* the exporter's program counter; the rest are its locals
  cursor,     \* start of the window in hand
  horizon,    \* reference - lag_margin, fixed when the run plans its windows
  counted,    \* WindowResult.source_rows
  staged,     \* the .parquet.tmp file: the values written for each row
  spent       \* how often each mishap has struck

tier == <<now, ts, hot, gone>>
locals == <<pc, cursor, horizon, counted, staged>>
vars == <<tier, lake, watermark, origin, locals, spent>>

\* A row's values in a file: a summed column (the token counts, the duration),
\* an identifier (tenant, trace), and whether all other columns, ts among them,
\* are as they were.
Values == [tokens : Tokens, trace : Traces, rest : BOOLEAN]
Written(r) == [tokens |-> TokensOf[r], trace |-> TraceOf[r], rest |-> TRUE]

Copy == [start : Int, end : Int, row : Rows, values : Values]

Contents == UNION {[S -> Values] : S \in SUBSET Rows}
Empty == [r \in {} |-> Written(r)]

TypeOK ==
  /\ now \in Time
  /\ ts \in [Rows -> Time]
  /\ hot \subseteq Rows
  /\ gone \subseteq Rows
  /\ lake \subseteq Copy
  /\ watermark \in Int
  /\ origin \in Int
  /\ pc \in {"idle", "rewind", "read", "plan", "window", "stream", "verify", "commit", "mark"}
  /\ cursor \in Int
  /\ horizon \in Int /\ horizon <= now
  /\ counted \in Nat
  /\ staged \in Contents
  /\ spent \in [Mishaps -> Nat]

-----------------------------------------------------------------------------
(* Planning. *)

MinOf(a, b) == IF a <= b THEN a ELSE b
MaxOf(a, b) == IF a <= b THEN b ELSE a

FloorHour(t) == (t \div Hour) * Hour
Midnight(t) == (t \div Day) * Day + Day

\* Mutant of NextBoundary: windows are not aligned to the clock's hours.
NextBoundaryUnaligned(t) == t + Width

NextBoundary(t) ==
  IF FloorHour(t + Width) > t THEN FloorHour(t + Width) ELSE t + Width

\* The end of the window that starts at t.  Windows abut, so a run's whole
\* plan is determined by its first cursor and its horizon.
PlanEnd(t, h) == MinOf(NextBoundary(t), MinOf(Midnight(t), h))

WindowEnd == PlanEnd(cursor, horizon)

\* The rows the three queries over the window in hand see.
Source == {r \in hot : cursor <= ts[r] /\ ts[r] < WindowEnd}

\* One insert into a ReplacingMergeTree versioned by the watermark itself.
Write(t) == MaxOf(watermark, t)

\* default_start: r carries min(ts).
Oldest(r) == r \in hot /\ \A q \in hot : ts[r] <= ts[q]

Charge(m) ==
  /\ spent' = [spent EXCEPT ![m] = @ + 1]
  /\ spent' \in Budget

\* The process exits: what it held in memory is gone.
Exit ==
  /\ pc' = "idle"
  /\ cursor' = 0
  /\ horizon' = 0
  /\ counted' = 0
  /\ staged' = Empty
-----------------------------------------------------------------------------
(* The hot tier. *)

Tick ==
  /\ now < MaxTime
  /\ now' = now + 1
  /\ UNCHANGED <<ts, hot, gone, lake, watermark, origin, locals, spent>>

Land(r, t) ==
  /\ r \notin hot \union gone
  /\ t <= now
  /\ now <= t + MaxLate
  /\ hot' = hot \union {r}
  /\ ts' = [ts EXCEPT ![r] = t]
  /\ UNCHANGED <<now, gone, lake, watermark, origin, locals, spent>>

Expire(r) ==
  /\ r \in hot
  /\ ts[r] + TTL <= now
  /\ hot' = hot \ {r}
  /\ gone' = gone \union {r}
  /\ UNCHANGED <<now, ts, lake, watermark, origin, locals, spent>>

-----------------------------------------------------------------------------
(* run_export, rewind_watermark and export_window. *)

Start ==
  /\ pc = "idle"
  /\ pc' = "read"
  /\ UNCHANGED <<tier, lake, watermark, origin, cursor, horizon, counted, staged, spent>>

\* run_export(since=s): the watermark row is deleted first and written anew
\* by a second statement.  Nothing asks that s lie behind the watermark: a time
\* beyond it, or given before any run, makes the archive begin there.
RewindDelete(s) ==
  /\ pc = "idle"
  /\ Charge("rewind")
  /\ watermark' = None
  /\ origin' = IF s <= watermark THEN MinOf(origin, s) ELSE s
  /\ cursor' = s
  /\ pc' = "rewind"
  /\ UNCHANGED <<tier, lake, horizon, counted, staged>>

RewindWrite ==
  /\ pc = "rewind"
  /\ watermark' = Write(cursor)
  /\ pc' = "read"
  /\ UNCHANGED <<tier, lake, origin, cursor, horizon, counted, staged, spent>>

\* start = read_watermark(conn) or default_start(conn).  The min(ts) of no rows is
\* not NULL but the epoch, which is no false value either: a first run over an
\* empty table plans every window since then.
ReadStart ==
  /\ pc = "read"
  /\ \/ /\ watermark # None
        /\ cursor' = watermark
        /\ UNCHANGED origin
     \/ /\ watermark = None
        /\ \/ \E r \in Rows : Oldest(r) /\ cursor' = ts[r]
           \/ hot = {} /\ cursor' = Epoch
        /\ origin' = cursor'
  /\ pc' = "plan"
  /\ UNCHANGED <<tier, lake, watermark, horizon, counted, staged, spent>>

\* Mutant of Plan: the lag margin is added, not subtracted.
PlanIntoFuture ==
  /\ pc = "plan"
  /\ horizon' = now + Margin
  /\ pc' = "window"
  /\ UNCHANGED <<tier, lake, watermark, origin, cursor, counted, staged, spent>>

\* Mutant of Plan: the lag margin is left out.
PlanWithoutMargin ==
  /\ pc = "plan"
  /\ horizon' = now
  /\ pc' = "window"
  /\ UNCHANGED <<tier, lake, watermark, origin, cursor, counted, staged, spent>>

\* Mutant of Plan: the first window is floored to its clock hour.
PlanFloored ==
  /\ pc = "plan"
  /\ horizon' = now - Margin
  /\ cursor' = FloorHour(cursor)
  /\ pc' = "window"
  /\ UNCHANGED <<tier, lake, watermark, origin, counted, staged, spent>>

Plan ==
  /\ pc = "plan"
  /\ horizon' = now - Margin
  /\ pc' = "window"
  /\ UNCHANGED <<tier, lake, watermark, origin, cursor, counted, staged, spent>>

\* No window is left before the horizon.
Finish ==
  /\ pc = "window"
  /\ cursor >= horizon
  /\ Exit
  /\ UNCHANGED <<tier, lake, watermark, origin, spent>>

\* _count_source; a window with no rows is skipped, and a skipped window is ok.
Count ==
  /\ pc = "window"
  /\ cursor < horizon
  /\ counted' = Cardinality(Source)
  /\ pc' = IF Source = {} THEN "mark" ELSE "stream"
  /\ UNCHANGED <<tier, lake, watermark, origin, cursor, horizon, staged, spent>>

\* _stream_window into the staging file.  A stream without a batch is skipped.
Stream ==
  /\ pc = "stream"
  /\ staged' = [r \in Source |-> Written(r)]
  /\ pc' = IF Source = {} THEN "mark" ELSE "verify"
  /\ UNCHANGED <<tier, lake, watermark, origin, cursor, horizon, counted, spent>>

\* The batches reach the file damaged, in whatever columns of whatever rows: values
\* shifted, dropped, or swapped between rows (_normalize_timestamps tells of one).
StreamMangled ==
  /\ pc = "stream"
  /\ Source # {}
  /\ Charge("mangle")
  /\ staged' \in [Source -> Values]
  /\ pc' = "verify"
  /\ UNCHANGED <<tier, lake, watermark, origin, cursor, horizon, counted>>

\* _source_fingerprint, _parquet_fingerprint: the number of rows, the sum of a
\* column and its number of distinct identifiers.  Sums stand for the two token
\* sums and the duration's, which is compared up to rounding; no aggregate looks
\* at the other columns.
TokenSum(f) == SumFunction([r \in DOMAIN f |-> f[r].tokens])
Distinct(f) == Cardinality({f[r].trace : r \in DOMAIN f})
Fingerprint(f) == <<Cardinality(DOMAIN f), TokenSum(f), Distinct(f)>>

\* Mutant of Verified: counts, but no values.
VerifiedByCount == Cardinality(DOMAIN staged) = counted

\* The row counts, then the staged file's fingerprint against a fresh query's.
Verified ==
  /\ Cardinality(DOMAIN staged) = counted
  /\ Fingerprint(staged) = Fingerprint([r \in Source |-> Written(r)])

\* Mutant of Verify: a failed window is passed over.
VerifyCarriesOn ==
  /\ pc = "verify"
  /\ pc' = IF Verified THEN "commit" ELSE "mark"
  /\ UNCHANGED <<tier, lake, watermark, origin, cursor, horizon, counted, staged, spent>>

Verify ==
  /\ pc = "verify"
  /\ IF Verified
       THEN /\ pc' = "commit"
            /\ UNCHANGED <<cursor, horizon, counted, staged>>
       ELSE Exit
  /\ UNCHANGED <<tier, lake, watermark, origin, spent>>

InFile(c) == c.start = cursor /\ c.end = WindowEnd

\* staging.replace(final): a file of the same window is overwritten.
Commit ==
  /\ pc = "commit"
  /\ lake' = {c \in lake : ~ InFile(c)}
             \union {[start |-> cursor, end |-> WindowEnd, row |-> r, values |-> staged[r]]
                       : r \in DOMAIN staged}
  /\ pc' = "mark"
  /\ UNCHANGED <<tier, watermark, origin, cursor, horizon, counted, staged, spent>>

\* write_watermark(conn, window.end); max_windows may end the run here.
Mark ==
  /\ pc = "mark"
  /\ watermark' = Write(WindowEnd)
  /\ \/ /\ pc' = "window"
        /\ cursor' = WindowEnd
        /\ counted' = 0
        /\ staged' = Empty
        /\ UNCHANGED horizon
     \/ Exit
  /\ UNCHANGED <<tier, lake, origin, spent>>

\* The process is killed, or a query or a file operation raises.
Crash ==
  /\ pc # "idle"
  /\ Charge("crash")
  /\ Exit
  /\ UNCHANGED <<tier, lake, watermark, origin>>

\* The lake's directory loses files, or is restored from an older backup.
\* What was exported so far is no longer claimed until a --since covers it.
LoseFiles(kept) ==
  /\ pc = "idle"
  /\ Charge("lake_loss")
  /\ \A c, d \in lake :
       (c \in kept /\ c.start = d.start /\ c.end = d.end) => d \in kept
  /\ kept # lake
  /\ lake' = kept
  /\ origin' = MaxOf(origin, watermark)
  /\ UNCHANGED <<tier, watermark, locals>>

-----------------------------------------------------------------------------
(* ExportHealth, as cold status shows it. *)

WatermarkWithoutData == watermark # None /\ lake = {}

\* Mutant of AtRisk: the alarm comes when the TTL is over, not at 75% of it.
AtRiskTooLate ==
  \/ WatermarkWithoutData
  \/ watermark = None
  \/ now - watermark > TTL

AtRisk ==
  \/ WatermarkWithoutData
  \/ watermark = None
  \/ 4 * (now - watermark) > 3 * TTL

-----------------------------------------------------------------------------
Init ==
  /\ now = 0
  /\ ts = [r \in Rows |-> 0]
  /\ hot = {}
  /\ gone = {}
  /\ lake = {}
  /\ watermark = None
  /\ origin = 0
  /\ pc = "idle"
  /\ cursor = 0
  /\ horizon = 0
  /\ counted = 0
  /\ staged = Empty
  /\ spent = [m \in Mishaps |-> 0]

\* What the exporter's own process does once a run has begun.
Exporter ==
  \/ RewindWrite \/ ReadStart \/ Plan \/ Finish \/ Count \/ Stream
  \/ StreamMangled \/ Verify \/ Commit \/ Mark

Environment ==
  \/ Tick
  \/ \E r \in Rows, t \in Time : Land(r, t)
  \/ \E r \in Rows : Expire(r)

Operator ==
  \/ Start
  \/ \E s \in Time : RewindDelete(s)
  \/ \E kept \in SUBSET lake : LoseFiles(kept)

Next == Exporter \/ Environment \/ Operator \/ Crash

Spec == Init /\ [][Next]_vars

\* A run that has begun goes on, and so does the clock.  Nothing in the
\* repository starts runs on a schedule, so Start has no fairness.
FairSpec == Spec /\ WF_vars(Exporter) /\ WF_vars(Tick)

-----------------------------------------------------------------------------
(* What the exporter promises. *)

\* Some file was made from the row.  Whether its values are the row's is another
\* question: see FilesMatchTheirRows and FilesAreFaithful.
Archived(r) == \E c \in lake : c.row = r

\* Every row the hot tier still holds below the watermark, from the archive's
\* beginning on, is in a committed file: nothing the watermark has passed
\* depends on the hot tier any more (130_cold_export_watermark.sql:14).
Covered(t) == \A r \in hot : origin <= ts[r] /\ ts[r] < t => Archived(r)
Coverage == Covered(watermark)

\* A committed file has the fingerprint of the rows it was made from, although the
\* rows were counted, streamed and summed by three queries with the ingest path
\* and the TTL at work in between, and although the stream may damage values
\* (export_window).  It is all the comparison can give: see FilesAreFaithful.
FileOf(c) == {d \in lake : d.start = c.start /\ d.end = c.end}
FilesMatchTheirRows ==
  \A c \in lake :
    \E f \in [{d.row : d \in FileOf(c)} -> Values] :
      /\ FileOf(c) = {[start |-> c.start, end |-> c.end, row |-> r, values |-> f[r]]
                        : r \in DOMAIN f}
      /\ Fingerprint(f) = Fingerprint([r \in DOMAIN f |-> Written(r)])

\* The watermark never stands inside a file unless an operator put it there: the
\* next run's first window, which begins at the watermark, is never planned over
\* the middle of rows that a file already has, though a run cut short before the
\* first watermark may have left files behind and begin elsewhere (plan_windows).
NoFileStraddlesWatermark ==
  (watermark # None /\ spent["rewind"] = 0) =>
    \A c \in lake : c.start < watermark => c.end <= watermark

\* A row is in one file only: no two windows of any two runs overlap, while no run
\* is cut short and no watermark is moved back, however often windows are halted
\* and retried (plan_windows, ExportWindow.filename).
OneCopyUnlessInterrupted ==
  spent["crash"] + spent["rewind"] = 0 => \A c, d \in lake : c.row = d.row => c = d

\* The file lands in one dt= partition: no window crosses midnight.
FileInOneDay == \A c \in lake : c.start \div Day = (c.end - 1) \div Day

\* The TTL drops a row that is in no file only while cold status already says
\* that data is at risk: the loss is never silent (ExportHealth.at_risk).  Rows
\* from before the archive's beginning are not meant, nor those whose files were
\* lost from the lake: see LakeLossIsAnnounced.
NoSilentLoss ==
  [][\A r \in hot \ hot' : Archived(r) \/ AtRisk \/ ts[r] < origin]_vars

\* If runs keep being started, every row old enough for the lag margin is in a
\* file in the end, or the TTL was faster, whatever halts, crashes and damaged
\* files came between: a halted window is retried, never skipped (run_export's
\* break).  A --since may take a row out of the archive's range.
EventuallyArchived ==
  []<>(pc = "read") =>
    \A r \in Rows :
      (r \in hot /\ origin <= ts[r] /\ ts[r] < MaxTime - Margin)
        ~> (Archived(r) \/ r \in gone \/ ts[r] < origin)

\* The exporter as an archive: the lake keeps, the watermark passes.
A == INSTANCE Archive WITH
       live    <- hot,
       dropped <- gone,
       kept    <- {c.row : c \in lake},
       passed  <- {r \in hot \union gone : origin <= ts[r] /\ ts[r] < watermark}

\* What an operator does to an archive from outside: it is told to look again, or
\* its files are taken away.
Interferes == (\E s \in Time : RewindDelete(s)) \/ \E kept \in SUBSET lake : LoseFiles(kept)

\* All that the exporter itself does are steps of an archive, crashes, damaged files
\* and what it does after an operator has interfered included (run_export's loop).
ImplementsArchive == A!Init /\ [][A!Next \/ Interferes]_(A!vars)

-----------------------------------------------------------------------------
(* What the repository's text says and the code does not do. *)

\* export.py:209: re-export is safe, filenames are deterministic, so it
\* overwrites.  No later commit takes the last copy of a row out of the lake.
ReexportIsSafe == [][\A r \in Rows : Archived(r) => Archived(r)']_vars

\* export.py:281: the aggregates prove that the exported values match the source,
\* and will not agree by accident if the data is wrong.  Every copy in the lake
\* has the values of its row.
FilesAreFaithful == \A c \in lake : c.values = Written(c.row)

\* export.py:15: file names are deterministic, so that a retry overwrites rather
\* than duplicates.  No row has two copies, a run that was cut short and begun
\* again included.
RetryDoesNotDuplicate == \A c, d \in lake : c.row = d.row => c = d

\* export.py:558, 576: the health check tells when the watermark claims what the
\* lake, deleted or restored from an older backup, does not have, because that
\* gap would be silent and permanent.  The TTL drops no row that is in no file
\* unless cold status says so.
LakeLossIsAnnounced == [][\A r \in hot \ hot' : Archived(r) \/ AtRisk]_vars
=============================================================================
