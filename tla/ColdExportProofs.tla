-------------------------- MODULE ColdExportProofs --------------------------
(***************************************************************************)
(* Proofs about ColdExport, for every set of rows, every clock bound, all  *)
(* widths and margins, and every number of mishaps of every kind.          *)
(***************************************************************************)
EXTENDS ColdExport, FiniteSetTheorems, TLAPS

(***************************************************************************)
(* A window ends at or before the run's horizon, whatever the clock's      *)
(* hours and midnights are (plan_windows).                                 *)
(***************************************************************************)
LEMMA PlanEndType ==
  ASSUME NEW t \in Int, NEW h \in Int
  PROVE  PlanEnd(t, h) \in Int /\ PlanEnd(t, h) <= h
<1>1. \A x \in Int : FloorHour(x) \in Int /\ Midnight(x) \in Int
  BY ColdExportAssumption DEF FloorHour, Midnight
<1>2. NextBoundary(t) \in Int
  BY <1>1, ColdExportAssumption DEF NextBoundary
<1>3. QED
  BY <1>1, <1>2 DEF PlanEnd, MinOf

LEMMA WindowEndType == TypeOK => WindowEnd \in Int /\ WindowEnd <= horizon
BY PlanEndType DEF TypeOK, WindowEnd

(***************************************************************************)
(* The rows of the window in hand are finitely many: _count_source returns *)
(* a number, and it is zero exactly when the window is empty.              *)
(***************************************************************************)
LEMMA SourceFinite ==
  ASSUME hot \subseteq Rows
  PROVE  Cardinality(Source) \in Nat
<1>1. Source \in SUBSET Rows
  BY DEF Source
<1>2. IsFiniteSet(Source)
  BY <1>1, FS_Subset, ColdExportAssumption
<1>3. QED
  BY <1>2, FS_CardinalityType

\* What is written for a row has the row's values; a file of no rows is one.
LEMMA WrittenType ==
  /\ \A r \in Rows : Written(r) \in Values
  /\ \A S \in SUBSET Rows : [S -> Values] \subseteq Contents
  /\ \A S \in SUBSET Rows : [r \in S |-> Written(r)] \in [S -> Values]
  /\ Empty \in Contents
<1>1. \A r \in Rows : Written(r) \in Values
  BY ColdExportAssumption DEF Written, Values
<1>2. \A S \in SUBSET Rows : [S -> Values] \subseteq Contents
  BY DEF Contents
<1>3. \A S \in SUBSET Rows : [r \in S |-> Written(r)] \in [S -> Values]
  BY <1>1
<1>4. Empty \in Contents
  BY <1>2, <1>3 DEF Empty
<1>5. QED
  BY <1>1, <1>2, <1>3, <1>4

LEMMA ContentsType ==
  ASSUME NEW f \in Contents
  PROVE  DOMAIN f \subseteq Rows /\ f \in [DOMAIN f -> Values]
BY DEF Contents

LEMMA ChargeType ==
  ASSUME TypeOK, NEW m \in Mishaps, Charge(m)
  PROVE  spent' \in [Mishaps -> Nat]
BY DEF TypeOK, Charge

-----------------------------------------------------------------------------
(***************************************************************************)
(* Every variable keeps its type: what a run reads and writes are times,   *)
(* rows and row counts, in every step of the exporter and around it.       *)
(***************************************************************************)
THEOREM TypeCorrect == Spec => []TypeOK
<1>1. Init => TypeOK
  BY ColdExportAssumption, WrittenType DEF Init, TypeOK, Time, None, Mishaps, Copy
<1>2. TypeOK /\ [Next]_vars => TypeOK'
  <2> SUFFICES ASSUME TypeOK, [Next]_vars
               PROVE  TypeOK'
    OBVIOUS
  <2> USE ColdExportAssumption, WrittenType DEF TypeOK, Time
  <2>0. WindowEnd \in Int
    BY WindowEndType
  <2>1. CASE Tick
    BY <2>1 DEF Tick, locals, Time
  <2>2. ASSUME NEW r \in Rows, NEW t \in Time, Land(r, t)
        PROVE  TypeOK'
    BY <2>2 DEF Land, locals
  <2>3. ASSUME NEW r \in Rows, Expire(r)
        PROVE  TypeOK'
    BY <2>3 DEF Expire, locals
  <2>4. CASE Start
    BY <2>4 DEF Start, tier
  <2>5. ASSUME NEW s \in Time, RewindDelete(s)
        PROVE  TypeOK'
    <3>1. spent' \in [Mishaps -> Nat]
      BY <2>5, ChargeType DEF RewindDelete, Mishaps
    <3>2. QED
      BY <2>5, <3>1 DEF RewindDelete, tier, Time, None, MinOf
  <2>6. CASE RewindWrite
    BY <2>6 DEF RewindWrite, tier, Write, MaxOf
  <2>7. CASE ReadStart
    BY <2>7 DEF ReadStart, tier, Time
  <2>8. CASE Plan
    BY <2>8 DEF Plan, tier, Time
  <2>9. CASE Finish
    BY <2>9 DEF Finish, Exit, tier
  <2>10. CASE Count
    BY <2>10, SourceFinite DEF Count, tier
  <2>11. CASE Stream
    <3>1. Source \in SUBSET Rows
      BY DEF Source
    <3>2. QED
      BY <2>11, <3>1 DEF Stream, tier
  <2>12. CASE StreamMangled
    <3>0. Source \in SUBSET Rows
      BY DEF Source
    <3>1. spent' \in [Mishaps -> Nat]
      BY <2>12, ChargeType DEF StreamMangled, Mishaps
    <3>2. QED
      BY <2>12, <3>0, <3>1 DEF StreamMangled, tier
  <2>13. CASE Verify
    BY <2>13 DEF Verify, Exit, tier
  <2>14. CASE Commit
    <3>1. \A r \in DOMAIN staged : r \in Rows /\ staged[r] \in Values
      BY ContentsType
    <3>2. QED
      BY <2>14, <2>0, <3>1 DEF Commit, Copy, tier
  <2>15. CASE Mark
    BY <2>15, <2>0 DEF Mark, Exit, Write, MaxOf, tier
  <2>16. CASE Crash
    <3>1. spent' \in [Mishaps -> Nat]
      BY <2>16, ChargeType DEF Crash, Mishaps
    <3>2. QED
      BY <2>16, <3>1 DEF Crash, Exit, tier
  <2>17. ASSUME NEW kept \in SUBSET lake, LoseFiles(kept)
         PROVE  TypeOK'
    <3>1. spent' \in [Mishaps -> Nat]
      BY <2>17, ChargeType DEF LoseFiles, Mishaps
    <3>2. QED
      BY <2>17, <3>1 DEF LoseFiles, MaxOf, tier, locals
  <2>18. CASE UNCHANGED vars
    BY <2>18 DEF vars, tier, locals
  <2>19. QED
    BY <2>1, <2>2, <2>3, <2>4, <2>5, <2>6, <2>7, <2>8, <2>9, <2>10, <2>11, <2>12,
       <2>13, <2>14, <2>15, <2>16, <2>17, <2>18
       DEF Next, Exporter, Environment, Operator
<1>3. QED
  BY <1>1, <1>2, PTL DEF Spec
-----------------------------------------------------------------------------
(***************************************************************************)
(* Coverage.  The invariant says of each stage of a run how far the lake   *)
(* already covers the hot tier, that nothing can land any more below that  *)
(* point, and that an overwritten file holds no row from before its own    *)
(* window.                                                                 *)
(***************************************************************************)
InRun == {"plan", "window", "stream", "verify", "commit", "mark"}

FilesFitWindows ==
  \A c \in lake : /\ c.row \in hot \union gone
                  /\ c.start <= ts[c.row]
                  /\ ts[c.row] < c.end

\* Nothing lands below t any more.
Closed(t) == t <= now - Margin

Settled ==
  /\ watermark # None => watermark <= origin \/ Closed(watermark)
  /\ pc = "rewind" => cursor >= Epoch /\ watermark = None
  /\ pc \in InRun \union {"rewind"} => cursor <= origin \/ Closed(cursor)
  /\ pc \in InRun \ {"plan"} => Closed(horizon)

StagedIsWindow ==
  /\ Source \subseteq DOMAIN staged
  /\ \A x \in DOMAIN staged : /\ x \in hot \union gone
                              /\ cursor <= ts[x]
                              /\ ts[x] < WindowEnd

Progress ==
  /\ pc \in InRun \union {"rewind"} => Covered(cursor)
  /\ pc \in {"verify", "commit"} => StagedIsWindow
  /\ pc = "mark" => Covered(WindowEnd)

CoverageInv == FilesFitWindows /\ Settled /\ Progress /\ Coverage

LEMMA CoverageInvInit == Init => CoverageInv
BY DEF Init, CoverageInv, FilesFitWindows, Settled, InRun, Progress, Coverage,
       Covered, None

\* The clock only closes more of the past.
LEMMA TickKeepsCoverage ==
  ASSUME TypeOK, CoverageInv, Tick
  PROVE  CoverageInv'
<1> USE ColdExportAssumption DEF TypeOK, CoverageInv, Tick, locals, Time
<1>1. FilesFitWindows'
  BY DEF FilesFitWindows
<1>2. Settled'
  BY DEF Settled, Closed
<1>3. WindowEnd' = WindowEnd /\ Source' = Source
  BY DEF WindowEnd, Source
<1>4. \A t : Covered(t) <=> Covered(t)'
  BY DEF Covered, Archived
<1>5. Progress' /\ Coverage'
  BY <1>3, <1>4 DEF Progress, StagedIsWindow, Coverage
<1>6. QED
  BY <1>1, <1>2, <1>5

\* A row lands at most MaxLate after its timestamp, at or above every point
\* below which the lake already covers the hot tier.
LEMMA LandKeepsCoverage ==
  ASSUME TypeOK, CoverageInv, MaxLate <= Margin,
         NEW r \in Rows, NEW t \in Time, Land(r, t)
  PROVE  CoverageInv'
<1> USE ColdExportAssumption DEF TypeOK, CoverageInv, Land, locals, Time
<1>1. \A q \in hot \union gone : ts'[q] = ts[q]
  OBVIOUS
<1>2. ts'[r] = t /\ now - Margin <= t
  OBVIOUS
<1>3. FilesFitWindows'
  BY <1>1 DEF FilesFitWindows
<1>4. Settled'
  BY DEF Settled, Closed
<1>5. WindowEnd' = WindowEnd
  BY DEF WindowEnd
<1>6. ASSUME NEW b \in Int, b <= origin \/ Closed(b), Covered(b)
      PROVE  Covered(b)'
  BY <1>1, <1>2, <1>6 DEF Covered, Archived, Closed
<1>7. Coverage'
  <2>1. CASE watermark = None
    BY <2>1 DEF Coverage, Covered, None
  <2>2. CASE watermark # None
    BY <2>2, <1>6 DEF Coverage, Settled, Covered
  <2>3. QED
    BY <2>1, <2>2
<1>8. Progress'
  <2>1. (pc \in InRun \union {"rewind"} => Covered(cursor))'
    BY <1>6 DEF Progress, Settled, Covered
  <2>2. pc \in {"verify", "commit", "mark"} => WindowEnd \in Int /\ Closed(WindowEnd)
    <3>1. WindowEnd \in Int /\ WindowEnd <= horizon
      BY WindowEndType
    <3>2. pc \in {"verify", "commit", "mark"} => Closed(horizon)
      BY DEF Settled, InRun
    <3>3. QED
      BY <3>1, <3>2 DEF Closed
  <2>3. (pc = "mark" => Covered(WindowEnd))'
    BY <2>2, <1>5, <1>6 DEF Progress, Covered
  <2>4. (pc \in {"verify", "commit"} => StagedIsWindow)'
    <3> SUFFICES ASSUME pc \in {"verify", "commit"} PROVE StagedIsWindow'
      OBVIOUS
    <3>1. StagedIsWindow
      BY DEF Progress
    <3>2. r \notin Source'
      BY <2>2, <1>2, <1>5 DEF Source, Closed
    <3>3. Source' \subseteq DOMAIN staged'
      BY <3>1, <3>2, <1>1, <1>5 DEF Source, StagedIsWindow
    <3>4. QED
      BY <3>1, <3>3, <1>1, <1>5 DEF StagedIsWindow
  <2>5. QED
    BY <2>1, <2>3, <2>4 DEF Progress
<1>9. QED
  BY <1>3, <1>4, <1>7, <1>8

\* The TTL takes rows away from what has to be covered.
LEMMA ExpireKeepsCoverage ==
  ASSUME TypeOK, CoverageInv, NEW r \in Rows, Expire(r)
  PROVE  CoverageInv'
<1> USE DEF TypeOK, CoverageInv, Expire, locals
<1>1. FilesFitWindows' /\ Settled'
  BY DEF FilesFitWindows, Settled, Closed
<1>2. WindowEnd' = WindowEnd
  BY DEF WindowEnd
<1>3. Source' \subseteq Source
  BY <1>2 DEF Source
<1>4. \A t : Covered(t) => Covered(t)'
  BY DEF Covered, Archived
<1>5. StagedIsWindow => StagedIsWindow'
  BY <1>2, <1>3 DEF StagedIsWindow
<1>6. Progress' /\ Coverage'
  BY <1>2, <1>4, <1>5 DEF Progress, Coverage
<1>7. QED
  BY <1>1, <1>6

\* Steps of the exporter that touch only its locals.
LEMMA LocalStepKeepsCoverage ==
  ASSUME TypeOK, CoverageInv,
         UNCHANGED <<tier, lake, watermark, origin>>,
         Settled', Progress'
  PROVE  CoverageInv'
BY DEF CoverageInv, tier, FilesFitWindows, Coverage, Covered, Archived

LEMMA CoveredUnchanged ==
  ASSUME UNCHANGED <<tier, lake, origin>>
  PROVE  \A t : Covered(t)' <=> Covered(t)
BY DEF tier, Covered, Archived

LEMMA StartKeepsCoverage ==
  ASSUME TypeOK, CoverageInv, Start
  PROVE  CoverageInv'
<1>1. Settled' /\ Progress'
  BY DEF Start, CoverageInv, Settled, Progress, InRun, Closed, tier
<1>2. QED
  BY <1>1, LocalStepKeepsCoverage DEF Start

\* The process exits: nothing is in hand, what is on disk stays.
LEMMA ExitKeepsCoverage ==
  ASSUME TypeOK, CoverageInv, Exit,
         UNCHANGED <<tier, lake, watermark, origin>>
  PROVE  CoverageInv'
<1>1. Settled' /\ Progress'
  BY DEF Exit, CoverageInv, Settled, Progress, InRun, Closed, tier
<1>2. QED
  BY <1>1, LocalStepKeepsCoverage

\* Between the delete and the insert of a rewind no watermark claims anything;
\* what lies below the rewind's target is covered as it was.
LEMMA RewindKeepsCoverage ==
  ASSUME TypeOK, CoverageInv, NEW s \in Time, RewindDelete(s)
  PROVE  CoverageInv'
<1> USE ColdExportAssumption DEF TypeOK, CoverageInv, RewindDelete, tier, Time, None
<1>1. s >= Epoch /\ watermark \in Int
  OBVIOUS
<1>2. FilesFitWindows'
  BY DEF FilesFitWindows
<1>3. Settled'
  BY <1>1 DEF Settled, InRun, Closed, MinOf
<1>4. Covered(s)'
  BY <1>1 DEF Coverage, Covered, Archived, MinOf
<1>5. Progress'
  BY <1>4 DEF Progress, InRun, Covered, Archived
<1>6. Coverage'
  BY DEF Coverage, Covered
<1>7. QED
  BY <1>2, <1>3, <1>5, <1>6

LEMMA RewindWriteKeepsCoverage ==
  ASSUME TypeOK, CoverageInv, RewindWrite
  PROVE  CoverageInv'
<1> USE DEF TypeOK, CoverageInv, RewindWrite, tier
<1>1. watermark' = cursor /\ pc' = "read"
  BY ColdExportAssumption DEF Settled, Write, MaxOf, None
<1>2. FilesFitWindows'
  BY DEF FilesFitWindows
<1>3. Settled'
  BY <1>1 DEF Settled, InRun, Closed
<1>4. Progress' /\ Coverage'
  BY <1>1 DEF Progress, Coverage, InRun, Covered, Archived
<1>5. QED
  BY <1>2, <1>3, <1>4

\* A run starts at the watermark, below which everything is covered, or at the
\* oldest row, where the archive then begins.
LEMMA ReadStartKeepsCoverage ==
  ASSUME TypeOK, CoverageInv, ReadStart
  PROVE  CoverageInv'
<1> USE DEF TypeOK, CoverageInv, ReadStart, tier
<1>1. CASE watermark # None
  <2>1. Settled' /\ Progress'
    BY <1>1 DEF Settled, Progress, InRun, Closed, Coverage, Covered, Archived
  <2>2. QED
    BY <1>1, <2>1, LocalStepKeepsCoverage
<1>2. CASE watermark = None
  <2>1. cursor' = origin' /\ cursor' \in Int
    BY <1>2, ColdExportAssumption DEF Time
  <2>2. FilesFitWindows'
    BY <1>2 DEF FilesFitWindows
  <2>3. Settled'
    BY <1>2, <2>1 DEF Settled, InRun, Closed
  <2>4. Progress'
    BY <1>2, <2>1 DEF Progress, InRun, Covered, Time
  <2>5. Coverage'
    BY <1>2, ColdExportAssumption, <2>1 DEF Coverage, Covered, None, Time
  <2>6. QED
    BY <2>2, <2>3, <2>4, <2>5
<1>3. QED
  BY <1>1, <1>2

LEMMA PlanKeepsCoverage ==
  ASSUME TypeOK, CoverageInv, Plan
  PROVE  CoverageInv'
<1> USE ColdExportAssumption DEF TypeOK, CoverageInv, Plan, tier
<1>1. Settled'
  BY DEF Settled, InRun, Closed, Time
<1>2. Progress'
  BY DEF Progress, InRun, Covered, Archived
<1>3. QED
  BY <1>1, <1>2, LocalStepKeepsCoverage

\* A window without rows leaves nothing to copy.
LEMMA EmptyWindowIsCovered ==
  ASSUME TypeOK, Covered(cursor), Source = {}
  PROVE  Covered(WindowEnd)
<1>1. WindowEnd \in Int
  BY WindowEndType
<1>2. \A r \in hot : ts[r] < WindowEnd => ts[r] < cursor
  BY <1>1 DEF TypeOK, Source, Time
<1>3. QED
  BY <1>2 DEF Covered

LEMMA CountKeepsCoverage ==
  ASSUME TypeOK, CoverageInv, Count
  PROVE  CoverageInv'
<1> USE DEF CoverageInv, Count
<1>1. Settled'
  BY DEF Settled, InRun, Closed, tier
<1>2. Covered(cursor) /\ WindowEnd' = WindowEnd
  BY DEF Progress, InRun, WindowEnd
<1>3. Progress'
  BY <1>2, EmptyWindowIsCovered, CoveredUnchanged DEF Progress, InRun
<1>4. QED
  BY <1>1, <1>3, LocalStepKeepsCoverage

\* Whatever the stream does to their values, it brings the window's rows.
LEMMA StreamKeepsCoverage ==
  ASSUME TypeOK, CoverageInv, Stream
  PROVE  CoverageInv'
<1> USE DEF CoverageInv, Stream
<1>1. Settled'
  BY DEF Settled, InRun, Closed, tier
<1>2. Covered(cursor) /\ WindowEnd' = WindowEnd /\ Source' = Source
  BY DEF Progress, InRun, WindowEnd, Source, tier
<1>3. DOMAIN staged' = Source
  OBVIOUS
<1>4. StagedIsWindow'
  BY <1>2, <1>3 DEF StagedIsWindow, Source, tier
<1>5. Progress'
  BY <1>2, <1>4, EmptyWindowIsCovered, CoveredUnchanged DEF Progress, InRun
<1>6. QED
  BY <1>1, <1>5, LocalStepKeepsCoverage

LEMMA MangleKeepsCoverage ==
  ASSUME TypeOK, CoverageInv, StreamMangled
  PROVE  CoverageInv'
<1> USE DEF CoverageInv, StreamMangled
<1>1. Settled'
  BY DEF Settled, InRun, Closed, tier
<1>2. DOMAIN staged' = Source /\ Source' = Source /\ WindowEnd' = WindowEnd
  BY DEF Source, WindowEnd, tier
<1>3. StagedIsWindow'
  BY <1>2 DEF StagedIsWindow, Source, tier
<1>4. Progress'
  BY <1>3, CoveredUnchanged DEF Progress, InRun
<1>5. QED
  BY <1>1, <1>4, LocalStepKeepsCoverage

LEMMA VerifyKeepsCoverage ==
  ASSUME TypeOK, CoverageInv, Verify
  PROVE  CoverageInv'
<1> USE DEF CoverageInv, Verify
<1>1. CASE pc' = "commit" /\ UNCHANGED <<cursor, horizon, counted, staged>>
  <2>1. Settled'
    BY <1>1 DEF Settled, InRun, Closed, tier
  <2>2. StagedIsWindow'
    BY <1>1 DEF Progress, StagedIsWindow, Source, WindowEnd, tier
  <2>3. Progress'
    BY <1>1, <2>2, CoveredUnchanged DEF Progress, InRun
  <2>4. QED
    BY <2>1, <2>3, LocalStepKeepsCoverage
<1>2. CASE Exit
  BY <1>2, ExitKeepsCoverage
<1>3. QED
  BY <1>1, <1>2

\* The file that is overwritten holds rows of its own window only, and the new
\* one has all of that window the hot tier still holds.
LEMMA CommitKeepsCoverage ==
  ASSUME TypeOK, CoverageInv, Commit
  PROVE  CoverageInv'
<1> USE DEF TypeOK, CoverageInv, Commit, tier
<1>1. WindowEnd \in Int /\ WindowEnd' = WindowEnd
  BY WindowEndType DEF WindowEnd
<1>2. StagedIsWindow /\ Covered(cursor)
  BY DEF Progress, InRun
<1>3. \A c \in lake' : c \in lake \/ (InFile(c) /\ c.row \in DOMAIN staged)
  BY DEF InFile
<1>4. FilesFitWindows'
  BY <1>2, <1>3 DEF FilesFitWindows, InFile, StagedIsWindow
<1>5. Settled'
  BY DEF Settled, InRun, Closed
<1>6. \A r \in DOMAIN staged : Archived(r)'
  <2>1. SUFFICES ASSUME NEW r \in DOMAIN staged PROVE Archived(r)'
    OBVIOUS
  <2>2. [start |-> cursor, end |-> WindowEnd, row |-> r, values |-> staged[r]] \in lake'
    OBVIOUS
  <2>3. QED
    BY <2>2 DEF Archived
<1>7. \A r \in hot : Archived(r) => Archived(r)'
  <2>1. SUFFICES ASSUME NEW r \in hot, NEW c \in lake, c.row = r
                 PROVE  Archived(r)'
    BY DEF Archived
  <2>2. CASE ~ InFile(c)
    BY <2>1, <2>2 DEF Archived
  <2>3. CASE InFile(c)
    BY <2>1, <2>3, <1>2, <1>6 DEF FilesFitWindows, InFile, StagedIsWindow, Source
  <2>4. QED
    BY <2>2, <2>3
<1>8. \A t : Covered(t) => Covered(t)'
  BY <1>7 DEF Covered
<1>9. Covered(WindowEnd)'
  <2>1. SUFFICES ASSUME NEW r \in hot, origin <= ts[r], ts[r] < WindowEnd
                 PROVE  Archived(r)'
    BY <1>1 DEF Covered
  <2>2. CASE ts[r] < cursor
    BY <2>1, <2>2, <1>2, <1>7 DEF Covered
  <2>3. CASE cursor <= ts[r]
    BY <2>1, <2>3, <1>2, <1>6 DEF StagedIsWindow, Source
  <2>4. QED
    BY <2>2, <2>3 DEF Time
<1>10. Progress' /\ Coverage'
  BY <1>1, <1>2, <1>8, <1>9 DEF Progress, Coverage, InRun
<1>11. QED
  BY <1>4, <1>5, <1>10

LEMMA MarkKeepsCoverage ==
  ASSUME TypeOK, CoverageInv, Mark
  PROVE  CoverageInv'
<1> USE DEF TypeOK, CoverageInv, Mark, tier
<1>1. WindowEnd \in Int /\ Closed(WindowEnd) /\ Covered(WindowEnd)
  <2>1. WindowEnd \in Int /\ WindowEnd <= horizon
    BY WindowEndType
  <2>2. Closed(horizon) /\ Covered(WindowEnd)
    BY DEF Settled, Progress, InRun
  <2>3. QED
    BY <2>1, <2>2, ColdExportAssumption DEF Closed, Time
<1>2. watermark' = watermark \/ watermark' = WindowEnd
  BY DEF Write, MaxOf
<1>3. FilesFitWindows'
  BY DEF FilesFitWindows
<1>4. Settled'
  BY <1>1, <1>2 DEF Settled, Exit, InRun, Closed
<1>5. Coverage'
  BY <1>1, <1>2 DEF Coverage, Covered, Archived
<1>6. Progress'
  BY <1>1, CoveredUnchanged DEF Progress, Exit, InRun
<1>7. QED
  BY <1>3, <1>4, <1>5, <1>6

LEMMA LossKeepsCoverage ==
  ASSUME TypeOK, CoverageInv, NEW kept \in SUBSET lake, LoseFiles(kept)
  PROVE  CoverageInv'
<1> USE DEF TypeOK, CoverageInv, LoseFiles, tier, locals
<1>1. FilesFitWindows'
  BY DEF FilesFitWindows
<1>2. Settled' /\ Progress'
  BY DEF Settled, Progress, InRun, Closed, MaxOf, Time
<1>3. Coverage'
  BY DEF Coverage, Covered, MaxOf, Time
<1>4. QED
  BY <1>1, <1>2, <1>3

-----------------------------------------------------------------------------
LEMMA StepKeepsCoverage ==
  ASSUME TypeOK, CoverageInv, MaxLate <= Margin, [Next]_vars
  PROVE  CoverageInv'
<1>1. CASE Exporter
  <2>1. CASE Finish
    BY <2>1, ExitKeepsCoverage DEF Finish
  <2>2. QED
    BY <1>1, <2>1, RewindWriteKeepsCoverage, ReadStartKeepsCoverage,
       PlanKeepsCoverage, CountKeepsCoverage, StreamKeepsCoverage,
       MangleKeepsCoverage, VerifyKeepsCoverage, CommitKeepsCoverage,
       MarkKeepsCoverage DEF Exporter
<1>2. CASE Environment
  BY <1>2, TickKeepsCoverage, LandKeepsCoverage, ExpireKeepsCoverage DEF Environment
<1>3. CASE Operator
  BY <1>3, StartKeepsCoverage, RewindKeepsCoverage, LossKeepsCoverage DEF Operator
<1>4. CASE Crash
  BY <1>4, ExitKeepsCoverage DEF Crash
<1>5. CASE UNCHANGED vars
  <2>1. WindowEnd' = WindowEnd /\ Source' = Source
    BY <1>5 DEF vars, tier, locals, WindowEnd, Source
  <2>2. Settled' /\ Progress'
    BY <1>5, <2>1, CoveredUnchanged
       DEF vars, tier, locals, CoverageInv, Settled, Progress, StagedIsWindow, Closed
  <2>3. QED
    BY <1>5, <2>2, LocalStepKeepsCoverage DEF vars
<1>6. QED
  BY <1>1, <1>2, <1>3, <1>4, <1>5 DEF Next

LEMMA CoverageInvHolds == ASSUME MaxLate <= Margin PROVE Spec => []CoverageInv
<1>1. TypeOK /\ CoverageInv /\ [Next]_vars => CoverageInv'
  BY StepKeepsCoverage
<1>2. QED
  BY <1>1, CoverageInvInit, TypeCorrect, PTL DEF Spec

(***************************************************************************)
(* If no row lands later than the lag margin allows, then at every moment  *)
(* every row that spans_raw still holds below the watermark is in the      *)
(* lake: through crashes at any step, damaged files, rewinds and the TTL,  *)
(* and however many of them there are (run_export, export_window).         *)
(***************************************************************************)
THEOREM CoverageHolds == ASSUME MaxLate <= Margin PROVE Spec => []Coverage
<1>1. CoverageInv => Coverage
  BY DEF CoverageInv
<1>2. QED
  BY <1>1, CoverageInvHolds, PTL

(***************************************************************************)
(* Under the same condition the TTL drops an uncopied row only while       *)
(* ExportHealth.at_risk is already true, so cold status was red before     *)
(* anything was lost.                                                      *)
(***************************************************************************)
THEOREM LossIsNeverSilent == ASSUME MaxLate <= Margin PROVE Spec => NoSilentLoss
<1>1. TypeOK /\ Coverage /\ [Next]_vars =>
        [\A r \in hot \ hot' : Archived(r) \/ AtRisk \/ ts[r] < origin]_vars
  <2> SUFFICES ASSUME TypeOK, Coverage, Next, NEW r \in hot \ hot'
               PROVE  Archived(r) \/ AtRisk \/ ts[r] < origin
    OBVIOUS
  <2>1. ts[r] + TTL <= now
    BY DEF Next, Exporter, Environment, Operator, Crash, Tick, Land, Expire, Start,
           RewindDelete, RewindWrite, ReadStart, Plan, Finish, Count, Stream,
           StreamMangled, Verify, Commit, Mark, LoseFiles, tier
  <2>2. CASE watermark = None
    BY <2>2 DEF AtRisk
  <2>3. CASE watermark # None /\ ts[r] < watermark
    BY <2>3 DEF Coverage, Covered, TypeOK, Time
  <2>4. CASE watermark <= ts[r]
    <3>1. now - watermark >= TTL
      BY <2>1, <2>4, ColdExportAssumption DEF TypeOK, Time
    <3>2. QED
      BY <3>1, ColdExportAssumption DEF AtRisk, TypeOK, Time
  <2>5. QED
    BY <2>2, <2>3, <2>4 DEF TypeOK, Time
<1>2. QED
  BY <1>1, TypeCorrect, CoverageHolds, PTL DEF Spec, NoSilentLoss

-----------------------------------------------------------------------------
(***************************************************************************)
(* Fingerprints.  Verification lets a file through when its fingerprint is *)
(* that of the rows the window has by then.  Those are the file's rows: no *)
(* row lands in the window any more, and had one been dropped the numbers  *)
(* of rows would differ.                                                   *)
(***************************************************************************)
Original(f) == [r \in DOMAIN f |-> Written(r)]

Matching ==
  /\ FilesMatchTheirRows
  /\ pc = "commit" => Fingerprint(staged) = Fingerprint(Original(staged))

LEMMA VerifiedIsMatching ==
  ASSUME TypeOK, CoverageInv, pc = "verify", Verified
  PROVE  Fingerprint(staged) = Fingerprint(Original(staged))
<1>1. Source \subseteq DOMAIN staged /\ DOMAIN staged \subseteq Rows
  BY ContentsType DEF CoverageInv, Progress, StagedIsWindow, TypeOK
<1>2. IsFiniteSet(DOMAIN staged)
  BY <1>1, FS_Subset, ColdExportAssumption
<1>3. Cardinality(DOMAIN staged) = Cardinality(Source)
  BY DEF Verified, Fingerprint
<1>4. Source = DOMAIN staged
  BY <1>1, <1>2, <1>3, FS_Subset
<1>5. QED
  BY <1>4 DEF Verified, Original

\* Files that leave the lake, or stay in it, do so whole.
LEMMA WholeFilesMatch ==
  ASSUME FilesMatchTheirRows, lake' \subseteq lake,
         \A c \in lake', d \in lake : c.start = d.start /\ c.end = d.end => d \in lake'
  PROVE  FilesMatchTheirRows'
<1>1. \A c \in lake' : FileOf(c)' = FileOf(c)
  BY DEF FileOf
<1>2. QED
  BY <1>1 DEF FilesMatchTheirRows

LEMMA CommitMatches ==
  ASSUME TypeOK, Matching, Commit
  PROVE  FilesMatchTheirRows'
<1> DEFINE new == {[start |-> cursor, end |-> WindowEnd, row |-> r, values |-> staged[r]]
                     : r \in DOMAIN staged}
<1>1. lake' = {c \in lake : ~ InFile(c)} \union new
  BY DEF Commit
<1>2. staged \in [DOMAIN staged -> Values] /\ Fingerprint(staged) = Fingerprint(Original(staged))
  BY ContentsType DEF TypeOK, Matching, Commit
<1> SUFFICES ASSUME NEW c \in lake'
             PROVE  \E f \in [{d.row : d \in FileOf(c)'} -> Values] :
                      /\ FileOf(c)' = {[start |-> c.start, end |-> c.end, row |-> r, values |-> f[r]]
                                         : r \in DOMAIN f}
                      /\ Fingerprint(f) = Fingerprint([r \in DOMAIN f |-> Written(r)])
  BY DEF FilesMatchTheirRows
<1>3. CASE c \in new
  <2>1. c.start = cursor /\ c.end = WindowEnd
    BY <1>3
  <2>2. FileOf(c)' = new
    BY <1>1, <2>1 DEF FileOf, InFile
  <2>3. {d.row : d \in new} = DOMAIN staged
    <3>1. \A r \in DOMAIN staged : \E d \in new : d.row = r
      <4> TAKE r \in DOMAIN staged
      <4> DEFINE e == [start |-> cursor, end |-> WindowEnd, row |-> r, values |-> staged[r]]
      <4>1. e \in new /\ e.row = r
        OBVIOUS
      <4>2. QED
        BY <4>1
    <3>2. \A d \in new : d.row \in DOMAIN staged
      OBVIOUS
    <3>3. QED
      BY <3>1, <3>2
  <2>4. QED
    BY <1>2, <2>1, <2>2, <2>3 DEF Original
<1>4. CASE c \in lake /\ ~ InFile(c)
  <2>1. FileOf(c)' = FileOf(c)
    BY <1>1, <1>4 DEF FileOf, InFile
  <2>2. QED
    BY <1>4, <2>1 DEF Matching, FilesMatchTheirRows
<1>5. QED
  BY <1>1, <1>3, <1>4

\* The steps that write no file.
LEMMA OthersMatch ==
  ASSUME TypeOK, CoverageInv, Matching, lake' = lake, pc' = "commit" => Verify \/ UNCHANGED <<pc, staged>>
  PROVE  Matching'
<1>1. FilesMatchTheirRows'
  BY WholeFilesMatch DEF Matching
<1>2. ASSUME pc' = "commit"
      PROVE  (Fingerprint(staged) = Fingerprint(Original(staged)))'
  <2>1. CASE Verify
    <3>1. Verified /\ pc = "verify" /\ staged' = staged
      BY <1>2, <2>1 DEF Verify, Exit
    <3>2. QED
      BY <3>1, VerifiedIsMatching DEF Original
  <2>2. CASE UNCHANGED <<pc, staged>>
    BY <1>2, <2>2 DEF Matching, Original
  <2>3. QED
    BY <1>2, <2>1, <2>2
<1>3. QED
  BY <1>1, <1>2 DEF Matching

(***************************************************************************)
(* Whatever the stream damages, and whatever rows the TTL drops between    *)
(* the three queries, a file that is committed has the fingerprint of the  *)
(* rows it was made from (export_window), for every set of rows and every  *)
(* assignment of values to them.                                           *)
(***************************************************************************)
THEOREM FilesMatchHolds == ASSUME MaxLate <= Margin PROVE Spec => []FilesMatchTheirRows
<1>1. Init => Matching
  BY DEF Init, Matching, FilesMatchTheirRows
<1>2. TypeOK /\ CoverageInv /\ Matching /\ [Next]_vars => Matching'
  <2> SUFFICES ASSUME TypeOK, CoverageInv, Matching, [Next]_vars
               PROVE  Matching'
    OBVIOUS
  <2>1. CASE Commit
    BY <2>1, CommitMatches DEF Commit, Matching
  <2>2. ASSUME NEW kept \in SUBSET lake, LoseFiles(kept)
        PROVE  Matching'
    <3>1. FilesMatchTheirRows'
      BY <2>2, WholeFilesMatch DEF LoseFiles, Matching
    <3>2. QED
      BY <2>2, <3>1 DEF LoseFiles, Matching, locals
  <2>3. CASE RewindWrite \/ ReadStart \/ Plan \/ Finish \/ Count \/ Stream \/ StreamMangled \/ Mark
    BY <2>3, OthersMatch DEF RewindWrite, ReadStart, Plan, Finish, Count, Stream, StreamMangled,
       Mark, Exit
  <2>4. CASE Verify
    BY <2>4, OthersMatch DEF Verify
  <2>5. CASE Environment
    BY <2>5, OthersMatch DEF Environment, Tick, Land, Expire, locals
  <2>6. CASE Crash \/ Start \/ \E s \in Time : RewindDelete(s)
    BY <2>6, OthersMatch DEF Crash, Exit, Start, RewindDelete
  <2>7. CASE UNCHANGED vars
    BY <2>7, OthersMatch DEF vars, locals
  <2>8. QED
    BY <2>1, <2>2, <2>3, <2>4, <2>5, <2>6, <2>7 DEF Next, Exporter, Operator
<1>3. Matching => FilesMatchTheirRows
  BY DEF Matching
<1>4. QED
  BY <1>1, <1>2, <1>3, TypeCorrect, CoverageInvHolds, PTL DEF Spec

-----------------------------------------------------------------------------
(***************************************************************************)
(* Files.  Each lies within a day.  Without a crash or a rewind every file *)
(* ends at or before the watermark, but the one just committed, and a run  *)
(* goes on from the watermark: no two files overlap.                       *)
(***************************************************************************)
LEMMA WindowIsForward ==
  ASSUME NEW t \in Int, NEW h \in Int, t < h
  PROVE  t < PlanEnd(t, h) /\ PlanEnd(t, h) <= Midnight(t)
<1>1. Midnight(t) \in Int /\ t < Midnight(t) /\ FloorHour(t + Width) \in Int
  BY ColdExportAssumption DEF Midnight, FloorHour
<1>2. NextBoundary(t) \in Int /\ t < NextBoundary(t)
  BY <1>1, ColdExportAssumption DEF NextBoundary
<1>3. QED
  BY <1>1, <1>2 DEF PlanEnd, MinOf

LEMMA SameDay ==
  ASSUME NEW t \in Int, NEW e \in Int, t < e, e <= Midnight(t)
  PROVE  t \div Day = (e - 1) \div Day
BY ColdExportAssumption DEF Midnight

\* A row of a file, or of one about to be committed, is the window's.
Holds(start, end, r) == r \in hot \union gone /\ start <= ts[r] /\ ts[r] < end

FilesFit ==
  /\ \A c \in lake : Holds(c.start, c.end, c.row) /\ c.end <= Midnight(c.start)
  /\ \A c, d \in lake : c.start = d.start /\ c.end = d.end /\ c.row = d.row => c = d
  /\ pc \in {"verify", "commit"} => \A x \in DOMAIN staged : Holds(cursor, WindowEnd, x)

CursorFits ==
  /\ pc \in InRun \union {"rewind"} => cursor >= Epoch
  /\ pc \in {"stream", "verify", "commit", "mark"} => cursor < horizon
  /\ watermark = None \/ watermark >= Epoch

Uninterrupted == spent["crash"] + spent["rewind"] = 0

RunsAbut ==
  Uninterrupted =>
    /\ pc # "rewind"
    /\ pc \in InRun /\ watermark # None => cursor = watermark
    /\ \A c \in lake : c.end <= watermark \/ (pc = "mark" /\ InFile(c))

FilesApart ==
  Uninterrupted =>
    \A c, d \in lake : \/ c.start = d.start /\ c.end = d.end
                       \/ c.end <= d.start \/ d.end <= c.start

FilesInv == FilesFit /\ CursorFits /\ RunsAbut /\ FilesApart

\* The rows move, the exporter does not.
LEMMA TierKeepsFiles ==
  ASSUME TypeOK, FilesInv,
         Tick \/ (\E r \in Rows, t \in Time : Land(r, t)) \/ (\E r \in Rows : Expire(r))
  PROVE  FilesInv'
<1> USE DEF TypeOK, FilesInv
<1>1. /\ UNCHANGED <<lake, watermark, locals, spent>>
      /\ hot \union gone \subseteq hot' \union gone'
      /\ \A r \in hot \union gone : ts'[r] = ts[r]
  BY DEF Tick, Land, Expire
<1>2. \A a, b : \A x \in hot \union gone : Holds(a, b, x) => Holds(a, b, x)'
  BY <1>1 DEF Holds
<1>3. UNCHANGED WindowEnd
  BY <1>1 DEF WindowEnd, locals
<1>4. FilesFit'
  BY <1>1, <1>2, <1>3 DEF FilesFit, Holds, locals
<1>5. CursorFits' /\ RunsAbut' /\ FilesApart'
  BY <1>1, <1>3 DEF CursorFits, RunsAbut, FilesApart, Uninterrupted, InFile, locals
<1>6. QED
  BY <1>4, <1>5

LEMMA Charged ==
  ASSUME TypeOK, NEW m \in Mishaps, Charge(m)
  PROVE  Uninterrupted' => Uninterrupted /\ m \notin {"crash", "rewind"}
BY DEF TypeOK, Charge, Uninterrupted, Mishaps

\* A run ends, or an operator takes files away: nothing of it is left to commit.
LEMMA IdleKeepsFiles ==
  ASSUME TypeOK, FilesInv, pc' = "idle", lake' \subseteq lake, UNCHANGED <<hot, gone, ts, watermark>>,
         Uninterrupted' => Uninterrupted /\ pc # "mark"
  PROVE  FilesInv'
<1>1. FilesFit'
  BY DEF FilesInv, FilesFit, Holds
<1>2. CursorFits' /\ FilesApart'
  BY DEF FilesInv, CursorFits, FilesApart, InRun
<1>3. RunsAbut'
  BY DEF FilesInv, RunsAbut, InRun, InFile
<1>4. QED
  BY <1>1, <1>2, <1>3 DEF FilesInv

\* The steps of a run that write neither the lake nor the watermark.
LEMMA LocalsKeepFiles ==
  ASSUME TypeOK, FilesInv, Start \/ ReadStart \/ Plan \/ Finish \/ Count \/ Stream
           \/ StreamMangled \/ Verify
  PROVE  FilesInv'
<1> USE DEF TypeOK, FilesInv
<1>0. /\ UNCHANGED <<tier, lake, watermark>>
      /\ Uninterrupted' => Uninterrupted
      /\ pc \notin {"mark", "commit"}
  <2>1. CASE StreamMangled
    BY <2>1, Charged DEF StreamMangled, Mishaps
  <2>2. CASE Start \/ ReadStart \/ Plan \/ Finish \/ Count \/ Stream \/ Verify
    BY <2>2 DEF Start, ReadStart, Plan, Finish, Count, Stream, Verify, Uninterrupted
  <2>3. QED
    BY <2>1, <2>2
<1>1. CASE pc' = "idle"
  BY <1>0, <1>1, IdleKeepsFiles DEF tier
<1>2. CASE pc' # "idle"
  <2>1. FilesFit'
    <3>1. pc' \in {"verify", "commit"} => \A x \in DOMAIN staged' : Holds(cursor, WindowEnd, x)'
      <4>1. SUFFICES ASSUME pc' \in {"verify", "commit"}
                     PROVE  \A x \in DOMAIN staged' : Holds(cursor, WindowEnd, x)'
        OBVIOUS
      <4>2. UNCHANGED <<cursor, horizon>> /\ UNCHANGED WindowEnd
        BY <1>2, <4>1 DEF Start, ReadStart, Plan, Finish, Count, Stream, StreamMangled, Verify,
           Exit, WindowEnd
      <4>3. DOMAIN staged' = Source \/ (pc = "verify" /\ staged' = staged)
        BY <1>2, <4>1 DEF Start, ReadStart, Plan, Finish, Count, Stream, StreamMangled, Verify, Exit
      <4>4. QED
        BY <1>0, <4>2, <4>3 DEF Source, Holds, FilesFit, tier
    <3>2. \A c \in lake' : Holds(c.start, c.end, c.row)' /\ c.end <= Midnight(c.start)
      BY <1>0 DEF FilesFit, Holds, tier
    <3>3. QED
      BY <1>0, <3>1, <3>2 DEF FilesFit
  <2>2. CursorFits'
    BY ColdExportAssumption, <1>0, <1>2 DEF CursorFits, InRun, Start, ReadStart, Plan, Finish, Count, Stream, StreamMangled,
       Verify, Exit, Time
  <2>3. RunsAbut'
    <3>1. SUFFICES ASSUME Uninterrupted'
                   PROVE  RunsAbut'
      BY DEF RunsAbut
    <3>2. \A c \in lake' : c.end <= watermark'
      BY <1>0, <3>1 DEF RunsAbut
    <3>3. pc' # "rewind" /\ (pc' \in InRun /\ watermark' # None => cursor' = watermark')
      BY <1>0, <1>2, <3>1 DEF RunsAbut, InRun, Start, ReadStart, Plan, Finish, Count, Stream, StreamMangled,
         Verify, Exit
    <3>4. QED
      BY <3>2, <3>3 DEF RunsAbut, InFile
  <2>4. FilesApart'
    BY <1>0 DEF FilesApart
  <2>5. QED
    BY <2>1, <2>2, <2>3, <2>4
<1>3. QED
  BY <1>1, <1>2

LEMMA RewindKeepsFiles ==
  ASSUME TypeOK, FilesInv, RewindWrite \/ (\E s \in Time : RewindDelete(s))
  PROVE  FilesInv'
<1> USE DEF TypeOK, FilesInv
<1>1. CASE RewindWrite
  <2>1. ~ Uninterrupted'
    BY <1>1 DEF RewindWrite, RunsAbut, Uninterrupted
  <2>2. FilesFit'
    BY <1>1 DEF RewindWrite, FilesFit, Holds, tier
  <2>3. CursorFits'
    BY <1>1 DEF RewindWrite, CursorFits, InRun, Write, MaxOf, None
  <2>4. QED
    BY <2>1, <2>2, <2>3 DEF RunsAbut, FilesApart
<1>2. ASSUME NEW s \in Time, RewindDelete(s)
      PROVE  FilesInv'
  <2>1. ~ Uninterrupted'
    BY <1>2, Charged DEF RewindDelete, Mishaps
  <2>2. FilesFit'
    BY <1>2 DEF RewindDelete, FilesFit, Holds, tier
  <2>3. CursorFits'
    BY <1>2, ColdExportAssumption DEF RewindDelete, CursorFits, InRun, Time
  <2>4. QED
    BY <2>1, <2>2, <2>3 DEF RunsAbut, FilesApart
<1>3. QED
  BY <1>1, <1>2

\* The file of the window in hand is beyond all others.
LEMMA CommitKeepsFiles ==
  ASSUME TypeOK, FilesInv, Commit
  PROVE  FilesInv'
<1> USE DEF TypeOK, FilesInv
<1>0. /\ pc = "commit" /\ pc' = "mark" /\ UNCHANGED <<tier, watermark, cursor, horizon, spent>>
      /\ lake' = {c \in lake : ~ InFile(c)}
                 \union {[start |-> cursor, end |-> WindowEnd, row |-> r, values |-> staged[r]]
                           : r \in DOMAIN staged}
  BY DEF Commit
<1>1. cursor < horizon /\ cursor \in Int /\ horizon \in Int
  BY <1>0 DEF CursorFits
<1>2. WindowEnd \in Int /\ cursor < WindowEnd /\ WindowEnd <= Midnight(cursor) /\ UNCHANGED WindowEnd
  BY <1>0, <1>1, PlanEndType, WindowIsForward DEF WindowEnd
<1>3. \A c \in lake' : c \in lake \/ (c.start = cursor /\ c.end = WindowEnd /\ c.row \in DOMAIN staged)
  BY DEF Commit, InFile
<1>4. FilesFit'
  <2>1. \A c, d \in lake' : c.start = d.start /\ c.end = d.end /\ c.row = d.row => c = d
    BY <1>0 DEF FilesFit, InFile
  <2>2. \A c \in lake' : Holds(c.start, c.end, c.row)' /\ c.end <= Midnight(c.start)
    BY <1>0, <1>2, <1>3 DEF FilesFit, Holds, tier
  <2>3. QED
    BY <1>0, <2>1, <2>2 DEF FilesFit
<1>5. CursorFits'
  BY <1>0 DEF CursorFits, InRun
<1>6. RunsAbut'
  BY <1>0, <1>2, <1>3 DEF RunsAbut, InRun, Uninterrupted, InFile
<1>7. ASSUME Uninterrupted, NEW c \in lake
      PROVE  c.end <= cursor
  <2>1. c.end <= watermark /\ c.end \in Int
    BY <1>0, <1>7 DEF RunsAbut, Copy
  <2>2. CASE watermark # None
    BY <1>0, <1>7, <2>1, <2>2 DEF RunsAbut, InRun
  <2>3. CASE watermark = None
    <3>1. Holds(c.start, c.end, c.row)
      BY DEF FilesFit
    <3>2. c.row \in Rows /\ ts[c.row] >= 0 /\ ts[c.row] \in Int
      BY <3>1 DEF Holds, Time
    <3>3. QED
      BY ColdExportAssumption, <2>1, <2>3, <3>1, <3>2 DEF Holds, None
  <2>4. QED
    BY <2>2, <2>3
<1>8. FilesApart'
  <2>1. SUFFICES ASSUME Uninterrupted, NEW c \in lake', NEW d \in lake'
                 PROVE  \/ c.start = d.start /\ c.end = d.end
                        \/ c.end <= d.start \/ d.end <= c.start
    BY <1>0 DEF FilesApart, Uninterrupted
  <2>2. CASE c \in lake /\ d \in lake
    BY <2>1, <2>2 DEF FilesApart
  <2>3. CASE ~ (c \in lake /\ d \in lake)
    BY <1>3, <1>7, <2>1, <2>3
  <2>4. QED
    BY <2>2, <2>3
<1>9. QED
  BY <1>4, <1>5, <1>6, <1>8

LEMMA MarkKeepsFiles ==
  ASSUME TypeOK, FilesInv, Mark
  PROVE  FilesInv'
<1> USE DEF TypeOK, FilesInv
<1>0. /\ pc = "mark" /\ pc' \in {"window", "idle"} /\ UNCHANGED <<tier, lake, spent>>
      /\ watermark' = Write(WindowEnd)
      /\ pc' = "window" => cursor' = WindowEnd
  BY DEF Mark, Exit
<1>1. cursor < horizon /\ cursor >= Epoch /\ cursor \in Int /\ horizon \in Int
  BY <1>0 DEF CursorFits, InRun
<1>2. WindowEnd \in Int /\ cursor < WindowEnd
  BY <1>1, PlanEndType, WindowIsForward DEF WindowEnd
<1>3. /\ watermark' >= watermark /\ watermark' >= WindowEnd /\ watermark' \in {watermark, WindowEnd}
  BY <1>0, <1>2 DEF Write, MaxOf
<1>4. FilesFit'
  BY <1>0 DEF FilesFit, Holds, tier
<1>5. CursorFits'
  BY ColdExportAssumption, <1>0, <1>1, <1>2, <1>3 DEF CursorFits, InRun
<1>6. FilesApart'
  BY <1>0 DEF FilesApart, Uninterrupted
<1>7. RunsAbut'
  <2>1. SUFFICES ASSUME Uninterrupted
                 PROVE  /\ \A c \in lake : c.end <= watermark'
                        /\ watermark' = WindowEnd
    BY <1>0 DEF RunsAbut, Uninterrupted, InRun, InFile
  <2>2. watermark' = WindowEnd
    BY ColdExportAssumption, <1>0, <1>1, <1>2, <1>3, <2>1 DEF RunsAbut, InRun, None
  <2>3. ASSUME NEW c \in lake
        PROVE  c.end <= watermark'
    <3>1. c.end <= watermark \/ c.end = WindowEnd
      BY <2>1 DEF RunsAbut, InFile
    <3>2. c.end \in Int
      BY DEF Copy
    <3>3. QED
      BY <1>2, <1>3, <3>1, <3>2
  <2>4. QED
    BY <2>2, <2>3
<1>8. QED
  BY <1>4, <1>5, <1>6, <1>7

LEMMA FilesInvHolds == Spec => []FilesInv
<1>1. Init => FilesInv
  BY DEF Init, FilesInv, FilesFit, CursorFits, RunsAbut, FilesApart, InRun
<1>2. TypeOK /\ FilesInv /\ [Next]_vars => FilesInv'
  <2> SUFFICES ASSUME TypeOK, FilesInv, [Next]_vars
               PROVE  FilesInv'
    OBVIOUS
  <2>1. CASE Crash
    BY <2>1, IdleKeepsFiles, Charged DEF Crash, Exit, Mishaps, tier
  <2>2. ASSUME NEW kept \in SUBSET lake, LoseFiles(kept)
        PROVE  FilesInv'
    BY <2>2, IdleKeepsFiles, Charged DEF LoseFiles, Mishaps, tier, locals
  <2>3. CASE UNCHANGED vars
    BY <2>3 DEF vars, tier, locals, FilesInv, FilesFit, Holds, CursorFits, RunsAbut, FilesApart,
       Uninterrupted, InFile, WindowEnd
  <2>4. CASE Exporter
    BY <2>4, RewindKeepsFiles, LocalsKeepFiles, CommitKeepsFiles, MarkKeepsFiles DEF Exporter
  <2>5. CASE Environment
    BY <2>5, TierKeepsFiles DEF Environment
  <2>6. CASE Start \/ \E s \in Time : RewindDelete(s)
    BY <2>6, LocalsKeepFiles, RewindKeepsFiles
  <2>7. QED
    BY <2>1, <2>2, <2>3, <2>4, <2>5, <2>6 DEF Next, Operator
<1>3. QED
  BY <1>1, <1>2, TypeCorrect, PTL DEF Spec

(***************************************************************************)
(* The file lands in one dt= partition, whatever the widths of hours, days *)
(* and windows, and whatever mishaps strike (plan_windows).                *)
(***************************************************************************)
THEOREM FileInOneDayHolds == Spec => []FileInOneDay
<1>1. TypeOK /\ FilesInv => FileInOneDay
  <2> SUFFICES ASSUME TypeOK, FilesInv, NEW c \in lake
               PROVE  c.start \div Day = (c.end - 1) \div Day
    BY DEF FileInOneDay
  <2>1. c.start \in Int /\ c.end \in Int
    BY DEF TypeOK, Copy
  <2>2. Holds(c.start, c.end, c.row) /\ c.end <= Midnight(c.start)
    BY DEF FilesInv, FilesFit
  <2>3. c.start < c.end
    <3>1. ts[c.row] \in Int
      BY <2>2 DEF Holds, TypeOK, Time
    <3>2. QED
      BY <2>1, <2>2, <3>1 DEF Holds
  <2>4. QED
    BY <2>1, <2>2, <2>3, SameDay
<1>2. QED
  BY <1>1, FilesInvHolds, TypeCorrect, PTL

(***************************************************************************)
(* No row is in two files while no run crashes and none is rewound, however*)
(* many windows fail their verification and are retried (run_export).      *)
(***************************************************************************)
THEOREM OneCopyHolds == Spec => []OneCopyUnlessInterrupted
<1>1. TypeOK /\ FilesInv => OneCopyUnlessInterrupted
  <2> SUFFICES ASSUME TypeOK, FilesInv, Uninterrupted, NEW c \in lake, NEW d \in lake, c.row = d.row
               PROVE  c = d
    BY DEF OneCopyUnlessInterrupted, Uninterrupted
  <2>1. c \in Copy /\ d \in Copy
    BY DEF TypeOK
  <2>2. Holds(c.start, c.end, c.row) /\ Holds(d.start, d.end, c.row)
    BY DEF FilesInv, FilesFit
  <2>3. ts[c.row] \in Int
    BY <2>2 DEF Holds, TypeOK, Time
  <2>4. c.start = d.start /\ c.end = d.end
    BY <2>1, <2>2, <2>3 DEF Holds, FilesInv, FilesApart, Copy
  <2>5. QED
    BY <2>4 DEF FilesInv, FilesFit
<1>2. QED
  BY <1>1, FilesInvHolds, TypeCorrect, PTL

-----------------------------------------------------------------------------
(***************************************************************************)
(* Watermark and files.  The windows run_export plans are of one hour, so  *)
(* where a window that begins inside another one is cut, by the hour or at *)
(* midnight, the other one was cut too; and horizons only grow.            *)
(***************************************************************************)
Cut(t) == MinOf(NextBoundary(t), Midnight(t))

LEMMA Quotient ==
  ASSUME NEW x \in Int, NEW d \in Nat \ {0}
  PROVE  x \div d \in Int /\ d * (x \div d) <= x /\ x < d * (x \div d) + d
OBVIOUS

LEMMA NextMultiple ==
  ASSUME NEW a \in Int, NEW t \in Int, NEW d \in Nat \ {0}, a < (t \div d) * d + d
  PROVE  (a \div d) * d + d <= (t \div d) * d + d
<1> DEFINE p == a \div d
           q == t \div d
<1>1. p \in Int /\ q \in Int /\ d * p <= a
  BY Quotient
<1> HIDE DEF p, q
<1>2. d * p < d * q + d
  BY <1>1 DEF q
<1>3. p <= q
  BY <1>1, <1>2
<1>4. d * p <= d * q
  BY <1>1, <1>3
<1>5. QED
  BY <1>1, <1>4 DEF p, q

LEMMA CutFact ==
  ASSUME NEW a \in Int, NEW t \in Int, Width = Hour, a < Cut(t)
  PROVE  Cut(a) \in Int /\ Cut(t) \in Int /\ Cut(a) <= Cut(t)
<1>1. \A x \in Int : /\ NextBoundary(x) = (x \div Hour) * Hour + Hour
                     /\ NextBoundary(x) \in Int /\ Midnight(x) \in Int
  <2> TAKE x \in Int
  <2>1. (x + Hour) \div Hour = x \div Hour + 1
    BY ColdExportAssumption
  <2>2. x \div Hour \in Int /\ x < Hour * (x \div Hour) + Hour
    BY ColdExportAssumption, Quotient
  <2>3. FloorHour(x + Width) = (x \div Hour) * Hour + Hour
    BY <2>1, <2>2, ColdExportAssumption DEF FloorHour
  <2>4. QED
    BY <2>2, <2>3, ColdExportAssumption DEF NextBoundary, Midnight
<1>2. a < NextBoundary(t) /\ a < Midnight(t)
  BY <1>1 DEF Cut, MinOf
<1>3. NextBoundary(a) <= NextBoundary(t)
  BY <1>1, <1>2, NextMultiple, ColdExportAssumption
<1>4. Midnight(a) <= Midnight(t)
  BY <1>2, NextMultiple, ColdExportAssumption DEF Midnight
<1>5. QED
  BY <1>1, <1>3, <1>4 DEF Cut, MinOf

LEMMA PlanEndIsCut ==
  ASSUME NEW t \in Int, NEW h \in Int
  PROVE  PlanEnd(t, h) = MinOf(Cut(t), h) /\ Cut(t) \in Int
<1>1. \A x \in Int : FloorHour(x) \in Int /\ Midnight(x) \in Int
  BY ColdExportAssumption DEF FloorHour, Midnight
<1>2. NextBoundary(t) \in Int
  BY <1>1, ColdExportAssumption DEF NextBoundary
<1>3. QED
  BY <1>1, <1>2 DEF PlanEnd, Cut, MinOf

Planned == {"window", "stream", "verify", "commit", "mark"}
Unrewound == spent["rewind"] = 0

FilesEnd ==
  \A c \in lake : /\ c.end <= Cut(c.start)
                  /\ c.end <= now - Margin
                  /\ pc \in Planned => c.end <= horizon

RunFollows ==
  /\ pc \in Planned => horizon <= now - Margin
  /\ Unrewound => /\ pc # "rewind"
                  /\ pc \in InRun /\ watermark # None => cursor = watermark

StraddleInv == FilesEnd /\ RunFollows /\ NoFileStraddlesWatermark

\* Steps after which the lake and the watermark are as they were, or files fewer.
LEMMA StillKeepsStraddle ==
  ASSUME TypeOK, StraddleInv, lake' \subseteq lake, now' >= now, now' \in Int,
         watermark' = watermark, Unrewound' => Unrewound,
         pc' \in Planned => pc \in Planned /\ horizon' = horizon,
         Unrewound' => pc' # "rewind" /\ (pc' \in InRun /\ watermark # None => cursor' = watermark)
  PROVE  StraddleInv'
<1> USE ColdExportAssumption DEF TypeOK, Copy, Time
<1>1. FilesEnd'
  BY DEF StraddleInv, FilesEnd
<1>2. RunFollows'
  BY DEF StraddleInv, RunFollows
<1>3. NoFileStraddlesWatermark'
  BY DEF StraddleInv, NoFileStraddlesWatermark, Unrewound
<1>4. QED
  BY <1>1, <1>2, <1>3 DEF StraddleInv

LEMMA RunKeepsStraddle ==
  ASSUME TypeOK, StraddleInv,
         Start \/ ReadStart \/ Finish \/ Count \/ Stream \/ Verify
           \/ StreamMangled
  PROVE  StraddleInv'
<1>1. /\ UNCHANGED <<lake, now, watermark>>
      /\ spent'["rewind"] = spent["rewind"]
      /\ pc' \in Planned => pc \in Planned /\ horizon' = horizon
      /\ Unrewound => pc' # "rewind" /\ (pc' \in InRun /\ watermark # None => cursor' = watermark)
  <2>1. CASE StreamMangled
    BY <2>1 DEF StreamMangled, Charge, tier, Planned, InRun, StraddleInv, RunFollows, TypeOK, Mishaps
  <2>2. CASE Start \/ ReadStart
    BY <2>2 DEF Start, ReadStart, Exit, tier, Planned, InRun, StraddleInv, RunFollows
  <2>3. CASE Finish \/ Count \/ Stream \/ Verify
    BY <2>3 DEF Finish, Count, Stream, Verify, Exit, tier, Planned, InRun, StraddleInv, RunFollows
  <2>4. QED
    BY <2>1, <2>2, <2>3
<1>2. now' >= now /\ now' \in Int
  BY <1>1 DEF TypeOK, Time
<1>3. QED
  BY <1>1, <1>2, StillKeepsStraddle DEF Unrewound

LEMMA OthersKeepStraddle ==
  ASSUME TypeOK, StraddleInv,
         \/ Environment \/ Crash \/ RewindWrite
         \/ (\E s \in Time : RewindDelete(s))
         \/ \E kept \in SUBSET lake : LoseFiles(kept)
  PROVE  StraddleInv'
<1> USE ColdExportAssumption DEF TypeOK, Time
<1>1. CASE Environment
  <2>1. /\ UNCHANGED <<lake, watermark, pc, horizon, cursor, spent>>
        /\ now' >= now /\ now' \in Int
    BY <1>1 DEF Environment, Tick, Land, Expire, locals
  <2>2. QED
    BY <2>1, StillKeepsStraddle DEF Unrewound, StraddleInv, RunFollows
<1>2. CASE Crash
  <2>1. /\ UNCHANGED <<lake, watermark, now>> /\ pc' = "idle" /\ now \in Int
        /\ Unrewound' => Unrewound
    BY <1>2 DEF Crash, Charge, Exit, tier, Unrewound, Mishaps
  <2>2. QED
    BY <2>1, StillKeepsStraddle DEF Planned, InRun
<1>3. ASSUME NEW kept \in SUBSET lake, LoseFiles(kept)
      PROVE  StraddleInv'
  <2>1. /\ UNCHANGED <<watermark, now>> /\ pc' = pc /\ pc = "idle" /\ now \in Int
        /\ lake' \subseteq lake
        /\ Unrewound' => Unrewound
    BY <1>3 DEF LoseFiles, Charge, tier, locals, Unrewound, Mishaps
  <2>2. QED
    BY <2>1, StillKeepsStraddle DEF Planned, InRun
<1>4. CASE RewindWrite \/ (\E s \in Time : RewindDelete(s))
  <2>1. ~ Unrewound' /\ pc' \notin Planned /\ UNCHANGED <<lake, now>>
    <3>1. CASE RewindWrite
      BY <3>1 DEF RewindWrite, StraddleInv, RunFollows, Unrewound, Planned, tier
    <3>2. CASE \E s \in Time : RewindDelete(s)
      BY <3>2 DEF RewindDelete, Charge, Unrewound, Planned, Mishaps, tier
    <3>3. QED
      BY <1>4, <3>1, <3>2
  <2>2. QED
    BY <2>1 DEF StraddleInv, FilesEnd, RunFollows, NoFileStraddlesWatermark, Unrewound
<1>5. QED
  BY <1>1, <1>2, <1>3, <1>4

\* A new horizon lies beyond the end of every file.
LEMMA PlanKeepsStraddle ==
  ASSUME TypeOK, StraddleInv, Plan
  PROVE  StraddleInv'
<1> USE ColdExportAssumption DEF TypeOK, Copy, Time
<1>1. FilesEnd'
  BY DEF StraddleInv, FilesEnd, Plan, tier
<1>2. RunFollows'
  BY DEF StraddleInv, RunFollows, Plan, tier, Unrewound, InRun
<1>3. NoFileStraddlesWatermark'
  BY DEF StraddleInv, NoFileStraddlesWatermark, Plan, tier
<1>4. QED
  BY <1>1, <1>2, <1>3 DEF StraddleInv

\* The new file begins at the watermark, if there is one.
LEMMA CommitKeepsStraddle ==
  ASSUME TypeOK, FilesInv, StraddleInv, Commit
  PROVE  StraddleInv'
<1> USE ColdExportAssumption DEF TypeOK
<1>1. /\ pc = "commit" /\ pc' = "mark" /\ UNCHANGED <<now, watermark, cursor, horizon, spent>>
      /\ \A c \in lake' : c \in lake \/ (c.start = cursor /\ c.end = WindowEnd)
  BY DEF Commit, tier
<1>2. /\ WindowEnd \in Int /\ WindowEnd <= Cut(cursor) /\ WindowEnd <= horizon
      /\ horizon <= now - Margin
  BY <1>1, PlanEndIsCut, WindowEndType
     DEF WindowEnd, MinOf, StraddleInv, RunFollows, Planned, FilesInv, CursorFits, InRun
<1>3. FilesEnd'
  BY <1>1, <1>2 DEF StraddleInv, FilesEnd, Planned, Time
<1>4. RunFollows'
  BY <1>1 DEF StraddleInv, RunFollows, Planned, Unrewound, InRun
<1>5. NoFileStraddlesWatermark'
  BY <1>1, <1>2 DEF StraddleInv, RunFollows, NoFileStraddlesWatermark, Unrewound, InRun
<1>6. QED
  BY <1>3, <1>4, <1>5 DEF StraddleInv

\* A file that begins before the end of the window ends by it.
LEMMA MarkKeepsStraddle ==
  ASSUME TypeOK, Width = Hour, FilesInv, StraddleInv, Mark
  PROVE  StraddleInv'
<1> USE ColdExportAssumption DEF TypeOK
<1>1. /\ pc = "mark" /\ pc' \in {"window", "idle"} /\ UNCHANGED <<tier, lake, spent>>
      /\ watermark' = Write(WindowEnd)
      /\ pc' = "window" => cursor' = WindowEnd /\ horizon' = horizon
  BY DEF Mark, Exit
<1>2. cursor \in Int /\ horizon \in Int /\ cursor >= Epoch /\ cursor < horizon
  BY <1>1 DEF FilesInv, CursorFits, InRun
<1>3. /\ WindowEnd \in Int /\ cursor < WindowEnd /\ WindowEnd = MinOf(Cut(cursor), horizon)
      /\ Cut(cursor) \in Int
  BY <1>2, PlanEndIsCut, PlanEndType, WindowIsForward DEF WindowEnd
<1>4. ASSUME NEW c \in lake, c.start < WindowEnd
      PROVE  c.end <= WindowEnd
  <2>1. c.start \in Int /\ c.end \in Int
    BY DEF Copy
  <2>2. c.end <= Cut(c.start) /\ c.end <= horizon
    BY <1>1 DEF StraddleInv, FilesEnd, Planned
  <2>3. c.start < Cut(cursor)
    BY <1>2, <1>3, <1>4, <2>1 DEF MinOf
  <2>4. Cut(c.start) <= Cut(cursor) /\ Cut(c.start) \in Int
    BY <1>2, <2>1, <2>3, CutFact
  <2>5. QED
    BY <1>2, <1>3, <2>1, <2>2, <2>4 DEF MinOf
<1>5. ASSUME Unrewound
      PROVE  watermark' = WindowEnd
  BY <1>1, <1>2, <1>3, <1>5 DEF StraddleInv, RunFollows, InRun, Write, MaxOf, None
<1>6. FilesEnd'
  BY <1>1 DEF StraddleInv, FilesEnd, Planned, tier
<1>7. RunFollows'
  BY <1>1, <1>5 DEF StraddleInv, RunFollows, Planned, Unrewound, InRun, tier
<1>8. NoFileStraddlesWatermark'
  BY <1>1, <1>4, <1>5 DEF NoFileStraddlesWatermark, Unrewound
<1>9. QED
  BY <1>6, <1>7, <1>8 DEF StraddleInv

(***************************************************************************)
(* With windows of an hour, which is what run_export plans, the watermark  *)
(* is never inside a file unless an operator has put it there: not even    *)
(* when runs were cut short before there was a watermark, and the oldest   *)
(* row is another one now (plan_windows).                                  *)
(***************************************************************************)
THEOREM NoFileStraddlesHolds == ASSUME Width = Hour PROVE Spec => []NoFileStraddlesWatermark
<1>1. Init => StraddleInv
  BY ColdExportAssumption
     DEF Init, StraddleInv, FilesEnd, RunFollows, NoFileStraddlesWatermark, Planned, InRun
<1>2. TypeOK /\ FilesInv /\ StraddleInv /\ [Next]_vars => StraddleInv'
  <2> SUFFICES ASSUME TypeOK, FilesInv, StraddleInv, [Next]_vars
               PROVE  StraddleInv'
    OBVIOUS
  <2>1. CASE UNCHANGED vars
    BY <2>1 DEF vars, tier, locals, StraddleInv, FilesEnd, RunFollows, NoFileStraddlesWatermark,
       Unrewound
  <2>2. CASE Next
    BY <2>2, RunKeepsStraddle, OthersKeepStraddle, PlanKeepsStraddle, CommitKeepsStraddle,
       MarkKeepsStraddle DEF Next, Exporter, Operator
  <2>3. QED
    BY <2>1, <2>2
<1>3. StraddleInv => NoFileStraddlesWatermark
  BY DEF StraddleInv
<1>4. QED
  BY <1>1, <1>2, <1>3, TypeCorrect, FilesInvHolds, PTL DEF Spec

-----------------------------------------------------------------------------
(***************************************************************************)
(* The exporter as an archive.  Each step maps to one of Archive or leaves *)
(* what Archive sees alone: a row lands (Arrive) or expires (Drop), a file *)
(* is committed (Keep), the watermark moves (Pass).                        *)
(***************************************************************************)
Kept == {c.row : c \in lake}
Passed == {r \in hot \union gone : origin <= ts[r] /\ ts[r] < watermark}
Seen == <<hot, gone, Kept, Passed>>

LEMMA NothingIsPassedWithoutAWatermark ==
  ASSUME TypeOK, watermark = None
  PROVE  Passed = {}
BY ColdExportAssumption DEF TypeOK, Passed, None, Time

LEMMA SeenUnchanged ==
  ASSUME UNCHANGED <<hot, gone, ts, lake, watermark, origin>>
  PROVE  UNCHANGED Seen
BY DEF Seen, Kept, Passed

LEMMA LandArrives ==
  ASSUME TypeOK, CoverageInv, MaxLate <= Margin, NEW r \in Rows, NEW t \in Time, Land(r, t)
  PROVE  A!Arrive(r)
<1> USE ColdExportAssumption DEF TypeOK, Time
<1>1. /\ r \notin hot \union gone /\ hot' = hot \union {r} /\ gone' = gone
      /\ UNCHANGED <<lake, watermark, origin>>
      /\ \A q \in hot \union gone : ts'[q] = ts[q]
  BY DEF Land
<1>2. watermark <= ts'[r] \/ watermark <= origin
  BY DEF Land, CoverageInv, Settled, Closed, None
<1>3. Kept' = Kept
  BY <1>1 DEF Kept
<1>4. ~ (origin <= ts'[r] /\ ts'[r] < watermark)
  BY <1>2 DEF Land, None
<1>5. Passed' = Passed
  <2>1. ASSUME NEW q \in Rows
        PROVE  q \in Passed' <=> q \in Passed
    <3>1. CASE q = r
      BY <3>1, <1>1, <1>4 DEF Passed
    <3>2. CASE q # r
      BY <3>2, <1>1 DEF Passed
    <3>3. QED
      BY <3>1, <3>2
  <2>2. Passed \subseteq Rows /\ Passed' \subseteq Rows
    BY <1>1 DEF Passed
  <2>3. QED
    BY <2>1, <2>2
<1>6. QED
  BY <1>1, <1>3, <1>5 DEF A!Arrive, Passed, Kept

LEMMA ExpireDrops ==
  ASSUME TypeOK, NEW r \in Rows, Expire(r)
  PROVE  A!Drop(r)
<1>1. /\ r \in hot /\ hot' = hot \ {r} /\ gone' = gone \union {r}
      /\ UNCHANGED <<ts, lake, watermark, origin>>
      /\ hot' \union gone' = hot \union gone
  BY DEF Expire
<1>2. Passed' = Passed /\ Kept' = Kept
  BY <1>1 DEF Passed, Kept
<1>3. QED
  BY <1>1, <1>2 DEF A!Drop, Passed, Kept

LEMMA CommitKeeps ==
  ASSUME TypeOK, CoverageInv, Commit
  PROVE  A!Next
<1> USE DEF TypeOK
<1>1. /\ pc = "commit" /\ UNCHANGED <<hot, gone, ts, watermark, origin>>
      /\ lake' = {c \in lake : ~ InFile(c)}
                 \union {[start |-> cursor, end |-> WindowEnd, row |-> r, values |-> staged[r]]
                           : r \in DOMAIN staged}
  BY DEF Commit, tier
<1>2. StagedIsWindow /\ FilesFitWindows
  BY <1>1 DEF CoverageInv, Progress
<1>3. Kept' = {c.row : c \in {d \in lake : ~ InFile(d)}} \union DOMAIN staged
  <2>1. \A c \in lake' : c.row \in {d.row : d \in {e \in lake : ~ InFile(e)}} \union DOMAIN staged
    BY <1>1
  <2>2. \A x \in DOMAIN staged : \E c \in lake' : c.row = x
    <3> TAKE x \in DOMAIN staged
    <3> DEFINE c == [start |-> cursor, end |-> WindowEnd, row |-> x, values |-> staged[x]]
    <3>1. c \in lake'
      BY <1>1
    <3>2. QED
      BY <3>1
  <2>3. QED
    BY <1>1, <2>1, <2>2 DEF Kept
<1>4. Kept' \subseteq hot \union gone
  BY <1>2, <1>3 DEF StagedIsWindow, FilesFitWindows
<1>5. ASSUME NEW c \in lake, c.row \in hot, InFile(c)
      PROVE  c.row \in DOMAIN staged
  BY <1>2, <1>5 DEF FilesFitWindows, StagedIsWindow, InFile, Source
<1>6. Kept \intersect hot \subseteq Kept'
  BY <1>3, <1>5 DEF Kept
<1>7. Passed' = Passed
  BY <1>1 DEF Passed
<1>8. Kept' \in SUBSET Rows
  BY <1>4
<1>9. \E S \in SUBSET Rows : /\ Kept \intersect hot \subseteq S
                            /\ S \subseteq hot \union gone
                            /\ Kept' = S
  BY <1>4, <1>6, <1>8
<1>10. QED
  BY <1>1, <1>7, <1>9 DEF A!Next, A!Keep, Kept, Passed

LEMMA MarkPasses ==
  ASSUME TypeOK, CoverageInv, Mark
  PROVE  A!Next
<1> USE DEF TypeOK, Time
<1>1. /\ pc = "mark" /\ UNCHANGED <<hot, gone, ts, lake, origin>> /\ watermark' = Write(WindowEnd)
  BY DEF Mark, tier
<1>2. WindowEnd \in Int
  BY WindowEndType
<1>3. watermark' >= watermark /\ watermark' \in {watermark, WindowEnd}
  BY <1>1, <1>2 DEF Write, MaxOf
<1>4. Covered(watermark')
  BY <1>1, <1>3 DEF CoverageInv, Progress, Coverage
<1>5. Passed' \subseteq Kept \union gone
  BY <1>1, <1>4 DEF Passed, Kept, Covered, Archived
<1>6. Passed' = Passed \union Passed' /\ Passed' \in SUBSET Rows
  BY <1>1, <1>2, <1>3 DEF Passed
<1>7. UNCHANGED Kept
  BY <1>1 DEF Kept
<1>8. \E S \in SUBSET Rows : S \subseteq Kept \union gone /\ Passed' = Passed \union S
  BY <1>5, <1>6
<1>9. QED
  BY <1>1, <1>7, <1>8 DEF A!Next, A!Pass, Kept, Passed

\* A first run changes where the archive begins: before there is a watermark.
LEMMA OriginIsUnseen ==
  ASSUME TypeOK, ReadStart
  PROVE  UNCHANGED Seen
<1>1. UNCHANGED <<hot, gone, ts, lake, watermark>>
  BY DEF ReadStart, tier
<1>2. CASE watermark # None
  BY <1>1, <1>2, SeenUnchanged DEF ReadStart
<1>3. CASE watermark = None
  <2>1. Passed = {} /\ Passed' = {}
    BY <1>1, <1>3, ColdExportAssumption DEF TypeOK, Passed, None, Time
  <2>2. QED
    BY <1>1, <2>1 DEF Seen, Kept
<1>4. QED
  BY <1>2, <1>3

\* The second half of a rewind: nothing was passed, and all that the new watermark
\* passes is covered as it was before.
LEMMA RewindWritePasses ==
  ASSUME TypeOK, CoverageInv, RewindWrite
  PROVE  A!Next
<1> USE DEF TypeOK, Time
<1>1. /\ pc = "rewind" /\ watermark' = Write(cursor)
      /\ UNCHANGED <<hot, gone, ts, lake, origin>>
  BY DEF RewindWrite, tier
<1>2. watermark = None /\ watermark' = cursor
  BY <1>1, ColdExportAssumption DEF CoverageInv, Settled, Write, MaxOf, None
<1>3. Covered(watermark')
  BY <1>1, <1>2 DEF CoverageInv, Progress
<1>4. Passed = {} /\ Passed' \in SUBSET Rows
  BY <1>1, <1>2, NothingIsPassedWithoutAWatermark DEF Passed
<1>5. Passed' \subseteq Kept \union gone
  BY <1>1, <1>3 DEF Passed, Kept, Covered, Archived
<1>6. UNCHANGED Kept
  BY <1>1 DEF Kept
<1>7. \E S \in SUBSET Rows : S \subseteq Kept \union gone /\ Passed' = Passed \union S
  BY <1>4, <1>5
<1>8. QED
  BY <1>1, <1>6, <1>7 DEF A!Next, A!Pass, Kept, Passed

LEMMA StepIsOfAnArchive ==
  ASSUME TypeOK, CoverageInv, MaxLate <= Margin, [Next]_vars
  PROVE  [A!Next \/ Interferes]_(A!vars)
<1>1. Seen = A!vars /\ Seen' = A!vars'
  BY DEF Seen, Kept, Passed, A!vars
<1>2. CASE UNCHANGED vars
  BY <1>1, <1>2, SeenUnchanged DEF vars, tier
<1>3. CASE Tick \/ Start \/ Plan \/ Finish \/ Count \/ Stream \/ Verify \/ Crash
             \/ StreamMangled
  <2>1. UNCHANGED <<hot, gone, ts, lake, watermark, origin>>
    BY <1>3 DEF Tick, Start, Plan, Finish, Count, Stream, Verify, Crash, StreamMangled, tier
  <2>2. QED
    BY <1>1, <2>1, SeenUnchanged
<1>4. CASE ReadStart
  BY <1>1, <1>4, OriginIsUnseen
<1>5. CASE Commit
  BY <1>5, CommitKeeps
<1>6. CASE Mark
  BY <1>6, MarkPasses
<1>7. CASE RewindWrite
  BY <1>7, RewindWritePasses
<1>8. CASE Environment
  BY <1>3, <1>8, LandArrives, ExpireDrops DEF Environment, A!Next
<1>9. CASE Interferes
  BY <1>9
<1>10. QED
  BY <1>2, <1>3, <1>4, <1>5, <1>6, <1>7, <1>8, <1>9 DEF Next, Exporter, Operator, Interferes

(***************************************************************************)
(* Whatever an operator does to its watermark and its files, every step of *)
(* the exporter is one of an archive, for any number of crashes, rewinds,  *)
(* losses of files and damaged files (run_export).                         *)
(***************************************************************************)
THEOREM ArchiveImplemented == ASSUME MaxLate <= Margin PROVE Spec => ImplementsArchive
<1>1. Init => A!Init
  BY DEF Init, A!Init, None
<1>2. TypeOK /\ CoverageInv /\ [Next]_vars => [A!Next \/ Interferes]_(A!vars)
  BY StepIsOfAnArchive
<1>3. QED
  BY <1>1, <1>2, TypeCorrect, CoverageInvHolds, PTL DEF Spec, ImplementsArchive
=============================================================================
