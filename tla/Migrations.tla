----------------------------- MODULE Migrations -----------------------------
(***************************************************************************)
(* The migration runner (storage/migrations.py): `telemetry-engine migrate`*)
(* applies every .sql file that schema_migrations has no row for, in file  *)
(* order, one statement per request, and records a file when its last      *)
(* statement has succeeded.  ClickHouse has no transaction around a file,  *)
(* and nothing keeps two operators from running the command at once.       *)
(*                                                                         *)
(* Files are numbered as discover() sorts them; file 1 is the bootstrap    *)
(* file, which every run executes.  A checksum is the number of the file's *)
(* revision.                                                               *)
(***************************************************************************)
EXTENDS Integers, Sequences, SequencesExt

CONSTANTS
  Catalogue,       \* the files, each the sequence of its statements
  Releases,        \* the numbers of files the repository was deployed with
  Runners,         \* processes that may run `telemetry-engine migrate`
  WatermarkTable,  \* the table the cold-tier exporter keeps its watermark in
  MaxMark,         \* bound on the watermark
  MaxCrashes,      \* bound on runs that are cut short
  MaxEdits         \* bound on edits of a file already deployed

Files == DOMAIN Catalogue
Statements == UNION {{Catalogue[f][i] : i \in DOMAIN Catalogue[f]} : f \in Files}
Tables == UNION {{s.table, s.from} \union s.needs : s \in Statements}
Statement == [op : {"create", "drop", "copy", "rename"},
              table : Tables, from : Tables, needs : SUBSET Tables]

ASSUME MigrationsAssumption ==
  /\ Catalogue \in Seq(Seq(Statement)) \ {<<>>}
  /\ Releases \subseteq 1 .. Len(Catalogue)
  /\ WatermarkTable \in Tables
  /\ MaxMark \in Nat
  /\ MaxCrashes \in Nat
  /\ MaxEdits \in Nat

Absent == -1    \* the server has no such table
None == 0       \* no row in schema_migrations

VARIABLES
  shipped,     \* how many files schemas/clickhouse holds
  revision,    \* each file's revision on disk
  server,      \* per table: Absent, or the watermark it holds, 0 for no row
  recorded,    \* per file: the revision schema_migrations has, or None
  pc, file, stmt,  \* per run: its phase, and the file and statement in hand
  limit,       \* per run: how many files it discovered
  already,     \* per run: the records it read when it began
  ran,         \* history: how often each file after the first was executed to its end
  overlapped,  \* history: two runs have been under way at once
  failed,      \* history: a statement has failed
  baseline,    \* history: the furthest watermark a run has found in its table
  crashes, edits   \* history: what has happened so far, for the bounds

runs == <<pc, file, stmt, limit, already>>
history == <<ran, overlapped, failed, baseline, crashes, edits>>
vars == <<shipped, revision, server, recorded, runs, history>>

\* Where a run may stand: within a file it discovered, or one past the last.
Position(r) ==
  /\ file[r] <= limit[r] + 1
  /\ file[r] <= limit[r] => stmt[r] <= Len(Catalogue[file[r]]) + 1
  /\ pc[r] # "apply" => file[r] = 1
  /\ pc[r] = "idle" => stmt[r] = 1

TypeOK ==
  /\ shipped \in Releases
  /\ revision \in [Files -> Nat \ {None}]
  /\ server \in [Tables -> Absent .. MaxMark]
  /\ recorded \in [Files -> Nat]
  /\ pc \in [Runners -> {"idle", "bootstrap", "bookkeep", "apply"}]
  /\ limit \in [Runners -> Files]
  /\ file \in [Runners -> Nat \ {0}]
  /\ stmt \in [Runners -> Nat \ {0}]
  /\ \A r \in Runners : Position(r)
  /\ already \in [Runners -> [Files -> Nat]]
  /\ ran \in [Files -> Nat]
  /\ overlapped \in BOOLEAN
  /\ failed \in BOOLEAN
  /\ baseline \in Absent .. MaxMark
  /\ crashes \in 0 .. MaxCrashes
  /\ edits \in 0 .. MaxEdits

-----------------------------------------------------------------------------
(* Statements, as ClickHouse executes them. *)

Larger(a, b) == IF a <= b THEN b ELSE a

Exists(s, sv) == sv[s.table] # Absent

\* Mutant of CanRun: CREATE without IF NOT EXISTS.
CanRunPlainCreate(s, sv) ==
  /\ \A t \in s.needs : sv[t] # Absent
  /\ s.op \in {"create", "rename"} => ~ Exists(s, sv)

\* A CREATE that finds its table does nothing; a RENAME must not find it.
CanRun(s, sv) ==
  \/ s.op = "create" /\ Exists(s, sv)
  \/ /\ \A t \in s.needs : sv[t] # Absent
     /\ s.op = "rename" => ~ Exists(s, sv)

Effect(s, sv) ==
  CASE s.op = "create" -> [sv EXCEPT ![s.table] = Larger(@, 0)]
    [] s.op = "drop"   -> [sv EXCEPT ![s.table] = Absent]
    [] s.op = "copy"   -> [sv EXCEPT ![s.table] = Larger(@, sv[s.from])]
    [] s.op = "rename" -> [sv EXCEPT ![s.table] = sv[s.from], ![s.from] = Absent]

-----------------------------------------------------------------------------
(* apply_all. *)

Stop(r) ==
  /\ pc' = [pc EXCEPT ![r] = "idle"]
  /\ file' = [file EXCEPT ![r] = 1]
  /\ stmt' = [stmt EXCEPT ![r] = 1]
  /\ limit' = [limit EXCEPT ![r] = 1]
  /\ already' = [already EXCEPT ![r] = [f \in Files |-> None]]

NextFile(r) ==
  /\ file' = [file EXCEPT ![r] = @ + 1]
  /\ stmt' = [stmt EXCEPT ![r] = 1]

\* Mutant of Start: the last file is not discovered.
StartShort(r) ==
  /\ pc[r] = "idle"
  /\ pc' = [pc EXCEPT ![r] = "bootstrap"]
  /\ limit' = [limit EXCEPT ![r] = Larger(shipped - 1, 1)]
  /\ overlapped' = (overlapped \/ \E q \in Runners : pc[q] # "idle")
  /\ baseline' = Larger(baseline, server[WatermarkTable])
  /\ UNCHANGED <<shipped, revision, server, recorded, file, stmt, already,
                 ran, failed, crashes, edits>>

\* discover()
Start(r) ==
  /\ pc[r] = "idle"
  /\ pc' = [pc EXCEPT ![r] = "bootstrap"]
  /\ limit' = [limit EXCEPT ![r] = shipped]
  /\ overlapped' = (overlapped \/ \E q \in Runners : pc[q] # "idle")
  /\ baseline' = Larger(baseline, server[WatermarkTable])
  /\ UNCHANGED <<shipped, revision, server, recorded, file, stmt, already,
                 ran, failed, crashes, edits>>

\* Mutant of Pending: a file edited since it was applied is applied again.
PendingOrDrifted(r) == already[r][file[r]] # revision[file[r]]

\* The file in hand was not recorded when the run began.
Pending(r) == already[r][file[r]] = None

\* Whether the run has files left, and is to execute the one in hand.
Executes(r) ==
  \/ pc[r] = "bootstrap"
  \/ pc[r] = "apply" /\ file[r] <= limit[r] /\ Pending(r)

AtEnd(r) == stmt[r] > Len(Catalogue[file[r]])

\* conn.command(stmt): a statement that fails ends the run with an exception.
Execute(r) ==
  /\ Executes(r) /\ ~ AtEnd(r)
  /\ LET s == Catalogue[file[r]][stmt[r]] IN
       IF CanRun(s, server)
         THEN /\ server' = Effect(s, server)
              /\ stmt' = [stmt EXCEPT ![r] = @ + 1]
              /\ ran' = IF pc[r] = "apply" /\ stmt[r] = Len(Catalogue[file[r]])
                          THEN [ran EXCEPT ![file[r]] = @ + 1] ELSE ran
              /\ UNCHANGED <<pc, file, limit, already, failed>>
         ELSE /\ Stop(r)
              /\ failed' = TRUE
              /\ UNCHANGED <<server, ran>>
  /\ UNCHANGED <<shipped, revision, recorded, overlapped, baseline, crashes, edits>>

\* The bookkeeping table is created if need be, and read once.
Snapshot(r) ==
  /\ pc[r] = "bootstrap" /\ AtEnd(r)
  /\ already' = [already EXCEPT ![r] = recorded]
  /\ pc' = [pc EXCEPT ![r] = "bookkeep"]
  /\ UNCHANGED <<shipped, revision, server, recorded, file, stmt, limit, history>>

\* Mutant of Bookkeep: the loop begins at migrations[2:].
BookkeepSkipsOne(r) ==
  /\ pc[r] = "bookkeep"
  /\ recorded' = IF already[r][1] = revision[1] THEN recorded
                 ELSE [recorded EXCEPT ![1] = revision[1]]
  /\ pc' = [pc EXCEPT ![r] = "apply"]
  /\ file' = [file EXCEPT ![r] = 3]
  /\ stmt' = [stmt EXCEPT ![r] = 1]
  /\ UNCHANGED <<shipped, revision, server, limit, already, history>>

\* The bootstrap file is recorded anew whenever its checksum differs.
Bookkeep(r) ==
  /\ pc[r] = "bookkeep"
  /\ recorded' = IF already[r][1] = revision[1] THEN recorded
                 ELSE [recorded EXCEPT ![1] = revision[1]]
  /\ pc' = [pc EXCEPT ![r] = "apply"]
  /\ NextFile(r)
  /\ UNCHANGED <<shipped, revision, server, limit, already, history>>

\* A recorded file is skipped, or reported as drifted, and not executed.
Pass(r) ==
  /\ pc[r] = "apply"
  /\ file[r] <= limit[r]
  /\ ~ Pending(r)
  /\ NextFile(r)
  /\ UNCHANGED <<shipped, revision, server, recorded, pc, limit, already, history>>

\* Mutant of Record: the file's last statement is left out.
RecordEarly(r) ==
  /\ pc[r] = "apply" /\ Executes(r)
  /\ stmt[r] >= Len(Catalogue[file[r]])
  /\ recorded' = [recorded EXCEPT ![file[r]] = revision[file[r]]]
  /\ NextFile(r)
  /\ UNCHANGED <<shipped, revision, server, pc, limit, already, history>>

\* The checksum is read from disk anew (Migration.sql reads the file whenever it
\* is asked): it is that of the file as it is now, not of the text just executed.
Record(r) ==
  /\ pc[r] = "apply" /\ Executes(r) /\ AtEnd(r)
  /\ recorded' = [recorded EXCEPT ![file[r]] = revision[file[r]]]
  /\ NextFile(r)
  /\ UNCHANGED <<shipped, revision, server, pc, limit, already, history>>

Done(r) ==
  /\ pc[r] = "apply"
  /\ file[r] > limit[r]
  /\ Stop(r)
  /\ UNCHANGED <<shipped, revision, server, recorded, history>>

Crash(r) ==
  /\ pc[r] # "idle"
  /\ crashes < MaxCrashes
  /\ crashes' = crashes + 1
  /\ Stop(r)
  /\ UNCHANGED <<shipped, revision, server, recorded, ran, overlapped, failed,
                 baseline, edits>>

-----------------------------------------------------------------------------
(* Everyone else. *)

\* A newer checkout: files are only ever added at the end.
Ship(n) ==
  /\ shipped < n
  /\ shipped' = n
  /\ UNCHANGED <<revision, server, recorded, runs, history>>

Edit(f) ==
  /\ f <= shipped
  /\ edits < MaxEdits
  /\ edits' = edits + 1
  /\ revision' = [revision EXCEPT ![f] = @ + 1]
  /\ UNCHANGED <<shipped, server, recorded, runs, ran, overlapped, failed,
                 baseline, crashes>>

\* The exporter's write_watermark: it raises when the table is not there.
MoveWatermark ==
  /\ server[WatermarkTable] \in 0 .. MaxMark - 1
  /\ server' = [server EXCEPT ![WatermarkTable] = @ + 1]
  /\ UNCHANGED <<shipped, revision, recorded, runs, history>>

-----------------------------------------------------------------------------
Init ==
  /\ shipped \in Releases
  /\ revision = [f \in Files |-> 1]
  /\ server = [t \in Tables |-> Absent]
  /\ recorded = [f \in Files |-> None]
  /\ pc = [r \in Runners |-> "idle"]
  /\ file = [r \in Runners |-> 1]
  /\ stmt = [r \in Runners |-> 1]
  /\ limit = [r \in Runners |-> 1]
  /\ already = [r \in Runners |-> [f \in Files |-> None]]
  /\ ran = [f \in Files |-> 0]
  /\ overlapped = FALSE
  /\ failed = FALSE
  /\ baseline = Absent
  /\ crashes = 0
  /\ edits = 0

\* A run that has begun.
Run(r) ==
  Execute(r) \/ Snapshot(r) \/ Bookkeep(r) \/ Pass(r) \/ Record(r) \/ Done(r)

Next ==
  \/ \E r \in Runners : Start(r) \/ Run(r) \/ Crash(r)
  \/ \E n \in Releases : Ship(n)
  \/ \E f \in Files : Edit(f)
  \/ MoveWatermark

Spec == Init /\ [][Next]_vars

\* A run goes on until it ends; nothing makes an operator start one.
FairSpec == Spec /\ \A r \in Runners : WF_vars(Run(r))

-----------------------------------------------------------------------------
(* What the runner promises. *)

\* Files are recorded in file order, without a gap, whoever runs, crashes or
\* edits: the numeric prefix is the ordering contract (discover, migrations.py:95).
RecordedInOrder ==
  \A f \in Files : recorded[f] # None => \A g \in 1 .. f : recorded[g] # None

\* Objects(k): what k files make of an empty server, each executed once.
Replay[k \in 0 .. Len(Catalogue)] ==
  IF k = 0 THEN [t \in Tables |-> Absent]
  ELSE FoldLeft(LAMBDA sv, s : Effect(s, sv), Replay[k - 1], Catalogue[k])

Objects(k) == {t \in Tables : Replay[k][t] # Absent}

\* When a file is recorded the server has exactly the objects one undisturbed
\* run would have made, however many runs were cut short inside a file before
\* (000_database.sql:3-5).  Runs that overlap are not meant.
RecordedMeansBuilt ==
  [][\A f \in Files :
       (recorded[f] = None /\ recorded'[f] # None /\ ~ overlapped) =>
         {t \in Tables : server[t] # Absent} = Objects(f)]_vars

\* What a run found of the exporter's watermark when it began some table still
\* holds: the engine change of 140 loses it at no point where a run may be cut
\* short.  A watermark the exporter writes between the copy and the DROP is not
\* meant: it is lost, and the exporter goes back to the copied one.
WatermarkSurvives == ~ overlapped => \E t \in Tables : baseline <= server[t]

\* A statement fails only where a run has been cut short, or two overlapped:
\* every file finds what the files before it made.
UndisturbedRunsSucceed == failed => overlapped \/ crashes > 0

\* No file but the bootstrap file is executed to its end more often than runs
\* were cut short, plus once: an edited file is reported, never executed again
\* (migrations.py:160).
AppliedOnce == ~ overlapped => \A f \in Files \ {1} : ran[f] <= 1 + crashes

\* A file can be run again after any part of it: wherever a run over what the
\* earlier files made is cut short, the file's statements then all succeed.
Attempt(sv, statements) ==
  FoldLeft(LAMBDA a, s : IF a.ok /\ CanRun(s, a.sv) THEN [a EXCEPT !.sv = Effect(s, a.sv)]
                         ELSE [a EXCEPT !.ok = FALSE],
           [ok |-> TRUE, sv |-> sv], statements)
Rerunnable ==
  {f \in Files :
     \A n \in 0 .. Len(Catalogue[f]) :
       Attempt(Attempt(Replay[f - 1], SubSeq(Catalogue[f], 1, n)).sv, Catalogue[f]).ok}

\* If the command is run again and again every file is recorded in the end, cut
\* short where it may have been, up to the first file that cannot be run again;
\* and that one and the others too, if no run was cut short.
EventuallyMigrated ==
  []<>(\E r \in Runners : pc[r] = "bootstrap") =>
    <>[](\A f \in 1 .. shipped :
           crashes = 0 \/ 1 .. f \subseteq Rerunnable => recorded[f] # None)

-----------------------------------------------------------------------------
(* What the repository's text says and the files do not do. *)

\* 000_database.sql:3, test_migrations.py:106: a file that fails halfway through
\* has to be re-runnable without hand-editing.  While runs do not overlap no
\* statement ever fails, not even of a file that was cut short and is run again.
HalfAppliedIsSafe == failed => overlapped

\* 140_cold_watermark_version.sql:16, runbook.md:146-147: the watermark only ever
\* moves forward, and --since is the only way to move it backwards.  The furthest
\* watermark any table holds never falls, the engine change of 140 included; but
\* what the exporter writes between its copy and its DROP goes with the old table.
MarkMovesForward == [][\A t \in Tables : \E u \in Tables : server[t] <= server'[u]]_vars
=============================================================================
