-------------------------- MODULE MigrationsProofs --------------------------
(***************************************************************************)
(* Proofs about Migrations, for every catalogue of files, every number of  *)
(* runs at once, and every number of crashes and edits; the theorems about *)
(* what is in the files say that the catalogue is the shipped one.         *)
(***************************************************************************)
EXTENDS Migrations, Schema, FiniteSetTheorems, WellFoundedInduction, TLAPS

(***************************************************************************)
(* What the proofs need of the catalogue: its files are numbered from 1,   *)
(* a file has a length, and its lines are statements (discover).           *)
(***************************************************************************)
LEMMA FilesFact ==
  /\ Files \subseteq Nat \ {0}
  /\ 1 \in Files
  /\ \A f \in Files : \A g \in 1 .. f : g \in Files
  /\ Releases \subseteq Files
  /\ \A f \in Files : Len(Catalogue[f]) \in Nat
BY MigrationsAssumption DEF Files

LEMMA StatementFact ==
  ASSUME NEW f \in Files, NEW i \in 1 .. Len(Catalogue[f])
  PROVE  Catalogue[f][i] \in Statement
BY MigrationsAssumption DEF Files

LEMMA BoundsFact ==
  MaxMark \in Nat /\ MaxCrashes \in Nat /\ MaxEdits \in Nat /\ WatermarkTable \in Tables
BY MigrationsAssumption

(***************************************************************************)
(* A statement that ClickHouse can run leaves every table absent or with a *)
(* watermark within its bound.                                             *)
(***************************************************************************)
LEMMA EffectType ==
  ASSUME NEW s \in Statement, NEW sv \in [Tables -> Absent .. MaxMark]
  PROVE  Effect(s, sv) \in [Tables -> Absent .. MaxMark]
<1>0. MaxMark \in Nat
  BY MigrationsAssumption
<1>1. s.table \in Tables /\ s.from \in Tables /\ s.op \in {"create", "drop", "copy", "rename"}
  BY DEF Statement
<1>2. \A a, b \in Absent .. MaxMark : Larger(a, b) \in Absent .. MaxMark
  BY <1>0 DEF Larger, Absent
<1>3. 0 \in Absent .. MaxMark /\ Absent \in Absent .. MaxMark
  BY <1>0 DEF Absent
<1>4. QED
  BY <1>1, <1>2, <1>3 DEF Effect

-----------------------------------------------------------------------------
(* A run's step moves that run only. *)

OnlyMoves(r) ==
  \A q \in Runners \ {r} :
    /\ pc'[q] = pc[q] /\ file'[q] = file[q] /\ stmt'[q] = stmt[q]
    /\ limit'[q] = limit[q] /\ already'[q] = already[q]

(***************************************************************************)
(* Two runs share the server and its records, and nothing else.            *)
(***************************************************************************)
LEMMA RunsAreSeparate ==
  ASSUME TypeOK, NEW r \in Runners, Start(r) \/ Run(r) \/ Crash(r)
  PROVE  OnlyMoves(r)
<1> USE DEF TypeOK, OnlyMoves
<1>1. CASE Start(r)
  BY <1>1 DEF Start
<1>2. CASE Execute(r)
  BY <1>2 DEF Execute, Stop
<1>3. CASE Snapshot(r)
  BY <1>3 DEF Snapshot
<1>4. CASE Bookkeep(r)
  BY <1>4 DEF Bookkeep, NextFile
<1>5. CASE Pass(r)
  BY <1>5 DEF Pass, NextFile
<1>6. CASE Record(r)
  BY <1>6 DEF Record, NextFile
<1>7. CASE Done(r)
  BY <1>7 DEF Done, Stop
<1>8. CASE Crash(r)
  BY <1>8 DEF Crash, Stop
<1>9. QED
  BY <1>1, <1>2, <1>3, <1>4, <1>5, <1>6, <1>7, <1>8 DEF Run

(***************************************************************************)
(* A run that executes has a file of the catalogue in hand (apply_all).    *)
(***************************************************************************)
LEMMA InHand ==
  ASSUME TypeOK, NEW r \in Runners, Executes(r)
  PROVE  /\ file[r] \in Files /\ file[r] <= limit[r] /\ stmt[r] \in Nat \ {0}
         /\ Len(Catalogue[file[r]]) \in Nat
         /\ ~ AtEnd(r) => stmt[r] \in 1 .. Len(Catalogue[file[r]])
<1>1. /\ Position(r) /\ limit[r] \in Files /\ limit[r] \in Nat \ {0}
      /\ file[r] \in Nat \ {0} /\ stmt[r] \in Nat \ {0}
  BY FilesFact DEF TypeOK
<1>2. file[r] <= limit[r]
  <2>1. CASE pc[r] = "bootstrap"
    BY <1>1, <2>1 DEF Position
  <2>2. CASE pc[r] = "apply" /\ file[r] <= limit[r]
    BY <2>2
  <2>3. QED
    BY <2>1, <2>2 DEF Executes
<1>3. file[r] \in 1 .. limit[r]
  BY <1>1, <1>2
<1>4. file[r] \in Files
  BY <1>1, <1>3, FilesFact
<1>5. Len(Catalogue[file[r]]) \in Nat
  BY <1>4, FilesFact
<1>6. ~ AtEnd(r) => stmt[r] \in 1 .. Len(Catalogue[file[r]])
  BY <1>1, <1>5 DEF AtEnd
<1>7. QED
  BY <1>1, <1>2, <1>4, <1>5, <1>6

(***************************************************************************)
(* The run that moves stays within the files it discovered, and within the *)
(* file in hand (apply_all's two loops).                                   *)
(***************************************************************************)
LEMMA RunStaysInPlan ==
  ASSUME TypeOK, NEW r \in Runners, Start(r) \/ Run(r) \/ Crash(r)
  PROVE  Position(r)'
<1>0. Position(r) /\ limit[r] \in Files /\ file[r] \in Nat \ {0} /\ stmt[r] \in Nat \ {0}
  BY DEF TypeOK
<1>1. 1 \in Files /\ Files \subseteq Nat \ {0} /\ \A f \in Files : Len(Catalogue[f]) \in Nat
  BY FilesFact
<1>2. \A n \in 1 .. limit[r] : n \in Files
  BY <1>0, FilesFact
<1>3. ASSUME Stop(r)
      PROVE  Position(r)'
  <2>1. pc'[r] = "idle" /\ file'[r] = 1 /\ stmt'[r] = 1 /\ limit'[r] = 1
    BY <1>3 DEF Stop, TypeOK
  <2>2. Len(Catalogue[1]) \in Nat
    BY <1>1
  <2>3. QED
    BY <2>1, <2>2 DEF Position
<1>4. ASSUME pc'[r] = "apply", limit'[r] = limit[r], NextFile(r), file[r] <= limit[r]
      PROVE  Position(r)'
  <2>1. file'[r] = file[r] + 1 /\ stmt'[r] = 1
    BY <1>4 DEF NextFile, TypeOK
  <2>2. file[r] + 1 <= limit[r] => Len(Catalogue[file[r] + 1]) \in Nat
    BY <1>0, <1>1, <1>2
  <2>3. limit[r] \in Nat /\ file[r] \in Nat
    BY <1>0, <1>1
  <2>4. QED
    BY <1>4, <2>1, <2>2, <2>3 DEF Position
<1>5. CASE Start(r)
  <2>1. pc'[r] = "bootstrap" /\ limit'[r] = shipped /\ file'[r] = 1 /\ stmt'[r] = 1
    BY <1>0, <1>5 DEF Start, TypeOK, Position
  <2>2. shipped \in Nat \ {0} /\ Len(Catalogue[1]) \in Nat
    BY <1>1, FilesFact DEF TypeOK
  <2>3. QED
    BY <2>1, <2>2 DEF Position
<1>6. CASE Execute(r)
  <2>1. CASE Stop(r)
    BY <1>3, <2>1
  <2>2. CASE ~ Stop(r)
    <3>1. Executes(r) /\ ~ AtEnd(r)
      BY <1>6 DEF Execute
    <3>2. stmt[r] \in 1 .. Len(Catalogue[file[r]]) /\ Len(Catalogue[file[r]]) \in Nat
      BY <3>1, InHand
    <3>3. stmt' = [stmt EXCEPT ![r] = @ + 1] /\ UNCHANGED <<pc, file, limit>>
      BY <1>6, <2>2 DEF Execute
    <3>4. stmt'[r] = stmt[r] + 1
      BY <3>3 DEF TypeOK
    <3>5. pc[r] # "idle"
      BY <3>1 DEF Executes
    <3>6. QED
      BY <1>0, <3>2, <3>3, <3>4, <3>5 DEF Position
  <2>3. QED
    BY <2>1, <2>2
<1>7. CASE Snapshot(r)
  <2>1. /\ pc'[r] = "bookkeep" /\ file'[r] = file[r] /\ stmt'[r] = stmt[r]
        /\ limit'[r] = limit[r] /\ pc[r] = "bootstrap"
    BY <1>7 DEF Snapshot, TypeOK
  <2>2. QED
    BY <1>0, <2>1 DEF Position
<1>8. CASE Bookkeep(r)
  <2>1. pc'[r] = "apply" /\ limit'[r] = limit[r] /\ NextFile(r) /\ pc[r] = "bookkeep"
    BY <1>8 DEF Bookkeep, TypeOK
  <2>2. file[r] <= limit[r]
    <3>1. limit[r] \in Nat \ {0} /\ file[r] = 1
      BY <1>0, <1>1, <2>1 DEF Position
    <3>2. QED
      BY <3>1
  <2>3. QED
    BY <1>4, <2>1, <2>2
<1>9. CASE Pass(r)
  BY <1>4, <1>9 DEF Pass
<1>10. CASE Record(r)
  BY <1>4, <1>10 DEF Record, Executes
<1>11. CASE Done(r)
  BY <1>3, <1>11 DEF Done
<1>12. CASE Crash(r)
  BY <1>3, <1>12 DEF Crash
<1>13. QED
  BY <1>5, <1>6, <1>7, <1>8, <1>9, <1>10, <1>11, <1>12 DEF Run

LEMMA PositionsKept ==
  ASSUME TypeOK, NEW r \in Runners, Start(r) \/ Run(r) \/ Crash(r)
  PROVE  \A q \in Runners : Position(q)'
<1> TAKE q \in Runners
<1>1. CASE q = r
  BY <1>1, RunStaysInPlan
<1>2. CASE q # r
  <2>1. /\ pc'[q] = pc[q] /\ file'[q] = file[q] /\ stmt'[q] = stmt[q]
        /\ limit'[q] = limit[q]
    BY <1>2, RunsAreSeparate DEF OnlyMoves
  <2>2. Position(q)
    BY DEF TypeOK
  <2>3. QED
    BY <2>1, <2>2 DEF Position
<1>3. QED
  BY <1>1, <1>2

-----------------------------------------------------------------------------
(***************************************************************************)
(* A run never reaches past the files it discovered, nor past the end of   *)
(* the file in hand; every variable keeps its type (apply_all).            *)
(***************************************************************************)
THEOREM MigrationsTypeCorrect == Spec => []TypeOK
<1>1. Init => TypeOK
  <2> SUFFICES ASSUME Init PROVE TypeOK
    OBVIOUS
  <2>1. \A r \in Runners : Position(r)
    <3>1. Len(Catalogue[1]) \in Nat
      BY FilesFact
    <3>2. QED
      BY <3>1 DEF Init, Position
  <2>2. QED
    <3>1. 1 \in Files /\ Releases \subseteq Files
      BY FilesFact
    <3>2. /\ server \in [Tables -> Absent .. MaxMark] /\ baseline \in Absent .. MaxMark
          /\ crashes \in 0 .. MaxCrashes /\ edits \in 0 .. MaxEdits
      BY BoundsFact DEF Init, Absent
    <3>3. /\ revision \in [Files -> Nat \ {None}] /\ recorded \in [Files -> Nat]
          /\ ran \in [Files -> Nat] /\ already \in [Runners -> [Files -> Nat]]
      BY DEF Init, None
    <3>4. QED
      BY <3>1, <3>2, <3>3, <2>1 DEF Init, TypeOK, Absent, None
<1>2. TypeOK /\ [Next]_vars => TypeOK'
  <2> SUFFICES ASSUME TypeOK, [Next]_vars
               PROVE  TypeOK'
    OBVIOUS
  <2>a. 1 \in Files /\ Files \subseteq Nat \ {0} /\ Releases \subseteq Files
    BY FilesFact
  <2> USE <2>a, BoundsFact DEF TypeOK
  <2>1. ASSUME NEW r \in Runners, Start(r)
        PROVE  TypeOK'
    <3>1. \A q \in Runners : Position(q)'
      BY <2>1, PositionsKept
    <3>2. QED
      BY <2>1, <3>1 DEF Start, Larger, Absent
  <2>2. ASSUME NEW r \in Runners, Execute(r)
        PROVE  TypeOK'
    <3>1. \A q \in Runners : Position(q)'
      BY <2>2, PositionsKept DEF Run
    <3>2. file[r] \in Files /\ stmt[r] \in 1 .. Len(Catalogue[file[r]])
      <4>1. Executes(r) /\ ~ AtEnd(r)
        BY <2>2 DEF Execute
      <4>2. QED
        BY <4>1, InHand
    <3> DEFINE s == Catalogue[file[r]][stmt[r]]
    <3>3. CASE CanRun(s, server)
      <4>1. s \in Statement
        BY <3>2, StatementFact
      <4>2. server' = Effect(s, server)
        BY <2>2, <3>3 DEF Execute
      <4>3. server' \in [Tables -> Absent .. MaxMark]
        BY <4>1, <4>2, EffectType
      <4>4. ran' = ran \/ ran' = [ran EXCEPT ![file[r]] = @ + 1]
        BY <2>2, <3>3 DEF Execute
      <4>5. ran' \in [Files -> Nat]
        <5>1. file[r] \in Files /\ ran \in [Files -> Nat]
          BY <3>2
        <5>2. [ran EXCEPT ![file[r]] = @ + 1] \in [Files -> Nat]
          BY <5>1
        <5>3. QED
          BY <4>4, <5>1, <5>2
      <4>6. /\ stmt' = [stmt EXCEPT ![r] = @ + 1]
            /\ UNCHANGED <<pc, file, limit, already, failed, shipped, revision, recorded,
                           overlapped, baseline, crashes, edits>>
        BY <2>2, <3>3 DEF Execute
      <4>7. QED
        BY <3>1, <4>3, <4>5, <4>6
    <3>4. CASE ~ CanRun(s, server)
      <4>1. /\ Stop(r) /\ failed' = TRUE
            /\ UNCHANGED <<server, ran, shipped, revision, recorded, overlapped, baseline,
                           crashes, edits>>
        BY <2>2, <3>4 DEF Execute
      <4>2. QED
        BY <3>1, <4>1 DEF Stop, None
    <3>5. QED
      BY <3>3, <3>4
  <2>3. ASSUME NEW r \in Runners, Snapshot(r)
        PROVE  TypeOK'
    <3>1. \A q \in Runners : Position(q)'
      BY <2>3, PositionsKept DEF Run
    <3>2. QED
      BY <2>3, <3>1 DEF Snapshot, history
  <2>4. ASSUME NEW r \in Runners, Bookkeep(r)
        PROVE  TypeOK'
    <3>1. \A q \in Runners : Position(q)'
      BY <2>4, PositionsKept DEF Run
    <3>2. QED
      BY <2>4, <3>1 DEF Bookkeep, NextFile, history, None
  <2>5. ASSUME NEW r \in Runners, Pass(r)
        PROVE  TypeOK'
    <3>1. \A q \in Runners : Position(q)'
      BY <2>5, PositionsKept DEF Run
    <3>2. QED
      BY <2>5, <3>1 DEF Pass, NextFile, history
  <2>6. ASSUME NEW r \in Runners, Record(r)
        PROVE  TypeOK'
    <3>1. \A q \in Runners : Position(q)'
      BY <2>6, PositionsKept DEF Run
    <3>2. file[r] \in Files
      BY <2>6, InHand DEF Record
    <3>3. QED
      BY <2>6, <3>1, <3>2 DEF Record, NextFile, history, None
  <2>7. ASSUME NEW r \in Runners, Done(r)
        PROVE  TypeOK'
    <3>1. \A q \in Runners : Position(q)'
      BY <2>7, PositionsKept DEF Run
    <3>2. QED
      BY <2>7, <3>1 DEF Done, Stop, history, None
  <2>8. ASSUME NEW r \in Runners, Crash(r)
        PROVE  TypeOK'
    <3>1. \A q \in Runners : Position(q)'
      BY <2>8, PositionsKept
    <3>2. QED
      BY <2>8, <3>1 DEF Crash, Stop, None
  <2>9. ASSUME NEW n \in Releases, Ship(n)
        PROVE  TypeOK'
    <3>1. \A q \in Runners : Position(q)'
      BY <2>9 DEF Ship, runs, Position
    <3>2. QED
      BY <2>9, <3>1 DEF Ship, runs, history
  <2>10. ASSUME NEW f \in Files, Edit(f)
        PROVE  TypeOK'
    <3>1. \A q \in Runners : Position(q)'
      BY <2>10 DEF Edit, runs, Position
    <3>2. QED
      BY <2>10, <3>1 DEF Edit, runs, None
  <2>11. CASE MoveWatermark
    <3>1. \A q \in Runners : Position(q)'
      BY <2>11 DEF MoveWatermark, runs, Position
    <3>2. QED
      BY <2>11, <3>1 DEF MoveWatermark, runs, history, Absent
  <2>12. CASE UNCHANGED vars
    <3>1. \A q \in Runners : Position(q)'
      BY <2>12 DEF vars, runs, Position
    <3>2. QED
      BY <2>12, <3>1 DEF vars, runs, history
  <2>13. QED
    BY <2>1, <2>2, <2>3, <2>4, <2>5, <2>6, <2>7, <2>8, <2>9, <2>10, <2>11, <2>12
       DEF Next, Run
<1>3. QED
  BY <1>1, <1>2, PTL DEF Spec

-----------------------------------------------------------------------------
(***************************************************************************)
(* What holds between the records and each run: a run's snapshot only      *)
(* names recorded files, and what a run has left behind is recorded.       *)
(***************************************************************************)
OrderInv ==
  /\ RecordedInOrder
  /\ \A r \in Runners : \A f \in Files : already[r][f] # None => recorded[f] # None
  /\ \A r \in Runners :
       pc[r] = "apply" => \A g \in Files : g < file[r] => recorded[g] # None

(***************************************************************************)
(* No step takes a row out of schema_migrations, and a step that adds one  *)
(* adds that of the file in hand.                                          *)
(***************************************************************************)
LEMMA RecordsGrow ==
  ASSUME TypeOK, [Next]_vars, NEW f \in Files, recorded[f] # None
  PROVE  recorded'[f] # None
<1>1. \A r \in Runners : Bookkeep(r) => recorded'[f] # None
  BY DEF Bookkeep, TypeOK, None
<1>2. \A r \in Runners : Record(r) => recorded'[f] # None
  <2> SUFFICES ASSUME NEW r \in Runners, Record(r)
               PROVE  recorded'[f] # None
    OBVIOUS
  <2>1. file[r] \in Files
    BY InHand DEF Record
  <2>2. QED
    BY <2>1 DEF Record, TypeOK
<1>3. \A r \in Runners : Run(r) => recorded'[f] # None
  BY <1>1, <1>2 DEF Run, Execute, Snapshot, Pass, Done
<1>4. QED
  BY <1>3 DEF Next, vars, Start, Crash, Ship, Edit, MoveWatermark

LEMMA OrderInvHolds == Spec => []OrderInv
<1>1. Init => OrderInv
  BY FilesFact DEF Init, OrderInv, RecordedInOrder, None
<1>2. TypeOK /\ OrderInv /\ [Next]_vars => OrderInv'
  <2> SUFFICES ASSUME TypeOK, OrderInv, [Next]_vars
               PROVE  OrderInv'
    OBVIOUS
  <2>a. 1 \in Files /\ Files \subseteq Nat \ {0} /\ \A f \in Files : \A g \in 1 .. f : g \in Files
    BY FilesFact
  <2>g. \A f \in Files : recorded[f] # None => recorded'[f] # None
    BY RecordsGrow
  \* A step that changes neither a run's place nor the records.
  <2>1. ASSUME recorded' = recorded, already' = already, pc' = pc, file' = file
        PROVE  OrderInv'
    BY <2>1 DEF OrderInv, RecordedInOrder
  \* A step of one run after which it is not in the loop.
  <2>2. ASSUME NEW r \in Runners, OnlyMoves(r), recorded' = recorded, pc'[r] # "apply",
               \A f \in Files : already'[r][f] # None => recorded[f] # None
        PROVE  OrderInv'
    BY <2>2 DEF OrderInv, RecordedInOrder, OnlyMoves
  <2>3. ASSUME NEW r \in Runners, Stop(r), OnlyMoves(r), recorded' = recorded
        PROVE  OrderInv'
    <3>1. pc'[r] = "idle" /\ already'[r] = [f \in Files |-> None]
      BY <2>3 DEF Stop, TypeOK
    <3>2. QED
      BY <2>2, <2>3, <3>1
  \* A step of the loop that leaves a file behind, recorded.
  <2>4. ASSUME NEW r \in Runners, OnlyMoves(r), NextFile(r), pc[r] # "apply" => file[r] = 1,
               pc[r] = "apply" \/ file[r] = 1,
               already'[r] = already[r],
               file[r] \in Files, recorded'[file[r]] # None,
               \A f \in Files : f # file[r] => recorded'[f] = recorded[f]
        PROVE  OrderInv'
    <3>1. file'[r] = file[r] + 1
      BY <2>4 DEF NextFile, TypeOK
    <3>2. \A g \in Files : g < file[r] => recorded[g] # None
      <4>1. CASE pc[r] = "apply"
        BY <4>1 DEF OrderInv
      <4>2. CASE file[r] = 1
        BY <2>a, <4>2
      <4>3. QED
        BY <2>4, <4>1, <4>2
    <3>3. \A g \in Files : g < file'[r] => recorded'[g] # None
      <4> SUFFICES ASSUME NEW g \in Files, g < file'[r]
                   PROVE  recorded'[g] # None
        OBVIOUS
      <4>1. g < file[r] \/ g = file[r]
        <5>1. g \in Nat /\ file[r] \in Nat
          BY <2>4, <2>a
        <5>2. QED
          BY <3>1, <5>1
      <4>2. QED
        BY <2>4, <2>g, <3>2, <4>1
    <3>4. RecordedInOrder'
      <4> SUFFICES ASSUME NEW f \in Files, recorded'[f] # None, NEW g \in 1 .. f
                   PROVE  recorded'[g] # None
        BY DEF RecordedInOrder
      <4>1. g \in Files
        BY <2>a
      <4>2. CASE f = file[r]
        BY <2>a, <3>1, <3>3, <4>1, <4>2
      <4>3. CASE f # file[r]
        BY <2>4, <2>g, <4>1, <4>3 DEF OrderInv, RecordedInOrder
      <4>4. QED
        BY <4>2, <4>3
    <3>5. \A q \in Runners : \A f \in Files : already'[q][f] # None => recorded'[f] # None
      BY <2>4, <2>g DEF OrderInv, OnlyMoves
    <3>6. \A q \in Runners :
            pc'[q] = "apply" => \A g \in Files : g < file'[q] => recorded'[g] # None
      BY <2>4, <2>g, <3>3 DEF OrderInv, OnlyMoves
    <3>7. QED
      BY <3>4, <3>5, <3>6 DEF OrderInv
  <2>5. ASSUME NEW r \in Runners, Start(r) PROVE OrderInv'
    <3>1. OnlyMoves(r)
      BY <2>5, RunsAreSeparate
    <3>2. recorded' = recorded /\ pc'[r] # "apply" /\ already' = already
      BY <2>5 DEF Start, TypeOK
    <3>3. QED
      BY <2>2, <3>1, <3>2 DEF OrderInv
  <2>6. ASSUME NEW r \in Runners, Execute(r) PROVE OrderInv'
    <3>1. OnlyMoves(r)
      BY <2>6, RunsAreSeparate DEF Run
    <3>2. recorded' = recorded /\ (Stop(r) \/ UNCHANGED <<already, pc, file>>)
      BY <2>6 DEF Execute
    <3>3. QED
      BY <2>1, <2>3, <3>1, <3>2
  <2>7. ASSUME NEW r \in Runners, Snapshot(r) PROVE OrderInv'
    <3>1. OnlyMoves(r)
      BY <2>7, RunsAreSeparate DEF Run
    <3>2. recorded' = recorded /\ pc'[r] # "apply" /\ already'[r] = recorded
      BY <2>7 DEF Snapshot, TypeOK
    <3>3. QED
      BY <2>2, <3>1, <3>2
  <2>8. ASSUME NEW r \in Runners, Bookkeep(r) PROVE OrderInv'
    <3>1. OnlyMoves(r)
      BY <2>8, RunsAreSeparate DEF Run
    <3>2. NextFile(r) /\ already' = already /\ pc[r] = "bookkeep" /\ file[r] = 1
      BY <2>8 DEF Bookkeep, TypeOK, Position
    <3>3. \A f \in Files : f # 1 => recorded'[f] = recorded[f]
      BY <2>8 DEF Bookkeep, TypeOK
    <3>4. recorded'[1] # None
      <4>1. revision[1] # None /\ recorded \in [Files -> Nat]
        BY <2>a DEF TypeOK
      <4>2. already[r][1] = revision[1] => recorded[1] # None
        BY <2>a, <4>1 DEF OrderInv
      <4>3. QED
        BY <2>8, <2>a, <4>1, <4>2 DEF Bookkeep
    <3>5. QED
      BY <2>4, <2>a, <3>1, <3>2, <3>3, <3>4
  <2>9. ASSUME NEW r \in Runners, Pass(r) PROVE OrderInv'
    <3>1. OnlyMoves(r)
      BY <2>9, RunsAreSeparate DEF Run
    <3>2. /\ NextFile(r) /\ already' = already /\ recorded' = recorded
          /\ pc[r] = "apply" /\ file[r] <= limit[r] /\ already[r][file[r]] # None
      BY <2>9 DEF Pass, Pending
    <3>3. file[r] \in Files
      <4>1. limit[r] \in Files /\ limit[r] \in Nat /\ file[r] \in Nat \ {0}
        BY <2>a DEF TypeOK
      <4>2. file[r] \in 1 .. limit[r]
        BY <3>2, <4>1
      <4>3. QED
        BY <2>a, <4>1, <4>2
    <3>4. recorded[file[r]] # None
      BY <3>2, <3>3 DEF OrderInv
    <3>5. QED
      BY <2>4, <3>1, <3>2, <3>3, <3>4
  <2>10. ASSUME NEW r \in Runners, Record(r) PROVE OrderInv'
    <3>1. OnlyMoves(r)
      BY <2>10, RunsAreSeparate DEF Run
    <3>2. file[r] \in Files
      BY <2>10, InHand DEF Record
    <3>3. /\ NextFile(r) /\ already' = already /\ pc[r] = "apply"
          /\ recorded' = [recorded EXCEPT ![file[r]] = revision[file[r]]]
      BY <2>10 DEF Record
    <3>4. recorded'[file[r]] # None /\ \A f \in Files : f # file[r] => recorded'[f] = recorded[f]
      BY <3>2, <3>3 DEF TypeOK
    <3>5. QED
      BY <2>4, <3>1, <3>2, <3>3, <3>4
  <2>11. ASSUME NEW r \in Runners, Done(r) \/ Crash(r) PROVE OrderInv'
    <3>1. OnlyMoves(r)
      BY <2>11, RunsAreSeparate DEF Run
    <3>2. Stop(r) /\ recorded' = recorded
      BY <2>11 DEF Done, Crash
    <3>3. QED
      BY <2>3, <3>1, <3>2
  <2>12. CASE (\E n \in Releases : Ship(n)) \/ (\E f \in Files : Edit(f))
              \/ MoveWatermark \/ UNCHANGED vars
    BY <2>1, <2>12 DEF Ship, Edit, MoveWatermark, vars, runs
  <2>13. QED
    BY <2>5, <2>6, <2>7, <2>8, <2>9, <2>10, <2>11, <2>12 DEF Next, Run
<1>3. QED
  BY <1>1, <1>2, MigrationsTypeCorrect, PTL DEF Spec

(***************************************************************************)
(* Every run that may execute or record the file in hand finds the files   *)
(* before it recorded, so the records never have a gap: for any number of  *)
(* runs at once, crashes and edits (discover, migrations.py:95).           *)
(***************************************************************************)
THEOREM RecordedInOrderHolds == Spec => []RecordedInOrder
BY OrderInvHolds, PTL DEF OrderInv

-----------------------------------------------------------------------------
(* While runs do not overlap, a run's snapshot tells it the truth. *)

\* Run r has executed file f to its end, and has not recorded it.
Unrecorded(r, f) == pc[r] = "apply" /\ file[r] = f /\ Executes(r) /\ AtEnd(r)

Alone == \A q, r \in Runners : pc[q] # "idle" /\ pc[r] # "idle" => q = r

SnapshotsHold ==
  \A r \in Runners : \A f \in Files :
    /\ pc[r] = "bookkeep" => already[r][f] = recorded[f]
    /\ (pc[r] = "apply" /\ f >= file[r] /\ f # 1) => already[r][f] = recorded[f]

\* Each execution beyond those of runs cut short is recorded, or about to be.
Accounted ==
  \A f \in Files \ {1} :
    /\ ran[f] <= crashes + 1
    /\ (recorded[f] = None /\ \A r \in Runners : ~ Unrecorded(r, f)) => ran[f] <= crashes

OnceInv == ~ overlapped => Alone /\ SnapshotsHold /\ Accounted

(***************************************************************************)
(* A run's step keeps the other runs where they are, idle while runs do    *)
(* not overlap, so only the run that moves can have a file unrecorded.     *)
(***************************************************************************)
LEMMA OthersIdle ==
  ASSUME TypeOK, Alone, NEW r \in Runners, Run(r) \/ Crash(r)
  PROVE  /\ \A q \in Runners \ {r} : pc[q] = "idle" /\ pc'[q] = "idle"
         /\ \A q \in Runners \ {r} : \A f : ~ Unrecorded(q, f) /\ ~ Unrecorded(q, f)'
         /\ Alone' /\ overlapped' = overlapped
<1>1. pc[r] # "idle" /\ overlapped' = overlapped
  BY DEF Run, Execute, Executes, Snapshot, Bookkeep, Pass, Record, Done, Crash, history
<1>2. \A q \in Runners \ {r} : pc[q] = "idle" /\ pc'[q] = "idle"
  BY <1>1, RunsAreSeparate DEF Alone, OnlyMoves
<1>3. \A q \in Runners \ {r} : \A f : ~ Unrecorded(q, f) /\ ~ Unrecorded(q, f)'
  BY <1>2 DEF Unrecorded
<1>4. Alone'
  BY <1>2 DEF Alone
<1>5. QED
  BY <1>1, <1>2, <1>3, <1>4

LEMMA OnceInvHolds == Spec => []OnceInv
<1>1. Init => OnceInv
  BY DEF Init, OnceInv, Alone, SnapshotsHold, Accounted
<1>2. TypeOK /\ OnceInv /\ [Next]_vars => OnceInv'
  <2> SUFFICES ASSUME TypeOK, OnceInv, [Next]_vars, ~ overlapped'
               PROVE  Alone' /\ SnapshotsHold' /\ Accounted'
    BY DEF OnceInv
  <2>a. Files \subseteq Nat \ {0} /\ crashes \in Nat /\ ran \in [Files -> Nat]
    BY FilesFact, BoundsFact DEF TypeOK
  <2>b. ~ overlapped
    BY DEF Next, Run, Start, Execute, Snapshot, Bookkeep, Pass, Record, Done, Crash, Ship, Edit,
           MoveWatermark, runs, history, vars, TypeOK
  <2>c. Alone /\ SnapshotsHold /\ Accounted
    BY <2>b DEF OnceInv
  \* A run ends without a file unrecorded, or by a crash.
  <2>1. ASSUME NEW r \in Runners, Run(r) \/ Crash(r), Stop(r), recorded' = recorded, ran' = ran,
               \/ crashes' = crashes /\ \A f \in Files \ {1} : ~ Unrecorded(r, f)
               \/ crashes' = crashes + 1
        PROVE  Alone' /\ SnapshotsHold' /\ Accounted'
    <3>1. pc'[r] = "idle"
      BY <2>1 DEF Stop, TypeOK
    <3>2. \A q \in Runners : pc'[q] = "idle"
      BY <2>1, <2>c, <3>1, OthersIdle
    <3>3. Alone' /\ SnapshotsHold'
      BY <3>2 DEF Alone, SnapshotsHold
    <3>4. Accounted'
      <4> SUFFICES ASSUME NEW f \in Files \ {1}
                   PROVE  ran'[f] <= crashes' + 1 /\ (recorded'[f] = None => ran'[f] <= crashes')
        BY DEF Accounted
      <4>1. ran[f] \in Nat /\ ran[f] <= crashes + 1
        BY <2>a, <2>c DEF Accounted
      <4>2. CASE crashes' = crashes + 1
        BY <2>1, <2>a, <4>1, <4>2
      <4>3. CASE crashes' = crashes /\ \A g \in Files \ {1} : ~ Unrecorded(r, g)
        <5>1. \A q \in Runners : ~ Unrecorded(q, f)
          BY <2>1, <2>c, <4>3, OthersIdle
        <5>2. QED
          BY <2>1, <2>a, <2>c, <4>1, <4>3, <5>1 DEF Accounted
      <4>4. QED
        BY <2>1, <4>2, <4>3
    <3>5. QED
      BY <3>3, <3>4
  \* A step that neither executes nor records, of a run with no file unrecorded.
  <2>2. ASSUME NEW r \in Runners, Run(r), recorded' = recorded, ran' = ran, crashes' = crashes,
               \A f \in Files \ {1} : ~ Unrecorded(r, f)
        PROVE  Accounted'
    <3>1. \A q \in Runners : \A f \in Files \ {1} : ~ Unrecorded(q, f)
      BY <2>2, <2>c, OthersIdle
    <3>2. QED
      BY <2>2, <2>c, <3>1 DEF Accounted
  <2>3. ASSUME NEW r \in Runners, Start(r)
        PROVE  Alone' /\ SnapshotsHold' /\ Accounted'
    <3>1. \A q \in Runners : pc[q] = "idle"
      BY <2>3 DEF Start, TypeOK
    <3>2. pc' = [pc EXCEPT ![r] = "bootstrap"]
      BY <2>3 DEF Start
    <3>3. \A q \in Runners : pc'[q] \in {"idle", "bootstrap"} /\ (pc'[q] # "idle" => q = r)
      BY <3>1, <3>2 DEF TypeOK
    <3>4. Alone' /\ SnapshotsHold'
      BY <3>3 DEF Alone, SnapshotsHold
    <3>5. \A q \in Runners : \A f : ~ Unrecorded(q, f)
      BY <3>1 DEF Unrecorded
    <3>6. recorded' = recorded /\ ran' = ran /\ crashes' = crashes
      BY <2>3 DEF Start
    <3>7. Accounted'
      BY <2>c, <3>5, <3>6 DEF Accounted
    <3>8. QED
      BY <3>4, <3>7
  <2>4. ASSUME NEW r \in Runners, Execute(r)
        PROVE  Alone' /\ SnapshotsHold' /\ Accounted'
    <3>1. Run(r) /\ recorded' = recorded /\ crashes' = crashes /\ ~ AtEnd(r) /\ Executes(r)
      BY <2>4 DEF Run, Execute
    <3>2. \A f : ~ Unrecorded(r, f)
      BY <3>1 DEF Unrecorded
    <3>3. CASE ~ CanRun(Catalogue[file[r]][stmt[r]], server)
      <4>1. Stop(r) /\ ran' = ran
        BY <2>4, <3>3 DEF Execute
      <4>2. QED
        BY <2>1, <3>1, <3>2, <4>1
    <3>4. CASE CanRun(Catalogue[file[r]][stmt[r]], server)
      <4>1. /\ UNCHANGED <<pc, file, limit, already>>
            /\ stmt' = [stmt EXCEPT ![r] = @ + 1]
            /\ ran' = IF pc[r] = "apply" /\ stmt[r] = Len(Catalogue[file[r]])
                        THEN [ran EXCEPT ![file[r]] = @ + 1] ELSE ran
        BY <2>4, <3>4 DEF Execute
      <4>2. Alone' /\ SnapshotsHold'
        BY <2>c, <3>1, <4>1 DEF Alone, SnapshotsHold
      <4>3. CASE pc[r] = "apply" /\ stmt[r] = Len(Catalogue[file[r]])
        <5>1. file[r] \in Files /\ stmt[r] \in Nat /\ stmt'[r] = stmt[r] + 1
          BY <3>1, <4>1, InHand DEF TypeOK
        <5>2. Unrecorded(r, file[r])'
          BY <3>1, <4>1, <4>3, <5>1 DEF Unrecorded, Executes, AtEnd, Pending
        <5>3. \A q \in Runners : \A f : ~ Unrecorded(q, f)
          BY <3>1, <3>2, <2>c, OthersIdle
        <5>4. file[r] # 1 => recorded[file[r]] = None
          <6>1. already[r][file[r]] = None /\ file[r] \in Nat
            BY <2>a, <3>1, <4>3, <5>1 DEF Executes, Pending
          <6>2. QED
            BY <2>c, <4>3, <5>1, <6>1 DEF SnapshotsHold
        <5>5. Accounted'
          <6> SUFFICES ASSUME NEW f \in Files \ {1}
                       PROVE  /\ ran'[f] <= crashes' + 1
                              /\ (recorded'[f] = None /\ \A q \in Runners : ~ Unrecorded(q, f)')
                                   => ran'[f] <= crashes'
            BY DEF Accounted
          <6>1. CASE f = file[r]
            <7>1. ran[f] \in Nat /\ ran[f] <= crashes
              BY <2>a, <2>c, <5>3, <5>4, <6>1 DEF Accounted
            <7>2. ran'[f] = ran[f] + 1
              BY <2>a, <4>1, <4>3, <6>1
            <7>3. ran'[f] <= crashes' + 1
              BY <2>a, <3>1, <7>1, <7>2
            <7>4. Unrecorded(r, f)'
              BY <5>2, <6>1, <4>1 DEF Unrecorded
            <7>5. QED
              BY <7>3, <7>4
          <6>2. CASE f # file[r]
            <7>1. ran'[f] = ran[f]
              BY <2>a, <4>1, <4>3, <6>2
            <7>2. QED
              BY <2>c, <3>1, <5>3, <7>1 DEF Accounted
          <6>3. QED
            BY <6>1, <6>2
        <5>6. QED
          BY <4>2, <5>5
      <4>4. CASE ~ (pc[r] = "apply" /\ stmt[r] = Len(Catalogue[file[r]]))
        BY <2>2, <3>1, <3>2, <4>1, <4>2, <4>4
      <4>5. QED
        BY <4>3, <4>4
    <3>5. QED
      BY <3>3, <3>4
  <2>5. ASSUME NEW r \in Runners, Snapshot(r)
        PROVE  Alone' /\ SnapshotsHold' /\ Accounted'
    <3>1. /\ Run(r) /\ recorded' = recorded /\ crashes' = crashes /\ ran' = ran
          /\ pc[r] = "bootstrap" /\ pc'[r] = "bookkeep" /\ already'[r] = recorded
      BY <2>5 DEF Run, Snapshot, TypeOK, history
    <3>2. Alone' /\ \A q \in Runners \ {r} : pc'[q] = "idle"
      BY <2>c, <3>1, OthersIdle
    <3>3. SnapshotsHold'
      BY <3>1, <3>2 DEF SnapshotsHold
    <3>4. Accounted'
      BY <2>2, <3>1 DEF Unrecorded
    <3>5. QED
      BY <3>2, <3>3, <3>4
  <2>6. ASSUME NEW r \in Runners, Bookkeep(r)
        PROVE  Alone' /\ SnapshotsHold' /\ Accounted'
    <3>1. /\ Run(r) /\ crashes' = crashes /\ ran' = ran /\ already' = already
          /\ pc[r] = "bookkeep" /\ pc'[r] = "apply"
          /\ \A f \in Files \ {1} : recorded'[f] = recorded[f]
      BY <2>6 DEF Run, Bookkeep, TypeOK, history
    <3>2. Alone' /\ \A q \in Runners \ {r} : pc'[q] = "idle"
      BY <2>c, <3>1, OthersIdle
    <3>3. SnapshotsHold'
      BY <2>c, <3>1, <3>2 DEF SnapshotsHold
    <3>4. \A q \in Runners : \A f : ~ Unrecorded(q, f)
      BY <2>c, <3>1, OthersIdle DEF Unrecorded
    <3>5. Accounted'
      BY <2>c, <3>1, <3>4 DEF Accounted
    <3>6. QED
      BY <3>2, <3>3, <3>5
  <2>7. ASSUME NEW r \in Runners, Pass(r)
        PROVE  Alone' /\ SnapshotsHold' /\ Accounted'
    <3>1. /\ Run(r) /\ recorded' = recorded /\ crashes' = crashes /\ ran' = ran
          /\ already' = already /\ pc' = pc /\ pc[r] = "apply" /\ ~ Executes(r)
      BY <2>7 DEF Run, Pass, history, Executes
    <3>2. Alone' /\ \A q \in Runners \ {r} : pc'[q] = "idle"
      BY <2>c, <3>1, OthersIdle
    <3>3. file'[r] = file[r] + 1 /\ file[r] \in Nat
      BY <2>7 DEF Pass, NextFile, TypeOK
    <3>4. SnapshotsHold'
      <4> SUFFICES ASSUME NEW f \in Files, f >= file[r] + 1, f # 1
                   PROVE  already[r][f] = recorded[f]
        BY <3>1, <3>2, <3>3 DEF SnapshotsHold
      <4>1. f >= file[r]
        BY <2>a, <3>3
      <4>2. QED
        BY <2>c, <3>1, <4>1 DEF SnapshotsHold
    <3>5. Accounted'
      BY <2>2, <3>1 DEF Unrecorded
    <3>6. QED
      BY <3>2, <3>4, <3>5
  <2>8. ASSUME NEW r \in Runners, Record(r)
        PROVE  Alone' /\ SnapshotsHold' /\ Accounted'
    <3>1. /\ Run(r) /\ crashes' = crashes /\ ran' = ran
          /\ already' = already /\ pc' = pc /\ pc[r] = "apply"
          /\ recorded' = [recorded EXCEPT ![file[r]] = revision[file[r]]]
          /\ file[r] \in Files
      BY <2>8, InHand DEF Run, Record, history
    <3>2. Alone' /\ \A q \in Runners \ {r} : pc'[q] = "idle"
      BY <2>c, <3>1, OthersIdle
    <3>3. file'[r] = file[r] + 1 /\ file[r] \in Nat
      BY <2>8 DEF Record, NextFile, TypeOK
    <3>4. SnapshotsHold'
      <4> SUFFICES ASSUME NEW f \in Files, f >= file[r] + 1, f # 1
                   PROVE  already[r][f] = recorded'[f]
        BY <3>1, <3>2, <3>3 DEF SnapshotsHold
      <4>1. f >= file[r] /\ f # file[r]
        BY <2>a, <3>3
      <4>2. recorded'[f] = recorded[f]
        BY <3>1, <4>1 DEF TypeOK
      <4>3. QED
        BY <2>c, <3>1, <4>1, <4>2 DEF SnapshotsHold
    <3>5. recorded'[file[r]] # None
      BY <3>1 DEF TypeOK
    <3>6. \A f \in Files \ {1} : \A q \in Runners : Unrecorded(q, f) => f = file[r]
      BY <2>c, <3>1, OthersIdle DEF Unrecorded
    <3>7. Accounted'
      <4> SUFFICES ASSUME NEW f \in Files \ {1}
                   PROVE  ran[f] <= crashes + 1 /\ (recorded'[f] = None => ran[f] <= crashes)
        BY <3>1 DEF Accounted
      <4>1. CASE f = file[r]
        BY <2>c, <3>5, <4>1 DEF Accounted
      <4>2. CASE f # file[r]
        <5>1. recorded'[f] = recorded[f]
          BY <3>1, <4>2 DEF TypeOK
        <5>2. QED
          BY <2>c, <3>6, <4>2, <5>1 DEF Accounted
      <4>3. QED
        BY <4>1, <4>2
    <3>8. QED
      BY <3>2, <3>4, <3>7
  <2>9. ASSUME NEW r \in Runners, Done(r)
        PROVE  Alone' /\ SnapshotsHold' /\ Accounted'
    <3>1. Run(r) /\ Stop(r) /\ recorded' = recorded /\ ran' = ran /\ crashes' = crashes
      BY <2>9 DEF Run, Done, history
    <3>2. ~ Executes(r)
      <4>1. pc[r] = "apply" /\ file[r] > limit[r] /\ file[r] \in Nat /\ limit[r] \in Nat
        BY <2>9, <2>a DEF Done, TypeOK
      <4>2. QED
        BY <4>1 DEF Executes
    <3>3. QED
      BY <2>1, <3>1, <3>2 DEF Unrecorded
  <2>10. ASSUME NEW r \in Runners, Crash(r)
         PROVE  Alone' /\ SnapshotsHold' /\ Accounted'
    BY <2>1, <2>10 DEF Crash
  <2>11. CASE (\E n \in Releases : Ship(n)) \/ (\E f \in Files : Edit(f))
              \/ MoveWatermark \/ UNCHANGED vars
    <3>1. /\ recorded' = recorded /\ crashes' = crashes /\ ran' = ran /\ already' = already
          /\ pc' = pc /\ file' = file /\ stmt' = stmt /\ limit' = limit
      BY <2>11 DEF Ship, Edit, MoveWatermark, vars, runs, history
    <3>2. QED
      BY <2>c, <3>1
         DEF Alone, SnapshotsHold, Accounted, Unrecorded, Executes, AtEnd, Pending
  <2>12. QED
    BY <2>3, <2>4, <2>5, <2>6, <2>7, <2>8, <2>9, <2>10, <2>11 DEF Next, Run
<1>3. QED
  BY <1>1, <1>2, MigrationsTypeCorrect, PTL DEF Spec

(***************************************************************************)
(* While runs do not overlap, no file but the first is executed to its end *)
(* more often than runs were cut short, plus once, whatever is edited.     *)
(***************************************************************************)
THEOREM AppliedOnceHolds == Spec => []AppliedOnce
<1>1. TypeOK /\ OnceInv => AppliedOnce
  <2> SUFFICES ASSUME TypeOK, OnceInv, ~ overlapped, NEW f \in Files \ {1}
               PROVE  ran[f] <= 1 + crashes
    BY DEF AppliedOnce
  <2>1. ran[f] \in Nat /\ crashes \in Nat /\ ran[f] <= crashes + 1
    BY BoundsFact DEF TypeOK, OnceInv, Accounted
  <2>2. QED
    BY <2>1
<1>2. QED
  BY <1>1, OnceInvHolds, MigrationsTypeCorrect, PTL

-----------------------------------------------------------------------------
(***************************************************************************)
(* The files the repository ships.  From here on the catalogue is theirs,  *)
(* and Mark the exporter's table: the theorems below say so.               *)
(***************************************************************************)
Mark == "cold_export_watermark"
Mark2 == "cold_export_watermark_v2"
View1m == "mv_spans_1m"

AsShipped == Catalogue = Shipped /\ WatermarkTable = Mark

\* The file that creates a table first.
Home(t) ==
  CASE t = "telemetry" -> 1
    [] t = "kafka_spans" -> 2
    [] t = "spans_raw" -> 3
    [] t = "mv_spans_raw" -> 4
    [] t = "spans_ingest_errors" -> 5
    [] t = "mv_spans_ingest_errors" -> 6
    [] t \in {"dim_allowlist", "dim_allowlist_dict"} -> 7
    [] t = "spans_1m" -> 8
    [] t = View1m -> 9
    [] t = "spans_1h" -> 10
    [] t = "mv_spans_1h" -> 11
    [] t = "pipeline_health" -> 13
    [] t = Mark -> 14
    [] OTHER -> 16

\* What a statement of files 000 to 130 is: it creates a table of its own file,
\* from those of files before it, or it is one of 110's two.
Ordinary(s, f, i) ==
  /\ s.table # Mark2 /\ (f # 14 => s.table # Mark)
  /\ \/ /\ s.op = "create"
        /\ f # 12 => Home(s.table) = f
        /\ f = 12 => s.table = View1m /\ i = 2
        /\ \A t \in s.needs : Home(t) < f /\ t \notin {Mark, Mark2, View1m}
     \/ s.op = "drop" /\ f = 12 /\ s.table = View1m /\ i = 1 /\ s.needs = {}

LEMMA FilesShipped ==
  ASSUME AsShipped
  PROVE  /\ Files = 1 .. 15 /\ Len(Catalogue) = 15
         /\ Catalogue[15] = F140
BY DEF AsShipped, Files, Shipped

LEMMA OrdinaryStatements ==
  ASSUME AsShipped, NEW f \in Files \ {15}, NEW i \in 1 .. Len(Catalogue[f])
  PROVE  Ordinary(Catalogue[f][i], f, i)
<1> USE DEF Ordinary, Create, Drop, Home, Mark, Mark2, View1m
<1>0. f \in 1 .. 14
  BY FilesShipped
<1>1. CASE f = 1
  <2>1. Catalogue[f] = F000
    BY <1>1 DEF AsShipped, Shipped
  <2>2. QED
    BY <1>1, <2>1 DEF F000
<1>2. CASE f = 2
  <2>1. Catalogue[f] = F010
    BY <1>2 DEF AsShipped, Shipped
  <2>2. QED
    BY <1>2, <2>1 DEF F010
<1>3. CASE f = 3
  <2>1. Catalogue[f] = F020
    BY <1>3 DEF AsShipped, Shipped
  <2>2. QED
    BY <1>3, <2>1 DEF F020
<1>4. CASE f = 4
  <2>1. Catalogue[f] = F030
    BY <1>4 DEF AsShipped, Shipped
  <2>2. QED
    BY <1>4, <2>1 DEF F030
<1>5. CASE f = 5
  <2>1. Catalogue[f] = F040
    BY <1>5 DEF AsShipped, Shipped
  <2>2. QED
    BY <1>5, <2>1 DEF F040
<1>6. CASE f = 6
  <2>1. Catalogue[f] = F050
    BY <1>6 DEF AsShipped, Shipped
  <2>2. QED
    BY <1>6, <2>1 DEF F050
<1>7. CASE f = 7
  <2>1. Catalogue[f] = F060
    BY <1>7 DEF AsShipped, Shipped
  <2>2. QED
    BY <1>7, <2>1 DEF F060
<1>8. CASE f = 8
  <2>1. Catalogue[f] = F070
    BY <1>8 DEF AsShipped, Shipped
  <2>2. QED
    BY <1>8, <2>1 DEF F070
<1>9. CASE f = 9
  <2>1. Catalogue[f] = F080
    BY <1>9 DEF AsShipped, Shipped
  <2>2. QED
    BY <1>9, <2>1 DEF F080
<1>10. CASE f = 10
  <2>1. Catalogue[f] = F090
    BY <1>10 DEF AsShipped, Shipped
  <2>2. QED
    BY <1>10, <2>1 DEF F090
<1>11. CASE f = 11
  <2>1. Catalogue[f] = F100
    BY <1>11 DEF AsShipped, Shipped
  <2>2. QED
    BY <1>11, <2>1 DEF F100
<1>12. CASE f = 12
  <2>1. Catalogue[f] = F110
    BY <1>12 DEF AsShipped, Shipped
  <2>2. QED
    BY <1>12, <2>1 DEF F110
<1>13. CASE f = 13
  <2>1. Catalogue[f] = F120
    BY <1>13 DEF AsShipped, Shipped
  <2>2. QED
    BY <1>13, <2>1 DEF F120
<1>14. CASE f = 14
  <2>1. Catalogue[f] = F130
    BY <1>14 DEF AsShipped, Shipped
  <2>2. QED
    BY <1>14, <2>1 DEF F130
<1> HIDE DEF Ordinary
<1>15. QED
  BY <1>0, <1>1, <1>2, <1>3, <1>4, <1>5, <1>6, <1>7, <1>8, <1>9, <1>10, <1>11, <1>12, <1>13, <1>14

\* 140: create, copy, drop, rename.
LEMMA Statements140 ==
  ASSUME AsShipped
  PROVE  /\ Len(Catalogue[15]) = 4
         /\ Catalogue[15][1] = Create(Mark2, {"telemetry"})
         /\ Catalogue[15][2] = Copy(Mark, Mark2)
         /\ Catalogue[15][3] = Drop(Mark)
         /\ Catalogue[15][4] = Rename(Mark2, Mark)
         /\ Mark \in Tables /\ Mark2 \in Tables /\ Mark # Mark2
<1>1. /\ Len(Catalogue[15]) = 4
      /\ Catalogue[15][1] = Create(Mark2, {"telemetry"})
      /\ Catalogue[15][2] = Copy(Mark, Mark2)
      /\ Catalogue[15][3] = Drop(Mark)
      /\ Catalogue[15][4] = Rename(Mark2, Mark)
  BY FilesShipped DEF F140, Mark, Mark2
<1>2. Catalogue[15][2] \in Statement
  BY <1>1, StatementFact, FilesShipped
<1>3. Mark \in Tables /\ Mark2 \in Tables
  BY <1>1, <1>2 DEF Statement, Copy
<1>4. Mark # Mark2
  BY DEF Mark, Mark2
<1>5. QED
  BY <1>1, <1>3, <1>4

-----------------------------------------------------------------------------
(* What a run's step does to the tables. *)

InHandStatement(r) == Catalogue[file[r]][stmt[r]]

\* A statement of run r succeeds.
Succeeds(r) == Execute(r) /\ CanRun(InHandStatement(r), server)

LEMMA SucceedsFact ==
  ASSUME TypeOK, NEW r \in Runners, Succeeds(r)
  PROVE  /\ Executes(r) /\ ~ AtEnd(r)
         /\ file[r] \in Files /\ stmt[r] \in 1 .. Len(Catalogue[file[r]])
         /\ InHandStatement(r) \in Statement
         /\ server' = Effect(InHandStatement(r), server)
         /\ stmt'[r] = stmt[r] + 1
         /\ UNCHANGED <<pc, file, limit, already, failed, recorded, overlapped, baseline, crashes>>
         /\ Executes(r)'
<1>1. /\ Executes(r) /\ ~ AtEnd(r)
      /\ server' = Effect(InHandStatement(r), server)
      /\ stmt' = [stmt EXCEPT ![r] = @ + 1]
      /\ UNCHANGED <<pc, file, limit, already, failed, recorded, overlapped, baseline, crashes>>
  BY DEF Succeeds, Execute, InHandStatement
<1>2. file[r] \in Files /\ stmt[r] \in 1 .. Len(Catalogue[file[r]])
  BY <1>1, InHand
<1>3. InHandStatement(r) \in Statement
  BY <1>2, StatementFact DEF InHandStatement
<1>4. Executes(r)'
  BY <1>1 DEF Executes, Pending
<1>5. stmt'[r] = stmt[r] + 1
  BY <1>1 DEF TypeOK
<1>6. QED
  BY <1>1, <1>2, <1>3, <1>4, <1>5

\* Any other step of a run leaves the tables alone; if the run has a file to
\* execute then, it is before that file's first statement.
LEMMA OtherSteps ==
  ASSUME TypeOK, NEW r \in Runners, Run(r) \/ Crash(r), ~ Succeeds(r)
  PROVE  /\ server' = server /\ baseline' = baseline
         /\ Executes(r)' => stmt'[r] = 1
<1>1. ASSUME Stop(r)
      PROVE  ~ Executes(r)'
  BY <1>1 DEF Stop, Executes, TypeOK
<1>2. ASSUME NextFile(r)
      PROVE  stmt'[r] = 1
  BY <1>2 DEF NextFile, TypeOK
<1>3. CASE Execute(r)
  <2>1. Stop(r) /\ server' = server /\ baseline' = baseline
    BY <1>3 DEF Execute, Succeeds, InHandStatement
  <2>2. QED
    BY <1>1, <2>1
<1>4. CASE Snapshot(r)
  <2>1. pc'[r] = "bookkeep" /\ server' = server /\ baseline' = baseline
    BY <1>4 DEF Snapshot, history, TypeOK
  <2>2. QED
    BY <2>1 DEF Executes
<1>5. CASE Bookkeep(r) \/ Pass(r) \/ Record(r)
  BY <1>2, <1>5 DEF Bookkeep, Pass, Record, history
<1>6. CASE Done(r) \/ Crash(r)
  BY <1>1, <1>6 DEF Done, Crash, history
<1>7. QED
  BY <1>3, <1>4, <1>5, <1>6 DEF Run

\* Only 130 and 140 touch the exporter's tables.
LEMMA MarksAfter ==
  ASSUME AsShipped, TypeOK, NEW r \in Runners, Succeeds(r)
  PROVE  /\ server[Mark] \in Int /\ server[Mark2] \in Int
         /\ server'[Mark] \in Int
         /\ file[r] # 15 => server'[Mark2] = server[Mark2] /\ server[Mark] <= server'[Mark]
         /\ file[r] = 15 /\ stmt[r] = 1 =>
              server'[Mark] = server[Mark] /\ server'[Mark2] = Larger(server[Mark2], 0)
         /\ file[r] = 15 /\ stmt[r] = 2 =>
              server'[Mark] = server[Mark] /\ server'[Mark2] = Larger(server[Mark2], server[Mark])
         /\ file[r] = 15 /\ stmt[r] = 3 =>
              server'[Mark] = Absent /\ server'[Mark2] = server[Mark2]
         /\ file[r] = 15 /\ stmt[r] = 4 =>
              server[Mark] = Absent /\ server'[Mark] = server[Mark2] /\ server'[Mark2] = Absent
<1> DEFINE s == InHandStatement(r)
<1>1. /\ file[r] \in Files /\ stmt[r] \in 1 .. Len(Catalogue[file[r]])
      /\ s \in Statement /\ server' = Effect(s, server) /\ s = Catalogue[file[r]][stmt[r]]
      /\ CanRun(s, server)
  BY SucceedsFact DEF Succeeds, InHandStatement
<1> HIDE DEF s
<1>2. Mark \in Tables /\ Mark2 \in Tables /\ Mark # Mark2
  BY Statements140
<1>3. server \in [Tables -> Absent .. MaxMark] /\ MaxMark \in Nat
  BY BoundsFact DEF TypeOK
<1>4. server[Mark] \in Int /\ server[Mark2] \in Int
  BY <1>2, <1>3 DEF Absent
<1>0. server'[Mark] \in Int
  <2>1. server' \in [Tables -> Absent .. MaxMark]
    BY <1>1, <1>3, EffectType
  <2>2. QED
    BY <1>2, <1>3, <2>1 DEF Absent
<1>5. file[r] # 15 => server'[Mark2] = server[Mark2] /\ server[Mark] <= server'[Mark]
  <2> SUFFICES ASSUME file[r] # 15
               PROVE  server'[Mark2] = server[Mark2] /\ server[Mark] <= server'[Mark]
    OBVIOUS
  <2>1. Ordinary(s, file[r], stmt[r])
    BY <1>1, OrdinaryStatements
  <2>2. s.table \in Tables /\ s.table # Mark2
    BY <1>1, <2>1 DEF Ordinary, Statement
  <2>3. CASE s.op = "create"
    <3>1. server' = [server EXCEPT ![s.table] = Larger(@, 0)]
      BY <1>1, <2>3 DEF Effect
    <3>2. server'[Mark] = server[Mark] \/ server'[Mark] = Larger(server[Mark], 0)
      BY <1>2, <1>3, <2>2, <3>1
    <3>3. server'[Mark2] = server[Mark2]
      BY <1>2, <1>3, <2>2, <3>1
    <3>4. QED
      BY <1>4, <3>2, <3>3 DEF Larger
  <2>4. CASE s.op = "drop" /\ s.table = View1m
    <3>1. server' = [server EXCEPT ![s.table] = Absent]
      BY <1>1, <2>4 DEF Effect
    <3>2. s.table # Mark
      BY <2>4 DEF View1m, Mark
    <3>3. QED
      BY <1>2, <1>3, <1>4, <2>2, <3>1, <3>2
  <2>5. QED
    BY <2>1, <2>3, <2>4 DEF Ordinary
<1>6. CASE file[r] = 15 /\ stmt[r] = 1
  <2>0. s.op = "create" /\ s.table = Mark2
    <3>1. s = Create(Mark2, {"telemetry"})
      BY <1>1, <1>6, Statements140
    <3>2. QED
      BY <3>1 DEF Create
  <2>1. server' = [server EXCEPT ![Mark2] = Larger(@, 0)]
    BY <1>1, <2>0 DEF Effect
  <2>2. QED
    BY <1>0, <1>2, <1>3, <1>4, <1>6, <2>1
<1>7. CASE file[r] = 15 /\ stmt[r] = 2
  <2>0. s.op = "copy" /\ s.table = Mark2 /\ s.from = Mark
    <3>1. s = Copy(Mark, Mark2)
      BY <1>1, <1>7, Statements140
    <3>2. QED
      BY <3>1 DEF Copy
  <2>1. server' = [server EXCEPT ![Mark2] = Larger(@, server[Mark])]
    BY <1>1, <2>0 DEF Effect
  <2>2. QED
    BY <1>0, <1>2, <1>3, <1>4, <1>7, <2>1
<1>8. CASE file[r] = 15 /\ stmt[r] = 3
  <2>0. s.op = "drop" /\ s.table = Mark
    <3>1. s = Drop(Mark)
      BY <1>1, <1>8, Statements140
    <3>2. QED
      BY <3>1 DEF Drop
  <2>1. server' = [server EXCEPT ![Mark] = Absent]
    BY <1>1, <2>0 DEF Effect
  <2>2. QED
    BY <1>0, <1>2, <1>3, <1>4, <1>8, <2>1
<1>9. CASE file[r] = 15 /\ stmt[r] = 4
  <2>0. s.op = "rename" /\ s.table = Mark /\ s.from = Mark2
    <3>1. s = Rename(Mark2, Mark)
      BY <1>1, <1>9, Statements140
    <3>2. QED
      BY <3>1 DEF Rename
  <2>1. server' = [server EXCEPT ![Mark] = server[Mark2], ![Mark2] = Absent]
    BY <1>1, <2>0 DEF Effect
  <2>2. server[Mark] = Absent
    BY <1>1, <1>9, Statements140 DEF CanRun, Exists, Rename
  <2>3. QED
    BY <1>0, <1>2, <1>3, <1>4, <1>9, <2>1, <2>2
<1>10. CASE file[r] # 15
  BY <1>0, <1>4, <1>5, <1>10
<1>11. file[r] = 15 => stmt[r] \in 1 .. 4
  BY <1>1, Statements140
<1>12. QED
  BY <1>6, <1>7, <1>8, <1>9, <1>10, <1>11

-----------------------------------------------------------------------------
(***************************************************************************)
(* The inductive invariant behind WatermarkSurvives: 140's copy is made    *)
(* before its DROP, and nothing takes it away in between.                  *)
(***************************************************************************)
AboutToDrop(r) == Executes(r) /\ file[r] = 15 /\ stmt[r] = 3

KeptInv ==
  ~ overlapped =>
    /\ baseline <= server[Mark] \/ baseline <= server[Mark2]
    /\ \A r \in Runners : AboutToDrop(r) => baseline <= server[Mark2]

(***************************************************************************)
(* Whatever a run found of the exporter's watermark the old table or the   *)
(* new one holds, wherever runs are cut short, as long as they do not      *)
(* overlap (140_cold_export_watermark_engine.sql).                         *)
(***************************************************************************)
THEOREM WatermarkSurvivesHolds ==
  ASSUME Catalogue = Shipped, WatermarkTable = "cold_export_watermark"
  PROVE  Spec => []WatermarkSurvives
<1>0. AsShipped /\ Mark \in Tables /\ Mark2 \in Tables /\ Mark # Mark2
  <2>1. AsShipped
    BY DEF AsShipped, Mark
  <2>2. QED
    BY <2>1, Statements140
<1>1. Init => KeptInv
  BY <1>0 DEF Init, KeptInv, AboutToDrop, Executes, Absent
<1>2. TypeOK /\ OnceInv /\ KeptInv /\ [Next]_vars => KeptInv'
  <2> SUFFICES ASSUME TypeOK, OnceInv, KeptInv, [Next]_vars, ~ overlapped'
               PROVE  /\ baseline' <= server'[Mark] \/ baseline' <= server'[Mark2]
                      /\ \A r \in Runners : AboutToDrop(r)' => baseline' <= server'[Mark2]
    BY DEF KeptInv
  <2>0. /\ MaxMark \in Nat /\ baseline \in Int /\ server[Mark] \in Int /\ server[Mark2] \in Int
        /\ Absent <= baseline /\ Absent <= server[Mark] /\ Absent <= server[Mark2]
    BY <1>0, BoundsFact DEF TypeOK, Absent
  \* A step that moves no run.
  <2>1. ASSUME UNCHANGED <<baseline, overlapped, runs>>, server'[Mark2] = server[Mark2],
               server[Mark] <= server'[Mark], server'[Mark] \in Int
        PROVE  /\ baseline' <= server'[Mark] \/ baseline' <= server'[Mark2]
               /\ \A r \in Runners : AboutToDrop(r)' => baseline' <= server'[Mark2]
    BY <2>0, <2>1 DEF KeptInv, AboutToDrop, Executes, Pending, runs
  <2>2. ASSUME NEW r \in Runners, Start(r)
        PROVE  /\ baseline' <= server'[Mark] \/ baseline' <= server'[Mark2]
               /\ \A q \in Runners : AboutToDrop(q)' => baseline' <= server'[Mark2]
    <3>1. /\ ~ overlapped /\ \A q \in Runners : pc[q] = "idle"
          /\ pc' = [pc EXCEPT ![r] = "bootstrap"] /\ file' = file /\ server' = server
          /\ baseline' = Larger(baseline, server[Mark])
      BY <1>0, <2>2 DEF Start, AsShipped, TypeOK
    <3>2. baseline' <= server[Mark] \/ baseline' <= server[Mark2]
      BY <2>0, <3>1 DEF KeptInv, Larger
    <3>3. \A q \in Runners : ~ AboutToDrop(q)'
      <4> SUFFICES ASSUME NEW q \in Runners
                   PROVE  ~ AboutToDrop(q)'
        OBVIOUS
      <4>1. file[q] = 1
        BY <3>1 DEF TypeOK, Position
      <4>2. QED
        BY <3>1, <4>1 DEF AboutToDrop
    <3>4. QED
      BY <3>1, <3>2, <3>3
  <2>3. ASSUME NEW r \in Runners, Run(r) \/ Crash(r)
        PROVE  /\ baseline' <= server'[Mark] \/ baseline' <= server'[Mark2]
               /\ \A q \in Runners : AboutToDrop(q)' => baseline' <= server'[Mark2]
    <3>1. overlapped' = overlapped
      BY <2>3 DEF Run, Execute, Snapshot, Bookkeep, Pass, Record, Done, Crash, history
    <3>2. /\ baseline <= server[Mark] \/ baseline <= server[Mark2]
          /\ AboutToDrop(r) => baseline <= server[Mark2]
          /\ Alone
      BY <3>1 DEF KeptInv, OnceInv
    <3>3. \A q \in Runners \ {r} : ~ AboutToDrop(q)'
      <4>1. \A q \in Runners \ {r} : pc'[q] = "idle"
        BY <2>3, <3>2, OthersIdle
      <4>2. QED
        BY <4>1 DEF AboutToDrop, Executes
    <3>4. CASE ~ Succeeds(r)
      <4>1. server' = server /\ baseline' = baseline /\ ~ AboutToDrop(r)'
        BY <2>3, <3>4, OtherSteps DEF AboutToDrop
      <4>2. QED
        BY <3>2, <3>3, <4>1
    <3>5. CASE Succeeds(r)
      <4>1. /\ Executes(r) /\ stmt[r] \in 1 .. Len(Catalogue[file[r]])
            /\ file' = file /\ stmt'[r] = stmt[r] + 1 /\ baseline' = baseline
        BY <3>5, SucceedsFact
      <4>2. CASE file[r] # 15
        <5>1. /\ server'[Mark2] = server[Mark2] /\ server[Mark] <= server'[Mark]
              /\ server'[Mark] \in Int
          BY <1>0, <3>5, <4>2, MarksAfter
        <5>2. baseline' <= server'[Mark] \/ baseline' <= server'[Mark2]
          BY <2>0, <3>2, <4>1, <5>1
        <5>3. ~ AboutToDrop(r)'
          BY <4>1, <4>2 DEF AboutToDrop
        <5>4. QED
          BY <3>3, <5>2, <5>3
      <4>3. CASE file[r] = 15
        <5>1. stmt[r] \in 1 .. 4
          BY <1>0, <4>1, <4>3, Statements140
        <5>2. CASE stmt[r] = 1
          <6>1. server'[Mark] = server[Mark] /\ server'[Mark2] = Larger(server[Mark2], 0)
            BY <1>0, <3>5, <4>3, <5>2, MarksAfter
          <6>2. server[Mark2] <= server'[Mark2] /\ server'[Mark2] \in Int
            BY <2>0, <6>1 DEF Larger
          <6>3. ~ AboutToDrop(r)'
            BY <4>1, <5>2 DEF AboutToDrop
          <6>4. baseline' <= server'[Mark] \/ baseline' <= server'[Mark2]
            BY <2>0, <3>2, <4>1, <6>1, <6>2
          <6>5. QED
            BY <3>3, <6>3, <6>4
        <5>3. CASE stmt[r] = 2
          <6>1. server'[Mark] = server[Mark] /\ server'[Mark2] = Larger(server[Mark2], server[Mark])
            BY <1>0, <3>5, <4>3, <5>3, MarksAfter
          <6>2. baseline' <= server'[Mark2]
            BY <2>0, <3>2, <4>1, <6>1 DEF Larger
          <6>3. QED
            BY <3>3, <6>2
        <5>4. CASE stmt[r] = 3
          <6>1. server'[Mark2] = server[Mark2]
            BY <1>0, <3>5, <4>3, <5>4, MarksAfter
          <6>2. AboutToDrop(r)
            BY <4>1, <4>3, <5>4 DEF AboutToDrop
          <6>3. baseline' <= server'[Mark2]
            BY <3>2, <4>1, <6>1, <6>2
          <6>4. QED
            BY <3>3, <6>3
        <5>5. CASE stmt[r] = 4
          <6>1. server[Mark] = Absent /\ server'[Mark] = server[Mark2]
            BY <1>0, <3>5, <4>3, <5>5, MarksAfter
          <6>2. baseline' <= server'[Mark]
            BY <2>0, <3>2, <4>1, <6>1
          <6>3. ~ AboutToDrop(r)'
            BY <4>1, <5>5 DEF AboutToDrop
          <6>4. QED
            BY <3>3, <6>2, <6>3
        <5>6. QED
          BY <5>1, <5>2, <5>3, <5>4, <5>5
      <4>4. QED
        BY <4>2, <4>3
    <3>6. QED
      BY <3>4, <3>5
  <2>4. CASE (\E n \in Releases : Ship(n)) \/ (\E f \in Files : Edit(f)) \/ UNCHANGED vars
    BY <2>0, <2>1, <2>4 DEF Ship, Edit, vars, history
  <2>5. CASE MoveWatermark
    <3>1. /\ server' = [server EXCEPT ![Mark] = @ + 1]
          /\ UNCHANGED <<baseline, overlapped, runs>>
      BY <1>0, <2>5 DEF MoveWatermark, AsShipped, history
    <3>2. server'[Mark] = server[Mark] + 1 /\ server'[Mark2] = server[Mark2]
      BY <1>0, <3>1 DEF TypeOK
    <3>3. QED
      BY <2>0, <2>1, <3>1, <3>2
  <2>6. QED
    BY <2>2, <2>3, <2>4, <2>5 DEF Next
<1>3. KeptInv => WatermarkSurvives
  BY <1>0 DEF KeptInv, WatermarkSurvives
<1>4. QED
  BY <1>1, <1>2, <1>3, MigrationsTypeCorrect, OnceInvHolds, PTL DEF Spec

-----------------------------------------------------------------------------
(***************************************************************************)
(* What the server has, whichever files are recorded and wherever runs     *)
(* have been cut short.                                                    *)
(***************************************************************************)
Has(t) == server[t] # Absent

\* 140 is the next file; so is the engine change that is to be made.
Changing == recorded[14] # None /\ recorded[15] = None

\* What 110 and 140 may have dropped, and a run cut short not made again.
MayBeDropped(t) ==
  \/ t = View1m /\ recorded[11] # None /\ recorded[12] = None
  \/ t = Mark /\ Changing

\* Nothing is there before its file's turn.
InTurn ==
  \A t \in Tables \ {Mark2} :
    Has(t) => Home(t) \in Files /\ (Home(t) = 1 \/ recorded[Home(t) - 1] # None)

\* What recorded files make is there.
Made ==
  \A t \in Tables :
    Home(t) \in Files /\ recorded[Home(t)] # None => Has(t) \/ MayBeDropped(t)

\* The new watermark table is there only for the change, and one of the two then.
OneOfTwo == (Has(Mark2) => Changing) /\ (Changing => Has(Mark) \/ Has(Mark2))

\* What a run has made of the file in hand.
SoFar(r) ==
  /\ pc[r] = "apply" => file[r] # 1
  /\ pc[r] = "bookkeep" => Has("telemetry")
  /\ Executes(r) /\ file[r] # 15 =>
       \A j \in 1 .. Len(Catalogue[file[r]]) :
         j < stmt[r] /\ Catalogue[file[r]][j].op = "create" => Has(Catalogue[file[r]][j].table)
  /\ Executes(r) /\ file[r] = 15 =>
       /\ stmt[r] \in {2, 3, 4} => Has(Mark2)
       /\ stmt[r] = 3 => Has(Mark)
       /\ stmt[r] = 4 => ~ Has(Mark)
       /\ stmt[r] = 5 => Has(Mark) /\ ~ Has(Mark2)

Renaming(r) == Executes(r) /\ file[r] = 15 /\ stmt[r] = 4

\* Without a crash no statement fails, and the watermark table is only missing
\* between 140's DROP and its RENAME.
Undisturbed ==
  crashes = 0 => /\ ~ failed
                 /\ Changing /\ (\A r \in Runners : ~ Renaming(r)) => Has(Mark)

Built == InTurn /\ Made /\ OneOfTwo /\ Undisturbed /\ \A r \in Runners : SoFar(r)

BuiltInv == ~ overlapped => Built

LEMMA HomeFact ==
  /\ \A t : Home(t) \in 1 .. 16
  /\ Home("telemetry") = 1 /\ Home(View1m) = 9 /\ Home(Mark) = 14 /\ Home(Mark2) = 16
  /\ \A t : Home(t) # 12 /\ Home(t) # 15
  /\ \A t : Home(t) = 1 => t = "telemetry"
<1> DEFINE named == {"telemetry", "kafka_spans", "spans_raw", "mv_spans_raw",
                     "spans_ingest_errors", "mv_spans_ingest_errors", "dim_allowlist",
                     "dim_allowlist_dict", "spans_1m", View1m, "spans_1h", "mv_spans_1h",
                     "pipeline_health", Mark}
           values == {1, 2, 3, 4, 5, 6, 7, 8, 9, 10, 11, 13, 14, 16}
<1>1. Home("telemetry") = 1 /\ Home(View1m) = 9 /\ Home(Mark) = 14 /\ Home(Mark2) = 16
  BY DEF Home, View1m, Mark, Mark2
<1>2. \A t \in named : Home(t) \in values
  BY DEF Home, View1m, Mark
<1>3. \A t \in named : Home(t) = 1 => t = "telemetry"
  BY DEF Home, View1m, Mark
<1>4. ASSUME NEW t, t \notin named
      PROVE  Home(t) = 16
  BY <1>4 DEF Home
<1>5. \A t : t \in named \/ Home(t) = 16
  BY <1>4
<1> HIDE DEF named
<1>6. \A t : Home(t) \in values
  BY <1>2, <1>5
<1>7. \A t : Home(t) = 1 => t = "telemetry"
  BY <1>3, <1>5
<1>8. QED
  BY <1>1, <1>6, <1>7

\* Every table is created by a statement of its file.
LEMMA HomeCreates ==
  ASSUME AsShipped, NEW t, Home(t) \in 1 .. 14
  PROVE  \E j \in 1 .. Len(Catalogue[Home(t)]) :
           Catalogue[Home(t)][j].op = "create" /\ Catalogue[Home(t)][j].table = t
<1>1. CASE Home(t) = 1
  <2>1. Catalogue[1] = F000
    BY DEF AsShipped, Shipped
  <2>2. t \in {F000[j].table : j \in 1 .. Len(F000)}
    BY <1>1 DEF F000, Create, Home, View1m, Mark
  <2>3. \A j \in 1 .. Len(F000) : F000[j].op = "create"
    BY DEF F000, Create
  <2>4. QED
    BY <1>1, <2>1, <2>2, <2>3
<1>2. CASE Home(t) = 2
  <2>1. Catalogue[2] = F010
    BY DEF AsShipped, Shipped
  <2>2. t \in {F010[j].table : j \in 1 .. Len(F010)}
    BY <1>2 DEF F010, Create, Home, View1m, Mark
  <2>3. \A j \in 1 .. Len(F010) : F010[j].op = "create"
    BY DEF F010, Create
  <2>4. QED
    BY <1>2, <2>1, <2>2, <2>3
<1>3. CASE Home(t) = 3
  <2>1. Catalogue[3] = F020
    BY DEF AsShipped, Shipped
  <2>2. t \in {F020[j].table : j \in 1 .. Len(F020)}
    BY <1>3 DEF F020, Create, Home, View1m, Mark
  <2>3. \A j \in 1 .. Len(F020) : F020[j].op = "create"
    BY DEF F020, Create
  <2>4. QED
    BY <1>3, <2>1, <2>2, <2>3
<1>4. CASE Home(t) = 4
  <2>1. Catalogue[4] = F030
    BY DEF AsShipped, Shipped
  <2>2. t \in {F030[j].table : j \in 1 .. Len(F030)}
    BY <1>4 DEF F030, Create, Home, View1m, Mark
  <2>3. \A j \in 1 .. Len(F030) : F030[j].op = "create"
    BY DEF F030, Create
  <2>4. QED
    BY <1>4, <2>1, <2>2, <2>3
<1>5. CASE Home(t) = 5
  <2>1. Catalogue[5] = F040
    BY DEF AsShipped, Shipped
  <2>2. t \in {F040[j].table : j \in 1 .. Len(F040)}
    BY <1>5 DEF F040, Create, Home, View1m, Mark
  <2>3. \A j \in 1 .. Len(F040) : F040[j].op = "create"
    BY DEF F040, Create
  <2>4. QED
    BY <1>5, <2>1, <2>2, <2>3
<1>6. CASE Home(t) = 6
  <2>1. Catalogue[6] = F050
    BY DEF AsShipped, Shipped
  <2>2. t \in {F050[j].table : j \in 1 .. Len(F050)}
    BY <1>6 DEF F050, Create, Home, View1m, Mark
  <2>3. \A j \in 1 .. Len(F050) : F050[j].op = "create"
    BY DEF F050, Create
  <2>4. QED
    BY <1>6, <2>1, <2>2, <2>3
<1>7. CASE Home(t) = 7
  <2>1. Catalogue[7] = F060
    BY DEF AsShipped, Shipped
  <2>2. t \in {F060[j].table : j \in 1 .. Len(F060)}
    BY <1>7 DEF F060, Create, Home, View1m, Mark
  <2>3. \A j \in 1 .. Len(F060) : F060[j].op = "create"
    BY DEF F060, Create
  <2>4. QED
    BY <1>7, <2>1, <2>2, <2>3
<1>8. CASE Home(t) = 8
  <2>1. Catalogue[8] = F070
    BY DEF AsShipped, Shipped
  <2>2. t \in {F070[j].table : j \in 1 .. Len(F070)}
    BY <1>8 DEF F070, Create, Home, View1m, Mark
  <2>3. \A j \in 1 .. Len(F070) : F070[j].op = "create"
    BY DEF F070, Create
  <2>4. QED
    BY <1>8, <2>1, <2>2, <2>3
<1>9. CASE Home(t) = 9
  <2>1. Catalogue[9] = F080
    BY DEF AsShipped, Shipped
  <2>2. t \in {F080[j].table : j \in 1 .. Len(F080)}
    BY <1>9 DEF F080, Create, Home, View1m, Mark
  <2>3. \A j \in 1 .. Len(F080) : F080[j].op = "create"
    BY DEF F080, Create
  <2>4. QED
    BY <1>9, <2>1, <2>2, <2>3
<1>10. CASE Home(t) = 10
  <2>1. Catalogue[10] = F090
    BY DEF AsShipped, Shipped
  <2>2. t \in {F090[j].table : j \in 1 .. Len(F090)}
    BY <1>10 DEF F090, Create, Home, View1m, Mark
  <2>3. \A j \in 1 .. Len(F090) : F090[j].op = "create"
    BY DEF F090, Create
  <2>4. QED
    BY <1>10, <2>1, <2>2, <2>3
<1>11. CASE Home(t) = 11
  <2>1. Catalogue[11] = F100
    BY DEF AsShipped, Shipped
  <2>2. t \in {F100[j].table : j \in 1 .. Len(F100)}
    BY <1>11 DEF F100, Create, Home, View1m, Mark
  <2>3. \A j \in 1 .. Len(F100) : F100[j].op = "create"
    BY DEF F100, Create
  <2>4. QED
    BY <1>11, <2>1, <2>2, <2>3
<1>13. CASE Home(t) = 13
  <2>1. Catalogue[13] = F120
    BY DEF AsShipped, Shipped
  <2>2. t \in {F120[j].table : j \in 1 .. Len(F120)}
    BY <1>13 DEF F120, Create, Home, View1m, Mark
  <2>3. \A j \in 1 .. Len(F120) : F120[j].op = "create"
    BY DEF F120, Create
  <2>4. QED
    BY <1>13, <2>1, <2>2, <2>3
<1>14. CASE Home(t) = 14
  <2>1. Catalogue[14] = F130
    BY DEF AsShipped, Shipped
  <2>2. t \in {F130[j].table : j \in 1 .. Len(F130)}
    BY <1>14 DEF F130, Create, Home, View1m, Mark
  <2>3. \A j \in 1 .. Len(F130) : F130[j].op = "create"
    BY DEF F130, Create
  <2>4. QED
    BY <1>14, <2>1, <2>2, <2>3
<1>15. QED
  BY HomeFact, <1>1, <1>2, <1>3, <1>4, <1>5, <1>6, <1>7, <1>8, <1>9, <1>10, <1>11, <1>13, <1>14

LEMMA Statements110 ==
  ASSUME AsShipped
  PROVE  /\ Len(Catalogue[12]) = 2
         /\ Catalogue[12][2].op = "create" /\ Catalogue[12][2].table = View1m
<1>1. Catalogue[12] = F110
  BY DEF AsShipped, Shipped
<1>2. QED
  BY <1>1 DEF F110, Create, View1m

LEMMA Statements000 ==
  ASSUME AsShipped
  PROVE  /\ Len(Catalogue[1]) = 1
         /\ Catalogue[1][1].op = "create" /\ Catalogue[1][1].table = "telemetry"
<1>1. Catalogue[1] = F000
  BY DEF AsShipped, Shipped
<1>2. QED
  BY <1>1 DEF F000, Create

\* What a statement that succeeds makes or drops.
LEMMA HasAfter ==
  ASSUME AsShipped, TypeOK, NEW r \in Runners, Succeeds(r)
  PROVE  /\ file[r] # 15 /\ InHandStatement(r).op = "create" =>
              \A t \in Tables : Has(t)' <=> Has(t) \/ t = InHandStatement(r).table
         /\ file[r] # 15 /\ InHandStatement(r).op = "drop" =>
              \A t \in Tables : Has(t)' <=> Has(t) /\ t # InHandStatement(r).table
         /\ file[r] = 15 => \A t \in Tables \ {Mark, Mark2} : Has(t)' <=> Has(t)
<1> DEFINE s == InHandStatement(r)
<1>1. s \in Statement /\ server' = Effect(s, server)
  BY SucceedsFact
<1>2. s.table \in Tables /\ s.from \in Tables
  BY <1>1 DEF Statement
<1>3. server \in [Tables -> Absent .. MaxMark] /\ MaxMark \in Nat
  BY BoundsFact DEF TypeOK
<1>4. file[r] = 15 => s.table \in {Mark, Mark2} /\ s.from \in {Mark, Mark2}
  <2> SUFFICES ASSUME file[r] = 15
               PROVE  s.table \in {Mark, Mark2} /\ s.from \in {Mark, Mark2}
    OBVIOUS
  <2>1. stmt[r] \in 1 .. 4 /\ s = Catalogue[15][stmt[r]]
    BY SucceedsFact, Statements140 DEF InHandStatement
  <2>2. QED
    BY <2>1, Statements140 DEF Create, Copy, Drop, Rename
<1> HIDE DEF s
<1>5. CASE s.op = "create"
  <2>1. server' = [server EXCEPT ![s.table] = Larger(@, 0)]
    BY <1>1, <1>5 DEF Effect
  <2>2. \A t \in Tables : server'[t] = IF t = s.table THEN Larger(server[t], 0) ELSE server[t]
    BY <1>2, <1>3, <2>1
  <2>3. \A t \in Tables : Larger(server[t], 0) # Absent
    BY <1>3 DEF Larger, Absent
  <2>4. \A t \in Tables : Has(t)' <=> Has(t) \/ t = s.table
    BY <2>2, <2>3 DEF Has
  <2>5. QED
    BY <1>4, <1>5, <2>4 DEF s
<1>6. CASE s.op = "drop"
  <2>1. server' = [server EXCEPT ![s.table] = Absent]
    BY <1>1, <1>6 DEF Effect
  <2>2. \A t \in Tables : Has(t)' <=> Has(t) /\ t # s.table
    BY <1>2, <1>3, <2>1 DEF Has
  <2>3. QED
    BY <1>4, <1>6, <2>2 DEF s
<1>7. CASE s.op = "copy" \/ s.op = "rename"
  <2>1. \A t \in Tables \ {s.table, s.from} : server'[t] = server[t]
    <3>1. \/ server' = [server EXCEPT ![s.table] = Larger(@, server[s.from])]
          \/ server' = [server EXCEPT ![s.table] = server[s.from], ![s.from] = Absent]
      BY <1>1, <1>7 DEF Effect
    <3>2. QED
      BY <1>2, <1>3, <3>1
  <2>2. file[r] = 15 => \A t \in Tables \ {Mark, Mark2} : Has(t)' <=> Has(t)
    BY <1>4, <2>1 DEF Has
  <2>3. QED
    BY <1>7, <2>2 DEF s
<1>8. QED
  BY <1>1, <1>5, <1>6, <1>7 DEF Statement

\* The file a run executes is the next one, when runs do not overlap.
LEMMA NextUp ==
  ASSUME AsShipped, TypeOK, OrderInv, OnceInv, BuiltInv, ~ overlapped,
         NEW r \in Runners, Executes(r)
  PROVE  /\ file[r] = 1 \/ pc[r] = "apply"
         /\ pc[r] = "apply" =>
              file[r] # 1 /\ \A g \in Files : recorded[g] # None <=> g < file[r]
         /\ \A q \in Runners \ {r} : pc[q] = "idle"
<1>1. file[r] \in Files /\ Files = 1 .. 15
  BY InHand, FilesShipped
<1>2. file[r] = 1 \/ pc[r] = "apply"
  BY DEF Executes, TypeOK, Position
<1>3. \A q \in Runners \ {r} : pc[q] = "idle"
  BY DEF OnceInv, Alone, Executes
<1>4. ASSUME pc[r] = "apply"
      PROVE  file[r] # 1 /\ \A g \in Files : recorded[g] # None <=> g < file[r]
  <2>1. file[r] # 1
    BY <1>4 DEF BuiltInv, Built, SoFar
  <2>2. recorded[file[r]] = None
    BY <1>1, <1>4, <2>1 DEF OnceInv, SnapshotsHold, Executes, Pending
  <2>3. ASSUME NEW g \in Files, g >= file[r]
        PROVE  recorded[g] = None
    <3>1. file[r] \in 1 .. g
      BY <1>1, <2>3
    <3>2. QED
      BY <2>2, <3>1 DEF OrderInv, RecordedInOrder
  <2>4. \A g \in Files : g < file[r] => recorded[g] # None
    BY <1>4 DEF OrderInv
  <2>5. \A g \in Files : g \in Int /\ file[r] \in Int
    BY <1>1
  <2>6. QED
    BY <2>1, <2>3, <2>4, <2>5
<1>5. QED
  BY <1>2, <1>3, <1>4

\* The tables but for what a step of one run makes or drops.
LEMMA IdleRun ==
  ASSUME NEW q \in Runners, pc'[q] = "idle"
  PROVE  SoFar(q)' /\ ~ Renaming(q)'
BY DEF SoFar, Renaming, Executes

LEMMA BuiltOrdinary ==
  ASSUME AsShipped, TypeOK, OrderInv, OnceInv, BuiltInv, ~ overlapped,
         NEW r \in Runners, Succeeds(r), file[r] # 15
  PROVE  Built'
<1> DEFINE s == InHandStatement(r)
           f == file[r]
           i == stmt[r]
<1>1. /\ f \in 1 .. 14 /\ f \in Files /\ i \in 1 .. Len(Catalogue[f]) /\ Len(Catalogue[f]) \in Nat
      /\ s = Catalogue[f][i] /\ s \in Statement
      /\ stmt'[r] = i + 1 /\ Executes(r) /\ Executes(r)'
      /\ UNCHANGED <<pc, file, failed, recorded, crashes>>
  <2>1. f \in Files /\ f \in 1 .. 14
    BY SucceedsFact, FilesShipped
  <2>2. Len(Catalogue[f]) \in Nat
    BY <2>1, FilesFact
  <2>3. QED
    BY <2>1, <2>2, SucceedsFact DEF InHandStatement
<1>2. Ordinary(s, f, i) /\ s.table \in Tables
  <2>1. f \in Files \ {15}
    BY <1>1
  <2>2. QED
    BY <1>1, <2>1, OrdinaryStatements DEF Statement
<1>3. Built
  BY DEF BuiltInv
<1>4. /\ f = 1 \/ pc[r] = "apply"
      /\ pc[r] = "apply" => f # 1 /\ \A g \in Files : recorded[g] # None <=> g < f
      /\ \A q \in Runners \ {r} : pc[q] = "idle"
  BY <1>1, NextUp
<1>5. /\ s.op = "create" => \A t \in Tables : Has(t)' <=> Has(t) \/ t = s.table
      /\ s.op = "drop" => \A t \in Tables : Has(t)' <=> Has(t) /\ t # s.table
  BY HasAfter
<1>6. /\ Files = 1 .. 15 /\ Mark \in Tables /\ Mark2 \in Tables
      /\ Mark # Mark2 /\ View1m # Mark /\ View1m # Mark2
  BY FilesShipped, Statements140 DEF Mark, Mark2, View1m
<1> HIDE DEF s, f, i
<1>7. s.op \in {"create", "drop"} /\ s.table # Mark2 /\ (s.op = "drop" => s.table = View1m)
  BY <1>2 DEF Ordinary
<1>8. (Has(Mark2)' <=> Has(Mark2)) /\ (Has(Mark) => Has(Mark)')
  BY <1>5, <1>6, <1>7
<1>9. /\ \A q \in Runners : ~ Renaming(q) /\ ~ Renaming(q)'
      /\ \A q \in Runners \ {r} : SoFar(q)'
  <2>1. \A q \in Runners \ {r} : ~ Renaming(q) /\ ~ Renaming(q)' /\ SoFar(q)'
    BY <1>1, <1>4, IdleRun DEF Renaming, Executes
  <2>2. ~ Renaming(r) /\ ~ Renaming(r)'
    BY <1>1 DEF Renaming, f
  <2>3. QED
    BY <2>1, <2>2
<1>10. (Changing' <=> Changing) /\ \A t : MayBeDropped(t)' <=> MayBeDropped(t)
  BY <1>1 DEF Changing, MayBeDropped
<1>11. OneOfTwo' /\ Undisturbed'
  BY <1>1, <1>3, <1>8, <1>9, <1>10 DEF Built, OneOfTwo, Undisturbed
<1>12. /\ pc'[r] = "apply" => file'[r] # 1
       /\ pc'[r] # "bookkeep" /\ file'[r] # 15 /\ f = file[r] /\ i = stmt[r]
  BY <1>1, <1>4 DEF f, i, Executes
<1>13. CASE s.op = "create"
  <2>1. InTurn'
    <3> SUFFICES ASSUME NEW t \in Tables \ {Mark2}, Has(t)'
                 PROVE  Home(t) \in Files /\ (Home(t) = 1 \/ recorded[Home(t) - 1] # None)
      BY <1>1 DEF InTurn
    <3>1. CASE Has(t)
      BY <1>3, <3>1 DEF Built, InTurn
    <3>2. CASE t = s.table /\ f # 12
      <4>1. Home(t) = f
        BY <1>2, <1>13, <3>2 DEF Ordinary
      <4>2. f = 1 \/ (f - 1 \in Files /\ f - 1 < f)
        BY <1>1, <1>6
      <4>3. QED
        BY <1>1, <1>4, <4>1, <4>2
    <3>3. CASE t = s.table /\ f = 12
      <4>1. Home(t) = 9
        BY <1>2, <1>13, <3>3, HomeFact DEF Ordinary
      <4>2. 8 \in Files /\ 9 \in Files /\ 8 < f /\ f # 1
        BY <1>6, <3>3
      <4>3. QED
        BY <1>4, <4>1, <4>2
    <3>4. QED
      BY <1>5, <1>13, <3>1, <3>2, <3>3
  <2>2. Made'
    BY <1>1, <1>3, <1>5, <1>10, <1>13 DEF Built, Made
  <2>3. SoFar(r)'
    <3>1. \A j \in 1 .. Len(Catalogue[f]) : \A t \in Tables :
            j < i /\ Catalogue[f][j].op = "create" /\ Catalogue[f][j].table = t => Has(t)
      BY <1>1, <1>3, <1>12 DEF Built, SoFar
    <3>2. \A j \in 1 .. Len(Catalogue[f]) : \A t \in Tables :
            j < i + 1 /\ Catalogue[f][j].op = "create" /\ Catalogue[f][j].table = t => Has(t)'
      <4> SUFFICES ASSUME NEW j \in 1 .. Len(Catalogue[f]), NEW t \in Tables, j < i + 1,
                          Catalogue[f][j].op = "create", Catalogue[f][j].table = t
                   PROVE  Has(t)'
        OBVIOUS
      <4>1. CASE j < i
        BY <1>5, <1>13, <3>1, <4>1
      <4>2. CASE j = i
        BY <1>1, <1>5, <1>13, <4>2
      <4>3. QED
        BY <1>1, <4>1, <4>2
    <3>3. \A j \in 1 .. Len(Catalogue[f]) : Catalogue[f][j].table \in Tables
      BY <1>1, StatementFact DEF Statement
    <3>4. file'[r] = f /\ stmt'[r] = i + 1
      BY <1>1, <1>12
    <3>5. QED
      BY <1>12, <3>2, <3>3, <3>4 DEF SoFar
  <2>4. QED
    BY <1>9, <1>11, <2>1, <2>2, <2>3 DEF Built
<1>14. CASE s.op = "drop"
  <2>1. f = 12 /\ i = 1 /\ s.table = View1m
    BY <1>2, <1>14 DEF Ordinary
  <2>2. recorded[11] # None /\ recorded[12] = None
    BY <1>4, <1>6, <2>1
  <2>3. InTurn'
    BY <1>1, <1>3, <1>5, <1>14 DEF Built, InTurn
  <2>4. Made'
    <3>1. \A t \in Tables : Has(t) => Has(t)' \/ MayBeDropped(t)
      BY <1>5, <1>14, <2>1, <2>2 DEF MayBeDropped
    <3>2. QED
      BY <1>1, <1>3, <1>10, <3>1 DEF Built, Made
  <2>5. SoFar(r)'
    <3>1. Catalogue[file[r]][1].op = "drop" /\ stmt'[r] = 2
      BY <1>1, <1>12, <1>14, <2>1
    <3>2. QED
      BY <1>1, <1>12, <3>1 DEF SoFar
  <2>6. QED
    BY <1>9, <1>11, <2>3, <2>4, <2>5 DEF Built
<1>15. QED
  BY <1>7, <1>13, <1>14

LEMMA BuiltEngineChange ==
  ASSUME AsShipped, TypeOK, OrderInv, OnceInv, BuiltInv, ~ overlapped,
         NEW r \in Runners, Succeeds(r), file[r] = 15
  PROVE  Built'
<1> DEFINE i == stmt[r]
<1>1. /\ i \in 1 .. 4 /\ stmt'[r] = i + 1 /\ Executes(r) /\ Executes(r)'
      /\ InHandStatement(r) = Catalogue[15][i] /\ file'[r] = 15
      /\ UNCHANGED <<pc, file, failed, recorded, crashes>>
  BY SucceedsFact, Statements140 DEF InHandStatement
<1>2. /\ Files = 1 .. 15 /\ Mark \in Tables /\ Mark2 \in Tables /\ Mark # Mark2
  BY FilesShipped, Statements140
<1>3. Built
  BY DEF BuiltInv
<1>4. /\ pc[r] = "apply" /\ \A g \in Files : recorded[g] # None <=> g < 15
      /\ \A q \in Runners \ {r} : pc[q] = "idle"
  BY <1>1, NextUp
<1>5. Changing /\ Changing' /\ recorded[13] # None
  BY <1>1, <1>2, <1>4 DEF Changing
<1>6. \A t \in Tables \ {Mark, Mark2} : Has(t)' <=> Has(t)
  BY HasAfter
<1>7. /\ i \in {2, 3, 4} => Has(Mark2)
      /\ i = 3 => Has(Mark)
      /\ i = 4 => ~ Has(Mark)
  BY <1>1, <1>3 DEF Built, SoFar
<1>8. /\ server[Mark] \in Int /\ server[Mark2] \in Int
      /\ Absent <= server[Mark] /\ Absent <= server[Mark2]
  BY <1>2, BoundsFact DEF TypeOK, Absent
<1>9. \A q \in Runners \ {r} : ~ Renaming(q) /\ ~ Renaming(q)' /\ SoFar(q)'
  BY <1>1, <1>4, IdleRun DEF Renaming, Executes
<1> HIDE DEF i
<1>10. /\ i = 1 => (Has(Mark)' <=> Has(Mark)) /\ Has(Mark2)'
       /\ i = 2 => Has(Mark) /\ Has(Mark)' /\ Has(Mark2)'
       /\ i = 3 => ~ Has(Mark)' /\ Has(Mark2)'
       /\ i = 4 => Has(Mark)' /\ ~ Has(Mark2)'
  <2>1. CASE i = 1
    <3>1. server'[Mark] = server[Mark] /\ server'[Mark2] = Larger(server[Mark2], 0)
      BY <2>1, MarksAfter DEF i
    <3>2. Larger(server[Mark2], 0) # Absent
      BY <1>8 DEF Larger, Absent
    <3>3. QED
      BY <2>1, <3>1, <3>2 DEF Has
  <2>2. CASE i = 2
    <3>1. server'[Mark] = server[Mark] /\ server'[Mark2] = Larger(server[Mark2], server[Mark])
      BY <2>2, MarksAfter DEF i
    <3>2. Has(Mark)
      <4>1. InHandStatement(r) = Copy(Mark, Mark2)
        BY <1>1, <2>2, Statements140
      <4>2. CanRun(Copy(Mark, Mark2), server)
        BY <4>1 DEF Succeeds
      <4>3. QED
        BY <4>2 DEF CanRun, Copy, Has
    <3>3. Larger(server[Mark2], server[Mark]) # Absent
      BY <1>7, <1>8, <2>2 DEF Larger, Absent, Has
    <3>4. QED
      BY <2>2, <3>1, <3>2, <3>3 DEF Has
  <2>3. CASE i = 3
    <3>1. server'[Mark] = Absent /\ server'[Mark2] = server[Mark2]
      BY <2>3, MarksAfter DEF i
    <3>2. QED
      BY <1>7, <2>3, <3>1 DEF Has
  <2>4. CASE i = 4
    <3>1. server'[Mark] = server[Mark2] /\ server'[Mark2] = Absent
      BY <2>4, MarksAfter DEF i
    <3>2. QED
      BY <1>7, <2>4, <3>1 DEF Has
  <2>5. QED
    BY <1>1, <2>1, <2>2, <2>3, <2>4
<1>11. InTurn'
  <2> SUFFICES ASSUME NEW t \in Tables \ {Mark2}, Has(t)'
               PROVE  Home(t) \in Files /\ (Home(t) = 1 \/ recorded[Home(t) - 1] # None)
    BY <1>1 DEF InTurn
  <2>1. CASE t = Mark
    BY <1>2, <1>5, <2>1, HomeFact
  <2>2. CASE t # Mark
    BY <1>3, <1>6, <2>2 DEF Built, InTurn
  <2>3. QED
    BY <2>1, <2>2
<1>12. Made'
  <2> SUFFICES ASSUME NEW t \in Tables, Home(t) \in Files, recorded[Home(t)] # None
               PROVE  Has(t)' \/ MayBeDropped(t)'
    BY <1>1 DEF Made
  <2>1. CASE t = Mark
    BY <1>5, <2>1 DEF MayBeDropped
  <2>2. CASE t # Mark
    <3>1. t # Mark2
      BY <1>2, HomeFact
    <3>2. Has(t) \/ MayBeDropped(t)
      BY <1>3 DEF Built, Made
    <3>3. QED
      BY <1>1, <1>6, <2>2, <3>1, <3>2 DEF MayBeDropped
  <2>3. QED
    BY <2>1, <2>2
<1>13. OneOfTwo'
  BY <1>1, <1>3, <1>5, <1>10 DEF Built, OneOfTwo
<1>14. Undisturbed'
  <2> SUFFICES ASSUME crashes = 0
               PROVE  ~ failed /\ ((\A q \in Runners : ~ Renaming(q)') => Has(Mark)')
    BY <1>1, <1>5 DEF Undisturbed
  <2>1. ~ failed
    BY <1>3 DEF Built, Undisturbed
  <2>2. CASE i = 1
    <3>1. \A q \in Runners : ~ Renaming(q)
      BY <1>9, <2>2 DEF Renaming, i
    <3>2. Has(Mark)
      BY <1>3, <1>5, <3>1 DEF Built, Undisturbed
    <3>3. QED
      BY <1>10, <2>1, <2>2, <3>2
  <2>3. CASE i = 3
    <3>1. Renaming(r)'
      BY <1>1, <2>3 DEF Renaming
    <3>2. QED
      BY <2>1, <3>1
  <2>4. CASE i = 2 \/ i = 4
    BY <1>10, <2>1, <2>4
  <2>5. QED
    BY <1>1, <2>2, <2>3, <2>4
<1>15. SoFar(r)'
  <2>1. /\ stmt'[r] \in {2, 3, 4} => Has(Mark2)'
        /\ stmt'[r] = 3 => Has(Mark)'
        /\ stmt'[r] = 4 => ~ Has(Mark)'
        /\ stmt'[r] = 5 => Has(Mark)' /\ ~ Has(Mark2)'
    BY <1>1, <1>10
  <2>2. pc'[r] = "apply"
    BY <1>1, <1>4
  <2>3. QED
    BY <1>1, <2>1, <2>2 DEF SoFar
<1>16. QED
  BY <1>9, <1>11, <1>12, <1>13, <1>14, <1>15 DEF Built

\* Without a crash every statement finds what it needs.
LEMMA NothingFails ==
  ASSUME AsShipped, TypeOK, OrderInv, OnceInv, BuiltInv, ~ overlapped, crashes = 0,
         NEW r \in Runners, Executes(r), ~ AtEnd(r)
  PROVE  CanRun(InHandStatement(r), server)
<1> DEFINE s == InHandStatement(r)
           f == file[r]
           i == stmt[r]
<1>1. /\ f \in Files /\ i \in 1 .. Len(Catalogue[f]) /\ s = Catalogue[f][i]
      /\ Files = 1 .. 15 /\ s \in Statement
  BY InHand, FilesShipped, StatementFact DEF InHandStatement
<1>2. Built
  BY DEF BuiltInv
<1>3. /\ f = 1 \/ pc[r] = "apply"
      /\ pc[r] = "apply" => f # 1 /\ \A g \in Files : recorded[g] # None <=> g < f
      /\ \A q \in Runners \ {r} : pc[q] = "idle"
  BY NextUp
<1>4. \A t \in Tables : Home(t) < f /\ t \notin {Mark, View1m} => Has(t)
  <2> SUFFICES ASSUME NEW t \in Tables, Home(t) < f, t \notin {Mark, View1m}
               PROVE  Has(t)
    OBVIOUS
  <2>1. Home(t) \in 1 .. 16
    BY HomeFact
  <2>2. Home(t) \in Files /\ f # 1
    <3>1. f \in 1 .. 15 /\ Files = 1 .. 15 /\ Home(t) < f
      BY <1>1
    <3> HIDE DEF f
    <3>2. QED
      BY <2>1, <3>1
  <2>3. recorded[Home(t)] # None
    BY <1>3, <2>2
  <2>4. QED
    BY <1>2, <2>2, <2>3 DEF Built, Made, MayBeDropped
<1>5. \A t \in s.needs : t \in Tables
  BY <1>1 DEF Statement
<1>6. CASE f # 15
  <2>1. f \in Files \ {15}
    BY <1>1, <1>6
  <2>2. Ordinary(s, f, i)
    BY <1>1, <2>1, OrdinaryStatements
  <2> HIDE DEF s, f, i
  <2>3. \A t \in s.needs : server[t] # Absent
    BY <1>4, <1>5, <2>2 DEF Ordinary, Has
  <2>4. s.op # "rename"
    BY <2>2 DEF Ordinary
  <2>5. CanRun(s, server)
    BY <2>3, <2>4 DEF CanRun
  <2>6. QED
    BY <2>5 DEF s
<1>7. CASE f = 15
  <2>1. i \in 1 .. 4 /\ s = Catalogue[15][i] /\ Executes(r)
    BY <1>1, <1>7, Statements140
  <2>2. /\ i \in {2, 3, 4} => Has(Mark2)
        /\ i = 4 => ~ Has(Mark)
    BY <1>2, <1>7 DEF Built, SoFar
  <2>3. CASE i = 1
    <3>1. s = Create(Mark2, {"telemetry"})
      BY <2>1, <2>3, Statements140
    <3>2. "telemetry" \in Tables
      BY <1>5, <3>1 DEF Create
    <3>3. Has("telemetry")
      BY <1>4, <1>7, <3>2, HomeFact DEF Mark, View1m
    <3>4. CanRun(Create(Mark2, {"telemetry"}), server)
      BY <3>3 DEF CanRun, Create, Has
    <3>5. QED
      BY <3>1, <3>4
  <2>4. CASE i = 2
    <3>1. s = Copy(Mark, Mark2)
      BY <2>1, <2>4, Statements140
    <3>2. \A q \in Runners : ~ Renaming(q)
      BY <1>3, <2>4 DEF Renaming, Executes
    <3>3. Changing
      BY <1>1, <1>3, <1>7 DEF Changing
    <3>4. Has(Mark)
      BY <1>2, <3>2, <3>3 DEF Built, Undisturbed
    <3>5. CanRun(Copy(Mark, Mark2), server)
      BY <2>2, <2>4, <3>4 DEF CanRun, Copy, Has
    <3>6. QED
      BY <3>1, <3>5
  <2>5. CASE i = 3
    <3>1. s = Drop(Mark)
      BY <2>1, <2>5, Statements140
    <3>2. CanRun(Drop(Mark), server)
      BY DEF CanRun, Drop
    <3>3. QED
      BY <3>1, <3>2
  <2>6. CASE i = 4
    <3>1. s = Rename(Mark2, Mark)
      BY <2>1, <2>6, Statements140
    <3>2. CanRun(Rename(Mark2, Mark), server)
      BY <2>2, <2>6 DEF CanRun, Rename, Has, Exists
    <3>3. QED
      BY <3>1, <3>2
  <2>7. QED
    BY <2>1, <2>3, <2>4, <2>5, <2>6
<1>8. QED
  BY <1>6, <1>7

\* When a file is recorded the server has what it and the files before it make.
LEMMA AllMade ==
  ASSUME AsShipped, TypeOK, OrderInv, OnceInv, BuiltInv, ~ overlapped,
         NEW r \in Runners, Executes(r), AtEnd(r), pc[r] = "apply"
  PROVE  \A t \in Tables : Has(t) <=> Home(t) <= file[r]
<1> DEFINE f == file[r]
<1>1. /\ f \in Files /\ Files = 1 .. 15 /\ Len(Catalogue[f]) \in Nat /\ stmt[r] \in Nat
      /\ \A j \in 1 .. Len(Catalogue[f]) : j < stmt[r]
  <2>1. f \in Files /\ Len(Catalogue[f]) \in Nat /\ stmt[r] \in Nat
    BY InHand
  <2>2. stmt[r] > Len(Catalogue[f])
    BY DEF AtEnd
  <2>3. QED
    BY <2>1, <2>2, FilesShipped
<1>2. Built
  BY DEF BuiltInv
<1>3. f # 1 /\ \A g \in Files : recorded[g] # None <=> g < f
  BY NextUp
<1>4. f = 15 => Has(Mark) /\ ~ Has(Mark2)
  <2> SUFFICES ASSUME f = 15
               PROVE  Has(Mark) /\ ~ Has(Mark2)
    OBVIOUS
  <2>1. Position(r) /\ file[r] <= limit[r] /\ Len(Catalogue[15]) = 4
    BY Statements140, InHand DEF TypeOK
  <2>2. stmt[r] <= 5 /\ stmt[r] > 4
    BY <2>1 DEF Position, AtEnd
  <2>3. stmt[r] = 5
    BY <1>1, <2>2
  <2>4. QED
    BY <1>2, <2>3 DEF Built, SoFar
<1>5. f # 15 => \A j \in 1 .. Len(Catalogue[f]) :
                  Catalogue[f][j].op = "create" => Has(Catalogue[f][j].table)
  BY <1>1, <1>2 DEF Built, SoFar
<1>6. f \in 1 .. 15
  BY <1>1
<1>7. \A t : Home(t) \in 1 .. 16 /\ Home(t) # 15
  BY HomeFact
<1>8. f = file[r]
  OBVIOUS
<1> HIDE DEF f
<1>9. ASSUME NEW t \in Tables, Home(t) <= f
      PROVE  Has(t)
  <2>1. Home(t) \in Files
    <3>1. Home(t) \in 1 .. 16 /\ Home(t) # 15 /\ Files = 1 .. 15
      BY <1>1, <1>7
    <3>2. Home(t) <= 15
      BY <1>6, <1>9, <3>1
    <3>3. QED
      BY <3>1, <3>2
  <2>2. CASE Home(t) = f
    <3>1. f \in 1 .. 14 /\ f # 15
      BY <1>6, <1>7, <2>2
    <3>2. QED
      BY <1>5, <2>2, <3>1, HomeCreates
  <2>3. CASE Home(t) < f
    <3>1. Has(t) \/ MayBeDropped(t)
      BY <1>2, <1>3, <2>1, <2>3 DEF Built, Made
    <3>2. CASE t = View1m /\ recorded[11] # None /\ recorded[12] = None
      <4>1. 11 \in Files /\ 12 \in Files /\ f \in Int
        BY <1>1, <1>6
      <4>2. f = 12
        BY <1>3, <3>2, <4>1
      <4>3. QED
        BY <1>5, <3>2, <4>2, Statements110
    <3>3. CASE t = Mark /\ Changing
      <4>1. 14 \in Files /\ 14 < f
        BY <1>1, <1>3, <3>3 DEF Changing
      <4>2. QED
        BY <1>4, <1>6, <3>3, <4>1
    <3>4. QED
      BY <3>1, <3>2, <3>3 DEF MayBeDropped
  <2>4. QED
    BY <1>6, <1>7, <1>9, <2>2, <2>3
<1>10. ASSUME NEW t \in Tables, Has(t)
       PROVE  Home(t) <= f
  <2>1. CASE t = Mark2
    <3>1. Changing
      BY <1>2, <1>10, <2>1 DEF Built, OneOfTwo
    <3>2. 14 \in Files /\ 14 < f
      BY <1>1, <1>3, <3>1 DEF Changing
    <3>3. QED
      BY <1>4, <1>6, <1>10, <2>1, <3>2
  <2>2. CASE t # Mark2
    <3>1. Home(t) \in Files /\ (Home(t) = 1 \/ recorded[Home(t) - 1] # None)
      BY <1>2, <1>10, <2>2 DEF Built, InTurn
    <3>2. CASE Home(t) = 1
      BY <1>6, <3>2
    <3>3. CASE Home(t) # 1
      <4>1. Home(t) - 1 \in Files
        BY <1>1, <1>7, <3>1, <3>3
      <4>2. Home(t) - 1 < f
        BY <1>3, <3>1, <3>3, <4>1
      <4>3. QED
        BY <1>6, <1>7, <4>2
    <3>4. QED
      BY <3>2, <3>3
  <2>3. QED
    BY <2>1, <2>2
<1>11. QED
  BY <1>8, <1>9, <1>10

LEMMA BuiltRecord ==
  ASSUME AsShipped, TypeOK, OrderInv, OnceInv, BuiltInv, ~ overlapped,
         NEW r \in Runners, Record(r)
  PROVE  Built'
<1> DEFINE f == file[r]
<1>1. /\ Executes(r) /\ AtEnd(r) /\ pc[r] = "apply" /\ f \in Files /\ f \in 1 .. 15
      /\ Files = 1 .. 15 /\ f = file[r]
  BY InHand, FilesShipped DEF Record
<1>2. /\ UNCHANGED <<server, pc, crashes, failed>> /\ file'[r] = f + 1 /\ stmt'[r] = 1
      /\ recorded' = [recorded EXCEPT ![f] = revision[f]]
  BY DEF Record, NextFile, history, TypeOK
<1>3. Built
  BY DEF BuiltInv
<1>4. /\ \A g \in Files : recorded[g] # None <=> g < f
      /\ \A q \in Runners \ {r} : pc[q] = "idle"
  BY <1>1, NextUp
<1>5. \A t \in Tables : Has(t) <=> Home(t) <= f
  BY <1>1, AllMade
<1> HIDE DEF f
<1>6. \A g \in Files : recorded'[g] # None <=> g <= f
  BY <1>1, <1>2, <1>4 DEF TypeOK
<1>7. \A t : Home(t) \in 1 .. 16
  BY HomeFact
<1>8. \A t : Has(t)' <=> Has(t)
  BY <1>2 DEF Has
<1>9. InTurn'
  <2> SUFFICES ASSUME NEW t \in Tables, Has(t)
               PROVE  Home(t) \in Files /\ (Home(t) = 1 \/ recorded'[Home(t) - 1] # None)
    BY <1>8 DEF InTurn
  <2>1. Home(t) <= f /\ Home(t) \in Files
    BY <1>1, <1>5, <1>7
  <2>2. Home(t) = 1 \/ (Home(t) - 1 \in Files /\ Home(t) - 1 <= f)
    BY <1>1, <2>1
  <2>3. QED
    BY <1>6, <2>1, <2>2
<1>10. Made'
  BY <1>5, <1>6, <1>8 DEF Made
<1>11. Mark \in Tables /\ Mark2 \in Tables /\ Home(Mark) = 14 /\ Home(Mark2) = 16
  BY Statements140, HomeFact
<1>12. ~ Has(Mark2) /\ (Changing' => Has(Mark))
  <2>1. ~ Has(Mark2)
    BY <1>1, <1>5, <1>11
  <2>2. ASSUME Changing'
        PROVE  Has(Mark)
    <3>1. 14 \in Files /\ recorded'[14] # None
      BY <1>1, <2>2 DEF Changing
    <3>2. 14 <= f
      BY <1>6, <3>1
    <3>3. QED
      BY <1>5, <1>11, <3>2
  <2>3. QED
    BY <2>1, <2>2
<1>13. OneOfTwo' /\ Undisturbed'
  BY <1>2, <1>3, <1>8, <1>12 DEF Built, OneOfTwo, Undisturbed
<1>14. SoFar(r)'
  BY <1>1, <1>2 DEF SoFar
<1>15. \A q \in Runners \ {r} : SoFar(q)'
  BY <1>2, <1>4, IdleRun
<1>16. QED
  BY <1>9, <1>10, <1>13, <1>14, <1>15 DEF Built

\* A step of one run that changes neither tables nor records.
LEMMA BuiltStays ==
  ASSUME TypeOK, Built, UNCHANGED <<server, recorded>>, NEW r \in Runners,
         \A q \in Runners \ {r} : pc[q] = "idle" /\ pc'[q] = "idle",
         SoFar(r)',
         crashes' = 0 => crashes = 0 /\ failed' = failed /\ ~ Renaming(r)
  PROVE  Built'
<1>1. \A t : Has(t)' <=> Has(t)
  BY DEF Has
<1>2. (Changing' <=> Changing) /\ \A t : MayBeDropped(t)' <=> MayBeDropped(t)
  BY DEF Changing, MayBeDropped
<1>3. InTurn' /\ Made' /\ OneOfTwo'
  BY <1>1, <1>2 DEF Built, InTurn, Made, OneOfTwo
<1>4. \A q \in Runners \ {r} : ~ Renaming(q) /\ SoFar(q)'
  BY IdleRun DEF Renaming, Executes
<1>5. Undisturbed'
  BY <1>1, <1>2, <1>4 DEF Built, Undisturbed
<1>6. QED
  BY <1>3, <1>4, <1>5 DEF Built

\* The bootstrap file, once executed, has made the database.
LEMMA BuiltBootstrap ==
  ASSUME AsShipped, TypeOK, Built, NEW r \in Runners, pc[r] = "bootstrap", AtEnd(r)
  PROVE  Has("telemetry")
<1>1. file[r] = 1 /\ Executes(r) /\ stmt[r] \in Nat
  BY DEF TypeOK, Position, Executes
<1>2. Len(Catalogue[1]) = 1 /\ Catalogue[1][1].op = "create" /\ Catalogue[1][1].table = "telemetry"
  BY Statements000
<1>3. 1 < stmt[r] /\ 1 \in 1 .. Len(Catalogue[1])
  BY <1>1, <1>2 DEF AtEnd
<1>4. SoFar(r)
  BY DEF Built
<1>5. QED
  BY <1>1, <1>2, <1>3, <1>4 DEF SoFar

\* A run before a file's first statement has nothing of it to show.
LEMMA BuiltNextFile ==
  ASSUME TypeOK, NEW r \in Runners, pc'[r] = "apply", NextFile(r)
  PROVE  SoFar(r)'
<1>1. stmt'[r] = 1 /\ file'[r] = file[r] + 1 /\ file[r] \in Nat \ {0}
  BY DEF NextFile, TypeOK
<1>2. file'[r] # 1
  BY <1>1
<1>3. QED
  BY <1>1, <1>2 DEF SoFar

LEMMA BuiltBookkeep ==
  ASSUME AsShipped, TypeOK, Built, NEW r \in Runners, Bookkeep(r),
         \A q \in Runners \ {r} : pc[q] = "idle" /\ pc'[q] = "idle"
  PROVE  Built'
<1>1. /\ pc[r] = "bookkeep" /\ pc'[r] = "apply" /\ NextFile(r)
      /\ UNCHANGED <<server, crashes, failed>>
  BY DEF Bookkeep, history, TypeOK
<1>2. /\ Files = 1 .. 15 /\ revision[1] # None
      /\ \A g \in Files : g # 1 => recorded'[g] = recorded[g]
      /\ \A g \in Files : recorded[g] # None => recorded'[g] # None
  <2>1. 1 \in Files /\ Files = 1 .. 15
    BY FilesShipped
  <2>2. revision[1] # None
    BY <2>1 DEF TypeOK
  <2>3. \/ recorded' = recorded
        \/ recorded' = [recorded EXCEPT ![1] = revision[1]]
    BY DEF Bookkeep
  <2>4. QED
    BY <2>1, <2>2, <2>3 DEF TypeOK
<1>3. Has("telemetry")
  BY <1>1 DEF Built, SoFar
<1>4. \A t : Has(t)' <=> Has(t)
  BY <1>1 DEF Has
<1>5. /\ recorded'[11] = recorded[11] /\ recorded'[12] = recorded[12]
      /\ recorded'[14] = recorded[14] /\ recorded'[15] = recorded[15]
  BY <1>2
<1>6. (Changing' <=> Changing) /\ \A t : MayBeDropped(t)' <=> MayBeDropped(t)
  BY <1>5 DEF Changing, MayBeDropped
<1>7. InTurn'
  <2> SUFFICES ASSUME NEW t \in Tables \ {Mark2}, Has(t)
               PROVE  Home(t) \in Files /\ (Home(t) = 1 \/ recorded'[Home(t) - 1] # None)
    BY <1>4 DEF InTurn
  <2>1. Home(t) \in Files /\ (Home(t) = 1 \/ recorded[Home(t) - 1] # None)
    BY DEF Built, InTurn
  <2>2. Home(t) = 1 \/ Home(t) - 1 \in Files
    BY <1>2, <2>1
  <2>3. QED
    BY <1>2, <2>1, <2>2
<1>8. Made'
  <2> SUFFICES ASSUME NEW t \in Tables, Home(t) \in Files, recorded'[Home(t)] # None
               PROVE  Has(t) \/ MayBeDropped(t)
    BY <1>4, <1>6 DEF Made
  <2>1. CASE Home(t) = 1
    BY <1>3, <2>1, HomeFact
  <2>2. CASE Home(t) # 1
    BY <1>2, <2>2 DEF Built, Made
  <2>3. QED
    BY <2>1, <2>2
<1>9. OneOfTwo'
  BY <1>4, <1>6 DEF Built, OneOfTwo
<1>10. Undisturbed'
  <2>1. \A q \in Runners : ~ Renaming(q)
    BY <1>1 DEF Renaming, Executes
  <2>2. QED
    BY <1>1, <1>4, <1>6, <2>1 DEF Built, Undisturbed
<1>11. SoFar(r)'
  BY <1>1, BuiltNextFile
<1>12. \A q \in Runners \ {r} : SoFar(q)'
  BY IdleRun
<1>13. QED
  BY <1>7, <1>8, <1>9, <1>10, <1>11, <1>12 DEF Built

\* Every step of a run that has begun.
LEMMA BuiltRun ==
  ASSUME AsShipped, TypeOK, OrderInv, OnceInv, BuiltInv, ~ overlapped,
         NEW r \in Runners, Run(r) \/ Crash(r)
  PROVE  Built'
<1>1. Built /\ \A q \in Runners \ {r} : pc[q] = "idle" /\ pc'[q] = "idle"
  BY OthersIdle DEF BuiltInv, OnceInv
<1>2. crashes \in Nat
  BY BoundsFact DEF TypeOK
<1>3. ASSUME Stop(r)
      PROVE  SoFar(r)'
  <2>1. pc'[r] = "idle"
    BY <1>3 DEF Stop, TypeOK
  <2>2. QED
    BY <2>1, IdleRun
<1>4. CASE Succeeds(r)
  BY <1>4, BuiltOrdinary, BuiltEngineChange
<1>5. CASE Execute(r) /\ ~ Succeeds(r)
  <2>1. /\ Executes(r) /\ ~ AtEnd(r) /\ ~ CanRun(InHandStatement(r), server)
        /\ Stop(r) /\ UNCHANGED <<server, recorded, crashes>>
    BY <1>5 DEF Execute, Succeeds, InHandStatement
  <2>2. crashes # 0
    BY <2>1, NothingFails
  <2>3. QED
    BY <1>1, <1>3, <2>1, <2>2, BuiltStays
<1>6. CASE Snapshot(r)
  <2>1. /\ pc[r] = "bootstrap" /\ AtEnd(r) /\ pc'[r] = "bookkeep"
        /\ UNCHANGED <<server, recorded, crashes, failed>>
    BY <1>6 DEF Snapshot, history, TypeOK
  <2>2. Has("telemetry")'
    <3>1. Has("telemetry")
      BY <1>1, <2>1, BuiltBootstrap
    <3>2. QED
      BY <2>1, <3>1 DEF Has
  <2>3. SoFar(r)'
    BY <2>1, <2>2 DEF SoFar, Executes
  <2>4. ~ Renaming(r)
    <3>1. Position(r)
      BY DEF TypeOK
    <3>2. file[r] = 1
      BY <2>1, <3>1 DEF Position
    <3>3. QED
      BY <3>2 DEF Renaming
  <2>5. QED
    BY <1>1, <2>1, <2>3, <2>4, BuiltStays
<1>7. CASE Bookkeep(r)
  BY <1>1, <1>7, BuiltBookkeep
<1>8. CASE Pass(r)
  <2>1. /\ pc'[r] = "apply" /\ NextFile(r) /\ ~ Executes(r)
        /\ UNCHANGED <<server, recorded, crashes, failed>>
    BY <1>8 DEF Pass, history, Executes
  <2>2. SoFar(r)'
    BY <2>1, BuiltNextFile
  <2>3. ~ Renaming(r)
    BY <2>1 DEF Renaming
  <2>4. QED
    BY <1>1, <2>1, <2>2, <2>3, BuiltStays
<1>9. CASE Record(r)
  BY <1>9, BuiltRecord
<1>10. CASE Done(r)
  <2>1. pc[r] = "apply" /\ file[r] > limit[r] /\ Stop(r)
        /\ UNCHANGED <<server, recorded, crashes, failed>>
    BY <1>10 DEF Done, history
  <2>2. file[r] \in Nat /\ limit[r] \in Nat
    BY FilesFact DEF TypeOK
  <2>3. ~ Renaming(r)
    BY <2>1, <2>2 DEF Renaming, Executes
  <2>4. QED
    BY <1>1, <1>3, <2>1, <2>3, BuiltStays
<1>11. CASE Crash(r)
  <2>1. Stop(r) /\ crashes' = crashes + 1 /\ UNCHANGED <<server, recorded>>
    BY <1>11 DEF Crash
  <2>2. crashes' # 0
    BY <1>2, <2>1
  <2>3. QED
    BY <1>1, <1>3, <2>1, <2>2, BuiltStays
<1>12. QED
  BY <1>4, <1>5, <1>6, <1>7, <1>8, <1>9, <1>10, <1>11 DEF Run

\* A newer checkout, an edit, and the exporter's watermark.
LEMMA BuiltOutside ==
  ASSUME AsShipped, TypeOK, Built, \A t \in Tables : Has(t)' <=> Has(t),
         UNCHANGED <<recorded, runs, failed, crashes>>
  PROVE  Built'
<1>1. Mark \in Tables /\ Mark2 \in Tables /\ "telemetry" \in Tables
  <2>1. Catalogue[1][1] \in Statement /\ Catalogue[1][1].table = "telemetry"
    BY FilesShipped, Statements000, StatementFact
  <2>2. QED
    BY <2>1, Statements140 DEF Statement
<1>2. UNCHANGED <<recorded, pc, file, stmt, limit, already, failed, crashes>>
  BY DEF runs
<1>3. (Changing' <=> Changing) /\ \A t : MayBeDropped(t)' <=> MayBeDropped(t)
  BY <1>2 DEF Changing, MayBeDropped
<1>4. InTurn' /\ Made' /\ OneOfTwo'
  BY <1>1, <1>2, <1>3 DEF Built, InTurn, Made, OneOfTwo
<1>5. \A r \in Runners : (Executes(r)' <=> Executes(r)) /\ (Renaming(r)' <=> Renaming(r))
  BY <1>2 DEF Renaming, Executes, Pending
<1>6. Undisturbed'
  BY <1>1, <1>2, <1>3, <1>5 DEF Built, Undisturbed
<1>7. ASSUME NEW r \in Runners
      PROVE  SoFar(r)'
  <2>1. SoFar(r)
    BY DEF Built
  <2>2. Executes(r) => \A j \in 1 .. Len(Catalogue[file[r]]) : Catalogue[file[r]][j].table \in Tables
    BY InHand, StatementFact DEF Statement
  <2>3. \A t \in Tables : Has(t) => Has(t)'
    OBVIOUS
  <2>4. Executes(r) /\ file[r] # 15 =>
          \A j \in 1 .. Len(Catalogue[file[r]]) : \A t \in Tables :
            j < stmt[r] /\ Catalogue[file[r]][j].op = "create" /\ Catalogue[file[r]][j].table = t
              => Has(t)'
    BY <2>1, <2>3 DEF SoFar
  <2>5. QED
    BY <1>1, <1>2, <1>5, <2>1, <2>2, <2>4 DEF SoFar
<1>8. QED
  BY <1>4, <1>6, <1>7 DEF Built

(***************************************************************************)
(* Whatever runs were cut short, as long as they do not overlap, the       *)
(* server has what the records and the run under way say it has.           *)
(***************************************************************************)
LEMMA BuiltInvHolds ==
  ASSUME AsShipped
  PROVE  Spec => []BuiltInv
<1>1. Init => BuiltInv
  <2> SUFFICES ASSUME Init
               PROVE  Built
    BY DEF BuiltInv
  <2>1. \A t \in Tables : ~ Has(t)
    BY DEF Init, Has, Absent
  <2>2. \A f \in Files : recorded[f] = None
    BY DEF Init
  <2>3. ~ Changing /\ Mark2 \in Tables
    BY <2>2, FilesShipped, Statements140 DEF Changing
  <2>4. InTurn /\ Made /\ OneOfTwo /\ Undisturbed
    BY <2>1, <2>2, <2>3 DEF InTurn, Made, OneOfTwo, Undisturbed, Init
  <2>5. \A r \in Runners : SoFar(r)
    BY DEF Init, SoFar, Executes
  <2>6. QED
    BY <2>4, <2>5 DEF Built
<1>2. TypeOK /\ OrderInv /\ OnceInv /\ BuiltInv /\ [Next]_vars => BuiltInv'
  <2> SUFFICES ASSUME TypeOK, OrderInv, OnceInv, BuiltInv, [Next]_vars, ~ overlapped'
               PROVE  Built'
    BY DEF BuiltInv
  <2>1. ~ overlapped
    BY DEF Next, Run, Start, Execute, Snapshot, Bookkeep, Pass, Record, Done, Crash, Ship, Edit,
           MoveWatermark, history, vars, TypeOK
  <2>2. Built
    BY <2>1 DEF BuiltInv
  <2>3. ASSUME NEW r \in Runners, Start(r)
        PROVE  Built'
    <3>1. /\ \A q \in Runners : pc[q] = "idle"
          /\ \A q \in Runners \ {r} : pc'[q] = "idle"
          /\ UNCHANGED <<server, recorded, failed, crashes>>
      BY <2>3 DEF Start, TypeOK
    <3>2. pc'[r] = "bootstrap" /\ file'[r] = 1 /\ stmt'[r] = 1
      BY <2>3 DEF Start, TypeOK, Position
    <3>3. SoFar(r)'
      BY <3>2 DEF SoFar
    <3>4. ~ Renaming(r)
      BY <3>1 DEF Renaming, Executes
    <3>5. QED
      BY <2>2, <3>1, <3>3, <3>4, BuiltStays
  <2>4. ASSUME NEW r \in Runners, Run(r) \/ Crash(r)
        PROVE  Built'
    BY <2>1, <2>4, BuiltRun
  <2>5. ASSUME UNCHANGED <<server, recorded, runs, failed, crashes>>
        PROVE  Built'
    <3>1. \A t \in Tables : Has(t)' <=> Has(t)
      BY <2>5 DEF Has
    <3>2. QED
      BY <2>2, <2>5, <3>1, BuiltOutside
  <2>6. ASSUME NEW n \in Releases, Ship(n)
        PROVE  Built'
    BY <2>5, <2>6 DEF Ship, history
  <2>7. ASSUME NEW f \in Files, Edit(f)
        PROVE  Built'
    BY <2>5, <2>7 DEF Edit
  <2>8. ASSUME MoveWatermark
        PROVE  Built'
    <3>1. UNCHANGED <<recorded, runs, failed, crashes>>
      BY <2>8 DEF MoveWatermark, history
    <3>2. \A t \in Tables : Has(t)' <=> Has(t)
      <4>1. /\ server \in [Tables -> Absent .. MaxMark] /\ MaxMark \in Nat
            /\ server[WatermarkTable] \in 0 .. MaxMark - 1
            /\ server' = [server EXCEPT ![WatermarkTable] = @ + 1]
        BY <2>8, BoundsFact DEF MoveWatermark, TypeOK
      <4>2. server[WatermarkTable] # Absent /\ server[WatermarkTable] + 1 # Absent
        BY <4>1 DEF Absent
      <4>3. QED
        BY <4>1, <4>2 DEF Has
    <3>3. QED
      BY <2>2, <3>1, <3>2, BuiltOutside
  <2>9. UNCHANGED vars => Built'
    BY <2>5 DEF vars, history
  <2>10. QED
    BY <2>3, <2>4, <2>6, <2>7, <2>8, <2>9 DEF Next
<1>3. QED
  BY <1>1, <1>2, MigrationsTypeCorrect, OrderInvHolds, OnceInvHolds, PTL DEF Spec

(***************************************************************************)
(* Without a crash and without a second run at once, every statement of    *)
(* the shipped files succeeds, from whatever release the server starts and *)
(* whatever is shipped while runs are under way (apply_all).               *)
(***************************************************************************)
THEOREM UndisturbedRunsSucceedHolds ==
  ASSUME Catalogue = Shipped, WatermarkTable = "cold_export_watermark"
  PROVE  Spec => []UndisturbedRunsSucceed
<1>1. AsShipped
  BY DEF AsShipped, Mark
<1>2. TypeOK /\ BuiltInv => UndisturbedRunsSucceed
  <2>1. TypeOK => crashes \in Nat
    BY BoundsFact DEF TypeOK
  <2>2. QED
    BY <2>1 DEF BuiltInv, Built, Undisturbed, UndisturbedRunsSucceed
<1>3. Spec => []BuiltInv
  BY <1>1, BuiltInvHolds
<1>4. QED
  BY <1>2, <1>3, MigrationsTypeCorrect, PTL

-----------------------------------------------------------------------------
(***************************************************************************)
(* Induction over the numbers, for the two recursions RecordedMeansBuilt   *)
(* is stated with: over files, and over the statements of one.             *)
(***************************************************************************)
LEMMA Smallest ==
  ASSUME NEW S \in SUBSET Nat, S # {}
  PROVE  \E n \in S : \A m \in S : n <= m
<1> DEFINE Below == {p \in Nat \X Nat : p[1] < p[2]}
<1>1. IsWellFoundedOn(Below, Nat)
  BY NatLessThanWellFounded DEF OpToRel
<1>2. \A m, k \in Nat : <<m, k>> \notin Below => k <= m
  OBVIOUS
<1> HIDE DEF Below
<1>3. PICK n \in S : \A m \in S : <<m, n>> \notin Below
  BY <1>1, WFMin
<1>4. QED
  BY <1>2, <1>3

LEMMA Upwards ==
  ASSUME NEW S \in SUBSET Nat, 0 \in S, \A n \in S : n + 1 \in S
  PROVE  S = Nat
<1>1. SUFFICES ASSUME Nat \ S # {}
               PROVE  FALSE
  OBVIOUS
<1>2. PICK n \in Nat \ S : \A m \in Nat \ S : n <= m
  BY <1>1, Smallest
<1>3. n # 0 /\ n - 1 \in S
  BY <1>2
<1>4. QED
  BY <1>2, <1>3

LEMMA Largest ==
  ASSUME NEW n \in Nat, NEW s \in SUBSET (1 .. n), s # {}
  PROVE  Max(s) \in s /\ \A y \in s : Max(s) >= y
<1> DEFINE Above == {m \in Nat : \A y \in s : y <= m}
<1>1. Above \in SUBSET Nat /\ n \in Above
  OBVIOUS
<1>2. PICK m \in Above : \A k \in Above : m <= k
  BY <1>1, Smallest
<1>3. m \in s
  <2> SUFFICES ASSUME m \notin s
               PROVE  FALSE
    OBVIOUS
  <2>1. \A y \in s : y \in Nat \ {0} /\ y < m
    BY <1>2
  <2>2. m \in Nat \ {0}
    <3>1. PICK y \in s : TRUE
      OBVIOUS
    <3>2. QED
      BY <1>2, <2>1, <3>1
  <2>3. m - 1 \in Nat /\ \A y \in s : y <= m - 1
    BY <2>1, <2>2
  <2>4. QED
    BY <1>2, <2>2, <2>3
<1>4. \E x \in s : \A y \in s : x >= y
  BY <1>2, <1>3
<1>5. QED
  BY <1>4 DEF Max

\* One step of FoldLeft over the statements q: the last of those with numbers
\* in s, on what g says the others made of sv.
Onward(g, sv, q, s) ==
  LET x == Max(s) IN IF s = {} THEN sv ELSE Effect(q[x], g[s \ {x}])

Folding(g, sv, q, n) == g = [s \in SUBSET (1 .. n) |-> Onward(g, sv, q, s)]

LEMMA FoldsExist ==
  ASSUME NEW sv, NEW q, NEW n \in Nat
  PROVE  \E g : Folding(g, sv, q, n)
<1> DEFINE S == {k \in Nat : \E g : g = [s \in SUBSET (1 .. k) |-> Onward(g, sv, q, s)]}
<1>1. 0 \in S
  <2> DEFINE g == [s \in SUBSET (1 .. 0) |-> sv]
  <2>1. \A s \in SUBSET (1 .. 0) : Onward(g, sv, q, s) = sv
    BY DEF Onward
  <2>2. g = [s \in SUBSET (1 .. 0) |-> Onward(g, sv, q, s)]
    BY <2>1
  <2>3. QED
    BY <2>2
<1>2. ASSUME NEW k \in S
      PROVE  k + 1 \in S
  <2>1. PICK g : g = [s \in SUBSET (1 .. k) |-> Onward(g, sv, q, s)]
    OBVIOUS
  <2> DEFINE h == [s \in SUBSET (1 .. k + 1) |->
                     IF s \in SUBSET (1 .. k) THEN g[s] ELSE Onward(g, sv, q, s)]
  <2>2. k \in Nat /\ \A s \in SUBSET (1 .. k) : s \in SUBSET (1 .. k + 1)
    OBVIOUS
  <2>3. \A s \in SUBSET (1 .. k) : g[s] = Onward(g, sv, q, s)
    BY <2>1, Zenon
  <2>4. \A s \in SUBSET (1 .. k) : h[s] = g[s]
    BY <2>2
  <2>5. ASSUME NEW s \in SUBSET (1 .. k + 1)
        PROVE  h[s] = Onward(h, sv, q, s)
    <3>1. h[s] = Onward(g, sv, q, s)
      BY <2>3
    <3>2. Onward(h, sv, q, s) = Onward(g, sv, q, s)
      <4>1. CASE s = {}
        BY <4>1 DEF Onward
      <4>2. CASE s # {}
        <5>1. Max(s) \in s /\ \A y \in s : Max(s) >= y
          <6>1. k + 1 \in Nat /\ s \in SUBSET (1 .. k + 1)
            BY <2>2
          <6> HIDE DEF h
          <6>2. QED
            BY <4>2, <6>1, Largest
        <5>2. s \ {Max(s)} \in SUBSET (1 .. k)
          <6>1. \A y \in s \ {Max(s)} : y \in 1 .. k + 1 /\ Max(s) >= y /\ Max(s) \in 1 .. k + 1 /\ y # Max(s)
            BY <5>1
          <6> HIDE DEF h
          <6>2. \A y \in s \ {Max(s)} : y \in 1 .. k
            BY <2>2, <6>1
          <6>3. QED
            BY <6>2
        <5>3. h[s \ {Max(s)}] = g[s \ {Max(s)}]
          BY <2>4, <5>2
        <5> HIDE DEF h
        <5>4. QED
          BY <4>2, <5>3 DEF Onward
      <4>3. QED
        BY <4>1, <4>2
    <3>3. QED
      BY <3>1, <3>2
  <2>6. h = [s \in SUBSET (1 .. k + 1) |-> Onward(h, sv, q, s)]
    BY <2>5
  <2> HIDE DEF h
  <2>7. \E p : p = [s \in SUBSET (1 .. k + 1) |-> Onward(p, sv, q, s)]
    BY <2>6
  <2>8. QED
    BY <2>2, <2>7
<1>3. S \in SUBSET Nat
  OBVIOUS
<1> HIDE DEF S
<1>4. n \in S
  BY <1>1, <1>2, <1>3, Upwards
<1>5. QED
  BY <1>4 DEF S, Folding

\* What a file makes of the server, statement by statement.
Applied(sv, q) == FoldLeft(LAMBDA was, s : Effect(s, was), sv, q)

\* h[k] is the server after k of the n statements q.
Stepwise(h, sv, q, n) ==
  /\ h[0] = sv
  /\ \A k \in 0 .. n - 1 : h[k + 1] = Effect(q[k + 1], h[k])
  /\ Applied(sv, q) = h[n]

LEMMA AppliedByStatements ==
  ASSUME NEW sv, NEW q, NEW n \in Nat, DOMAIN q = 1 .. n
  PROVE  \E h : Stepwise(h, sv, q, n)
<1> DEFINE g == CHOOSE g : g = [s \in SUBSET (DOMAIN q) |-> Onward(g, sv, q, s)]
<1>1. Applied(sv, q) = g[DOMAIN q]
  BY Zenon DEF Applied, FoldLeft, MapThenFoldSet, Onward
<1>2. g = [s \in SUBSET (1 .. n) |-> Onward(g, sv, q, s)]
  <2>1. PICK p : Folding(p, sv, q, n)
    BY FoldsExist
  <2>2. p = [s \in SUBSET (DOMAIN q) |-> Onward(p, sv, q, s)]
    BY <2>1, Zenon DEF Folding
  <2>3. g = [s \in SUBSET (DOMAIN q) |-> Onward(g, sv, q, s)]
    BY <2>2, Zenon
  <2> HIDE DEF g
  <2>4. QED
    BY <2>3
<1> HIDE DEF g
<1>3. \A s \in SUBSET (1 .. n) : g[s] = Onward(g, sv, q, s)
  BY <1>2, Zenon
<1> DEFINE h == [k \in 0 .. n |-> g[1 .. k]]
<1>4. h[0] = sv
  <2>1. g[{}] = sv
    BY <1>3 DEF Onward
  <2>2. 1 .. 0 = {}
    OBVIOUS
  <2>3. QED
    BY <2>1, <2>2
<1>5. ASSUME NEW k \in 0 .. n - 1
      PROVE  h[k + 1] = Effect(q[k + 1], h[k])
  <2>1. 1 .. k + 1 \in SUBSET (1 .. n) /\ 1 .. k + 1 # {} /\ k + 1 \in 0 .. n /\ k \in 0 .. n
    OBVIOUS
  <2>2. Max(1 .. k + 1) \in 1 .. k + 1 /\ \A y \in 1 .. k + 1 : Max(1 .. k + 1) >= y
    BY <2>1, Largest
  <2>3. Max(1 .. k + 1) = k + 1 /\ (1 .. k + 1) \ {k + 1} = 1 .. k
    BY <2>2
  <2>4. g[1 .. k + 1] = Effect(q[k + 1], g[1 .. k])
    BY <1>3, <2>1, <2>3 DEF Onward
  <2>5. QED
    BY <2>1, <2>4
<1>6. h[n] = g[DOMAIN q]
  OBVIOUS
<1> HIDE DEF h
<1>7. QED
  BY <1>1, <1>4, <1>5, <1>6 DEF Stepwise

\* Replay satisfies its own equation.
LEMMA ReplayByFiles ==
  ASSUME NEW k \in 0 .. Len(Catalogue)
  PROVE  Replay[k] = IF k = 0 THEN [t \in Tables |-> Absent]
                     ELSE Applied(Replay[k - 1], Catalogue[k])
<1> DEFINE Nothing == [t \in Tables |-> Absent]
           After(g, n) == IF n = 0 THEN Nothing ELSE Applied(g[n - 1], Catalogue[n])
           S == {m \in Nat : \E g : g = [n \in 0 .. m |-> After(g, n)]}
<1>0. Len(Catalogue) \in Nat
  BY MigrationsAssumption
<1> HIDE DEF Nothing
<1>1. 0 \in S
  <2> DEFINE g == [n \in 0 .. 0 |-> Nothing]
  <2>1. g = [n \in 0 .. 0 |-> After(g, n)]
    OBVIOUS
  <2>2. QED
    BY <2>1
<1>2. ASSUME NEW m \in S
      PROVE  m + 1 \in S
  <2>1. PICK g : g = [n \in 0 .. m |-> After(g, n)]
    OBVIOUS
  <2> DEFINE h == [n \in 0 .. m + 1 |-> IF n = m + 1 THEN Applied(g[m], Catalogue[n]) ELSE g[n]]
  <2>2. \A n \in 0 .. m : h[n] = g[n] /\ g[n] = After(g, n)
    <3>1. \A n \in 0 .. m : g[n] = After(g, n)
      <4> HIDE DEF After, h
      <4> QED
        BY <2>1, Zenon
    <3>2. \A n \in 0 .. m : n \in 0 .. m + 1 /\ n # m + 1
      OBVIOUS
    <3>3. QED
      BY <3>1, <3>2
  <2>3. ASSUME NEW n \in 0 .. m + 1
        PROVE  h[n] = After(h, n)
    <3>1. CASE n = m + 1
      BY <2>2, <3>1
    <3>2. CASE n \in 0 .. m
      <4>1. n = 0 \/ n - 1 \in 0 .. m
        BY <3>2
      <4>2. h[n] = g[n] /\ g[n] = After(g, n) /\ (n # 0 => h[n - 1] = g[n - 1])
        <5> HIDE DEF After, h
        <5> QED
          BY <2>2, <3>2, <4>1
      <4> HIDE DEF h
      <4>3. QED
        BY <4>2
    <3>3. QED
      BY <3>1, <3>2
  <2>4. h = [n \in 0 .. m + 1 |-> After(h, n)]
    <3> HIDE DEF After
    <3> QED
      BY <2>3
  <2> HIDE DEF h
  <2>5. QED
    BY <2>4
<1>3. Len(Catalogue) \in S
  <2>1. S \in SUBSET Nat
    OBVIOUS
  <2> HIDE DEF S
  <2>2. QED
    BY <1>0, <1>1, <1>2, <2>1, Upwards
<1>4. \E g : g = [n \in 0 .. Len(Catalogue) |-> After(g, n)]
  BY <1>3
<1>5. Replay = [n \in 0 .. Len(Catalogue) |-> After(Replay, n)]
  BY <1>4, Zenon DEF Replay, Applied, Nothing
<1>6. Replay[k] = After(Replay, k)
  <2> HIDE DEF After
  <2> QED
    BY <1>5, Zenon
<1>7. QED
  BY <1>6 DEF Nothing

\* The tables a server has.
There(sv) == {t \in Tables : sv[t] # Absent}

LEMMA EffectMakes ==
  ASSUME NEW s \in Statement, NEW sv \in [Tables -> Absent .. MaxMark]
  PROVE  /\ s.op = "create" => There(Effect(s, sv)) = There(sv) \union {s.table}
         /\ s.op = "drop" => There(Effect(s, sv)) = There(sv) \ {s.table}
         /\ s.op = "copy" /\ s.table \in There(sv) => There(Effect(s, sv)) = There(sv)
         /\ s.op = "rename" /\ s.from \in There(sv) /\ s.table # s.from =>
              There(Effect(s, sv)) = (There(sv) \union {s.table}) \ {s.from}
<1>0. MaxMark \in Nat /\ s.table \in Tables /\ s.from \in Tables
  BY BoundsFact DEF Statement
<1>1. \A t \in Tables : sv[t] \in Int /\ sv[t] >= Absent
  BY <1>0 DEF Absent
<1>2. CASE s.op = "create"
  <2>1. Effect(s, sv) = [sv EXCEPT ![s.table] = Larger(@, 0)]
    BY <1>2 DEF Effect
  <2>2. Larger(sv[s.table], 0) # Absent
    BY <1>0, <1>1 DEF Larger, Absent
  <2>3. There(Effect(s, sv)) = There(sv) \union {s.table}
    BY <1>0, <2>1, <2>2 DEF There
  <2>4. QED
    BY <1>2, <2>3
<1>3. CASE s.op = "drop"
  <2>1. Effect(s, sv) = [sv EXCEPT ![s.table] = Absent]
    BY <1>3 DEF Effect
  <2>2. There(Effect(s, sv)) = There(sv) \ {s.table}
    BY <1>0, <2>1 DEF There
  <2>3. QED
    BY <1>3, <2>2
<1>4. CASE s.op = "copy"
  <2>1. Effect(s, sv) = [sv EXCEPT ![s.table] = Larger(@, sv[s.from])]
    BY <1>4 DEF Effect
  <2>2. sv[s.table] # Absent => Larger(sv[s.table], sv[s.from]) # Absent
    BY <1>0, <1>1 DEF Larger, Absent
  <2>3. s.table \in There(sv) => There(Effect(s, sv)) = There(sv)
    BY <1>0, <2>1, <2>2 DEF There
  <2>4. QED
    BY <1>4, <2>3
<1>5. CASE s.op = "rename"
  <2>1. Effect(s, sv) = [sv EXCEPT ![s.table] = sv[s.from], ![s.from] = Absent]
    BY <1>5 DEF Effect
  <2>2. s.from \in There(sv) /\ s.table # s.from =>
          There(Effect(s, sv)) = (There(sv) \union {s.table}) \ {s.from}
    BY <1>0, <2>1 DEF There
  <2>3. QED
    BY <1>5, <2>2
<1>6. QED
  BY <1>2, <1>3, <1>4, <1>5 DEF Statement

\* What the first k files make.
Homes(k) == {t \in Tables : Home(t) <= k}

\* A file that only creates makes its own tables of those before it.
LEMMA OrdinaryFileMakes ==
  ASSUME AsShipped, NEW f \in 1 .. 14, f # 12,
         NEW sv \in [Tables -> Absent .. MaxMark], There(sv) = Homes(f - 1)
  PROVE  There(Applied(sv, Catalogue[f])) = Homes(f) /\ Applied(sv, Catalogue[f]) \in [Tables -> Absent .. MaxMark]
<1> DEFINE q == Catalogue[f]
           n == Len(Catalogue[f])
           Right(w, k) == /\ w \in [Tables -> Absent .. MaxMark]
                          /\ There(w) = Homes(f - 1) \union {q[j].table : j \in 1 .. k}
<1>1. f \in Files /\ f \in Files \ {15} /\ n \in Nat /\ DOMAIN q = 1 .. n
  <2>1. f \in Files /\ f \in Files \ {15}
    BY FilesShipped
  <2>2. q \in Seq(Statement)
    BY <2>1, MigrationsAssumption DEF Files
  <2>3. QED
    BY <2>1, <2>2
<1>2. \A j \in 1 .. n : q[j] \in Statement /\ q[j].op = "create" /\ Home(q[j].table) = f
  BY <1>1, StatementFact, OrdinaryStatements DEF Ordinary
<1>3. \A t : Home(t) \in Nat
  BY HomeFact
<1>4. \A t \in Tables : Home(t) = f => \E j \in 1 .. n : q[j].table = t
  BY HomeCreates
<1>5. \A j \in 1 .. n : q[j].table \in Tables
  BY <1>2 DEF Statement
<1> HIDE DEF q, n
<1>a. PICK h : Stepwise(h, sv, q, n)
  BY <1>1, AppliedByStatements
<1>6. /\ h[0] = sv
      /\ \A k \in 0 .. n - 1 : h[k + 1] = Effect(q[k + 1], h[k])
      /\ Applied(sv, q) = h[n]
  BY <1>a DEF Stepwise
<1> DEFINE S == {k \in Nat : k <= n => Right(h[k], k)}
<1>7. 0 \in S
  BY <1>6
<1>8. ASSUME NEW k \in S
      PROVE  k + 1 \in S
  <2> SUFFICES ASSUME k + 1 <= n
               PROVE  Right(h[k + 1], k + 1)
    OBVIOUS
  <2>1. k \in Nat /\ k \in 0 .. n - 1 /\ k + 1 \in 1 .. n /\ Right(h[k], k)
    BY <1>1
  <2>2. h[k + 1] = Effect(q[k + 1], h[k]) /\ q[k + 1] \in Statement /\ q[k + 1].op = "create"
    BY <1>2, <1>6, <2>1
  <2>3. h[k + 1] \in [Tables -> Absent .. MaxMark]
    BY <2>1, <2>2, EffectType
  <2>4. There(h[k + 1]) = There(h[k]) \union {q[k + 1].table}
    BY <2>1, <2>2, EffectMakes
  <2>5. {q[j].table : j \in 1 .. k + 1} = {q[j].table : j \in 1 .. k} \union {q[k + 1].table}
    BY <2>1
  <2>6. QED
    BY <2>1, <2>3, <2>4, <2>5
<1>9. n \in S
  <2>1. S \in SUBSET Nat
    OBVIOUS
  <2> HIDE DEF S
  <2>2. QED
    BY <1>1, <1>7, <1>8, <2>1, Upwards
<1>10. Right(h[n], n)
  BY <1>1, <1>9
<1>11. Homes(f - 1) \union {q[j].table : j \in 1 .. n} = Homes(f)
  BY <1>2, <1>3, <1>4, <1>5 DEF Homes
<1>12. QED
  BY <1>6, <1>10, <1>11 DEF q

\* 110 makes its view anew.
LEMMA ViewFileMakes ==
  ASSUME AsShipped, NEW sv \in [Tables -> Absent .. MaxMark], There(sv) = Homes(11)
  PROVE  There(Applied(sv, Catalogue[12])) = Homes(12) /\ Applied(sv, Catalogue[12]) \in [Tables -> Absent .. MaxMark]
<1> DEFINE q == Catalogue[12]
<1>1. /\ DOMAIN q = 1 .. 2 /\ q[1] \in Statement /\ q[2] \in Statement
      /\ q[1].op = "drop" /\ q[1].table = View1m
      /\ q[2].op = "create" /\ q[2].table = View1m
  <2>1. q = F110 /\ 12 \in Files /\ Len(q) = 2
    BY FilesShipped, Statements110 DEF AsShipped, Shipped
  <2>2. 1 \in 1 .. Len(Catalogue[12]) /\ 2 \in 1 .. Len(Catalogue[12])
    BY <2>1
  <2>3. q[1] \in Statement /\ q[2] \in Statement
    BY <2>1, <2>2, StatementFact
  <2>4. QED
    BY <2>1, <2>3 DEF F110, Create, Drop, View1m
<1> HIDE DEF q
<1>2. PICK h : Stepwise(h, sv, q, 2)
  BY <1>1, AppliedByStatements
<1>3. h[0] = sv /\ h[1] = Effect(q[1], h[0]) /\ h[2] = Effect(q[2], h[1]) /\ Applied(sv, q) = h[2]
  <2>1. 0 \in 0 .. 2 - 1 /\ 1 \in 0 .. 2 - 1 /\ 0 + 1 = 1 /\ 1 + 1 = 2
    OBVIOUS
  <2>2. QED
    BY <1>2, <2>1 DEF Stepwise
<1>4. h[1] \in [Tables -> Absent .. MaxMark] /\ There(h[1]) = Homes(11) \ {View1m}
  BY <1>1, <1>3, EffectType, EffectMakes
<1>5. h[2] \in [Tables -> Absent .. MaxMark] /\ There(h[2]) = (Homes(11) \ {View1m}) \union {View1m}
  BY <1>1, <1>3, <1>4, EffectType, EffectMakes
<1>6. View1m \in Homes(11)
  BY <1>1, HomeFact DEF Statement, Homes
<1>7. Homes(12) = Homes(11)
  BY HomeFact DEF Homes
<1>8. QED
  BY <1>3, <1>5, <1>6, <1>7 DEF q

\* 140 leaves the tables there were.
LEMMA EngineFileMakes ==
  ASSUME AsShipped, NEW sv \in [Tables -> Absent .. MaxMark], There(sv) = Homes(14)
  PROVE  There(Applied(sv, Catalogue[15])) = Homes(15)
<1> DEFINE q == Catalogue[15]
<1>0. /\ Mark \in Tables /\ Mark2 \in Tables /\ Mark # Mark2
      /\ Mark \in Homes(14) /\ Mark2 \notin Homes(14)
  BY Statements140, HomeFact DEF Homes
<1>1. /\ DOMAIN q = 1 .. 4
      /\ q[1] \in Statement /\ q[2] \in Statement /\ q[3] \in Statement /\ q[4] \in Statement
  <2>1. 15 \in Files /\ Len(q) = 4 /\ q = F140
    BY FilesShipped, Statements140
  <2>2. \A j \in 1 .. 4 : q[j] \in Statement
    BY <2>1, StatementFact
  <2>3. DOMAIN q = 1 .. 4
    BY <2>1 DEF F140
  <2>4. QED
    BY <2>2, <2>3
<1>2. /\ q[1].op = "create" /\ q[1].table = Mark2
      /\ q[2].op = "copy" /\ q[2].table = Mark2
      /\ q[3].op = "drop" /\ q[3].table = Mark
      /\ q[4].op = "rename" /\ q[4].table = Mark /\ q[4].from = Mark2
  BY Statements140 DEF Create, Copy, Drop, Rename
<1> HIDE DEF q
<1>3. PICK h : Stepwise(h, sv, q, 4)
  BY <1>1, AppliedByStatements
<1>4. /\ h[0] = sv /\ h[1] = Effect(q[1], h[0]) /\ h[2] = Effect(q[2], h[1])
      /\ h[3] = Effect(q[3], h[2]) /\ h[4] = Effect(q[4], h[3]) /\ Applied(sv, q) = h[4]
  <2>1. /\ 0 \in 0 .. 4 - 1 /\ 1 \in 0 .. 4 - 1 /\ 2 \in 0 .. 4 - 1 /\ 3 \in 0 .. 4 - 1
        /\ 0 + 1 = 1 /\ 1 + 1 = 2 /\ 2 + 1 = 3 /\ 3 + 1 = 4
    OBVIOUS
  <2>2. QED
    BY <1>3, <2>1 DEF Stepwise
<1>5. h[1] \in [Tables -> Absent .. MaxMark] /\ There(h[1]) = Homes(14) \union {Mark2}
  BY <1>1, <1>2, <1>4, EffectType, EffectMakes
<1>6. h[2] \in [Tables -> Absent .. MaxMark] /\ There(h[2]) = There(h[1])
  BY <1>1, <1>2, <1>4, <1>5, EffectType, EffectMakes
<1>7. h[3] \in [Tables -> Absent .. MaxMark] /\ There(h[3]) = There(h[2]) \ {Mark}
  BY <1>1, <1>2, <1>4, <1>6, EffectType, EffectMakes
<1>8. Mark2 \in There(h[3])
  BY <1>0, <1>5, <1>6, <1>7
<1>9. There(h[4]) = (There(h[3]) \union {Mark}) \ {Mark2}
  BY <1>0, <1>1, <1>2, <1>4, <1>7, <1>8, EffectMakes
<1>10. There(h[4]) = Homes(14)
  BY <1>0, <1>5, <1>6, <1>7, <1>9
<1>11. Homes(15) = Homes(14)
  BY HomeFact DEF Homes
<1>12. QED
  BY <1>4, <1>10, <1>11 DEF q

\* One undisturbed run makes the tables whose files it has executed.
LEMMA ObjectsAreHomes ==
  ASSUME AsShipped, NEW f \in 1 .. 15
  PROVE  Objects(f) = Homes(f)
<1> DEFINE Typed(k) == Replay[k] \in [Tables -> Absent .. MaxMark]
           S == {k \in Nat : k <= 14 => Typed(k) /\ There(Replay[k]) = Homes(k)}
<1>0. Len(Catalogue) = 15 /\ MaxMark \in Nat
  BY FilesShipped, BoundsFact
<1>1. 0 \in S
  <2>1. Replay[0] = [t \in Tables |-> Absent]
    BY <1>0, ReplayByFiles
  <2>2. Typed(0) /\ There(Replay[0]) = {}
    BY <1>0, <2>1 DEF There, Absent
  <2>3. Homes(0) = {}
    BY HomeFact DEF Homes
  <2>4. QED
    BY <2>2, <2>3
<1>2. ASSUME NEW k \in S
      PROVE  k + 1 \in S
  <2> SUFFICES ASSUME k + 1 <= 14
               PROVE  Typed(k + 1) /\ There(Replay[k + 1]) = Homes(k + 1)
    OBVIOUS
  <2>1. k \in Nat /\ Typed(k) /\ There(Replay[k]) = Homes(k)
    OBVIOUS
  <2>2. k + 1 \in 0 .. Len(Catalogue) /\ k + 1 # 0 /\ (k + 1) - 1 = k /\ k + 1 \in 1 .. 14
    BY <1>0, <2>1
  <2>3. Replay[k + 1] = Applied(Replay[k], Catalogue[k + 1])
    BY <2>2, ReplayByFiles
  <2>4. CASE k + 1 # 12
    BY <2>1, <2>2, <2>3, <2>4, OrdinaryFileMakes
  <2>5. CASE k + 1 = 12
    <3>1. k = 11
      BY <2>1, <2>5
    <3>2. QED
      BY <2>1, <2>3, <2>5, <3>1, ViewFileMakes
  <2>6. QED
    BY <2>4, <2>5
<1>3. S = Nat
  <2>1. S \in SUBSET Nat
    OBVIOUS
  <2> HIDE DEF S
  <2>2. QED
    BY <1>1, <1>2, <2>1, Upwards
<1>4. \A k \in 0 .. 14 : Typed(k) /\ There(Replay[k]) = Homes(k)
  BY <1>3
<1>5. CASE f \in 1 .. 14
  BY <1>4, <1>5 DEF Objects, There
<1>6. CASE f = 15
  <2>1. Replay[15] = Applied(Replay[14], Catalogue[15])
    <3>1. 15 \in 0 .. Len(Catalogue) /\ 15 # 0 /\ 15 - 1 = 14
      BY <1>0
    <3>2. QED
      BY <3>1, ReplayByFiles
  <2>2. Typed(14) /\ There(Replay[14]) = Homes(14)
    BY <1>4
  <2>3. There(Replay[15]) = Homes(15)
    BY <2>1, <2>2, EngineFileMakes
  <2>4. QED
    BY <1>6, <2>3 DEF Objects, There
<1>7. QED
  BY <1>5, <1>6

(***************************************************************************)
(* Whenever a file is recorded the server has the objects one undisturbed  *)
(* run makes with it and the files before it, wherever runs were cut short *)
(* before (000_database.sql:3-5).                                          *)
(***************************************************************************)
THEOREM RecordedMeansBuiltHolds ==
  ASSUME Catalogue = Shipped, WatermarkTable = "cold_export_watermark"
  PROVE  Spec => RecordedMeansBuilt
<1>1. AsShipped
  BY DEF AsShipped, Mark
<1>2. ASSUME TypeOK, OrderInv, OnceInv, BuiltInv, [Next]_vars, ~ overlapped,
             NEW f \in Files, recorded[f] = None, recorded'[f] # None
      PROVE  {t \in Tables : server[t] # Absent} = Objects(f)
  <2>0. Built /\ Files = 1 .. 15
    BY <1>1, <1>2, FilesShipped DEF BuiltInv
  <2>1. \E r \in Runners : Bookkeep(r) \/ Record(r)
    BY <1>2 DEF Next, Run, Start, Execute, Snapshot, Pass, Done, Crash, Ship, Edit,
                MoveWatermark, vars
  <2>2. PICK r \in Runners : Bookkeep(r) \/ Record(r)
    BY <2>1
  <2>3. CASE Bookkeep(r)
    <3>1. f = 1 /\ pc[r] = "bookkeep"
      BY <1>2, <2>0, <2>3 DEF Bookkeep, TypeOK
    <3>2. Has("telemetry")
      BY <2>0, <3>1 DEF Built, SoFar
    <3>3. \A g \in Files : recorded[g] = None
      BY <1>2, <2>0, <3>1 DEF OrderInv, RecordedInOrder
    <3>4. ASSUME NEW t \in Tables, Has(t)
          PROVE  Home(t) <= 1
      <4>1. t # Mark2
        BY <2>0, <3>3, <3>4 DEF Built, OneOfTwo, Changing
      <4>2. Home(t) \in Files /\ (Home(t) = 1 \/ recorded[Home(t) - 1] # None)
        BY <2>0, <3>4, <4>1 DEF Built, InTurn
      <4>3. Home(t) = 1
        BY <2>0, <3>3, <4>2
      <4>4. QED
        BY <4>3
    <3>5. \A t \in Tables : Home(t) <= 1 => Has(t)
      <4>1. \A t \in Tables : Home(t) <= 1 => Home(t) = 1
        BY HomeFact
      <4>2. QED
        BY <3>2, <4>1, HomeFact
    <3>6. {t \in Tables : server[t] # Absent} = Homes(1)
      BY <3>4, <3>5 DEF Has, Homes
    <3>7. QED
      BY <1>1, <3>1, <3>6, ObjectsAreHomes
  <2>4. CASE Record(r)
    <3>1. Executes(r) /\ AtEnd(r) /\ pc[r] = "apply" /\ file[r] \in Files
      BY <1>2, <2>4, InHand DEF Record
    <3>2. f = file[r]
      BY <1>2, <2>4, <3>1 DEF Record, TypeOK
    <3>3. \A t \in Tables : Has(t) <=> Home(t) <= f
      BY <1>1, <1>2, <3>1, <3>2, AllMade
    <3>4. {t \in Tables : server[t] # Absent} = Homes(f)
      BY <3>3 DEF Has, Homes
    <3>5. QED
      BY <1>1, <2>0, <3>4, ObjectsAreHomes
  <2>5. QED
    BY <2>2, <2>3, <2>4
<1>3. TypeOK /\ OrderInv /\ OnceInv /\ BuiltInv /\ [Next]_vars =>
        [\A f \in Files :
           (recorded[f] = None /\ recorded'[f] # None /\ ~ overlapped) =>
             {t \in Tables : server[t] # Absent} = Objects(f)]_vars
  BY <1>2
<1>4. Spec => []BuiltInv
  BY <1>1, BuiltInvHolds
<1>5. QED
  BY <1>3, <1>4, MigrationsTypeCorrect, OrderInvHolds, OnceInvHolds, PTL
     DEF Spec, RecordedMeansBuilt
=============================================================================
