-------------------------------- MODULE Lake --------------------------------
(***************************************************************************)
(* The files of the lake, with several cold-export commands writing them   *)
(* (export_window in coldtier/export.py) and a reader (coldtier/query.py). *)
(* ColdExport says which rows a window holds; here a window is its file,   *)
(* written batch by batch under a staging name, and the question is what a *)
(* reader finds under the final one.                                       *)
(***************************************************************************)
EXTENDS Integers, FiniteSets

CONSTANTS
  Windows,
  Exporters,
  Batches,   \* batches of a whole window
  Mixed,     \* what a file holds that two exporters have written
  None       \* no file, no window, no answer

ASSUME LakeAssumption ==
  /\ Batches \in Nat \ {0}
  /\ {Mixed, None} \intersect (Nat \union Windows) = {}
  /\ Mixed # None

VARIABLES
  staging,   \* batches in the staging file of each window
  final,     \* batches in its file
  step,      \* each exporter's step
  window,    \* the window it has in hand
  reading,   \* the reader's step
  listed,    \* the files parquet_files listed
  answer,    \* the files its query read, with what they held
  shared     \* history: windows two exporters had in hand at once

disk == <<staging, final>>
exporter == <<step, window, shared>>
reader == <<reading, listed, answer>>
vars == <<disk, exporter, reader>>

Content == 0 .. Batches \union {Mixed}

TypeOK ==
  /\ staging \in [Windows -> Content \union {None}]
  /\ final \in [Windows -> Content \union {None}]
  /\ step \in [Exporters -> {"idle", "writing", "verifying", "committing"}]
  /\ window \in [Exporters -> Windows \union {None}]
  /\ \A e \in Exporters : step[e] = "idle" <=> window[e] = None
  /\ reading \in {"closed", "listed", "open"}
  /\ listed \subseteq Windows
  /\ answer = None \/ answer \in UNION {[S -> Content] : S \in SUBSET Windows}
  /\ shared \subseteq Windows

-----------------------------------------------------------------------------
(* export_window. *)

Has(e, w) == window[e] = w
Others(e, w) == {f \in Exporters \ {e} : Has(f, w)}

Done(e) ==
  /\ step' = [step EXCEPT ![e] = "idle"]
  /\ window' = [window EXCEPT ![e] = None]
  /\ UNCHANGED shared

\* The staging name is the window's: an older staging file is overwritten, and so
\* is one that another exporter has just verified, or is still writing.
Open(e, w) ==
  /\ step[e] = "idle"
  /\ step' = [step EXCEPT ![e] = "writing"]
  /\ window' = [window EXCEPT ![e] = w]
  /\ shared' = IF Others(e, w) = {} THEN shared ELSE shared \union {w}
  /\ staging' = [staging EXCEPT ![w] = IF \E f \in Others(e, w) : step[f] = "writing" THEN Mixed ELSE 0]
  /\ UNCHANGED <<final, reader>>

More(content) == IF content \in 0 .. Batches - 1 THEN content + 1 ELSE Mixed

\* A file that another exporter has renamed is written under its final name; of one
\* that it has removed, nothing remains.
Write(e, w) ==
  /\ Has(e, w)
  /\ step[e] = "writing"
  /\ \/ /\ staging[w] \notin {None, Batches}
        /\ staging' = [staging EXCEPT ![w] = More(@)]
        /\ UNCHANGED final
     \/ /\ staging[w] = None
        /\ final[w] # None
        /\ final' = [final EXCEPT ![w] = Mixed]
        /\ UNCHANGED staging
  /\ UNCHANGED <<exporter, reader>>

\* The stream has ended, early perhaps.  One that brought nothing leaves no file.
Close(e, w) ==
  /\ Has(e, w)
  /\ step[e] = "writing"
  /\ IF staging[w] = 0
       THEN Done(e) /\ staging' = [staging EXCEPT ![w] = None]
       ELSE step' = [step EXCEPT ![e] = "verifying"] /\ UNCHANGED <<window, shared, staging>>
  /\ UNCHANGED <<final, reader>>

\* Mutant of Matches: a file that can be read will do.
MatchesAny(content, ok) == ok

\* The counts and the fingerprints of the source and of the file agree.
Matches(content, ok) == content = Mixed \/ (ok <=> content = Batches)

\* A file that does not match is removed, and nothing is committed.
Verify(e, w, ok) ==
  /\ Has(e, w)
  /\ step[e] = "verifying"
  /\ staging[w] # None
  /\ Matches(staging[w], ok)
  /\ IF ok THEN step' = [step EXCEPT ![e] = "committing"] /\ UNCHANGED <<window, shared, staging>>
           ELSE Done(e) /\ staging' = [staging EXCEPT ![w] = None]
  /\ UNCHANGED <<final, reader>>

Rename(e, w) ==
  /\ Has(e, w)
  /\ step[e] = "committing"
  /\ staging[w] # None
  /\ final' = [final EXCEPT ![w] = staging[w]]
  /\ staging' = [staging EXCEPT ![w] = None]
  /\ Done(e)
  /\ UNCHANGED reader

\* A crash, a request that fails, or a staging file another exporter has taken:
\* whatever is staged stays.
Raise(e) ==
  /\ step[e] # "idle"
  /\ Done(e)
  /\ UNCHANGED <<disk, reader>>

-----------------------------------------------------------------------------
(* open_lake, and a query on it. *)

Files == {w \in Windows : final[w] # None}

List ==
  /\ reading = "closed"
  /\ listed' = Files
  /\ reading' = "listed"
  /\ UNCHANGED <<disk, exporter, answer>>

\* DuckDB lists the files itself; another number of them is a mismatch.  A lake
\* listed as empty is an empty view, and is not checked.
CrossCheck ==
  /\ reading = "listed"
  /\ reading' = IF listed = {} \/ Cardinality(Files) = Cardinality(listed) THEN "open" ELSE "closed"
  /\ UNCHANGED <<disk, exporter, listed, answer>>

\* The query lists them once more.
Query ==
  /\ reading = "open"
  /\ answer' = [w \in (IF listed = {} THEN {} ELSE Files) |-> final[w]]
  /\ UNCHANGED <<disk, exporter, reading, listed>>

CloseLake ==
  /\ reading = "open"
  /\ reading' = "closed"
  /\ answer' = None
  /\ UNCHANGED <<disk, exporter, listed>>

-----------------------------------------------------------------------------
Init ==
  /\ staging = [w \in Windows |-> None]
  /\ final = [w \in Windows |-> None]
  /\ step = [e \in Exporters |-> "idle"]
  /\ window = [e \in Exporters |-> None]
  /\ reading = "closed"
  /\ listed = {}
  /\ answer = None
  /\ shared = {}

Export(e) ==
  \/ \E w \in Windows : Open(e, w) \/ Write(e, w) \/ Close(e, w) \/ Rename(e, w)
  \/ \E w \in Windows, ok \in BOOLEAN : Verify(e, w, ok)
  \/ Raise(e)

Read == List \/ CrossCheck \/ Query \/ CloseLake

Next == Read \/ \E e \in Exporters : Export(e)

Spec == Init /\ [][Next]_vars

-----------------------------------------------------------------------------
\* A query reads every file that was there when the lake was opened, and each one
\* whole, unless two exporters have had its window in hand at once
\* (ColdTierMismatchError: "would silently return partial data").
QueryIsHonest ==
  answer # None =>
    /\ listed \subseteq DOMAIN answer
    /\ \A w \in DOMAIN answer : w \notin shared => answer[w] = Batches

-----------------------------------------------------------------------------
(* What the repository's text says and the code does not do. *)

\* layout.py:97-101: a file is renamed into place only after it was read back and
\* verified, and a reader globbing the lake must never see a half-written one.
\* Two commands that export one window share its staging name: one of them renames
\* the file that the other has just truncated.
NoHalfWrittenFile == \A w \in Windows : final[w] \notin 0 .. Batches - 1
=============================================================================
