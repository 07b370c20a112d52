----------------------------- MODULE LakeProofs -----------------------------
(***************************************************************************)
(* Proofs about Lake, for any windows, exporters and number of batches.    *)
(***************************************************************************)
EXTENDS Lake, TLAPS

LEMMA Distinct == /\ Batches \in Nat \ {0} /\ Mixed \notin Nat /\ None \notin Nat
                  /\ None \notin Windows /\ Mixed # None
  BY LakeAssumption

-----------------------------------------------------------------------------
(***************************************************************************)
(* Types: a staging file holds no more batches than its window has, and an *)
(* exporter has a window in hand for as long as it is at work on it        *)
(* (export_window).                                                        *)
(***************************************************************************)
THEOREM LakeTypeCorrect == Spec => []TypeOK
<1> USE Distinct
<1>1. Init => TypeOK
  BY DEF Init, TypeOK, Content
<1>2. TypeOK /\ [Next]_vars => TypeOK'
  <2> SUFFICES ASSUME TypeOK, [Next]_vars
               PROVE  TypeOK'
    OBVIOUS
  <2> USE DEF TypeOK, exporter, reader, disk
  <2>1. ASSUME NEW e \in Exporters, NEW w \in Windows, Open(e, w)
        PROVE  TypeOK'
    BY <2>1 DEF Open, Content
  <2>2. ASSUME NEW e \in Exporters, NEW w \in Windows, Write(e, w)
        PROVE  TypeOK'
    <3>1. ASSUME staging[w] \in Content PROVE More(staging[w]) \in Content
      BY <3>1 DEF More, Content
    <3>2. Mixed \in Content
      BY DEF Content
    <3>3. staging' \in [Windows -> Content \union {None}] /\ final' \in [Windows -> Content \union {None}]
      BY <2>2, <3>1, <3>2 DEF Write
    <3>4. QED
      BY <2>2, <3>3 DEF Write
  <2>3. ASSUME NEW e \in Exporters, NEW w \in Windows, Close(e, w)
        PROVE  TypeOK'
    BY <2>3 DEF Close, Done
  <2>4. ASSUME NEW e \in Exporters, NEW w \in Windows, Rename(e, w)
        PROVE  TypeOK'
    BY <2>4 DEF Rename, Done
  <2>5. ASSUME NEW e \in Exporters, NEW w \in Windows, NEW ok \in BOOLEAN, Verify(e, w, ok)
        PROVE  TypeOK'
    <3>1. CASE ok
      BY <2>5, <3>1 DEF Verify
    <3>2. CASE ~ ok
      BY <2>5, <3>2 DEF Verify, Done
    <3>3. QED
      BY <3>1, <3>2
  <2>6. ASSUME NEW e \in Exporters, Raise(e)
        PROVE  TypeOK'
    BY <2>6 DEF Raise, Done
  <2>7. CASE List
    BY <2>7 DEF List, Files
  <2>8. CASE CrossCheck
    BY <2>8 DEF CrossCheck
  <2>9. CASE Query
    <3> DEFINE S == IF listed = {} THEN {} ELSE Files
    <3>1. S \in SUBSET Windows
      BY DEF Files
    <3>2. \A w \in S : final[w] \in Content
      BY DEF Files
    <3>3. answer' = [w \in S |-> final[w]]
      BY <2>9 DEF Query
    <3>4. answer' \in [S -> Content]
      BY <3>2, <3>3
    <3>5. QED
      BY <2>9, <3>1, <3>4 DEF Query
  <2>10. CASE CloseLake
    BY <2>10 DEF CloseLake
  <2>11. CASE UNCHANGED vars
    BY <2>11 DEF vars
  <2>12. QED
    BY <2>1, <2>2, <2>3, <2>4, <2>5, <2>6, <2>7, <2>8, <2>9, <2>10, <2>11 DEF Next, Read, Export
<1>3. QED
  BY <1>1, <1>2, PTL DEF Spec

-----------------------------------------------------------------------------
(***************************************************************************)
(* What lies under a final name.  A window that no two exporters have had  *)
(* at once is staged by one of them alone: its staging file is there until *)
(* it is renamed, holds no mixture, and is whole once it was verified.     *)
(***************************************************************************)
Alone ==
  \A e, f \in Exporters : \A w \in Windows : Has(e, w) /\ Has(f, w) /\ e # f => w \in shared

Staged ==
  \A w \in Windows \ shared :
    /\ staging[w] # Mixed
    /\ \A e \in Exporters : Has(e, w) => staging[w] # None
    /\ \A e \in Exporters : Has(e, w) /\ step[e] = "committing" => staging[w] = Batches

Committed == \A w \in Windows \ shared : final[w] \in {None, Batches}

\* What the reader listed is still there, and in its answer (open_lake).
Reader ==
  /\ reading \in {"listed", "open"} => \A w \in listed : final[w] # None
  /\ reading # "open" => answer = None
  /\ answer # None => /\ listed \subseteq DOMAIN answer /\ DOMAIN answer \subseteq Windows
                      /\ \A w \in DOMAIN answer \ shared : answer[w] = Batches

LakeInv == TypeOK /\ Alone /\ Staged /\ Committed /\ Reader

\* The reader does not look at what is staged or in hand.
LEMMA ReaderKept ==
  ASSUME LakeInv, UNCHANGED reader, shared \subseteq shared',
         \A w \in Windows : final[w] # None => final'[w] # None
  PROVE  Reader'
<1> USE DEF LakeInv, reader
<1>1. listed \subseteq Windows
  BY DEF TypeOK
<1>2. QED
  BY <1>1 DEF Reader

LEMMA OpenKeeps ==
  ASSUME LakeInv, NEW e \in Exporters, NEW w \in Windows, Open(e, w)
  PROVE  Alone' /\ Staged' /\ Committed' /\ Reader'
<1> USE Distinct DEF LakeInv
<1>1. /\ shared' = IF Others(e, w) = {} THEN shared ELSE shared \union {w}
      /\ window' = [window EXCEPT ![e] = w] /\ step' = [step EXCEPT ![e] = "writing"]
      /\ staging' = [staging EXCEPT ![w] = IF \E f \in Others(e, w) : step[f] = "writing" THEN Mixed ELSE 0]
      /\ final' = final /\ UNCHANGED reader /\ shared \subseteq shared'
  BY DEF Open
<1>2. /\ window \in [Exporters -> Windows \union {None}] /\ step \in [Exporters -> {"idle", "writing", "verifying", "committing"}]
      /\ staging \in [Windows -> Content \union {None}]
  BY DEF TypeOK
<1>3. Alone'
  <2> SUFFICES ASSUME NEW f \in Exporters, NEW g \in Exporters, NEW v \in Windows,
                      window'[f] = v, window'[g] = v, f # g
               PROVE  v \in shared'
    BY DEF Alone, Has
  <2>1. CASE f # e /\ g # e
    BY <1>1, <1>2, <2>1 DEF Alone, Has
  <2>2. CASE f = e \/ g = e
    <3>1. v = w /\ Others(e, w) # {}
      BY <1>1, <1>2, <2>2 DEF Others, Has
    <3>2. QED
      BY <1>1, <3>1
  <2>3. QED
    BY <2>1, <2>2
<1>4. Staged'
  <2> SUFFICES ASSUME NEW v \in Windows, v \notin shared'
               PROVE  /\ staging'[v] # Mixed
                      /\ \A f \in Exporters : window'[f] = v => staging'[v] # None
                      /\ \A f \in Exporters : window'[f] = v /\ step'[f] = "committing" => staging'[v] = Batches
    BY DEF Staged, Has
  <2>1. CASE v = w
    <3>1. Others(e, w) = {} /\ staging'[w] = 0
      BY <1>1, <1>2, <2>1
    <3>2. \A f \in Exporters : window'[f] = w => f = e
      BY <1>1, <1>2, <3>1 DEF Others, Has
    <3>3. step'[e] = "writing"
      BY <1>1, <1>2
    <3>4. 0 # Mixed /\ 0 # None
      OBVIOUS
    <3>5. QED
      BY <2>1, <3>1, <3>2, <3>3, <3>4
  <2>2. CASE v # w
    <3>1. staging'[v] = staging[v] /\ v \notin shared
      BY <1>1, <1>2, <2>2
    <3>2. \A f \in Exporters : window'[f] = v => window[f] = v /\ step'[f] = step[f]
      BY <1>1, <1>2, <2>2
    <3>3. QED
      BY <3>1, <3>2 DEF Staged, Has
  <2>3. QED
    BY <2>1, <2>2
<1>5. Committed'
  BY <1>1 DEF Committed
<1>6. Reader'
  BY <1>1, ReaderKept
<1>7. QED
  BY <1>3, <1>4, <1>5, <1>6

\* When an exporter is done with a window, the rest have it as they had it.
LEMMA DoneKeeps ==
  ASSUME LakeInv, NEW e \in Exporters, Done(e)
  PROVE  /\ Alone' /\ shared' = shared
         /\ \A f \in Exporters : \A v \in Windows :
              window'[f] = v => f # e /\ window[f] = v /\ step'[f] = step[f]
<1> USE Distinct DEF LakeInv
<1>1. /\ window \in [Exporters -> Windows \union {None}] /\ step \in [Exporters -> {"idle", "writing", "verifying", "committing"}]
      /\ window' = [window EXCEPT ![e] = None] /\ step' = [step EXCEPT ![e] = "idle"]
      /\ shared' = shared
  BY DEF TypeOK, Done
<1>2. \A f \in Exporters : \A v \in Windows : window'[f] = v => f # e /\ window[f] = v /\ step'[f] = step[f]
  BY <1>1
<1>3. Alone'
  BY <1>1, <1>2 DEF Alone, Has
<1>4. QED
  BY <1>1, <1>2, <1>3

LEMMA WriteKeeps ==
  ASSUME LakeInv, NEW e \in Exporters, NEW w \in Windows, Write(e, w)
  PROVE  Alone' /\ Staged' /\ Committed' /\ Reader'
<1> USE Distinct DEF LakeInv
<1>1. /\ step[e] = "writing" /\ window[e] = w /\ UNCHANGED <<step, window, shared>> /\ UNCHANGED reader
      /\ staging \in [Windows -> Content \union {None}] /\ final \in [Windows -> Content \union {None}]
  BY DEF Write, exporter, TypeOK, Has
<1>2. Alone'
  BY <1>1 DEF Alone, Has
<1>3. CASE staging[w] = None
  <2>1. w \in shared /\ staging' = staging /\ final' = [final EXCEPT ![w] = Mixed]
    BY <1>1, <1>3 DEF Staged, Has, Write
  <2>2. \A v \in Windows : final[v] # None => final'[v] # None
    BY <1>1, <2>1
  <2>3. \A v \in Windows \ shared : final'[v] = final[v]
    BY <1>1, <2>1
  <2>4. QED
    BY <1>1, <1>2, <2>1, <2>2, <2>3, ReaderKept DEF Staged, Committed, Has
<1>4. CASE staging[w] # None
  <2>1. staging[w] # Batches /\ staging' = [staging EXCEPT ![w] = More(@)] /\ final' = final
    BY <1>4 DEF Write
  <2>2. ASSUME w \notin shared
        PROVE  More(staging[w]) # Mixed /\ More(staging[w]) # None
    <3>1. staging[w] \in 0 .. Batches - 1
      BY <1>1, <1>4, <2>1, <2>2 DEF Staged, Content
    <3>2. More(staging[w]) = staging[w] + 1 /\ staging[w] + 1 \in Nat
      BY <3>1 DEF More
    <3>3. QED
      BY <3>2
  <2>3. \A f \in Exporters : w \notin shared /\ window[f] = w => f = e
    BY <1>1 DEF Alone, Has
  <2>4. Staged'
    BY <1>1, <2>1, <2>2, <2>3 DEF Staged, Has
  <2>5. QED
    BY <1>1, <1>2, <2>1, <2>4, ReaderKept DEF Committed
<1>5. QED
  BY <1>3, <1>4

LEMMA CloseKeeps ==
  ASSUME LakeInv, NEW e \in Exporters, NEW w \in Windows, Close(e, w)
  PROVE  Alone' /\ Staged' /\ Committed' /\ Reader'
<1> USE Distinct DEF LakeInv
<1>1. /\ window[e] = w /\ final' = final /\ UNCHANGED reader
      /\ staging \in [Windows -> Content \union {None}] /\ step \in [Exporters -> {"idle", "writing", "verifying", "committing"}]
  BY DEF Close, TypeOK, Has
<1>2. CASE staging[w] = 0
  <2>1. Done(e) /\ staging' = [staging EXCEPT ![w] = None]
    BY <1>2 DEF Close
  <2>2. /\ Alone' /\ shared' = shared
        /\ \A f \in Exporters : \A v \in Windows :
              window'[f] = v => f # e /\ window[f] = v /\ step'[f] = step[f]
    BY <2>1, DoneKeeps
  <2>3. \A f \in Exporters : w \notin shared => window'[f] # w
    BY <1>1, <2>2 DEF Alone, Has
  <2>4. Staged'
    BY <1>1, <2>1, <2>2, <2>3 DEF Staged, Has
  <2>5. QED
    BY <1>1, <2>2, <2>4, ReaderKept DEF Committed
<1>3. CASE staging[w] # 0
  <2>1. step' = [step EXCEPT ![e] = "verifying"] /\ UNCHANGED <<window, shared, staging>>
    BY <1>3 DEF Close
  <2>2. \A f \in Exporters : step'[f] = "committing" => step[f] = "committing"
    BY <1>1, <2>1
  <2>3. Alone' /\ Staged'
    BY <2>1, <2>2 DEF Alone, Staged, Has
  <2>4. QED
    BY <1>1, <2>1, <2>3, ReaderKept DEF Committed
<1>4. QED
  BY <1>2, <1>3

LEMMA VerifyKeeps ==
  ASSUME LakeInv, NEW e \in Exporters, NEW w \in Windows, NEW ok \in BOOLEAN, Verify(e, w, ok)
  PROVE  Alone' /\ Staged' /\ Committed' /\ Reader'
<1> USE Distinct DEF LakeInv
<1>1. /\ window[e] = w /\ final' = final /\ UNCHANGED reader /\ Matches(staging[w], ok)
      /\ staging \in [Windows -> Content \union {None}] /\ step \in [Exporters -> {"idle", "writing", "verifying", "committing"}]
  BY DEF Verify, TypeOK, Has
<1>2. CASE ~ ok
  <2>1. Done(e) /\ staging' = [staging EXCEPT ![w] = None]
    BY <1>2 DEF Verify
  <2>2. /\ Alone' /\ shared' = shared
        /\ \A f \in Exporters : \A v \in Windows :
              window'[f] = v => f # e /\ window[f] = v /\ step'[f] = step[f]
    BY <2>1, DoneKeeps
  <2>3. \A f \in Exporters : w \notin shared => window'[f] # w
    BY <1>1, <2>2 DEF Alone, Has
  <2>4. Staged'
    BY <1>1, <2>1, <2>2, <2>3 DEF Staged, Has
  <2>5. QED
    BY <1>1, <2>2, <2>4, ReaderKept DEF Committed
<1>3. CASE ok
  <2>1. step' = [step EXCEPT ![e] = "committing"] /\ UNCHANGED <<window, shared, staging>>
    BY <1>3 DEF Verify
  <2>2. w \notin shared => staging[w] = Batches
    BY <1>1, <1>3 DEF Matches, Staged
  <2>3. Alone'
    BY <2>1 DEF Alone, Has
  <2>4. Staged'
    BY <1>1, <2>1, <2>2 DEF Staged, Has
  <2>5. QED
    BY <1>1, <2>1, <2>3, <2>4, ReaderKept DEF Committed
<1>4. QED
  BY <1>2, <1>3

LEMMA RenameKeeps ==
  ASSUME LakeInv, NEW e \in Exporters, NEW w \in Windows, Rename(e, w)
  PROVE  Alone' /\ Staged' /\ Committed' /\ Reader'
<1> USE Distinct DEF LakeInv
<1>1. /\ window[e] = w /\ step[e] = "committing" /\ staging[w] # None /\ UNCHANGED reader
      /\ staging \in [Windows -> Content \union {None}] /\ final \in [Windows -> Content \union {None}]
      /\ final' = [final EXCEPT ![w] = staging[w]] /\ staging' = [staging EXCEPT ![w] = None] /\ Done(e)
  BY DEF Rename, TypeOK, Has
<1>2. /\ Alone' /\ shared' = shared
      /\ \A f \in Exporters : \A v \in Windows :
            window'[f] = v => f # e /\ window[f] = v /\ step'[f] = step[f]
  BY <1>1, DoneKeeps
<1>3. \A f \in Exporters : w \notin shared => window'[f] # w
  BY <1>1, <1>2 DEF Alone, Has
<1>4. Staged'
  BY <1>1, <1>2, <1>3 DEF Staged, Has
<1>5. w \notin shared => staging[w] = Batches
  BY <1>1 DEF Staged, Has
<1>6. Committed'
  BY <1>1, <1>2, <1>5 DEF Committed
<1>7. \A v \in Windows : final[v] # None => final'[v] # None
  BY <1>1
<1>8. QED
  BY <1>1, <1>2, <1>4, <1>6, <1>7, ReaderKept

LEMMA ReadKeeps ==
  ASSUME LakeInv, Read
  PROVE  Alone' /\ Staged' /\ Committed' /\ Reader'
<1> USE DEF LakeInv
<1>1. UNCHANGED <<staging, final, step, window, shared>>
  BY DEF Read, List, CrossCheck, Query, CloseLake, disk, exporter
<1>2. Alone' /\ Staged' /\ Committed'
  BY <1>1 DEF Alone, Staged, Committed, Has
<1>3. CASE List
  BY <1>1, <1>2, <1>3 DEF List, Files, Reader, disk, exporter
<1>4. CASE CrossCheck
  BY <1>1, <1>2, <1>4 DEF CrossCheck, Reader, disk, exporter
<1>5. CASE Query
  <2> DEFINE S == IF listed = {} THEN {} ELSE Files
  <2>1. answer' = [w \in S |-> final[w]] /\ reading = "open" /\ UNCHANGED <<reading, listed>>
    BY <1>5 DEF Query
  <2>2. DOMAIN answer' = S /\ \A w \in S : answer'[w] = final[w]
    BY <2>1
  <2>3. S \subseteq Windows /\ \A w \in S : final[w] # None
    BY DEF Files
  <2>4. listed \subseteq S
    BY <2>1 DEF Reader, Files, TypeOK
  <2>5. \A w \in S \ shared : final[w] = Batches
    BY <2>3 DEF Committed
  <2> HIDE DEF S
  <2>6. QED
    BY <1>1, <1>2, <2>1, <2>2, <2>3, <2>4, <2>5 DEF Reader
<1>6. CASE CloseLake
  BY <1>1, <1>2, <1>6 DEF CloseLake, Reader, disk, exporter
<1>7. QED
  BY <1>2, <1>3, <1>4, <1>5, <1>6 DEF Read

(***************************************************************************)
(* A query reads every file the lake listed, and each whole, unless two    *)
(* exporters had its window at once (open_lake, export_window).            *)
(***************************************************************************)
THEOREM QueryIsHonestHolds == Spec => []QueryIsHonest
<1>1. Init => Alone /\ Staged /\ Committed /\ Reader
  BY Distinct DEF Init, Alone, Staged, Committed, Reader, Has
<1>2. LakeInv /\ TypeOK' /\ [Next]_vars => LakeInv'
  <2> SUFFICES ASSUME LakeInv, TypeOK', [Next]_vars
               PROVE  Alone' /\ Staged' /\ Committed' /\ Reader'
    BY DEF LakeInv
  <2>1. ASSUME NEW e \in Exporters, Raise(e)
        PROVE  Alone' /\ Staged' /\ Committed' /\ Reader'
    <3>1. Done(e) /\ UNCHANGED <<staging, final>> /\ UNCHANGED reader
      BY <2>1 DEF Raise, disk
    <3>2. /\ Alone' /\ shared' = shared
          /\ \A f \in Exporters : \A v \in Windows :
                window'[f] = v => f # e /\ window[f] = v /\ step'[f] = step[f]
      BY <3>1, DoneKeeps
    <3>3. Staged' /\ Committed'
      BY <3>1, <3>2 DEF LakeInv, Staged, Committed, Has
    <3>4. Reader'
      BY <3>1, <3>2, ReaderKept
    <3>5. QED
      BY <3>2, <3>3, <3>4
  <2>2. CASE UNCHANGED vars
    BY <2>2 DEF vars, disk, exporter, reader, LakeInv, Alone, Staged, Committed, Reader, Has
  <2>3. QED
    BY <2>1, <2>2, OpenKeeps, WriteKeeps, CloseKeeps, VerifyKeeps, RenameKeeps, ReadKeeps
       DEF Next, Export
<1>3. LakeInv => QueryIsHonest
  BY DEF LakeInv, Reader, QueryIsHonest
<1>4. QED
  BY <1>1, <1>2, <1>3, LakeTypeCorrect, PTL DEF Spec, LakeInv
=============================================================================
