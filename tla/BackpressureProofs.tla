------------------------- MODULE BackpressureProofs -------------------------
(***************************************************************************)
(* Proofs about Backpressure, for any number of spans, probes and mishaps, *)
(* and any fractions the checks tolerate.                                  *)
(***************************************************************************)
EXTENDS Backpressure, TLAPS

USE DEF Phases, Counters, Sampled

-----------------------------------------------------------------------------
(***************************************************************************)
(* Types: no stage of the pipeline ever holds fewer than no spans, and no  *)
(* load emits more than its target (backpressure.py).                      *)
(***************************************************************************)
LEMMA CountTypes ==
  ASSUME collector \in [Counters -> Nat], NEW k \in Counters, Count(k)
  PROVE  collector' \in [Counters -> Nat]
BY DEF Count

LEMMA CreateTypes ==
  ASSUME TypeOK, Create
  PROVE  /\ queue' \in Nat /\ collector' \in [Counters -> Nat]
         /\ UNCHANGED <<topic, rows, frozen, rebalances, ledger>>
<1>1. queue \in Nat /\ collector \in [Counters -> Nat]
  BY DEF TypeOK
<1>2. CASE UNCHANGED <<queue, collector>>
  BY <1>1, <1>2 DEF Create
<1>3. CASE Count("refused") /\ UNCHANGED queue
  BY <1>1, <1>3, CountTypes DEF Create
<1>4. CASE Count("accepted") /\ queue' = queue + 1
  BY <1>1, <1>4, CountTypes DEF Create
<1>5. QED
  BY <1>2, <1>3, <1>4 DEF Create

LEMMA PipelineTypes == ASSUME TypeOK, Pipeline PROVE TypeOK'
<1> USE BackpressureAssumption DEF TypeOK, run, sampler, figures, samples
<1>1. UNCHANGED <<run, sampler>>
  BY DEF Pipeline
<1>2. CASE Send
  <2>1. collector' \in [Counters -> Nat]
    BY <1>2, CountTypes DEF Send
  <2>2. QED
    BY <1>1, <1>2, <2>1 DEF Send
<1>3. CASE Drop
  <2>1. collector' \in [Counters -> Nat]
    BY <1>3, CountTypes DEF Drop
  <2>2. QED
    BY <1>1, <1>3, <2>1 DEF Drop, ledger
<1>4. CASE Restart
  BY <1>1, <1>4 DEF Restart, Mishap
<1>5. CASE TopicLoses
  BY <1>1, <1>5 DEF TopicLoses, Mishap
<1>6. CASE Rebalance
  BY <1>1, <1>6 DEF Rebalance, Mishap
<1>7. ASSUME NEW again \in BOOLEAN, Consume(again)
      PROVE  TypeOK'
  <2>1. CASE again
    BY <1>1, <1>7, <2>1 DEF Consume, Mishap
  <2>2. CASE ~ again
    BY <1>1, <1>7, <2>2 DEF Consume
  <2>3. QED
    BY <2>1, <2>2
<1>8. QED
  BY <1>2, <1>3, <1>4, <1>5, <1>6, <1>7 DEF Pipeline

LEMMA ExperimentTypes == ASSUME TypeOK, Experiment PROVE TypeOK'
<1> USE BackpressureAssumption DEF TypeOK, figures, samples, sampler, stages, ledger, Step, Steps
<1>1. CASE Start
  BY <1>1 DEF Start
<1>2. CASE EndpointReady
  BY <1>2 DEF EndpointReady
<1>3. CASE Look
  <2>1. lastSeen' \in Nat \union {None} /\ pc' \in Steps
    BY <1>3 DEF Look
  <2>2. mishaps' \in 0 .. MaxMishaps /\ UNCHANGED <<exact, lost, extra>>
    BY <1>3 DEF Look, ReadLag, Mishap
  <2>3. QED
    BY <1>3, <2>1, <2>2 DEF Look
<1>4. CASE ReadBefore
  BY <1>4 DEF ReadBefore
<1>5. CASE ScrapeBefore
  BY <1>5 DEF ScrapeBefore
<1>6. ASSUME NEW p \in Phases, Generate(p)
      PROVE  TypeOK'
  <2>1. /\ queue' \in Nat /\ collector' \in [Counters -> Nat]
        /\ UNCHANGED <<topic, rows, frozen, rebalances, ledger>>
    BY <1>6, CreateTypes DEF Generate
  <2>2. generated[p] + 1 \in 0 .. Target
    BY <1>6 DEF Generate
  <2>3. generated' \in [Phases -> 0 .. Target]
    BY <1>6, <2>2 DEF Generate
  <2>4. QED
    BY <1>6, <2>1, <2>3 DEF Generate
<1>7. CASE EndLoad
  BY <1>7 DEF EndLoad
<1>8. CASE CountBaseline
  BY <1>8 DEF CountBaseline
<1>9. CASE Stall
  BY <1>9 DEF Stall, Pause
<1>10. CASE Release
  <2>1. frozen' \in BOOLEAN
    BY <1>10 DEF Release, Pause
  <2>2. QED
    BY <1>10, <2>1 DEF Release, Pause
<1>11. CASE StopThreads
  <2>1. sampling' \in BOOLEAN
    BY <1>11 DEF StopThreads
  <2>2. QED
    BY <1>11, <2>1 DEF StopThreads
<1>12. CASE ScrapeAfter
  <2>1. delta' \in [Counters -> Int]
    BY <1>12 DEF ScrapeAfter
  <2>2. QED
    BY <1>12, <2>1 DEF ScrapeAfter
<1>13. CASE CountAfter
  BY <1>13 DEF CountAfter
<1>14. ASSUME NEW to \in Steps, Lose(to)
       PROVE  TypeOK'
  <2>1. {sampling', fell', stressed'} \subseteq BOOLEAN /\ pc' \in Steps
    BY <1>14 DEF Lose
  <2>2. /\ generated' \in [Phases -> 0 .. Target] /\ probes' \in [Windows -> 0 .. MaxProbes]
        /\ before' \in [Counters -> Nat] /\ delta' \in [Counters -> Int]
    BY <1>14 DEF Lose
  <2>3. QED
    BY <1>14, <2>1, <2>2 DEF Lose
<1>15. CASE Finally
  <2>1. frozen' \in BOOLEAN /\ UNCHANGED <<queue, topic, rows, collector, rebalances>>
    BY <1>15 DEF Finally, Pause
  <2>2. pc' \in Steps
    BY <1>15 DEF Finally
  <2>3. QED
    BY <1>15, <2>1, <2>2 DEF Finally
<1>16. CASE Raise \/ Kill
  BY <1>14, <1>16 DEF Raise, Kill
<1>17. QED
  BY <1>1, <1>2, <1>3, <1>4, <1>5, <1>6, <1>7, <1>8, <1>9, <1>10, <1>11, <1>12, <1>13, <1>15, <1>16
     DEF Experiment

LEMMA ThreadsTypes == ASSUME TypeOK, Threads PROVE TypeOK'
<1> USE BackpressureAssumption DEF TypeOK, run, figures, samples, sampler, stages, ledger
<1>1. ASSUME NEW w \in Windows, Probe(w)
      PROVE  TypeOK'
  <2>1. /\ queue' \in Nat /\ collector' \in [Counters -> Nat]
        /\ UNCHANGED <<topic, rows, frozen, rebalances, ledger>>
    BY <1>1, CreateTypes DEF Probe
  <2>2. probes[w] + 1 \in 0 .. MaxProbes
    BY <1>1 DEF Probe, EndpointSpans, Windows
  <2>3. probes' \in [Windows -> 0 .. MaxProbes]
    BY <1>1, <2>2 DEF Probe
  <2>4. QED
    BY <1>1, <2>1, <2>3 DEF Probe
<1>2. CASE ProbeFails
  <2>1. collector' \in [Counters -> Nat]
    BY <1>2, CountTypes DEF ProbeFails
  <2>2. QED
    BY <1>2, <2>1 DEF ProbeFails, Mishap
<1>3. CASE SampleBegin
  <2>1. sample' \in Sample
    BY <1>3 DEF SampleBegin, AfterRelease, Sample
  <2>2. QED
    BY <1>3, <2>1 DEF SampleBegin
<1>4. CASE SampleLag
  <2>1. sample' \in Sample
    BY <1>4 DEF SampleLag, Sample
  <2>2. mishaps' \in 0 .. MaxMishaps /\ UNCHANGED <<exact, lost, extra>>
    BY <1>4 DEF SampleLag, ReadLag, Mishap
  <2>3. QED
    BY <1>4, <2>1, <2>2 DEF SampleLag
<1>5. CASE SampleSkip
  BY <1>5 DEF SampleSkip
<1>6. CASE SampleTake
  <2>1. last' \in [Sampled -> Nat]
    BY <1>6 DEF SampleTake
  <2>2. {fell', stressed'} \subseteq BOOLEAN /\ sample' = None
    BY <1>6 DEF SampleTake
  <2>3. QED
    BY <1>6, <2>1, <2>2 DEF SampleTake
<1>7. QED
  BY <1>1, <1>2, <1>3, <1>4, <1>5, <1>6 DEF Threads

\* Nothing in the pipeline is ever counted below zero, and no phase of a run sends
\* more than its target or probes beyond its bound (run_experiment).
THEOREM BackpressureTypeCorrect == Spec => []TypeOK
<1>1. Init => TypeOK
  <2> USE BackpressureAssumption DEF Init, Steps
  <2>1. Init => collector \in [Counters -> Nat] /\ before \in [Counters -> Nat] /\ delta \in [Counters -> Int]
    OBVIOUS
  <2>2. Init => {frozen, sampling, fell, stressed, exact} \subseteq BOOLEAN
    OBVIOUS
  <2>3. QED
    BY <2>1, <2>2 DEF TypeOK
<1>2. TypeOK /\ [Next]_vars => TypeOK'
  <2>1. ASSUME TypeOK, UNCHANGED vars
        PROVE  TypeOK'
    BY <2>1 DEF TypeOK, vars, stages, run, figures, sampler, samples, ledger
  <2>2. QED
    BY <2>1, PipelineTypes, ExperimentTypes, ThreadsTypes DEF Next
<1>3. QED
  BY <1>1, <1>2, PTL DEF Spec

-----------------------------------------------------------------------------
(***************************************************************************)
(* Where in a run ClickHouse may be frozen, and where a sample may be in   *)
(* hand that was begun after the release.                                  *)
(***************************************************************************)
Running ==
  /\ frozen => StallConsumer /\ pc \in {"burst", "releasing", "raising", "failed", "killed"}
  /\ sample # None /\ sample.late => \/ pc \in {"recovering", "settling", "tallying", "ended", "done"}
                                     \/ pc = "releasing" /\ ~ StallConsumer

LEMMA RunningPipeline == ASSUME Running, Pipeline PROVE Running'
<1>1. UNCHANGED <<run, sampler, frozen>>
  BY DEF Pipeline, Send, Drop, Restart, TopicLoses, Rebalance, Consume
<1>2. QED
  BY <1>1 DEF Running, run, sampler

LEMMA RunningExperiment == ASSUME TypeOK, Running, Experiment PROVE Running'
<1> USE DEF Running, Step, stages, sampler, Pause
<1>1. CASE Start \/ EndpointReady \/ Look \/ ReadBefore
  BY <1>1 DEF Start, EndpointReady, Look, ReadBefore
<1>2. CASE ScrapeBefore
  BY <1>2 DEF ScrapeBefore
<1>3. ASSUME NEW p \in Phases, Generate(p)
      PROVE  Running'
  BY <1>3 DEF Generate, Create
<1>4. CASE EndLoad \/ CountBaseline
  BY <1>4 DEF EndLoad, CountBaseline
<1>5. CASE Stall
  BY <1>5 DEF Stall
<1>6. CASE Release \/ StopThreads
  BY <1>6 DEF Release, StopThreads
<1>7. CASE ScrapeAfter \/ CountAfter
  BY <1>7 DEF ScrapeAfter, CountAfter
<1>8. CASE Raise
  BY <1>8 DEF Raise, Lose, Over
<1>9. CASE Kill
  BY <1>9 DEF Kill, Lose
<1>10. CASE Finally
  BY <1>10 DEF Finally
<1>11. QED
  BY <1>1, <1>2, <1>3, <1>4, <1>5, <1>6, <1>7, <1>8, <1>9, <1>10 DEF Experiment

LEMMA RunningThreads == ASSUME TypeOK, Running, Threads PROVE Running'
<1> USE DEF Running, run, stages
<1>1. ASSUME NEW w \in Windows, Probe(w)
      PROVE  Running'
  BY <1>1 DEF Probe, Create, sampler
<1>2. CASE ProbeFails
  BY <1>2 DEF ProbeFails, sampler
<1>3. CASE SampleBegin
  BY <1>3 DEF SampleBegin, AfterRelease
<1>4. CASE SampleLag
  <2>1. sample \in Sample /\ sample # None
    BY <1>4 DEF SampleLag, TypeOK
  <2>2. sample'.late = sample.late
    BY <1>4, <2>1 DEF SampleLag, Sample
  <2>3. QED
    BY <1>4, <2>1, <2>2 DEF SampleLag
<1>5. CASE SampleSkip \/ SampleTake
  BY <1>5 DEF SampleSkip, SampleTake
<1>6. QED
  BY <1>1, <1>2, <1>3, <1>4, <1>5 DEF Threads

LEMMA RunningHolds == Spec => []Running
<1>1. Init => Running
  BY BackpressureAssumption DEF Init, Running
<1>2. TypeOK /\ Running /\ [Next]_vars => Running'
  <2>1. ASSUME Running, UNCHANGED vars
        PROVE  Running'
    BY <2>1 DEF Running, vars, stages, run, sampler
  <2>2. QED
    BY <2>1, RunningPipeline, RunningExperiment, RunningThreads DEF Next
<1>3. QED
  BY <1>1, <1>2, BackpressureTypeCorrect, PTL DEF Spec

\* Only read_lag gives the sample in hand a lag to recover by.
LEMMA OnlyLagRecovers ==
  ASSUME TypeOK, [Next]_vars, ~ SampleLag, Recovers'
  PROVE  Recovers
<1>1. UNCHANGED sample => Recovers
  BY DEF Recovers, Timed
<1>2. sample' # None /\ sample'.lag # None
  BY DEF Recovers
<1>3. CASE Pipeline \/ UNCHANGED vars
  BY <1>1, <1>3 DEF Pipeline, vars, sampler
<1>4. CASE Experiment
  <2>1. ~ Raise /\ ~ Kill
    BY <1>2 DEF Raise, Kill, Lose
  <2>2. QED
    BY <1>1, <1>4, <2>1
       DEF Experiment, Start, EndpointReady, Look, ReadBefore, ScrapeBefore, Generate, EndLoad,
           CountBaseline, Stall, Release, StopThreads, ScrapeAfter, CountAfter, Finally, sampler
<1>5. CASE Threads
  <2>1. ~ SampleBegin /\ ~ SampleSkip /\ ~ SampleTake
    BY <1>2 DEF SampleBegin, SampleSkip, SampleTake
  <2>2. QED
    BY <1>1, <1>5, <2>1 DEF Threads, Probe, ProbeFails, sampler
<1>6. QED
  BY <1>3, <1>4, <1>5 DEF Next

(***************************************************************************)
(* A recovery is never read off a lag that was read with ClickHouse frozen *)
(* or with the load still on, wherever the sampler's two requests fall     *)
(* (recovery_seconds).                                                     *)
(***************************************************************************)
THEOREM RecoveryIsRealHolds == Spec => RecoveryIsReal
<1>1. TypeOK /\ Running /\ [Next]_vars => [~ Recovers /\ Recovers' => ~ frozen /\ pc \notin Phases]_vars
  <2> SUFFICES ASSUME TypeOK, Running, [Next]_vars, ~ Recovers, Recovers'
               PROVE  ~ frozen /\ pc \notin Phases
    OBVIOUS
  <2>1. SampleLag
    BY OnlyLagRecovers
  <2>2. sample \in Sample /\ sample # None
    BY <2>1 DEF SampleLag, TypeOK
  <2>3. sample.late
    BY <2>1, <2>2 DEF SampleLag, Sample, Recovers, Timed
  <2>4. QED
    BY <2>2, <2>3 DEF Running
<1>2. QED
  BY <1>1, BackpressureTypeCorrect, RunningHolds, PTL DEF Spec, RecoveryIsReal

-----------------------------------------------------------------------------
(***************************************************************************)
(* The books.  From the first count of rows on, what the topic holds, what *)
(* ClickHouse has stored and what was lost come to the rows the run does   *)
(* not know it sent and, as long as the counters are exact, those sent.    *)
(***************************************************************************)
Behind == topic + (rows - rowsBefore) + lost

Balanced ==
  /\ pc \in {"idle", "starting", "quiescing", "counting"} => exact /\ lost = 0
  /\ pc = "scraping" => exact /\ Behind = extra
  /\ pc \in Scraped /\ exact => Behind = extra + (collector["sent"] - before["sent"])
  /\ pc = "tallying" /\ exact => Behind = extra + delta["sent"]
  /\ pc \in {"ended", "done"} /\ exact => lost + rowsDelta <= extra + delta["sent"]

LEMMA Amounts ==
  ASSUME TypeOK
  PROVE  /\ {topic, rows, rowsBefore, lost, extra, collector["sent"], before["sent"]} \subseteq Nat
         /\ {delta["sent"], rowsDelta} \subseteq Int /\ exact \in BOOLEAN
BY DEF TypeOK

\* A span's fate at the collector touches none of the books.
LEMMA CreateBalance ==
  ASSUME TypeOK, Create
  PROVE  collector'["sent"] = collector["sent"] /\ UNCHANGED <<topic, rows, exact, lost, extra>>
<1>1. collector \in [Counters -> Nat]
  BY DEF TypeOK
<1>2. QED
  BY <1>1 DEF Create, Count, ledger

LEMMA BooksKept ==
  ASSUME Balanced, collector'["sent"] = collector["sent"],
         UNCHANGED <<pc, topic, rows, exact, lost, extra, rowsBefore, rowsDelta, before, delta>>
  PROVE  Balanced'
BY DEF Balanced, Behind

LEMMA BalancedPipeline == ASSUME TypeOK, Balanced, Pipeline PROVE Balanced'
<1>1. UNCHANGED <<pc, rowsBefore, rowsDelta, before, delta>> /\ pc \notin {"ended", "raising", "done", "failed", "killed"}
  BY DEF Pipeline, run, figures, Over
<1>2. collector \in [Counters -> Nat]
  BY DEF TypeOK
<1>3. CASE Send
  <2>1. /\ collector'["sent"] = collector["sent"] + 1 /\ topic' = topic + 1
        /\ extra' = IF pc \in {"scraping", "tallying"} THEN extra + 1 ELSE extra
        /\ UNCHANGED <<rows, exact, lost>>
    BY <1>2, <1>3 DEF Send, Count
  <2>2. QED
    BY <1>1, <1>2, <2>1, Amounts DEF Balanced, Behind, Scraped
<1>4. CASE Drop
  <2>1. collector'["sent"] = collector["sent"] /\ UNCHANGED <<topic, rows, exact, lost, extra>>
    BY <1>2, <1>4 DEF Drop, Count, ledger
  <2>2. QED
    BY <1>1, <2>1, BooksKept
<1>5. CASE Restart
  <2>1. exact' => exact /\ collector'["sent"] = collector["sent"]
    BY <1>5 DEF Restart
  <2>2. UNCHANGED <<topic, rows, lost, extra>> /\ pc \in Scraped
    BY <1>5 DEF Restart
  <2>3. QED
    BY <1>1, <2>1, <2>2 DEF Balanced, Behind, Scraped
<1>6. CASE TopicLoses
  <2>1. topic' = topic - 1 /\ lost' = lost + 1 /\ UNCHANGED <<rows, exact, extra, collector>> /\ pc \in Counted
    BY <1>6 DEF TopicLoses
  <2>2. QED
    BY <1>1, <2>1, Amounts DEF Balanced, Behind, Counted, Scraped
<1>7. CASE Rebalance
  BY <1>1, <1>7, BooksKept DEF Rebalance
<1>8. ASSUME NEW again \in BOOLEAN, Consume(again)
      PROVE  Balanced'
  <2>1. topic' = topic - 1 /\ UNCHANGED <<exact, lost, collector>>
    BY <1>8 DEF Consume
  <2>2. \/ rows' = rows + 2 /\ extra' = extra + 1 /\ pc \in Counted
        \/ rows' = rows + 1 /\ extra' = extra
    BY <1>8 DEF Consume
  <2>3. QED
    BY <1>1, <2>1, <2>2, Amounts DEF Balanced, Behind, Counted, Scraped
<1>9. QED
  BY <1>3, <1>4, <1>5, <1>6, <1>7, <1>8 DEF Pipeline

LEMMA BalancedExperiment == ASSUME TypeOK, Balanced, Experiment PROVE Balanced'
<1> USE DEF Step, stages, figures, ledger
<1>1. CASE Start \/ EndpointReady \/ Look
  BY <1>1 DEF Start, EndpointReady, Look, ReadLag, Balanced, Behind, Scraped
<1>2. CASE ReadBefore
  <2>1. /\ pc = "counting" /\ pc' = "scraping" /\ rowsBefore' = rows /\ extra' = topic
        /\ UNCHANGED <<topic, rows, exact, lost>>
    BY <1>2 DEF ReadBefore
  <2>2. QED
    BY <2>1, Amounts DEF Balanced, Behind, Scraped
<1>3. CASE ScrapeBefore
  <2>1. /\ pc = "scraping" /\ pc' = "baseline" /\ before' = collector
        /\ UNCHANGED <<topic, rows, exact, lost, extra, rowsBefore, collector>>
    BY <1>3 DEF ScrapeBefore
  <2>2. QED
    BY <2>1, Amounts DEF Balanced, Behind, Scraped
<1>4. ASSUME NEW p \in Phases, Generate(p)
      PROVE  Balanced'
  BY <1>4, CreateBalance, BooksKept DEF Generate
<1>5. CASE EndLoad \/ CountBaseline \/ Stall \/ Release \/ StopThreads
  <2>1. /\ pc \in Scraped /\ pc' \in Scraped
        /\ UNCHANGED <<topic, rows, exact, lost, extra, rowsBefore, collector, before>>
    BY <1>5 DEF EndLoad, CountBaseline, Stall, Release, StopThreads, Pause, Scraped
  <2>2. QED
    BY <2>1 DEF Balanced, Behind, Scraped
<1>6. CASE ScrapeAfter
  <2>1. /\ pc = "settling" /\ pc' = "tallying" /\ delta'["sent"] = collector["sent"] - before["sent"]
        /\ UNCHANGED <<topic, rows, exact, lost, extra, rowsBefore>>
    BY <1>6 DEF ScrapeAfter
  <2>2. QED
    BY <2>1 DEF Balanced, Behind, Scraped
<1>7. CASE CountAfter
  <2>1. /\ pc = "tallying" /\ pc' = "ended" /\ rowsDelta' = rows - rowsBefore
        /\ UNCHANGED <<exact, lost, extra, delta>>
    BY <1>7 DEF CountAfter
  <2>2. QED
    BY <2>1, Amounts DEF Balanced, Behind, Scraped
<1>8. CASE Raise \/ Kill
  BY <1>8 DEF Raise, Kill, Lose, Balanced, Scraped
<1>9. CASE Finally
  BY <1>9 DEF Finally, Balanced, Scraped
<1>10. QED
  BY <1>1, <1>2, <1>3, <1>4, <1>5, <1>6, <1>7, <1>8, <1>9 DEF Experiment

LEMMA BalancedThreads == ASSUME TypeOK, Balanced, Threads PROVE Balanced'
<1> USE DEF run, figures, stages, ledger
<1>1. ASSUME NEW w \in Windows, Probe(w)
      PROVE  Balanced'
  BY <1>1, CreateBalance, BooksKept DEF Probe
<1>2. CASE ProbeFails
  <2>1. collector'["sent"] = collector["sent"]
    BY <1>2 DEF ProbeFails, Count, TypeOK
  <2>2. QED
    BY <1>2, <2>1, BooksKept DEF ProbeFails
<1>3. CASE SampleBegin \/ SampleLag \/ SampleSkip \/ SampleTake
  BY <1>3, BooksKept DEF SampleBegin, SampleLag, ReadLag, SampleSkip, SampleTake
<1>4. QED
  BY <1>1, <1>2, <1>3 DEF Threads

(***************************************************************************)
(* What a valid run with exact figures may have lost unseen is bounded by  *)
(* its tolerance and the rows it does not know it sent (spans_accounted).  *)
(***************************************************************************)
THEOREM LossIsClaimedHolds == Spec => []LossIsClaimed
<1>1. Init => Balanced
  BY DEF Init, Balanced, Scraped
<1>2. TypeOK /\ Balanced /\ [Next]_vars => Balanced'
  <2>1. ASSUME Balanced, UNCHANGED vars
        PROVE  Balanced'
    BY <2>1, BooksKept DEF vars, run, figures, stages, ledger
  <2>2. QED
    BY <2>1, BalancedPipeline, BalancedExperiment, BalancedThreads DEF Next
<1>3. TypeOK /\ Balanced => LossIsClaimed
  <2> SUFFICES ASSUME TypeOK, Balanced, pc = "done", Valid, exact
               PROVE  100 * lost <= MaxUnaccounted * Emitted + 100 * extra
    BY DEF LossIsClaimed
  <2>1. lost + rowsDelta <= extra + delta["sent"]
    BY DEF Balanced
  <2>2. lost <= extra + Unaccounted /\ Unaccounted \in Nat
    BY <2>1, Amounts DEF Unaccounted
  <2>3. 100 * Unaccounted <= MaxUnaccounted * Emitted
    BY DEF Valid, LoadActuallyDelivered, SpansAccounted
  <2>4. \A x \in Int : 100 * Unaccounted <= x => 100 * lost <= x + 100 * extra
    BY <2>2, Amounts
  <2>5. MaxUnaccounted * Emitted \in Int
    BY BackpressureAssumption DEF Emitted, GeneratorSpans, EndpointSpans, Windows, TypeOK
  <2>6. QED
    BY <2>3, <2>4, <2>5
<1>4. QED
  BY <1>1, <1>2, <1>3, BackpressureTypeCorrect, PTL DEF Spec
=============================================================================
