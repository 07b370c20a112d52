---------------------------- MODULE Backpressure ----------------------------
(***************************************************************************)
(* The backpressure experiment (experiments/backpressure.py): load with    *)
(* ClickHouse running, load with ClickHouse frozen, recovery; a sampler    *)
(* and a probe run beside it, and eight checks decide afterwards whether   *)
(* its figures may be quoted.                                              *)
(*                                                                         *)
(* Spans are counted stage by stage, as the experiment counts them.  The   *)
(* samples are kept as what validate reads of them: the counters of the    *)
(* last one, whether a counter ever fell, and whether the lag was ever     *)
(* high enough.  Durations are left out: any phase may outlast any number  *)
(* of samples.  Restarts, losses, redeliveries, rebalances and requests    *)
(* that fail happen when the run can tell, at most MaxMishaps in all.      *)
(***************************************************************************)
EXTENDS Integers

CONSTANTS
  Target,          \* spans each phase of load is to produce
  MaxProbes,       \* bound on the probes that are answered
  OldLag,          \* messages an earlier run has left in the topic
  StallConsumer,   \* freeze ClickHouse under the second load
  RecoveredLag,    \* RECOVERED_LAG
  MinPeakLag,      \* MIN_PEAK_LAG_TO_BE_MEANINGFUL
  MinProbes,       \* MIN_ENDPOINT_PROBES_PER_PHASE
  MinAchievement, MinDelivery, MaxUnaccounted,  \* the checks' fractions, in percent
  FineSampling,    \* the interval is at most a quarter of the burst
  MaxMishaps,
  None             \* no value

ASSUME BackpressureAssumption ==
  /\ {Target, MaxProbes, OldLag, RecoveredLag, MinPeakLag, MinProbes, MaxMishaps} \subseteq Nat
  /\ {MinAchievement, MinDelivery, MaxUnaccounted} \subseteq 0 .. 100
  /\ {StallConsumer, FineSampling} \subseteq BOOLEAN
  /\ None \notin Nat /\ None \notin [late : BOOLEAN, lag : Nat \union {None}]

Phases == {"baseline", "burst"}
Windows == Phases \union {"outside"}
Counters == {"accepted", "refused", "sent", "dropped"}
Sampled == {"accepted", "sent", "dropped"}

VARIABLES
  \* The stages a span passes.
  queue,       \* spans in the collector
  topic,       \* spans in Redpanda that ClickHouse has not read: the lag
  rows,        \* rows of spans_raw
  collector,   \* the collector's counters
  frozen,      \* ClickHouse is paused
  rebalances,
  \* run_experiment, and the result it fills.
  pc,
  lastSeen,    \* wait_until_quiesced: the rebalances seen when lag was low
  generated,   \* spans created by the load of each phase
  probes,      \* probes of each window that were answered: a span each
  before, rowsBefore, rebalancesBefore, rebalancesAfterBaseline,
  delta, rowsDelta,         \* what it reports of the collector, and of the rows
  \* The sampler.
  sampling,    \* it has not been told to stop
  sample,      \* the sample in hand
  last,        \* the counters of the last sample
  fell, stressed,
  \* History.
  exact,       \* no restart has wiped counts since the first scrape
  lost,        \* spans lost in the topic
  extra,       \* rows the run does not know it sent
  mishaps

figures == <<before, rowsBefore, rebalancesBefore, rebalancesAfterBaseline, delta, rowsDelta>>
samples == <<last, fell, stressed>>
run == <<pc, lastSeen, generated, probes, figures>>
sampler == <<sampling, sample, samples>>
ledger == <<exact, lost, extra, mishaps>>
stages == <<queue, topic, rows, collector, frozen, rebalances>>
vars == <<stages, run, sampler, ledger>>

Steps == {"idle", "starting", "quiescing", "counting", "scraping", "baseline", "between",
          "stalling", "burst", "releasing", "recovering", "settling", "tallying",
          "ended", "raising", "done", "failed", "killed"}

\* A sample's time is that of its beginning, late if it lies after the release; lag
\* is the total_lag it has read.
Sample == [late : BOOLEAN, lag : Nat \union {None}]

TypeOK ==
  /\ queue \in Nat
  /\ topic \in Nat
  /\ rows \in Nat
  /\ collector \in [Counters -> Nat]
  /\ frozen \in BOOLEAN
  /\ rebalances \in Nat
  /\ pc \in Steps
  /\ lastSeen \in Nat \union {None}
  /\ generated \in [Phases -> 0 .. Target]
  /\ probes \in [Windows -> 0 .. MaxProbes]
  /\ before \in [Counters -> Nat]
  /\ rowsBefore \in Nat
  /\ rebalancesBefore \in Nat
  /\ rebalancesAfterBaseline \in Nat
  /\ delta \in [Counters -> Int]
  /\ rowsDelta \in Int
  /\ sampling \in BOOLEAN
  /\ sample \in Sample \union {None}
  /\ last \in [Sampled -> Nat] \union {None}
  /\ fell \in BOOLEAN
  /\ stressed \in BOOLEAN
  /\ exact \in BOOLEAN
  /\ lost \in Nat
  /\ extra \in Nat
  /\ mishaps \in 0 .. MaxMishaps

-----------------------------------------------------------------------------
(* The pipeline. *)

\* Between the two scrapes; and between the two counts of rows.
Scraped == {"baseline", "between", "stalling", "burst", "releasing", "recovering", "settling"}
Counted == Scraped \union {"scraping", "tallying"}

Count(k) == collector' = [collector EXCEPT ![k] = @ + 1]

\* A span is created, and its fate at the collector: lost on the way, because the
\* SDK's queue is full or its export fails, refused, or accepted.
Create ==
  /\ \/ UNCHANGED <<queue, collector>>
     \/ Count("refused") /\ UNCHANGED queue
     \/ Count("accepted") /\ queue' = queue + 1
  /\ UNCHANGED <<topic, rows, frozen, rebalances, ledger>>

\* Sent between a count of rows and its scrape: a row more than the figures say.
Send ==
  /\ queue > 0
  /\ queue' = queue - 1
  /\ topic' = topic + 1
  /\ Count("sent")
  /\ extra' = IF pc \in {"scraping", "tallying"} THEN extra + 1 ELSE extra
  /\ UNCHANGED <<rows, frozen, rebalances, exact, lost, mishaps>>

Drop ==
  /\ queue > 0
  /\ queue' = queue - 1
  /\ Count("dropped")
  /\ UNCHANGED <<topic, rows, frozen, rebalances, ledger>>

Mishap ==
  /\ mishaps < MaxMishaps
  /\ mishaps' = mishaps + 1

\* The counters start from nothing, and what was queued is gone.
Restart ==
  /\ pc \in Scraped
  /\ Mishap
  /\ collector' = [k \in Counters |-> 0]
  /\ queue' = 0
  /\ exact' = (exact /\ \A k \in Counters : collector[k] = 0)
  /\ UNCHANGED <<topic, rows, frozen, rebalances, lost, extra>>

\* The Kafka engine stores a message; once in a while, a second time.
Consume(again) ==
  /\ ~ frozen
  /\ topic > 0
  /\ topic' = topic - 1
  /\ rows' = IF again THEN rows + 2 ELSE rows + 1
  /\ IF again THEN pc \in Counted /\ Mishap /\ extra' = extra + 1 ELSE UNCHANGED <<mishaps, extra>>
  /\ UNCHANGED <<queue, collector, frozen, rebalances, exact, lost>>

\* acks=1 and bounded retention.
TopicLoses ==
  /\ pc \in Counted
  /\ topic > 0
  /\ Mishap
  /\ topic' = topic - 1
  /\ lost' = lost + 1
  /\ UNCHANGED <<queue, rows, collector, frozen, rebalances, exact, extra>>

\* No check reads the rebalances after the baseline.
Rebalance ==
  /\ pc \in {"quiescing", "counting", "scraping", "baseline", "between"}
  /\ Mishap
  /\ rebalances' = rebalances + 1
  /\ UNCHANGED <<queue, topic, rows, collector, frozen, exact, lost, extra>>

Over == pc \in {"ended", "raising", "done", "failed", "killed"}

\* Watched for as long as the run goes on.
Pipeline ==
  /\ ~ Over
  /\ \/ Send \/ Drop \/ Restart \/ TopicLoses \/ Rebalance
     \/ \E again \in BOOLEAN : Consume(again)
  /\ UNCHANGED <<run, sampler>>

-----------------------------------------------------------------------------
(* The checks of validate, over what the run has recorded. *)

\* Of every probe, whatever the window.
EndpointSpans == probes["baseline"] + probes["burst"] + probes["outside"]
GeneratorSpans == generated["baseline"] + generated["burst"]
Emitted == GeneratorSpans + EndpointSpans

GeneratorHitTarget == 100 * GeneratorSpans >= MinAchievement * (2 * Target)

LoadActuallyDelivered ==
  /\ Emitted > 0
  /\ 100 * (delta["accepted"] + delta["refused"]) >= MinDelivery * Emitted

\* Beyond max(0, collector_sent - clickhouse_rows).
Unaccounted == IF delta["sent"] > rowsDelta THEN delta["sent"] - rowsDelta ELSE 0

\* Mutant of SpansAccounted: the rows are held against what reached the collector.
SpansAccountedAccepted ==
  Emitted > 0 => 100 * (Emitted - delta["accepted"] - delta["refused"]) <= MaxUnaccounted * Emitted

SpansAccounted == Emitted > 0 => 100 * Unaccounted <= MaxUnaccounted * Emitted

EndpointProbed == \A p \in Phases : probes[p] >= MinProbes

NonInvasive == rebalancesAfterBaseline = rebalancesBefore

\* no_counter_reset, sampling_resolution and burst_actually_stressed included.
Valid ==
  /\ GeneratorHitTarget
  /\ LoadActuallyDelivered
  /\ ~ fell
  /\ FineSampling
  /\ stressed
  /\ SpansAccounted
  /\ EndpointProbed
  /\ NonInvasive

-----------------------------------------------------------------------------
(* run_experiment. *)

Step(from, to) == pc = from /\ pc' = to

\* The endpoint is started, outside the try.
Start ==
  /\ Step("idle", "starting")
  /\ UNCHANGED <<stages, lastSeen, generated, probes, figures, sampler, ledger>>

EndpointReady ==
  /\ Step("starting", "quiescing")
  /\ UNCHANGED <<stages, lastSeen, generated, probes, figures, sampler, ledger>>

\* read_lag: what is in the topic or, when the broker's metadata has no topic or an
\* error for it, an empty snapshot, whose total_lag is 0.
ReadLag(lag) ==
  \/ lag = topic /\ UNCHANGED ledger
  \/ lag = 0 /\ Mishap /\ UNCHANGED <<exact, lost, extra>>

\* wait_until_quiesced: lag low and no rebalance since the last look, for long
\* enough; a busy look starts it over.
Look ==
  /\ pc = "quiescing"
  /\ \E lag \in {0, topic} :
       LET still == lag <= RecoveredLag /\ lastSeen \in {None, rebalances}
       IN /\ ReadLag(lag)
          /\ \/ lastSeen' = (IF still THEN rebalances ELSE None) /\ UNCHANGED pc
             \/ still /\ lastSeen # None /\ lastSeen' = None /\ pc' = "counting"
  /\ UNCHANGED <<stages, generated, probes, figures, sampler>>

\* What is in the topic now is not the run's.
ReadBefore ==
  /\ Step("counting", "scraping")
  /\ rebalancesBefore' = rebalances
  /\ rowsBefore' = rows
  /\ extra' = topic
  /\ UNCHANGED <<stages, lastSeen, generated, probes, before, rebalancesAfterBaseline, delta,
                 rowsDelta, sampler, exact, lost, mishaps>>

\* Mutant of ScrapeBefore: an unreachable collector is not noticed.
ScrapeBeforeUnchecked ==
  /\ Step("scraping", "baseline")
  /\ before' \in {collector, None}
  /\ sampling' = TRUE
  /\ UNCHANGED <<stages, lastSeen, generated, probes, rowsBefore, rebalancesBefore,
                 rebalancesAfterBaseline, delta, rowsDelta, sample, samples, ledger>>

\* The first scrape, and the two threads.
ScrapeBefore ==
  /\ Step("scraping", "baseline")
  /\ before' = collector
  /\ sampling' = TRUE
  /\ UNCHANGED <<stages, lastSeen, generated, probes, rowsBefore, rebalancesBefore,
                 rebalancesAfterBaseline, delta, rowsDelta, sample, samples, ledger>>

\* run_load creates a span.
Generate(p) ==
  /\ pc = p
  /\ generated[p] < Target
  /\ generated' = [generated EXCEPT ![p] = @ + 1]
  /\ Create
  /\ UNCHANGED <<pc, lastSeen, probes, figures, sampler>>

\* run_load returns.
EndLoad ==
  /\ Step("baseline", "between") \/ Step("burst", "releasing")
  /\ UNCHANGED <<stages, lastSeen, generated, probes, figures, sampler, ledger>>

CountBaseline ==
  /\ Step("between", "stalling")
  /\ rebalancesAfterBaseline' = rebalances
  /\ UNCHANGED <<stages, lastSeen, generated, probes, before, rowsBefore, rebalancesBefore,
                 delta, rowsDelta, sampler, ledger>>

Pause(yes) ==
  /\ frozen' = yes
  /\ UNCHANGED <<queue, topic, rows, collector, rebalances>>

Stall ==
  /\ Step("stalling", "burst")
  /\ Pause(StallConsumer)
  /\ UNCHANGED <<lastSeen, generated, probes, figures, sampler, ledger>>

Release ==
  /\ Step("releasing", "recovering")
  /\ Pause(FALSE)
  /\ UNCHANGED <<lastSeen, generated, probes, figures, sampler, ledger>>

\* sampler.stop and probe.stop, after the recovery.  Their joins have a timeout: a
\* sample in hand may still be appended to the list the result shares.
StopThreads ==
  /\ Step("recovering", "settling")
  /\ sampling' = FALSE
  /\ UNCHANGED <<stages, lastSeen, generated, probes, figures, sample, samples, ledger>>

ScrapeAfter ==
  /\ Step("settling", "tallying")
  /\ delta' = [k \in Counters |-> collector[k] - before[k]]
  /\ UNCHANGED <<stages, lastSeen, generated, probes, before, rowsBefore, rebalancesBefore,
                 rebalancesAfterBaseline, rowsDelta, sampler, ledger>>

CountAfter ==
  /\ Step("tallying", "ended")
  /\ rowsDelta' = rows - rowsBefore
  /\ UNCHANGED <<stages, lastSeen, generated, probes, before, rowsBefore, rebalancesBefore,
                 rebalancesAfterBaseline, delta, sampler, ledger>>

\* The result is lost with the process's memory.
Lose(to) ==
  /\ pc' = to
  /\ lastSeen' = None
  /\ generated' = [p \in Phases |-> 0]
  /\ probes' = [p \in Windows |-> 0]
  /\ before' = [k \in Counters |-> 0]
  /\ rowsBefore' = 0
  /\ rebalancesBefore' = 0
  /\ rebalancesAfterBaseline' = 0
  /\ delta' = [k \in Counters |-> 0]
  /\ rowsDelta' = 0
  /\ sampling' = FALSE
  /\ sample' = None
  /\ last' = None
  /\ fell' = FALSE
  /\ stressed' = FALSE
  /\ UNCHANGED <<stages, ledger>>

\* A timeout, a command that fails (Release's unpause too), an unreachable
\* collector, an interrupt.
Raise ==
  /\ pc # "idle" /\ ~ Over
  /\ Lose("raising")

\* The process is killed: no finally.
Kill ==
  /\ pc \notin {"idle", "done", "failed", "killed"}
  /\ Lose("killed")

\* finally: the endpoint is stopped, and ClickHouse unpaused by a command whose
\* failure nobody looks at; then validate, or the error.
Finally ==
  /\ Step("ended", "done") \/ Step("raising", "failed")
  /\ Pause(FALSE) \/ UNCHANGED stages
  /\ UNCHANGED <<lastSeen, generated, probes, figures, sampler, ledger>>

Experiment ==
  \/ Start \/ EndpointReady \/ Look \/ ReadBefore \/ ScrapeBefore
  \/ (\E p \in Phases : Generate(p)) \/ EndLoad
  \/ CountBaseline \/ Stall \/ Release \/ StopThreads \/ ScrapeAfter \/ CountAfter
  \/ Raise \/ Kill \/ Finally

-----------------------------------------------------------------------------
(* The two threads. *)

ProbeSteps == {"baseline", "between", "stalling", "burst", "releasing", "recovering"}

\* A request the endpoint answers, with a span of its own.  One that was begun before
\* the load of the phase is in no phase's window.
Probe(w) ==
  /\ pc \in ProbeSteps
  /\ w \in {pc, "outside"}
  /\ EndpointSpans < MaxProbes
  /\ probes' = [probes EXCEPT ![w] = @ + 1]
  /\ Create
  /\ UNCHANGED <<pc, lastSeen, generated, figures, sampler>>

\* One that times out, or is answered after the join: its span is emitted all the
\* same, and is in no figure.
ProbeFails ==
  /\ pc \in ProbeSteps \union {"settling"}
  /\ Mishap
  /\ Count("accepted")
  /\ queue' = queue + 1
  /\ UNCHANGED <<topic, rows, frozen, rebalances, run, sampler, exact, lost, extra>>

\* At or after the origin of recovery_seconds.
AfterRelease ==
  pc \in {"recovering", "settling", "tallying", "ended"} \/ (pc = "releasing" /\ ~ StallConsumer)

\* A turn of the sampler.
SampleBegin ==
  /\ sampling
  /\ sample = None
  /\ sample' = [late |-> AfterRelease, lag |-> None]
  /\ UNCHANGED <<stages, run, sampling, samples, ledger>>

\* read_lag, the first of its two requests.
SampleLag ==
  /\ pc # "done"
  /\ sample # None
  /\ sample.lag = None
  /\ \E lag \in {0, topic} : ReadLag(lag) /\ sample' = [sample EXCEPT !.lag = lag]
  /\ UNCHANGED <<stages, run, sampling, samples>>

\* read_collector returns None, or it or read_lag raises: no sample.
SampleSkip ==
  /\ pc # "done"
  /\ sample # None
  /\ sample' = None
  /\ UNCHANGED <<stages, run, sampling, samples, ledger>>

\* decreases, in validate
Falls(a, b) == \E k \in Sampled : b[k] < a[k]

\* read_collector, and the sample is appended.
SampleTake ==
  /\ pc # "done"
  /\ sample # None
  /\ sample.lag # None
  /\ last' = [k \in Sampled |-> collector[k]]
  /\ fell' = (fell \/ (last # None /\ Falls(last, collector)))
  /\ stressed' = (stressed \/ sample.lag >= MinPeakLag)
  /\ sample' = None
  /\ UNCHANGED <<stages, run, sampling, ledger>>

\* Mutant of Timed: a sample's time is that of its end.
TimedAtEnd(s) == AfterRelease

\* The sample's time is not before the origin.
Timed(s) == s.late

\* The condition of recovery_seconds, for the sample in hand once it has its lag.
Recovers == sample # None /\ sample.lag # None /\ Timed(sample) /\ sample.lag <= RecoveredLag

Threads ==
  \/ (\E w \in Windows : Probe(w)) \/ ProbeFails
  \/ SampleBegin \/ SampleLag \/ SampleSkip \/ SampleTake

-----------------------------------------------------------------------------
Init ==
  /\ queue = 0
  /\ topic = OldLag
  /\ rows = 0
  /\ collector = [k \in Counters |-> IF k \in {"accepted", "sent"} THEN OldLag ELSE 0]
  /\ frozen = FALSE
  /\ rebalances = 0
  /\ pc = "idle"
  /\ lastSeen = None
  /\ generated = [p \in Phases |-> 0]
  /\ probes = [p \in Windows |-> 0]
  /\ before = [k \in Counters |-> 0]
  /\ rowsBefore = 0
  /\ rebalancesBefore = 0
  /\ rebalancesAfterBaseline = 0
  /\ delta = [k \in Counters |-> 0]
  /\ rowsDelta = 0
  /\ sampling = FALSE
  /\ sample = None
  /\ last = None
  /\ fell = FALSE
  /\ stressed = FALSE
  /\ exact = TRUE
  /\ lost = 0
  /\ extra = 0
  /\ mishaps = 0

Next == Pipeline \/ Experiment \/ Threads

Spec == Init /\ [][Next]_vars

-----------------------------------------------------------------------------
(* What a valid report may be trusted for. *)

\* A valid run hides at most as many spans lost after the collector as there are
\* rows it does not know it sent, beside the fraction it tolerates (spans_accounted).
LossIsClaimed == pc = "done" /\ Valid /\ exact => 100 * lost <= MaxUnaccounted * Emitted + 100 * extra

\* The lag behind a recovery time was read with ClickHouse running and the load
\* over, though the sampler's two requests may straddle the release and its last
\* sample may outlast its join (recovery_seconds).
RecoveryIsReal == [][~ Recovers /\ Recovers' => ~ frozen /\ pc \notin Phases]_vars

-----------------------------------------------------------------------------
(* What the repository's text says and the code does not do. *)

\* backpressure.py:12-16 and 25-26: a collector that restarts in mid-run invalidates
\* the run.  The check compares neighbouring samples: it misses a restart after
\* which the counters have caught up by the next sample that succeeds.
ResetInvalidates == pc = "done" /\ Valid => exact

\* backpressure.py:27-28 and 531-533: spans lost upstream of Redpanda invalidate the
\* run (spans_accounted).  The check holds what the collector has sent against the
\* rows: what it dropped before sending is in neither, and no other check reads it.
UpstreamLossInvalidates ==
  pc = "done" /\ Valid /\ exact => 100 * delta["dropped"] <= MaxUnaccounted * Emitted

\* lag.py:153-154: a reader "must not be handed fabricated data that reads as
\* measurement".  An empty snapshot has a total lag of 0, and a recovery is read
\* off it (recovery_seconds).
RecoveryIsMeasured == [][~ Recovers /\ Recovers' => topic <= RecoveredLag]_vars

\* backpressure.py:759: "Never leave the stack frozen because a run failed midway".
\* The unpause is the one command of the run whose failure is not looked at.
NeverLeftFrozen == pc \in {"done", "failed"} => ~ frozen
=============================================================================
