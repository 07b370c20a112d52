------------------------------- MODULE Ingest -------------------------------
(***************************************************************************)
(* The way of a batch from the collector (deploy/otelcol/config.yaml)      *)
(* through the partitions of otel.spans (deploy/redpanda/topics.yaml) to   *)
(* the two tables fed by the Kafka engine (010, 030 and 050 under          *)
(* schemas/clickhouse), and the lag reader beside it (ingest/lag.py).      *)
(*                                                                         *)
(* A message holds the spans of one trace in one batch: the exporter sends *)
(* a batch as one message for each trace, and queues, counts and retries   *)
(* it as a whole.  The collector, the broker and the engine are modelled   *)
(* as this repository configures them.  Mishaps are bounded by MaxMishaps: *)
(* a restart of the collector, the loss of an answer to it, a batch of     *)
(* which only a part was sent, retention, and a block the engine starts    *)
(* again.                                                                  *)
(***************************************************************************)
EXTENDS Integers, Sequences, FiniteSetsExt

CONSTANTS
  Messages,
  Readable,      \* messages the engine can parse
  Batches,
  BatchOf,       \* the batch a message is a part of
  Partitions,
  PartitionOf,   \* partition_traces_by_id
  QueueSize,     \* queue_size, in batches
  MaxMishaps,
  None           \* no offset, no block, no reading

Views == {"mv_spans_raw", "mv_spans_ingest_errors"}
Block == [from : Nat, to : Nat, done : SUBSET Views]

ASSUME IngestAssumption ==
  /\ Readable \subseteq Messages
  /\ BatchOf \in [Messages -> Batches]
  /\ PartitionOf \in [Messages -> Partitions]
  /\ QueueSize \in Nat \ {0}
  /\ MaxMishaps \in Nat
  /\ None \notin Nat \union Block

VARIABLES
  stage,      \* where the collector has each message
  log,        \* the messages of each partition, those that retention took included
  logStart,   \* messages of each partition that retention took
  committed,  \* offset the group has committed: the first not consumed
  block,      \* the block in hand: its first and last offset, and the views done
  table,      \* the messages each view has put into its table
  reading,    \* the lag reader: offsets read, high watermarks read so far
  backlog,    \* history: messages outstanding in each partition when the reading began
  mishaps

collectorVars == <<stage>>
topicVars == <<log, logStart>>
engineVars == <<committed, block, table>>
readerVars == <<reading, backlog>>
vars == <<stage, log, logStart, committed, block, table, reading, backlog, mishaps>>

Stages == {"out", "refused", "queued", "sent", "rejected", "failed", "forgotten"}
Reading(S) == [position : [S -> Nat], high : [S -> Nat \union {None}]]
NoBacklog == [p \in Partitions |-> 0]

TypeOK ==
  /\ stage \in [Messages -> Stages]
  /\ Cardinality({BatchOf[m] : m \in {k \in Messages : stage[k] = "queued"}}) <= QueueSize
  /\ log \in [Partitions -> Seq(Messages)]
  /\ logStart \in [Partitions -> Nat]
  /\ committed \in [Partitions -> Nat \union {None}]
  /\ block \in [Partitions -> Block \union {None}]
  /\ \A p \in Partitions :
       /\ logStart[p] <= Len(log[p])
       /\ committed[p] # None => committed[p] <= Len(log[p])
       /\ block[p] # None => block[p].from < block[p].to /\ block[p].to <= Len(log[p])
  /\ table \in [Views -> SUBSET Messages]
  /\ reading \in {None} \/ reading \in Reading({}) \/ reading \in Reading(Partitions)
  /\ backlog \in [Partitions -> Nat]
  /\ mishaps \in 0 .. MaxMishaps

Mishap ==
  /\ mishaps < MaxMishaps
  /\ mishaps' = mishaps + 1

-----------------------------------------------------------------------------
(* The collector. *)

Queue == {m \in Messages : stage[m] = "queued"}
QueuedBatches == {BatchOf[m] : m \in Queue}
Parts(b) == {m \in Messages : BatchOf[m] = b}
Move(ms, to) == stage' = [m \in Messages |-> IF m \in ms THEN to ELSE stage[m]]

\* A batch that has not yet come to the collector.
Arrives(b, to) ==
  /\ \A m \in Parts(b) : stage[m] = "out"
  /\ Move(Parts(b), to)
  /\ UNCHANGED <<topicVars, engineVars, readerVars, mishaps>>

\* memory_limiter: refused at the receiver, and counted.
Refuse(b) == Arrives(b, "refused")

\* Mutant of Enqueue: the queue grows.
EnqueueAlways(b) == Arrives(b, "queued")

\* sending_queue: a full one takes no batch, and counts it; it blocks nobody.
Enqueue(b) == Arrives(b, IF Cardinality(QueuedBatches) < QueueSize THEN "queued" ELSE "rejected")

\* The broker takes a message.  Without its answer the message is sent again.
Send(m, answered) ==
  /\ stage[m] = "queued"
  /\ log' = [log EXCEPT ![PartitionOf[m]] = Append(@, m)]
  /\ IF answered THEN Move({m}, "sent") /\ UNCHANGED mishaps
                 ELSE Mishap /\ UNCHANGED stage
  /\ UNCHANGED <<logStart, engineVars, readerVars>>

Sent(b) == {m \in Parts(b) : stage[m] = "sent"}

\* retry_on_failure: a batch of which a part was not sent is tried again as a whole.
Retry(b) ==
  /\ b \in QueuedBatches
  /\ Sent(b) # {}
  /\ Mishap
  /\ Move(Sent(b), "queued")
  /\ UNCHANGED <<topicVars, engineVars, readerVars>>

\* Given up after max_elapsed_time, and counted as a whole.
GiveUp(b) ==
  /\ b \in QueuedBatches
  /\ Move(Parts(b), "failed")
  /\ UNCHANGED <<topicVars, engineVars, readerVars, mishaps>>

\* The queue is in memory, and so are the counters.
RestartCollector ==
  /\ Mishap
  /\ stage' = [m \in Messages |-> IF stage[m] = "queued" THEN "forgotten" ELSE stage[m]]
  /\ UNCHANGED <<topicVars, engineVars, readerVars>>

-----------------------------------------------------------------------------
(* The topic and the Kafka engine. *)

High(p) == Len(log[p])

\* retention.ms, retention.bytes
Expire(p) ==
  /\ Mishap
  /\ logStart[p] < High(p)
  /\ logStart' = [logStart EXCEPT ![p] = @ + 1]
  /\ UNCHANGED <<collectorVars, log, engineVars, readerVars>>

\* What a group that has committed nothing has still to read begins at 0.
Position(p) == IF committed[p] = None THEN 0 ELSE committed[p]

\* Mutant of Poll: the engine waits for more than one message.
PollFullBlocks(p, to) ==
  /\ block[p] = None
  /\ LET from == Max({Position(p), logStart[p]})
     IN /\ from + 1 < to
        /\ block' = [block EXCEPT ![p] = [from |-> from, to |-> to, done |-> {}]]
  /\ UNCHANGED <<collectorVars, topicVars, committed, table, readerVars, mishaps>>

\* An offset that retention has taken is moved to the log's start.
Poll(p, to) ==
  /\ block[p] = None
  /\ LET from == Max({Position(p), logStart[p]})
     IN /\ from < to
        /\ block' = [block EXCEPT ![p] = [from |-> from, to |-> to, done |-> {}]]
  /\ UNCHANGED <<collectorVars, topicVars, committed, table, readerVars, mishaps>>

Takes(view, m) == (m \in Readable) <=> (view = "mv_spans_raw")

\* WHERE _error = '' in the one view, WHERE _error != '' in the other.
Insert(p, view) ==
  /\ block[p] # None
  /\ view \notin block[p].done
  /\ block' = [block EXCEPT ![p].done = @ \union {view}]
  /\ table' = [table EXCEPT ![view] = @ \union
                {m \in Messages : /\ Takes(view, m)
                                  /\ \E i \in block[p].from + 1 .. block[p].to : log[p][i] = m}]
  /\ UNCHANGED <<collectorVars, topicVars, committed, readerVars, mishaps>>

\* Mutant of Commit: the block is committed when one view has stored it.
CommitHalf(p) ==
  /\ block[p] # None
  /\ block[p].done # {}
  /\ committed' = [committed EXCEPT ![p] = block[p].to]
  /\ block' = [block EXCEPT ![p] = None]
  /\ UNCHANGED <<collectorVars, topicVars, table, readerVars, mishaps>>

\* After both views.
Commit(p) ==
  /\ block[p] # None
  /\ block[p].done = Views
  /\ committed' = [committed EXCEPT ![p] = block[p].to]
  /\ block' = [block EXCEPT ![p] = None]
  /\ UNCHANGED <<collectorVars, topicVars, table, readerVars, mishaps>>

\* An insert that fails, a rebalance or a restart: the block is read again.
Abandon(p) ==
  /\ Mishap
  /\ block[p] # None
  /\ block' = [block EXCEPT ![p] = None]
  /\ UNCHANGED <<collectorVars, topicVars, committed, table, readerVars>>

-----------------------------------------------------------------------------
(* read_lag and record. *)

Outstanding(p) == High(p) - Max({Position(p), logStart[p]})

\* Mutant of Offset: nothing committed, nothing outstanding.
OffsetLatest(p) == IF committed[p] = None THEN High(p) ELSE committed[p]

\* No offset is a negative sentinel: everything is outstanding.
Offset(p) == IF committed[p] = None THEN 0 ELSE committed[p]

\* list_consumer_group_offsets, for all partitions at once.
ReadCommitted ==
  /\ reading = None
  /\ reading' = [position |-> [p \in Partitions |-> Offset(p)],
                 high |-> [p \in Partitions |-> None]]
  /\ backlog' = [p \in Partitions |-> Outstanding(p)]
  /\ UNCHANGED <<collectorVars, topicVars, engineVars, mishaps>>

\* get_watermark_offsets, for one partition at a time.
ReadHigh(p) ==
  /\ reading # None
  /\ p \in DOMAIN reading.high
  /\ reading.high[p] = None
  /\ reading' = [reading EXCEPT !.high[p] = High(p)]
  /\ UNCHANGED <<collectorVars, topicVars, engineVars, backlog, mishaps>>

\* The topic's metadata is missing or in error: a reading of no partition.
ReadNothing ==
  /\ reading = None
  /\ reading' = [position |-> << >>, high |-> << >>]
  /\ UNCHANGED <<collectorVars, topicVars, engineVars, backlog, mishaps>>

Complete == reading # None /\ \A p \in DOMAIN reading.high : reading.high[p] # None

PartitionLag(p) == Max({0, reading.high[p] - reading.position[p]})

\* record: a row of pipeline_health if the collector can be scraped too, no row
\* otherwise, nor if a request of read_lag fails.
Record ==
  /\ reading # None
  /\ reading' = None
  /\ backlog' = NoBacklog
  /\ UNCHANGED <<collectorVars, topicVars, engineVars, mishaps>>

-----------------------------------------------------------------------------
Init ==
  /\ stage = [m \in Messages |-> "out"]
  /\ log = [p \in Partitions |-> << >>]
  /\ logStart = [p \in Partitions |-> 0]
  /\ committed = [p \in Partitions |-> None]
  /\ block = [p \in Partitions |-> None]
  /\ table = [v \in Views |-> {}]
  /\ reading = None
  /\ backlog = NoBacklog
  /\ mishaps = 0

Collector ==
  \/ \E b \in Batches : Refuse(b) \/ Enqueue(b) \/ Retry(b) \/ GiveUp(b)
  \/ \E m \in Messages, answered \in BOOLEAN : Send(m, answered)
  \/ RestartCollector

PollSome(p) == \E to \in 1 .. High(p) : Poll(p, to)

InsertSome(p) == \E view \in Views : Insert(p, view)

Engine == \E p \in Partitions : PollSome(p) \/ InsertSome(p) \/ Commit(p) \/ Abandon(p)

Reader == ReadCommitted \/ ReadNothing \/ Record \/ \E p \in Partitions : ReadHigh(p)

Next == Collector \/ Engine \/ Reader \/ \E p \in Partitions : Expire(p)

\* The collector works on its queue, the engine polls, inserts and commits.
Fairness ==
  /\ \A m \in Messages : WF_vars(Send(m, TRUE) \/ GiveUp(BatchOf[m]))
  /\ \A p \in Partitions : WF_vars(PollSome(p) \/ InsertSome(p) \/ Commit(p))

Spec == Init /\ [][Next]_vars

FairSpec == Spec /\ Fairness

-----------------------------------------------------------------------------
(* What the way promises. *)

\* Offsets the engine will still come to, or has in hand.
Ahead(p) ==
  {i \in Position(p) + 1 .. High(p) :
     \/ i > logStart[p]
     \/ block[p] # None /\ i > block[p].from /\ i <= block[p].to}

OnTheWay == Queue \union UNION {{log[p][i] : i \in Ahead(p)} : p \in Partitions}
Stored == UNION {table[v] : v \in Views}
GivenUp == {m \in Messages : stage[m] \in {"refused", "rejected", "failed"}}
Taken == {m \in Messages : stage[m] # "out"}

Promise == INSTANCE Delivery WITH
  pending <- OnTheWay, stored <- Stored, counted <- GivenUp,
  silent <- Taken \ (OnTheWay \union Stored \union GivenUp)

\* Of a message the collector was handed, no place loses track in silence but by a
\* restart of the collector or by retention, and none that was not stored is let
\* go of (010_kafka_spans.sql, 050_mv_ingest_errors.sql, config.yaml).
ImplementsDelivery == Promise!Spec

\* A message on its way is stored, in the end, or some counter says it was not, or a
\* mishap took it (010_kafka_spans.sql, config.yaml).
EachIsDecided == Promise!EachIsDecided

\* The lag read from a partition is at least the backlog it had when the reading
\* began, whatever is sent and consumed while it lasts; and so are their sum and
\* their maximum, which are recorded (read_lag, record).
LagCoversBacklog ==
  Complete => \A p \in DOMAIN reading.high : PartitionLag(p) >= backlog[p]
=============================================================================
