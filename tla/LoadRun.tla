------------------------------ MODULE LoadRun -------------------------------
(***************************************************************************)
(* run_load (emitters/load.py): worker processes emit traces at a target   *)
(* rate, flush their exporter and report; the parent waits for a report of *)
(* each.  A worker builds and emits a trace at once: nothing of it is seen *)
(* by another process before its spans are in the exporter's queue.        *)
(*                                                                         *)
(* What leaves that queue may be lost on the way: that is Backpressure's   *)
(* subject.  With one worker the code runs it in the parent; this is the   *)
(* path with several.                                                      *)
(***************************************************************************)
EXTENDS Workload

CONSTANTS
  Workers,
  Duration,     \* ticks of load
  MaxDelay,     \* bound on the ticks between two looks at the clock
  MaxQueueSize, \* max_queue_size of the BatchSpanProcessor
  MaxFailures,  \* bound on workers that raise or are killed
  NoTrace       \* no trace

ASSUME LoadRunAssumption ==
  /\ {Duration, MaxDelay, MaxQueueSize, MaxFailures} \subseteq Nat
  /\ NoTrace \notin Traces

VARIABLES
  parent,    \* run_load
  collected, \* workers whose report it has taken off the queue
  worker,    \* each worker's step
  age,       \* ticks since its start, at its last look at the clock
  credit,    \* RateLimiter._credit
  allowance, \* what is left of its allowance
  spans,     \* spans it has emitted
  buffer,    \* spans in its exporter's queue
  report,    \* the spans it has reported
  failures,
  grants,    \* history: allowances it was granted
  trace      \* history: the trace just built

loadVars == <<parent, collected, worker, age, credit, allowance, spans, buffer, report, failures,
          grants, trace>>

Steps == {"unborn", "starting", "pacing", "emitting", "flushing", "unwinding", "reporting",
          "exited", "dead"}

LoadTypeOK ==
  /\ parent \in {"idle", "collecting", "joining", "returned", "raised", "gone"}
  /\ collected \subseteq {w \in Workers : worker[w] = "exited"}
  /\ worker \in [Workers -> Steps]
  /\ age \in [Workers -> 0 .. Duration + MaxDelay]
  /\ credit \in [Workers -> 0 .. MaxCredit]
  /\ allowance \in [Workers -> Nat]
  /\ spans \in [Workers -> Nat]
  /\ buffer \in [Workers -> 0 .. MaxQueueSize]
  /\ report \in [Workers -> Nat]
  /\ failures \in 0 .. MaxFailures
  /\ grants \in [Workers -> Nat]
  /\ trace \in Traces \union {NoTrace}

-----------------------------------------------------------------------------
(* _run_worker. *)

Goto(w, from, to) == worker[w] = from /\ worker' = [worker EXCEPT ![w] = to]

Begin(w) ==
  /\ Goto(w, "starting", "pacing")
  /\ UNCHANGED <<parent, collected, age, credit, allowance, spans, buffer, report, failures,
                 grants>>

\* A turn of the loop, dt after the last one: the rate at that time, and what the
\* limiter allows.
Acquire(w, dt) ==
  /\ worker[w] = "pacing"
  /\ age[w] + dt < Duration
  /\ LET new == Credit(credit[w], TargetRate(age[w] + dt), dt)
     IN /\ credit' = [credit EXCEPT ![w] = Rest(new)]
        /\ allowance' = [allowance EXCEPT ![w] = Whole(new)]
        /\ IF Whole(new) > 0
             THEN /\ worker' = [worker EXCEPT ![w] = "emitting"]
                  /\ grants' = [grants EXCEPT ![w] = @ + 1]
             ELSE UNCHANGED <<worker, grants>>
  /\ age' = [age EXCEPT ![w] = @ + dt]
  /\ UNCHANGED <<parent, collected, spans, buffer, report, failures>>

\* Mutant of Queued: the queue grows.
QueuedAll(n) == n

\* What the exporter's queue has no room for is dropped.
Queued(n) == Min({n, MaxQueueSize})

\* generate_trace, emit_trace: whole traces until the allowance is used up.
Emit(w, t) ==
  /\ worker[w] = "emitting"
  /\ spans' = [spans EXCEPT ![w] = @ + SpanCount(t)]
  /\ buffer' = [buffer EXCEPT ![w] = Queued(@ + SpanCount(t))]
  /\ allowance' = [allowance EXCEPT ![w] = Max({0, @ - SpanCount(t)})]
  /\ worker' = [worker EXCEPT ![w] = IF allowance'[w] = 0 THEN "pacing" ELSE @]
  /\ UNCHANGED <<parent, collected, age, credit, report, failures, grants>>

\* The exporter's thread takes a batch.
Export(w) ==
  /\ buffer[w] > 0
  /\ worker[w] \notin {"exited", "dead"}
  /\ \E left \in 0 .. buffer[w] - 1 : buffer' = [buffer EXCEPT ![w] = left]
  /\ UNCHANGED <<parent, collected, worker, age, credit, allowance, spans, report, failures,
                 grants>>

Finish(w, dt) ==
  /\ Goto(w, "pacing", "flushing")
  /\ age[w] + dt >= Duration
  /\ age' = [age EXCEPT ![w] = @ + dt]
  /\ UNCHANGED <<parent, collected, credit, allowance, spans, buffer, report, failures,
                 grants>>

\* Mutant of Flush: the provider is not shut down.
FlushNothing(w) ==
  /\ Goto(w, "flushing", "reporting") \/ Goto(w, "unwinding", "dead")
  /\ UNCHANGED <<parent, collected, age, credit, allowance, spans, buffer, report, failures,
                 grants>>

\* provider.shutdown, in the finally: of a worker that failed as well.
Flush(w) ==
  /\ Goto(w, "flushing", "reporting") \/ Goto(w, "unwinding", "dead")
  /\ buffer' = [buffer EXCEPT ![w] = 0]
  /\ UNCHANGED <<parent, collected, age, credit, allowance, spans, report, failures, grants>>

Report(w) ==
  /\ Goto(w, "reporting", "exited")
  /\ report' = [report EXCEPT ![w] = spans[w]]
  /\ UNCHANGED <<parent, collected, age, credit, allowance, spans, buffer, failures, grants>>

Fail(w) ==
  /\ failures < MaxFailures
  /\ failures' = failures + 1
  /\ \/ Goto(w, "pacing", "unwinding") \/ Goto(w, "emitting", "unwinding")
     \/ Goto(w, "starting", "dead")
  /\ UNCHANGED <<parent, collected, age, credit, allowance, spans, buffer, report, grants>>

Kill(w) ==
  /\ failures < MaxFailures
  /\ failures' = failures + 1
  /\ worker[w] \notin {"unborn", "exited", "dead"}
  /\ worker' = [worker EXCEPT ![w] = "dead"]
  /\ buffer' = [buffer EXCEPT ![w] = 0]
  /\ UNCHANGED <<parent, collected, age, credit, allowance, spans, report, grants>>

-----------------------------------------------------------------------------
(* The parent. *)

Spawn ==
  /\ parent = "idle"
  /\ parent' = "collecting"
  /\ worker' = [w \in Workers |-> "starting"]
  /\ UNCHANGED <<collected, age, credit, allowance, spans, buffer, report, failures, grants>>

\* queue.get
Get(w) ==
  /\ parent = "collecting"
  /\ worker[w] = "exited"
  /\ w \notin collected
  /\ collected' = collected \union {w}
  /\ parent' = IF collected' = Workers THEN "joining" ELSE parent
  /\ UNCHANGED <<worker, age, credit, allowance, spans, buffer, report, failures, grants>>

\* No report is there, for as long as the queue is waited for.
Timeout ==
  /\ parent = "collecting"
  /\ \A w \in Workers : worker[w] = "exited" => w \in collected
  /\ parent' = "raised"
  /\ UNCHANGED <<collected, worker, age, credit, allowance, spans, buffer, report, failures,
                 grants>>

Join ==
  /\ parent = "joining"
  /\ parent' = "returned"
  /\ UNCHANGED <<collected, worker, age, credit, allowance, spans, buffer, report, failures,
                 grants>>

\* The workers are daemons: those that still run go with the parent's process.
ProcessEnds ==
  /\ parent = "raised"
  /\ parent' = "gone"
  /\ worker' = [w \in Workers |-> IF worker[w] = "exited" THEN "exited" ELSE "dead"]
  /\ buffer' = [w \in Workers |-> 0]
  /\ UNCHANGED <<collected, age, credit, allowance, spans, report, failures, grants>>

-----------------------------------------------------------------------------
LoadInit ==
  /\ parent = "idle"
  /\ collected = {}
  /\ worker = [w \in Workers |-> "unborn"]
  /\ age = [w \in Workers |-> 0]
  /\ credit = [w \in Workers |-> 0]
  /\ allowance = [w \in Workers |-> 0]
  /\ spans = [w \in Workers |-> 0]
  /\ buffer = [w \in Workers |-> 0]
  /\ report = [w \in Workers |-> 0]
  /\ failures = 0
  /\ grants = [w \in Workers |-> 0]
  /\ trace = NoTrace

Work(w) ==
  \/ Begin(w) \/ Export(w) \/ Flush(w) \/ Report(w) \/ Fail(w) \/ Kill(w)
  \/ \E dt \in 0 .. MaxDelay : Acquire(w, dt) \/ Finish(w, dt)

Parent == Spawn \/ Timeout \/ Join \/ ProcessEnds \/ \E w \in Workers : Get(w)

LoadNext ==
  \/ \E w \in Workers, t \in Traces : Emit(w, t) /\ trace' = t
  \/ (Parent \/ \E w \in Workers : Work(w)) /\ trace' = NoTrace

LoadSpec == LoadInit /\ [][LoadNext]_loadVars

-----------------------------------------------------------------------------
\* When run_load returns, it has the spans of every worker, none left out, and
\* nothing it counts is still in an exporter's queue (_run_worker: "Without this
\* the tail of every run is silently discarded").
TallyIsWhole ==
  parent = "returned" =>
    \A w \in Workers : worker[w] = "exited" /\ report[w] = spans[w] /\ buffer[w] = 0

\* A worker is never ahead of the highest rate of its profile, but for the last
\* trace of each allowance, which may run over it (RateLimiter, _run_worker).
Paced ==
  \A w \in Workers :
    Unit * spans[w] <= Max({Sustained, Burst}) * age[w] + Unit * ((2 * MaxSteps - 1) * grants[w])

\* The spans of a trace follow one another inside its root, and the root fails
\* if, and as, the first of them fails (generate_trace).
TraceNests ==
  trace # NoTrace =>
    LET c == trace.children
        end(s) == s.start + s.duration
    IN /\ \A i \in DOMAIN c : end(c[i]) <= end(trace.root)
       /\ \A i, j \in DOMAIN c : i < j => end(c[i]) <= c[j].start
       /\ (trace.root.status = "ok") <=> (\A i \in DOMAIN c : c[i].status = "ok")
=============================================================================
