------------------------------ MODULE Workload ------------------------------
(***************************************************************************)
(* The traces the emitters send, and the rates they send them at           *)
(* (emitters/workload.py).  A trace is kept as what its consumers depend   *)
(* on: where each span lies in time, and whether it failed.  A random draw *)
(* is any value of a small set; attributes are left out.                   *)
(***************************************************************************)
EXTENDS Integers, Sequences, FiniteSetsExt

CONSTANTS
  MaxSteps,        \* LLM calls of an agent loop, 4 in the code
  Leads,           \* time before the first call, and after the last one
  TTFTs,           \* times to first token, queueing included
  Decodes,         \* times spent decoding; 0 for embeddings
  ToolTimes,       \* durations of a tool call
  Deadline,        \* where a timeout cuts a call, 30_000 ms in the code
  Failures,        \* subset of StatusClass
  Profile,         \* "steady", "burst" or "ramp"
  Sustained, Burst,                     \* rates, in Units per tick
  BurstPeriod, BurstDuration, RampDuration,
  Unit,            \* the credit that one span costs
  MaxCredit        \* max_burst_credit, in Units

StatusClass == {"ok", "client_error", "server_error", "timeout"}

ASSUME WorkloadAssumption ==
  /\ MaxSteps \in Nat \ {0}
  /\ {Leads, TTFTs, Decodes, ToolTimes} \subseteq SUBSET Nat
  /\ {Deadline, Sustained, Burst, MaxCredit} \subseteq Nat
  /\ Failures \subseteq StatusClass \ {"ok"}
  /\ Profile \in {"steady", "burst", "ramp"}
  /\ {BurstPeriod, BurstDuration, RampDuration, Unit} \subseteq Nat \ {0}

-----------------------------------------------------------------------------
(* WorkloadGenerator. *)

SpanData(kind, start, duration, status) ==
  [kind |-> kind, start |-> start, duration |-> duration, status |-> status]

\* A timeout is cut at the deadline; another failure ends before its first token.
LLMCall(start) ==
  LET ended(ttft, decode, status) ==
        CASE status = "ok" -> {ttft + decode}
          [] status = "timeout" -> {Min({ttft + decode, Deadline})}
          [] OTHER -> (ttft \div 5) .. ((4 * ttft) \div 5)
  IN UNION {{SpanData("client", start, d, status) : d \in ended(ttft, decode, status)} :
              ttft \in TTFTs, decode \in Decodes, status \in Failures \union {"ok"}}

ToolSpan(start) == {SpanData("internal", start, d, "ok") : d \in ToolTimes}

\* Mutant of Then: the next span starts where this one did.
ThenInPlace(loop, s) == [children |-> Append(loop.children, s), cursor |-> loop.cursor]

\* A span is added to the loop, and the cursor goes to its end.
Then(loop, s) == [children |-> Append(loop.children, s), cursor |-> loop.cursor + s.duration]

\* A loop goes on with a call, or with a tool and then a call if it is not the first.
LongerLoops(loops, n) ==
  LET tooled == UNION {{Then(l, t) : t \in ToolSpan(l.cursor)} : l \in loops}
      ready == IF n = 1 THEN loops ELSE loops \union tooled
  IN UNION {{Then(l, s) : s \in LLMCall(l.cursor)} : l \in ready}

\* The loops of n calls.
Loops[n \in 0 .. MaxSteps] ==
  IF n = 0 THEN {[children |-> << >>, cursor |-> c] : c \in Leads}
  ELSE LongerLoops(Loops[n - 1], n)

\* The status of the first child that failed.
Worst(children) ==
  LET failed == {i \in DOMAIN children : children[i].status # "ok"}
  IN IF failed = {} THEN "ok" ELSE children[Min(failed)].status

Traces ==
  UNION {{[root |-> SpanData("server", 0, l.cursor + tail, Worst(l.children)),
           children |-> l.children] : l \in Loops[n], tail \in Leads} : n \in 1 .. MaxSteps}

\* walk counts the root and its children, which have none of their own.
SpanCount(trace) == 1 + Len(trace.children)

-----------------------------------------------------------------------------
(* LoadProfile and RateLimiter. *)

TargetRate(t) ==
  CASE Profile = "steady" -> Sustained
    [] Profile = "burst" -> IF t % BurstPeriod < BurstDuration THEN Burst ELSE Sustained
    [] Profile = "ramp" ->
         LET low == Sustained \div 10
         IN low + ((Burst - low) * Min({t, RampDuration})) \div RampDuration

\* The spans a credit is good for.
Whole(credit) == credit \div Unit

\* Mutant of Rest: what was granted is not taken off.
RestUnspent(credit) == credit

\* What is kept of it.
Rest(credit) == credit - Unit * Whole(credit)

\* The credit after a delay of dt.
Credit(credit, rate, dt) == Min({MaxCredit, credit + rate * dt})
=============================================================================
