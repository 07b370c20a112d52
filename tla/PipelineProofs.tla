---------------------------- MODULE PipelineProofs ---------------------------
(***************************************************************************)
(* Proofs about what sends and what takes in: the traces and the rates of  *)
(* Workload, the processes of LoadRun, and Ingest's way from the collector *)
(* to the tables.  They hold for any number of workers, messages and       *)
(* partitions, any profile and any traces.                                 *)
(***************************************************************************)
EXTENDS LoadRun, Ingest, FiniteSetTheorems, WellFoundedInduction, TLAPS

-----------------------------------------------------------------------------
(***************************************************************************)
(* Numbers.                                                                *)
(***************************************************************************)
LEMMA Smallest ==
  ASSUME NEW S \in SUBSET Nat, S # {}
  PROVE  \E n \in S : \A m \in S : n <= m
<1> DEFINE R == {ss \in Nat \X Nat : ss[1] < ss[2]}
<1>1. IsWellFoundedOn(R, Nat)
  BY NatLessThanWellFounded DEF OpToRel
<1>2. \A m, k \in Nat : m < k => <<m, k>> \in R
  OBVIOUS
<1> HIDE DEF R
<1>3. PICK n \in S : \A m \in S : <<m, n>> \notin R
  BY <1>1, WFMin
<1>4. \A m \in S : ~ (m < n) /\ m \in Nat /\ n \in Nat
  BY <1>2, <1>3
<1>5. QED
  BY <1>4

\* Induction over the numbers.
LEMMA Upwards ==
  ASSUME NEW S \in SUBSET Nat, 0 \in S, \A n \in S : n + 1 \in S
  PROVE  S = Nat
<1>1. SUFFICES ASSUME Nat \ S # {}
               PROVE  FALSE
  OBVIOUS
<1>2. PICK n \in Nat \ S : \A m \in Nat \ S : n <= m
  BY <1>1, Smallest
<1>3. n # 0 /\ n - 1 \in S
  BY <1>2
<1>4. QED
  BY <1>3, <1>2

LEMMA MinOfSome ==
  ASSUME NEW S \in SUBSET Nat, S # {}
  PROVE  Min(S) \in S /\ \A m \in S : Min(S) <= m
BY Smallest DEF Min

LEMMA MinOfTwo ==
  ASSUME NEW a \in Int, NEW b \in Int
  PROVE  Min({a, b}) = IF a <= b THEN a ELSE b
BY DEF Min

LEMMA MaxOfTwo ==
  ASSUME NEW a \in Int, NEW b \in Int
  PROVE  Max({a, b}) = IF a >= b THEN a ELSE b
BY DEF Max

LEMMA Quotient ==
  ASSUME NEW x \in Int, NEW d \in Nat \ {0}
  PROVE  x \div d \in Int /\ d * (x \div d) <= x /\ x < d * (x \div d) + d
OBVIOUS

LEMMA ProductGrows ==
  ASSUME NEW a \in Int, NEW b \in Int, NEW k \in Nat, a <= b
  PROVE  k * a <= k * b
<1>1. b = a + (b - a) /\ b - a \in Nat
  OBVIOUS
<1>2. \A x, y \in Nat : x * y \in Nat
  OBVIOUS
<1>3. k * (b - a) \in Nat /\ k * b = k * a + k * (b - a)
  BY <1>1, <1>2
<1>4. QED
  BY <1>3

-----------------------------------------------------------------------------
(***************************************************************************)
(* The traces (WorkloadGenerator).                                         *)
(***************************************************************************)
Span == [kind : {"client", "internal"}, start : Nat, duration : Nat, status : StatusClass]

End(s) == s.start + s.duration

\* The spans of a loop so far follow one another, and end before its cursor.
InOrder(l) ==
  /\ l.children \in Seq(Span)
  /\ l.cursor \in Nat
  /\ \A i \in DOMAIN l.children : End(l.children[i]) <= l.cursor
  /\ \A i, j \in DOMAIN l.children : i < j => End(l.children[i]) <= l.children[j].start

\* The most spans a loop of n calls has.
Longest(n) == IF n = 0 THEN 0 ELSE 2 * n - 1

LoopsInOrder(loops, n) == \A l \in loops : InOrder(l) /\ Len(l.children) <= Longest(n)

LEMMA CallsAreSpans ==
  ASSUME NEW k \in Nat, NEW s \in LLMCall(k)
  PROVE  s \in Span /\ s.start = k
<1> DEFINE ended(ttft, decode, status) ==
        CASE status = "ok" -> {ttft + decode}
          [] status = "timeout" -> {Min({ttft + decode, Deadline})}
          [] OTHER -> (ttft \div 5) .. ((4 * ttft) \div 5)
<1>1. PICK ttft \in TTFTs, decode \in Decodes, status \in Failures \union {"ok"} :
        \E d \in ended(ttft, decode, status) : s = SpanData("client", k, d, status)
  <2>1. LLMCall(k) = UNION {{SpanData("client", k, d, status) : d \in ended(ttft, decode, status)} :
                              ttft \in TTFTs, decode \in Decodes, status \in Failures \union {"ok"}}
    BY DEF LLMCall
  <2> HIDE DEF ended
  <2>2. QED
    BY <2>1
<1>2. ttft \in Nat /\ decode \in Nat /\ Deadline \in Nat /\ status \in StatusClass
  BY WorkloadAssumption DEF StatusClass
<1>3. PICK d \in ended(ttft, decode, status) : s = SpanData("client", k, d, status)
  BY <1>1
<1>4. ended(ttft, decode, status) \subseteq Nat
  <2>1. CASE status = "ok"
    BY <2>1, <1>2
  <2>2. CASE status = "timeout"
    BY <2>2, <1>2, MinOfTwo
  <2>3. CASE status # "ok" /\ status # "timeout"
    <3>1. ended(ttft, decode, status) = (ttft \div 5) .. ((4 * ttft) \div 5)
      BY <2>3
    <3>2. \A x \in Nat : x \div 5 \in Nat
      OBVIOUS
    <3>3. ttft \div 5 \in Nat /\ (4 * ttft) \div 5 \in Nat
      BY <1>2, <3>2
    <3> HIDE DEF ended
    <3>4. QED
      BY <3>1, <3>3
  <2>4. QED
    BY <2>1, <2>2, <2>3
<1> HIDE DEF ended
<1>5. d \in Nat
  BY <1>3, <1>4
<1>6. QED
  BY <1>2, <1>3, <1>5 DEF SpanData, Span

LEMMA ToolsAreSpans ==
  ASSUME NEW k \in Nat, NEW s \in ToolSpan(k)
  PROVE  s \in Span /\ s.start = k
BY WorkloadAssumption DEF ToolSpan, SpanData, Span, StatusClass

LEMMA ThenInOrder ==
  ASSUME NEW l, InOrder(l), NEW s \in Span, s.start = l.cursor
  PROVE  InOrder(Then(l, s)) /\ Len(Then(l, s).children) = Len(l.children) + 1
<1> DEFINE c == l.children
           n == Len(l.children)
           c2 == Append(c, s)
<1>1. /\ Then(l, s).children = c2 /\ Then(l, s).cursor = l.cursor + s.duration
      /\ n \in Nat /\ c \in Seq(Span) /\ l.cursor \in Nat /\ s.duration \in Nat
  BY DEF Then, InOrder, Span
<1>2. /\ c2 \in Seq(Span) /\ Len(c2) = n + 1 /\ c2[n + 1] = s
      /\ \A i \in 1 .. n : c2[i] = c[i] /\ c[i] \in Span
  BY <1>1
<1>3. DOMAIN c2 = 1 .. n + 1 /\ DOMAIN c = 1 .. n
  BY <1>1, <1>2
<1>4. End(s) = l.cursor + s.duration
  BY DEF End
<1>5. \A i \in 1 .. n : End(c[i]) <= l.cursor /\ End(c[i]) \in Nat
  <2>1. \A x \in Span : End(x) \in Nat
    BY DEF End, Span
  <2>2. QED
    BY <2>1, <1>2, <1>3 DEF InOrder
<1>6. \A i \in 1 .. n + 1 : End(c2[i]) <= l.cursor + s.duration
  <2> TAKE i \in 1 .. n + 1
  <2>1. CASE i = n + 1
    BY <2>1, <1>1, <1>2, <1>4
  <2>2. CASE i \in 1 .. n
    BY <2>2, <1>1, <1>2, <1>5
  <2>3. QED
    BY <2>1, <2>2, <1>1
<1>7. ASSUME NEW i \in 1 .. n + 1, NEW j \in 1 .. n + 1, i < j
      PROVE  End(c2[i]) <= c2[j].start
  <2>1. i \in 1 .. n
    BY <1>7, <1>1
  <2>2. CASE j = n + 1
    BY <2>1, <2>2, <1>2, <1>5
  <2>3. CASE j \in 1 .. n
    BY <2>1, <2>3, <1>2, <1>3, <1>7 DEF InOrder
  <2>4. QED
    BY <2>2, <2>3, <1>1
<1> HIDE DEF c2
<1>8. l.cursor + s.duration \in Nat
  BY <1>1
<1>9. QED
  BY <1>1, <1>2, <1>3, <1>6, <1>7, <1>8 DEF InOrder

LEMMA LongerInOrder ==
  ASSUME NEW n \in Nat \ {0}, NEW loops, LoopsInOrder(loops, n - 1)
  PROVE  LoopsInOrder(LongerLoops(loops, n), n)
<1> DEFINE tooled == UNION {{Then(l, t) : t \in ToolSpan(l.cursor)} : l \in loops}
           ready == IF n = 1 THEN loops ELSE loops \union tooled
<1>1. \A l \in loops : InOrder(l) /\ Len(l.children) <= Longest(n - 1) /\ Len(l.children) \in Nat
  BY DEF LoopsInOrder, InOrder
<1>2. ASSUME NEW k \in tooled
      PROVE  InOrder(k) /\ Len(k.children) <= Longest(n - 1) + 1
  <2>1. PICK l \in loops : \E t \in ToolSpan(l.cursor) : k = Then(l, t)
    OBVIOUS
  <2>2. PICK t \in ToolSpan(l.cursor) : k = Then(l, t)
    BY <2>1
  <2>3. l.cursor \in Nat
    BY <1>1 DEF InOrder
  <2>4. t \in Span /\ t.start = l.cursor
    BY <2>3, ToolsAreSpans
  <2>5. QED
    BY <2>2, <2>4, <1>1, ThenInOrder DEF Longest
<1>3. \A l \in ready : InOrder(l) /\ Len(l.children) + 1 <= Longest(n) /\ Len(l.children) \in Nat
  <2> TAKE l \in ready
  <2>1. CASE l \in loops
    BY <2>1, <1>1 DEF Longest
  <2>2. CASE l \notin loops
    <3>1. n # 1 /\ l \in tooled
      BY <2>2
    <3>2. InOrder(l) /\ Len(l.children) <= Longest(n - 1) + 1 /\ Len(l.children) \in Nat
      BY <3>1, <1>2 DEF InOrder
    <3>3. QED
      BY <3>1, <3>2 DEF Longest
  <2>3. QED
    BY <2>1, <2>2
<1>4. LongerLoops(loops, n) = UNION {{Then(l, s) : s \in LLMCall(l.cursor)} : l \in ready}
  BY DEF LongerLoops
<1> HIDE DEF ready
<1>5. ASSUME NEW k \in LongerLoops(loops, n)
      PROVE  InOrder(k) /\ Len(k.children) <= Longest(n)
  <2>1. PICK l \in ready : \E s \in LLMCall(l.cursor) : k = Then(l, s)
    BY <1>4
  <2>2. PICK s \in LLMCall(l.cursor) : k = Then(l, s)
    BY <2>1
  <2>3. l.cursor \in Nat
    BY <1>3 DEF InOrder
  <2>4. s \in Span /\ s.start = l.cursor
    BY <2>3, CallsAreSpans
  <2>5. QED
    BY <2>2, <2>4, <1>3, ThenInOrder
<1>6. QED
  BY <1>5 DEF LoopsInOrder

\* Loops is the function its recursive definition asks for: there is one.
LEMMA LoopsByCalls ==
  Loops = [n \in 0 .. MaxSteps |-> IF n = 0 THEN {[children |-> << >>, cursor |-> c] : c \in Leads}
                                   ELSE LongerLoops(Loops[n - 1], n)]
<1> DEFINE First == {[children |-> << >>, cursor |-> c] : c \in Leads}
           Step(g, n) == IF n = 0 THEN First ELSE LongerLoops(g[n - 1], n)
           S == {k \in Nat : \E g : g = [n \in 0 .. k |-> Step(g, n)]}
<1> HIDE DEF First
<1>1. 0 \in S
  <2> DEFINE g == [n \in 0 .. 0 |-> First]
  <2>1. g = [n \in 0 .. 0 |-> Step(g, n)]
    OBVIOUS
  <2>2. QED
    BY <2>1
<1>2. ASSUME NEW k \in S
      PROVE  k + 1 \in S
  <2>1. PICK g : g = [n \in 0 .. k |-> Step(g, n)]
    OBVIOUS
  <2> DEFINE h == [n \in 0 .. k + 1 |-> IF n = k + 1 THEN LongerLoops(g[k], n) ELSE g[n]]
  <2>2. \A n \in 0 .. k : h[n] = g[n] /\ g[n] = Step(g, n)
    <3> HIDE DEF Step
    <3> QED
      BY <2>1
  <2>3. ASSUME NEW n \in 0 .. k + 1
        PROVE  h[n] = Step(h, n)
    <3>1. CASE n = k + 1
      BY <3>1, <2>2
    <3>2. CASE n \in 0 .. k
      <4>1. n = 0 \/ n - 1 \in 0 .. k
        BY <3>2
      <4>2. QED
        BY <4>1, <3>2, <2>2
    <3>3. QED
      BY <3>1, <3>2
  <2>4. h = [n \in 0 .. k + 1 |-> Step(h, n)]
    <3> HIDE DEF Step
    <3> QED
      BY <2>3
  <2> HIDE DEF h
  <2>5. QED
    BY <2>4
<1>3. MaxSteps \in S
  <2>1. S \in SUBSET Nat
    OBVIOUS
  <2> HIDE DEF S
  <2>2. QED
    BY <1>1, <1>2, <2>1, Upwards, WorkloadAssumption
<1>4. \E g : g = [n \in 0 .. MaxSteps |-> Step(g, n)]
  BY <1>3
<1>5. QED
  BY <1>4, Zenon DEF Loops, First

LEMMA AllLoopsInOrder == ASSUME NEW n \in 0 .. MaxSteps PROVE LoopsInOrder(Loops[n], n)
<1> DEFINE S == {k \in Nat : k <= MaxSteps => LoopsInOrder(Loops[k], k)}
<1>1. 0 \in S
  <2>1. Loops[0] = {[children |-> << >>, cursor |-> c] : c \in Leads}
    BY LoopsByCalls, WorkloadAssumption
  <2>2. ASSUME NEW l \in Loops[0]
        PROVE  InOrder(l) /\ Len(l.children) <= Longest(0)
    <3>1. l.children = << >> /\ l.cursor \in Nat
      BY <2>1, WorkloadAssumption
    <3>2. << >> \in Seq(Span) /\ Len(<< >>) = 0 /\ DOMAIN << >> = {}
      OBVIOUS
    <3>3. QED
      BY <3>1, <3>2 DEF InOrder, Longest
  <2>3. QED
    BY <2>2, WorkloadAssumption DEF LoopsInOrder
<1>2. ASSUME NEW k \in S
      PROVE  k + 1 \in S
  <2>1. SUFFICES ASSUME k + 1 <= MaxSteps
                 PROVE  LoopsInOrder(Loops[k + 1], k + 1)
    OBVIOUS
  <2>2. k + 1 \in 0 .. MaxSteps /\ k + 1 # 0 /\ k + 1 \in Nat \ {0} /\ (k + 1) - 1 = k
    BY <2>1, WorkloadAssumption
  <2>3. Loops[k + 1] = LongerLoops(Loops[k], k + 1)
    BY <2>2, LoopsByCalls
  <2>4. LoopsInOrder(Loops[k], (k + 1) - 1)
    BY <2>1, <2>2, WorkloadAssumption
  <2>5. QED
    BY <2>2, <2>3, <2>4, LongerInOrder
<1>3. S = Nat
  <2>1. S \in SUBSET Nat
    OBVIOUS
  <2> HIDE DEF S
  <2>2. QED
    BY <1>1, <1>2, <2>1, Upwards
<1>4. QED
  BY <1>3, WorkloadAssumption

\* A trace is a root and the spans of a loop, in its order and inside it.
Nests(t) ==
  /\ \A i \in DOMAIN t.children : End(t.children[i]) <= End(t.root)
  /\ \A i, j \in DOMAIN t.children : i < j => End(t.children[i]) <= t.children[j].start
  /\ (t.root.status = "ok") <=> (\A i \in DOMAIN t.children : t.children[i].status = "ok")

LEMMA WorstIsTheFirst ==
  ASSUME NEW c \in Seq(Span)
  PROVE  (Worst(c) = "ok") <=> (\A i \in DOMAIN c : c[i].status = "ok")
<1> DEFINE failed == {i \in DOMAIN c : c[i].status # "ok"}
<1>1. failed \in SUBSET Nat
  OBVIOUS
<1>2. Worst(c) = IF failed = {} THEN "ok" ELSE c[Min(failed)].status
  BY DEF Worst
<1>3. failed # {} => Min(failed) \in failed
  <2> HIDE DEF failed
  <2> QED
    BY <1>1, MinOfSome
<1>4. QED
  BY <1>2, <1>3

LEMMA TracesNest ==
  ASSUME NEW t \in Traces
  PROVE  Nests(t) /\ SpanCount(t) \in 1 .. 2 * MaxSteps
<1> DEFINE rooted(l, tail) ==
             [root |-> SpanData("server", 0, l.cursor + tail, Worst(l.children)),
              children |-> l.children]
<1>1. PICK n \in 1 .. MaxSteps : \E l \in Loops[n], tail \in Leads : t = rooted(l, tail)
  BY DEF Traces
<1>2. PICK l \in Loops[n], tail \in Leads : t = rooted(l, tail)
  BY <1>1
<1>3. InOrder(l) /\ Len(l.children) <= Longest(n)
  BY AllLoopsInOrder, WorkloadAssumption DEF LoopsInOrder
<1>4. /\ t.children = l.children /\ t.root.status = Worst(l.children)
      /\ t.root.start = 0 /\ t.root.duration = l.cursor + tail
  BY <1>2 DEF SpanData
<1>5. End(t.root) = l.cursor + tail /\ l.cursor \in Nat /\ tail \in Nat
  BY <1>3, <1>4, WorkloadAssumption DEF End, InOrder
<1>6. \A i \in DOMAIN l.children : End(l.children[i]) <= l.cursor /\ End(l.children[i]) \in Nat
  <2>1. \A x \in Span : End(x) \in Nat
    BY DEF End, Span
  <2>2. QED
    BY <2>1, <1>3 DEF InOrder
<1>7. \A i \in DOMAIN l.children : End(l.children[i]) <= End(t.root)
  BY <1>5, <1>6
<1>8. SpanCount(t) \in 1 .. 2 * MaxSteps
  <2>1. Len(l.children) \in Nat /\ Len(l.children) <= 2 * n - 1 /\ n \in Nat /\ n <= MaxSteps
    BY <1>3, WorkloadAssumption DEF InOrder, Longest
  <2>2. QED
    BY <2>1, <1>4, WorkloadAssumption DEF SpanCount
<1>9. QED
  BY <1>3, <1>4, <1>7, <1>8, WorstIsTheFirst DEF Nests, InOrder

-----------------------------------------------------------------------------
(***************************************************************************)
(* The rates and the credit (LoadProfile, RateLimiter).                    *)
(***************************************************************************)
Highest == Max({Sustained, Burst})

LEMMA HighestIsAtLeast == Highest \in Nat /\ Sustained <= Highest /\ Burst <= Highest
BY MaxOfTwo, WorkloadAssumption DEF Highest

\* A part of d lies between none of it and all of it.
LEMMA PartOf ==
  ASSUME NEW d \in Int, NEW m \in Nat, NEW k \in Nat \ {0}, m <= k
  PROVE  /\ (d * m) \div k \in Int
         /\ d >= 0 => 0 <= (d * m) \div k /\ (d * m) \div k <= d
         /\ d < 0 => d <= (d * m) \div k /\ (d * m) \div k <= 0
<1> DEFINE x == d * m
           q == x \div k
<1>1. x \in Int
  OBVIOUS
<1>2. q \in Int /\ k * q <= x /\ x < k * q + k
  <2> HIDE DEF x
  <2> QED
    BY <1>1, Quotient
<1> HIDE DEF q
<1>3. ASSUME d >= 0
      PROVE  0 <= q /\ q <= d
  <2>1. 0 <= x /\ x <= k * d
    <3>1. d \in Nat /\ d * 0 <= d * m /\ d * m <= d * k
      BY <1>3, ProductGrows
    <3>2. QED
      BY <3>1
  <2>2. 0 <= q
    <3>1. SUFFICES ASSUME q <= 0 - 1
                   PROVE  FALSE
      BY <1>2
    <3>2. k * q <= k * (0 - 1)
      BY <3>1, <1>2, ProductGrows
    <3>3. QED
      BY <3>2, <2>1, <1>1, <1>2
  <2>3. q <= d
    <3>1. SUFFICES ASSUME d + 1 <= q
                   PROVE  FALSE
      BY <1>2
    <3>2. k * (d + 1) <= k * q
      BY <3>1, <1>2, ProductGrows
    <3>3. QED
      BY <3>2, <2>1, <1>1, <1>2
  <2>4. QED
    BY <2>2, <2>3
<1>4. ASSUME d < 0
      PROVE  d <= q /\ q <= 0
  <2>1. k * d <= x /\ x <= 0
    <3>1. (0 - d) \in Nat /\ (0 - d) * 0 <= (0 - d) * m /\ (0 - d) * m <= (0 - d) * k
      BY <1>4, ProductGrows
    <3>2. QED
      BY <3>1
  <2>2. d <= q
    <3>1. SUFFICES ASSUME q <= d - 1
                   PROVE  FALSE
      BY <1>2
    <3>2. k * q <= k * (d - 1)
      BY <3>1, <1>2, ProductGrows
    <3>3. QED
      BY <3>2, <2>1, <1>1, <1>2
  <2>3. q <= 0
    <3>1. SUFFICES ASSUME 1 <= q
                   PROVE  FALSE
      BY <1>2
    <3>2. k * 1 <= k * q
      BY <3>1, <1>2, ProductGrows
    <3>3. QED
      BY <3>2, <2>1, <1>1, <1>2
  <2>4. QED
    BY <2>2, <2>3
<1>5. QED
  BY <1>2, <1>3, <1>4 DEF q

LEMMA RateIsBounded ==
  ASSUME NEW t \in Nat
  PROVE  TargetRate(t) \in Nat /\ TargetRate(t) <= Highest
<1> USE WorkloadAssumption, HighestIsAtLeast
<1>1. CASE Profile = "steady"
  BY <1>1 DEF TargetRate
<1>2. CASE Profile = "burst"
  BY <1>2 DEF TargetRate
<1>3. CASE Profile = "ramp"
  <2> DEFINE low == Sustained \div 10
             m == Min({t, RampDuration})
             up == ((Burst - low) * m) \div RampDuration
  <2>1. TargetRate(t) = low + up
    BY <1>3 DEF TargetRate
  <2>2. low \in Nat /\ low <= Sustained /\ Burst - low \in Int
    OBVIOUS
  <2>3. m \in Nat /\ m <= RampDuration
    BY MinOfTwo
  <2> HIDE DEF low, m
  <2>4. /\ up \in Int
        /\ Burst - low >= 0 => 0 <= up /\ up <= Burst - low
        /\ Burst - low < 0 => Burst - low <= up /\ up <= 0
    BY <2>2, <2>3, PartOf
  <2> HIDE DEF up
  <2>5. QED
    BY <2>1, <2>2, <2>4
<1>4. QED
  BY <1>1, <1>2, <1>3

LEMMA CreditIsBounded ==
  ASSUME NEW c \in Nat, NEW rate \in Nat, NEW dt \in Nat, rate <= Highest
  PROVE  /\ Credit(c, rate, dt) \in 0 .. MaxCredit
         /\ Credit(c, rate, dt) <= c + Highest * dt
<1>1. rate * dt \in Nat /\ Highest * dt \in Nat /\ rate * dt <= Highest * dt
  BY HighestIsAtLeast, ProductGrows
<1>2. QED
  BY <1>1, MinOfTwo, WorkloadAssumption DEF Credit

LEMMA CreditIsSplit ==
  ASSUME NEW c \in 0 .. MaxCredit
  PROVE  /\ Whole(c) \in Nat /\ Rest(c) \in 0 .. MaxCredit
         /\ Unit * Whole(c) + Rest(c) = c
<1>1. c \in Nat /\ Unit \in Nat \ {0} /\ MaxCredit \in Nat
  BY WorkloadAssumption
<1> DEFINE q == c \div Unit
<1>2. q \in Int /\ Unit * q <= c /\ c < Unit * q + Unit
  BY <1>1, Quotient
<1>3. q \in Nat
  BY <1>1
<1> HIDE DEF q
<1>4. Unit * q \in Nat
  BY <1>1, <1>3
<1>5. Whole(c) = q /\ Rest(c) = c - Unit * q
  BY DEF Whole, Rest, q
<1>6. QED
  BY <1>1, <1>2, <1>3, <1>4, <1>5

(***************************************************************************)
(* The workers (run_load, _run_worker).  Of a worker, what has been earned *)
(* is spent on spans, still allowed, or kept as credit.  The last trace of *)
(* an allowance may run over it: by all its spans but one.                 *)
(***************************************************************************)
Overrun == 2 * MaxSteps - 1

\* The allowances it has used up.
Settlements(w) == IF worker[w] = "emitting" THEN grants[w] - 1 ELSE grants[w]

Spends(w) ==
  Unit * spans[w] + Unit * allowance[w] + credit[w]
    <= Highest * age[w] + Unit * (Overrun * Settlements(w))

WorkerInv(w) ==
  /\ worker[w] \in Steps
  /\ age[w] \in 0 .. Duration + MaxDelay
  /\ credit[w] \in 0 .. MaxCredit
  /\ allowance[w] \in Nat
  /\ spans[w] \in Nat
  /\ buffer[w] \in 0 .. MaxQueueSize
  /\ report[w] \in Nat
  /\ grants[w] \in Nat
  /\ worker[w] \in {"unborn", "starting", "pacing"} => allowance[w] = 0
  /\ worker[w] \in {"unborn", "starting", "pacing", "emitting"} => age[w] <= Duration
  /\ worker[w] = "emitting" => allowance[w] > 0 /\ grants[w] > 0
  /\ worker[w] = "unborn" => buffer[w] = 0
  /\ Spends(w)

\* Each variable has a value for every worker and nothing else.
Staff ==
  /\ worker = [w \in Workers |-> worker[w]]
  /\ age = [w \in Workers |-> age[w]]
  /\ credit = [w \in Workers |-> credit[w]]
  /\ allowance = [w \in Workers |-> allowance[w]]
  /\ spans = [w \in Workers |-> spans[w]]
  /\ buffer = [w \in Workers |-> buffer[w]]
  /\ report = [w \in Workers |-> report[w]]
  /\ grants = [w \in Workers |-> grants[w]]

LoadInv ==
  /\ Staff
  /\ \A w \in Workers : WorkerInv(w)
  /\ parent \in {"idle", "collecting", "joining", "returned", "raised", "gone"}
  /\ collected \subseteq {w \in Workers : worker[w] = "exited"}
  /\ parent = "idle" => \A w \in Workers : worker[w] = "unborn"
  /\ parent = "idle" => collected = {}
  /\ failures \in 0 .. MaxFailures

OfWorker(w) ==
  <<worker[w], age[w], credit[w], allowance[w], spans[w], buffer[w], report[w], grants[w]>>

LEMMA SameWorkerKeeps ==
  ASSUME NEW w \in Workers, WorkerInv(w), UNCHANGED OfWorker(w)
  PROVE  WorkerInv(w)'
BY DEF WorkerInv, OfWorker, Spends, Settlements

\* A step that moves a worker on, and leaves what it has earned and spent alone.
LEMMA MoveKeeps ==
  ASSUME NEW w \in Workers, WorkerInv(w),
         UNCHANGED <<age[w], credit[w], allowance[w], spans[w], report[w], grants[w]>>,
         worker'[w] \in Steps \ {"unborn"}, buffer'[w] \in 0 .. MaxQueueSize,
         \/ worker'[w] = worker[w]
         \/ worker'[w] \notin {"unborn", "starting", "pacing", "emitting"}
         \/ worker'[w] \in {"starting", "pacing"} /\ worker[w] \in {"unborn", "starting"}
  PROVE  WorkerInv(w)'
<1> USE WorkloadAssumption, LoadRunAssumption DEF WorkerInv
<1>1. /\ worker'[w] \in {"unborn", "starting", "pacing"} => allowance[w] = 0
      /\ worker'[w] \in {"unborn", "starting", "pacing", "emitting"} => age[w] <= Duration
      /\ worker'[w] = "emitting" => worker[w] = "emitting"
  OBVIOUS
<1>2. Spends(w)'
  <2>1. Settlements(w) \in Nat /\ Settlements(w)' \in Nat /\ Settlements(w) <= Settlements(w)'
    BY <1>1 DEF Settlements
  <2>2. Overrun \in Nat /\ Unit \in Nat
    BY DEF Overrun
  <2>3. Overrun * Settlements(w) <= Overrun * Settlements(w)'
    BY <2>1, <2>2, ProductGrows
  <2>4. Unit * (Overrun * Settlements(w)) <= Unit * (Overrun * Settlements(w)')
    <3>1. \A x, y \in Nat : x * y \in Nat
      OBVIOUS
    <3>2. Overrun * Settlements(w) \in Nat /\ Overrun * Settlements(w)' \in Nat
      BY <2>1, <2>2, <3>1
    <3>3. QED
      BY <2>2, <2>3, <3>2, ProductGrows
  <2>5. Highest * age[w] \in Nat /\ Unit * spans[w] \in Nat /\ Unit * allowance[w] \in Nat
    BY HighestIsAtLeast
  <2>6. Unit * (Overrun * Settlements(w)) \in Nat /\ Unit * (Overrun * Settlements(w)') \in Nat
    BY <2>1, <2>2
  <2>7. QED
    BY <2>4, <2>5, <2>6 DEF Spends
<1>3. QED
  BY <1>1, <1>2

LEMMA AcquireKeepsPace ==
  ASSUME LoadInv, NEW w \in Workers, NEW dt \in 0 .. MaxDelay, Acquire(w, dt)
  PROVE  WorkerInv(w)'
<1> USE WorkloadAssumption, LoadRunAssumption
<1> DEFINE new == Credit(credit[w], TargetRate(age[w] + dt), dt)
<1>1. WorkerInv(w) /\ Staff
  BY DEF LoadInv
<1>2. /\ worker[w] = "pacing" /\ age[w] + dt < Duration /\ age[w] + dt \in Nat
      /\ allowance[w] = 0 /\ dt \in Nat
  BY <1>1 DEF Acquire, WorkerInv
<1>3. new \in 0 .. MaxCredit /\ new <= credit[w] + Highest * dt
  <2>1. credit[w] \in Nat
    BY <1>1 DEF WorkerInv
  <2>2. TargetRate(age[w] + dt) \in Nat /\ TargetRate(age[w] + dt) <= Highest
    BY <1>2, RateIsBounded
  <2>3. QED
    BY <2>1, <2>2, <1>2, CreditIsBounded
<1>4. Whole(new) \in Nat /\ Rest(new) \in 0 .. MaxCredit /\ Unit * Whole(new) + Rest(new) = new
  BY <1>3, CreditIsSplit
<1>5. /\ credit'[w] = Rest(new) /\ allowance'[w] = Whole(new) /\ age'[w] = age[w] + dt
      /\ UNCHANGED <<spans, report, buffer>>
      /\ \/ /\ Whole(new) > 0
            /\ worker'[w] = "emitting" /\ grants'[w] = grants[w] + 1
         \/ /\ Whole(new) = 0
            /\ worker'[w] = "pacing" /\ grants'[w] = grants[w]
  <2> HIDE DEF new
  <2>1. /\ credit' = [credit EXCEPT ![w] = Rest(new)]
        /\ allowance' = [allowance EXCEPT ![w] = Whole(new)]
        /\ age' = [age EXCEPT ![w] = @ + dt]
        /\ UNCHANGED <<spans, report, buffer>>
        /\ IF Whole(new) > 0
             THEN /\ worker' = [worker EXCEPT ![w] = "emitting"]
                  /\ grants' = [grants EXCEPT ![w] = @ + 1]
             ELSE UNCHANGED <<worker, grants>>
    BY DEF Acquire, new
  <2>2. QED
    BY <2>1, <1>1, <1>2, <1>4 DEF Staff
<1>6. Settlements(w)' = Settlements(w)
  BY <1>1, <1>2, <1>5 DEF Settlements, WorkerInv
<1> HIDE DEF new
<1>7. Spends(w)'
  <2> DEFINE more == Unit * (Overrun * Settlements(w))
  <2>1. more \in Int
    BY <1>1, <1>2 DEF Overrun, Settlements, WorkerInv
  <2> HIDE DEF more
  <2>2. Unit * spans[w] + credit[w] <= Highest * age[w] + more
    <3>1. Unit * spans[w] + Unit * allowance[w] + credit[w] <= Highest * age[w] + more
      BY <1>1 DEF WorkerInv, Spends, more
    <3>2. Unit * allowance[w] = 0 /\ Unit * spans[w] \in Int
      BY <1>1, <1>2 DEF WorkerInv
    <3>3. QED
      BY <3>1, <3>2
  <2>3. Highest * (age[w] + dt) = Highest * age[w] + Highest * dt
    BY <1>1, <1>2, HighestIsAtLeast DEF WorkerInv
  <2>4. /\ Unit * spans[w] \in Int /\ Highest * age[w] \in Int /\ Highest * dt \in Int
        /\ Unit * Whole(new) \in Int /\ credit[w] \in Int /\ Rest(new) \in Int
    BY <1>1, <1>2, <1>4, HighestIsAtLeast DEF WorkerInv
  <2>5. Unit * spans[w] + Unit * Whole(new) + Rest(new) <= Highest * (age[w] + dt) + more
    BY <2>1, <2>2, <2>3, <2>4, <1>3, <1>4
  <2>6. QED
    BY <2>5, <1>5, <1>6 DEF Spends, more
<1>8. /\ worker'[w] \in {"pacing", "emitting"} /\ age'[w] \in 0 .. Duration
      /\ credit'[w] \in 0 .. MaxCredit /\ allowance'[w] \in Nat /\ grants'[w] \in Nat
      /\ worker'[w] = "pacing" => allowance'[w] = 0
      /\ worker'[w] = "emitting" => allowance'[w] > 0 /\ grants'[w] > 0
  BY <1>1, <1>2, <1>4, <1>5 DEF WorkerInv
<1>9. QED
  BY <1>1, <1>5, <1>7, <1>8 DEF WorkerInv, Steps

LEMMA EmitKeepsPace ==
  ASSUME LoadInv, NEW w \in Workers, NEW t \in Traces, Emit(w, t)
  PROVE  WorkerInv(w)'
<1> USE WorkloadAssumption, LoadRunAssumption
<1> DEFINE n == SpanCount(t)
           left == Max({0, allowance[w] - n})
<1>1. WorkerInv(w) /\ Staff
  BY DEF LoadInv
<1>2. n \in Nat /\ 1 <= n /\ n <= Overrun + 1
  BY TracesNest DEF Overrun
<1>3. /\ worker[w] = "emitting" /\ allowance[w] > 0 /\ allowance[w] \in Nat
      /\ grants[w] \in Nat \ {0}
  BY <1>1 DEF Emit, WorkerInv
<1> HIDE DEF n
<1>4. left \in Nat /\ allowance[w] <= n + left /\ (left = 0 \/ allowance[w] = n + left)
  <2>1. 0 \in Int /\ allowance[w] - n \in Int
    BY <1>2, <1>3
  <2>2. left = IF 0 >= allowance[w] - n THEN 0 ELSE allowance[w] - n
    BY <2>1, MaxOfTwo
  <2>3. QED
    BY <2>2, <1>2, <1>3
<1>5. /\ spans'[w] = spans[w] + n /\ allowance'[w] = left
      /\ buffer'[w] = Queued(buffer[w] + n)
      /\ UNCHANGED <<age, credit, report, grants>>
      /\ worker'[w] = IF left = 0 THEN "pacing" ELSE "emitting"
  BY <1>1, <1>3 DEF Emit, Staff, n
<1>6. Queued(buffer[w] + n) \in 0 .. MaxQueueSize
  BY <1>1, <1>2, MinOfTwo DEF Queued, WorkerInv
<1> HIDE DEF left
<1>7. Spends(w)'
  <2> DEFINE earned == Highest * age[w]
             s == spans[w]
             g == grants[w] - 1
             a == allowance[w]
  <2>1. /\ earned \in Int /\ s \in Nat /\ g \in Nat /\ credit[w] \in Int /\ Overrun \in Nat
        /\ a \in Nat \ {0}
    BY <1>1, <1>3, HighestIsAtLeast DEF WorkerInv, Overrun
  <2>2. Unit * s + Unit * a + credit[w] <= earned + Unit * (Overrun * g)
    BY <1>1, <1>3 DEF WorkerInv, Spends, Settlements
  <2> HIDE DEF earned, s, g, a
  <2>3. CASE left # 0
    <3>1. Unit * (s + n) + Unit * left = Unit * s + Unit * a
      <4>1. a = n + left
        BY <2>3, <1>4 DEF a
      <4>2. QED
        BY <4>1, <2>1, <1>2, <1>4
    <3>2. Unit * (s + n) + Unit * left + credit[w] <= earned + Unit * (Overrun * g)
      BY <2>2, <3>1
    <3>3. Settlements(w)' = g
      BY <2>3, <1>5 DEF Settlements, g
    <3>4. QED
      BY <3>2, <3>3, <1>5 DEF Spends, earned, s
  <2>4. CASE left = 0
    <3>1. n <= a + Overrun
      BY <2>1, <1>2
    <3>2. Unit * (s + n) <= Unit * s + Unit * a + Unit * Overrun
      <4>1. Unit * (s + n) <= Unit * (s + a + Overrun)
        BY <3>1, <2>1, <1>2, ProductGrows
      <4>2. Unit * (s + a + Overrun) = Unit * s + Unit * a + Unit * Overrun
        BY <2>1
      <4>3. QED
        BY <4>1, <4>2
    <3>3. Unit * (Overrun * (g + 1)) = Unit * (Overrun * g) + Unit * Overrun
      <4>1. Overrun * (g + 1) = Overrun * g + Overrun /\ Overrun * g \in Nat
        BY <2>1
      <4>2. QED
        BY <4>1, <2>1
    <3>4. /\ Unit * (s + n) \in Int /\ Unit * s \in Int /\ Unit * a \in Int
          /\ Unit * Overrun \in Int /\ Unit * (Overrun * g) \in Int
      BY <2>1, <1>2
    <3>5. Unit * (s + n) + Unit * left + credit[w] <= earned + Unit * (Overrun * (g + 1))
      BY <2>1, <2>2, <2>4, <3>2, <3>3, <3>4
    <3>6. Settlements(w)' = g + 1
      BY <2>4, <1>3, <1>5 DEF Settlements, g
    <3>7. QED
      BY <3>5, <3>6, <1>5 DEF Spends, earned, s
  <2>5. QED
    BY <2>3, <2>4
<1>8. QED
  BY <1>1, <1>2, <1>3, <1>4, <1>5, <1>6, <1>7 DEF WorkerInv, Steps

LEMMA WorkKeepsPace == ASSUME LoadInv, NEW w \in Workers, Work(w) PROVE LoadInv'
<1> USE WorkloadAssumption, LoadRunAssumption
<1>1. WorkerInv(w) /\ Staff
  BY DEF LoadInv
<1>2. /\ Staff' /\ UNCHANGED parent
      /\ \A v \in Workers \ {w} : UNCHANGED OfWorker(v)
      /\ UNCHANGED collected
      /\ worker[w] \notin {"unborn", "exited"}
      /\ failures' \in 0 .. MaxFailures
  <2>1. /\ UNCHANGED <<parent, collected>>
        /\ worker[w] \notin {"unborn", "exited"}
    <3>1. CASE Begin(w) \/ Flush(w) \/ Report(w) \/ Fail(w) \/ Kill(w)
      BY <3>1 DEF Begin, Flush, Report, Fail, Kill, Goto
    <3>2. CASE Export(w)
      BY <3>2, <1>1 DEF Export, WorkerInv
    <3>3. CASE \E dt \in 0 .. MaxDelay : Acquire(w, dt) \/ Finish(w, dt)
      BY <3>3 DEF Acquire, Finish, Goto
    <3>4. QED
      BY <3>1, <3>2, <3>3 DEF Work
  <2>2. failures' \in 0 .. MaxFailures
    BY DEF Work, Begin, Export, Flush, Report, Fail, Kill, Acquire, Finish, LoadInv
  <2>3. CASE Begin(w) \/ Export(w) \/ Flush(w) \/ Report(w) \/ Fail(w) \/ Kill(w)
    <3>1. /\ UNCHANGED <<age, credit, allowance, spans, grants>>
          /\ worker' = worker \/ \E x : worker' = [worker EXCEPT ![w] = x]
          /\ buffer' = buffer \/ \E x : buffer' = [buffer EXCEPT ![w] = x]
          /\ report' = report \/ \E x : report' = [report EXCEPT ![w] = x]
      <4>1. CASE Begin(w) \/ Report(w)
        BY <4>1 DEF Begin, Report, Goto
      <4>2. CASE Export(w) \/ Flush(w)
        BY <4>2 DEF Export, Flush, Goto
      <4>3. CASE Fail(w) \/ Kill(w)
        BY <4>3 DEF Fail, Kill, Goto
      <4>4. QED
        BY <4>1, <4>2, <4>3, <2>3
    <3>2. /\ worker' = [v \in Workers |-> worker'[v]] /\ buffer' = [v \in Workers |-> buffer'[v]]
          /\ report' = [v \in Workers |-> report'[v]]
      BY <3>1, <1>1 DEF Staff
    <3>3. \A v \in Workers \ {w} : UNCHANGED <<worker[v], buffer[v], report[v]>>
      BY <3>1, <1>1 DEF Staff
    <3>4. Staff'
      BY <3>1, <3>2, <1>1 DEF Staff
    <3>5. ASSUME NEW v \in Workers \ {w}
          PROVE  UNCHANGED OfWorker(v)
      <4>1. UNCHANGED <<worker[v], buffer[v], report[v]>>
        BY <3>3
      <4>2. QED
        BY <3>1, <4>1 DEF OfWorker
    <3>6. QED
      BY <2>1, <2>2, <3>4, <3>5
  <2>5. ASSUME NEW dt \in 0 .. MaxDelay, Acquire(w, dt)
        PROVE  Staff' /\ \A v \in Workers \ {w} : UNCHANGED OfWorker(v)
    <3>1. /\ UNCHANGED <<spans, report, buffer>>
          /\ worker' = [worker EXCEPT ![w] = "emitting"] \/ worker' = worker
          /\ grants' = [grants EXCEPT ![w] = @ + 1] \/ grants' = grants
          /\ \E x : credit' = [credit EXCEPT ![w] = x]
          /\ \E x : allowance' = [allowance EXCEPT ![w] = x]
          /\ age' = [age EXCEPT ![w] = @ + dt]
      BY <2>5 DEF Acquire
    <3>2. QED
      BY <3>1, <1>1 DEF Staff, OfWorker
  <2>6. ASSUME NEW dt \in 0 .. MaxDelay, Finish(w, dt)
        PROVE  Staff' /\ \A v \in Workers \ {w} : UNCHANGED OfWorker(v)
    BY <2>6, <1>1 DEF Finish, Goto, Staff, OfWorker
  <2>7. QED
    BY <2>1, <2>2, <2>3, <2>5, <2>6 DEF Work
<1>3. WorkerInv(w)'
  <2>1. CASE Begin(w)
    <3>1. /\ UNCHANGED <<age[w], credit[w], allowance[w], spans[w], report[w], grants[w], buffer[w]>>
          /\ worker[w] = "starting" /\ worker'[w] = "pacing"
      BY <2>1, <1>1 DEF Begin, Goto, Staff
    <3>2. QED
      BY <3>1, <1>1, MoveKeeps DEF Steps, WorkerInv
  <2>2. CASE Export(w)
    <3>1. /\ UNCHANGED <<age[w], credit[w], allowance[w], spans[w], report[w], grants[w], worker[w]>>
          /\ buffer'[w] \in 0 .. buffer[w] - 1 /\ worker[w] # "unborn"
      BY <2>2, <1>1 DEF Export, Staff, WorkerInv
    <3>2. buffer'[w] \in 0 .. MaxQueueSize
      BY <3>1, <1>1 DEF WorkerInv
    <3>3. QED
      BY <3>1, <3>2, <1>1, MoveKeeps DEF WorkerInv
  <2>3. CASE Flush(w) \/ Fail(w) \/ Kill(w)
    <3>1. /\ UNCHANGED <<age[w], credit[w], allowance[w], spans[w], report[w], grants[w]>>
          /\ worker'[w] \in {"reporting", "dead", "unwinding"}
          /\ buffer'[w] = 0 \/ UNCHANGED buffer[w]
      BY <2>3, <1>1 DEF Flush, Fail, Kill, Goto, Staff
    <3>2. QED
      BY <3>1, <1>1, MoveKeeps DEF Steps, WorkerInv
  <2>4. CASE Report(w)
    <3>1. /\ UNCHANGED <<age[w], credit[w], allowance[w], spans[w], grants[w], buffer[w]>>
          /\ worker[w] = "reporting" /\ worker'[w] = "exited" /\ report'[w] = spans[w]
      BY <2>4, <1>1 DEF Report, Goto, Staff
    <3>2. QED
      BY <3>1, <1>1 DEF Steps, WorkerInv, Spends, Settlements
  <2>5. ASSUME NEW dt \in 0 .. MaxDelay, Acquire(w, dt)
        PROVE  WorkerInv(w)'
    BY <2>5, AcquireKeepsPace
  <2>6. ASSUME NEW dt \in 0 .. MaxDelay, Finish(w, dt)
        PROVE  WorkerInv(w)'
    <3>1. /\ UNCHANGED <<credit[w], allowance[w], spans[w], grants[w], buffer[w], report[w]>>
          /\ worker[w] = "pacing" /\ worker'[w] = "flushing" /\ age'[w] = age[w] + dt
      BY <2>6, <1>1 DEF Finish, Goto, Staff
    <3>2. age'[w] \in 0 .. Duration + MaxDelay /\ age[w] <= age'[w] /\ age[w] \in Nat
      BY <3>1, <1>1 DEF WorkerInv
    <3>3. Highest * age[w] <= Highest * age'[w] /\ Highest * age[w] \in Int /\ Highest * age'[w] \in Int
      BY <3>2, HighestIsAtLeast, ProductGrows
    <3>4. Settlements(w)' = Settlements(w)
      BY <3>1 DEF Settlements
    <3>5. Spends(w)'
      <4> DEFINE more == Unit * (Overrun * Settlements(w))
                 had == Unit * spans[w] + Unit * allowance[w] + credit[w]
      <4>1. more \in Int /\ had \in Int /\ had <= Highest * age[w] + more
        BY <1>1 DEF WorkerInv, Spends, Settlements, Overrun
      <4>2. had <= Highest * age'[w] + more
        <5> HIDE DEF more, had
        <5> QED
          BY <4>1, <3>3
      <4>3. QED
        BY <4>2, <3>1, <3>4 DEF Spends
    <3>6. QED
      BY <3>1, <3>2, <3>5, <1>1 DEF Steps, WorkerInv
  <2>7. QED
    BY <2>1, <2>2, <2>3, <2>4, <2>5, <2>6 DEF Work
<1>4. \A v \in Workers : WorkerInv(v)'
  BY <1>2, <1>3, SameWorkerKeeps DEF LoadInv
<1>5. collected' \subseteq {v \in Workers : worker'[v] = "exited"}
  BY <1>2 DEF LoadInv, OfWorker
<1>6. parent' # "idle"
  BY <1>2 DEF LoadInv
<1>7. QED
  BY <1>2, <1>4, <1>5, <1>6 DEF LoadInv

LEMMA EmitKeepsLoad == ASSUME LoadInv, NEW w \in Workers, NEW t \in Traces, Emit(w, t) PROVE LoadInv'
<1>1. /\ UNCHANGED <<parent, collected, failures>> /\ worker[w] = "emitting" /\ Staff
      /\ \E x : worker' = [worker EXCEPT ![w] = x]
      /\ \E x : spans' = [spans EXCEPT ![w] = x]
      /\ \E x : buffer' = [buffer EXCEPT ![w] = x]
      /\ \E x : allowance' = [allowance EXCEPT ![w] = x]
      /\ UNCHANGED <<age, credit, report, grants>>
  BY DEF Emit, LoadInv
<1>2. Staff' /\ \A v \in Workers \ {w} : UNCHANGED OfWorker(v)
  BY <1>1 DEF Staff, OfWorker
<1>3. \A v \in Workers : WorkerInv(v)'
  BY <1>2, EmitKeepsPace, SameWorkerKeeps DEF LoadInv
<1>4. parent # "idle" /\ collected' \subseteq {v \in Workers : worker'[v] = "exited"}
  BY <1>1, <1>2 DEF LoadInv, OfWorker
<1>5. QED
  BY <1>1, <1>2, <1>3, <1>4 DEF LoadInv

LEMMA ParentKeepsLoad == ASSUME LoadInv, Parent PROVE LoadInv'
<1> USE WorkloadAssumption, LoadRunAssumption
<1>1. Staff /\ \A w \in Workers : WorkerInv(w)
  BY DEF LoadInv
<1>2. CASE Spawn
  <2>1. /\ UNCHANGED <<collected, age, credit, allowance, spans, buffer, report, failures, grants>>
        /\ worker' = [w \in Workers |-> "starting"] /\ parent' = "collecting" /\ collected = {}
        /\ \A w \in Workers : worker[w] = "unborn"
    BY <1>2 DEF Spawn, LoadInv
  <2>2. Staff'
    BY <2>1, <1>1 DEF Staff
  <2>3. ASSUME NEW w \in Workers
        PROVE  WorkerInv(w)'
    BY <2>1, <1>1, MoveKeeps DEF WorkerInv, Steps
  <2>4. QED
    BY <2>1, <2>2, <2>3 DEF LoadInv
<1>3. CASE Timeout \/ Join \/ \E w \in Workers : Get(w)
  <2>1. /\ UNCHANGED <<worker, age, credit, allowance, spans, buffer, report, failures, grants>>
        /\ parent' \in {"raised", "returned", "joining", "collecting"}
        /\ collected' \subseteq {w \in Workers : worker[w] = "exited"}
    BY <1>3 DEF Timeout, Join, Get, LoadInv
  <2>2. Staff' /\ \A w \in Workers : WorkerInv(w)'
    BY <2>1, <1>1, SameWorkerKeeps DEF Staff, OfWorker
  <2>3. QED
    BY <2>1, <2>2 DEF LoadInv
<1>4. CASE ProcessEnds
  <2>1. /\ UNCHANGED <<collected, age, credit, allowance, spans, report, failures, grants>>
        /\ parent' = "gone" /\ buffer' = [w \in Workers |-> 0]
        /\ worker' = [w \in Workers |-> IF worker[w] = "exited" THEN "exited" ELSE "dead"]
    BY <1>4 DEF ProcessEnds
  <2>2. Staff'
    BY <2>1, <1>1 DEF Staff
  <2>3. ASSUME NEW w \in Workers
        PROVE  WorkerInv(w)'
    BY <2>1, <1>1, MoveKeeps DEF WorkerInv, Steps
  <2>4. QED
    BY <2>1, <2>2, <2>3 DEF LoadInv
<1>5. QED
  BY <1>2, <1>3, <1>4 DEF Parent

LEMMA LoadInvHolds == LoadSpec => []LoadInv
<1> USE WorkloadAssumption, LoadRunAssumption
<1>1. LoadInit => LoadInv
  <2> SUFFICES ASSUME LoadInit
               PROVE  LoadInv
    OBVIOUS
  <2>1. Staff
    BY DEF LoadInit, Staff
  <2>2. \A w \in Workers : WorkerInv(w)
    <3> TAKE w \in Workers
    <3>1. Spends(w)
      <4>1. /\ spans[w] = 0 /\ allowance[w] = 0 /\ credit[w] = 0 /\ age[w] = 0
            /\ Settlements(w) = 0
        BY DEF LoadInit, Settlements
      <4>2. Overrun \in Nat /\ Unit * 0 = 0 /\ Highest * 0 = 0 /\ Overrun * 0 = 0
        BY HighestIsAtLeast DEF Overrun
      <4>3. QED
        BY <4>1, <4>2 DEF Spends
    <3>2. QED
      BY <3>1 DEF LoadInit, WorkerInv, Steps
  <2>3. QED
    BY <2>1, <2>2 DEF LoadInit, LoadInv
<1>2. LoadInv /\ [LoadNext]_loadVars => LoadInv'
  <2>1. ASSUME LoadInv, UNCHANGED loadVars
        PROVE  LoadInv'
    BY <2>1 DEF loadVars, LoadInv, Staff, WorkerInv, Spends, Settlements
  <2>2. QED
    BY <2>1, WorkKeepsPace, EmitKeepsLoad, ParentKeepsLoad DEF LoadNext
<1>3. QED
  BY <1>1, <1>2, PTL DEF LoadSpec

(***************************************************************************)
(* Ages, credits and queues stay within their bounds, and only reports of  *)
(* workers that have exited are collected (run_load, _run_worker).         *)
(***************************************************************************)
THEOREM LoadTypeOKHolds == LoadSpec => []LoadTypeOK
<1>1. trace \in Traces \union {NoTrace} /\ [LoadNext]_loadVars => (trace \in Traces \union {NoTrace})'
  BY DEF LoadNext, loadVars
<1>2. LoadInit => trace \in Traces \union {NoTrace}
  BY DEF LoadInit
<1>3. LoadInv /\ trace \in Traces \union {NoTrace} => LoadTypeOK
  BY DEF LoadInv, LoadTypeOK, Staff, WorkerInv
<1>4. QED
  BY <1>1, <1>2, <1>3, LoadInvHolds, PTL DEF LoadSpec

(***************************************************************************)
(* A worker has emitted no more than the highest rate of its profile would *)
(* in its time, but for one overrun per allowance (RateLimiter,            *)
(* _run_worker).                                                           *)
(***************************************************************************)
THEOREM PacedHolds == LoadSpec => []Paced
<1>1. LoadInv => Paced
  <2> SUFFICES ASSUME LoadInv, NEW w \in Workers
               PROVE  Unit * spans[w] <= Highest * age[w] + Unit * (Overrun * grants[w])
    BY DEF Paced, Highest, Overrun
  <2>1. WorkerInv(w) /\ Unit \in Nat /\ Overrun \in Nat
    BY WorkloadAssumption DEF LoadInv, Overrun
  <2>2. /\ Settlements(w) \in Nat /\ grants[w] \in Nat /\ Settlements(w) <= grants[w]
        /\ Unit * spans[w] \in Nat /\ Unit * allowance[w] \in Nat /\ credit[w] \in Nat
        /\ Highest * age[w] \in Nat
    BY <2>1, WorkloadAssumption, LoadRunAssumption, HighestIsAtLeast DEF WorkerInv, Settlements
  <2>3. /\ Overrun * Settlements(w) \in Nat /\ Overrun * grants[w] \in Nat
        /\ Overrun * Settlements(w) <= Overrun * grants[w]
    BY <2>1, <2>2, ProductGrows
  <2>4. /\ Unit * (Overrun * Settlements(w)) \in Nat /\ Unit * (Overrun * grants[w]) \in Nat
        /\ Unit * (Overrun * Settlements(w)) <= Unit * (Overrun * grants[w])
    BY <2>1, <2>3, ProductGrows
  <2>5. QED
    BY <2>1, <2>2, <2>4 DEF WorkerInv, Spends
<1>2. QED
  BY <1>1, LoadInvHolds, PTL

(***************************************************************************)
(* Every trace that is emitted nests: its spans follow one another inside  *)
(* the root, which fails with the first of them (generate_trace).          *)
(***************************************************************************)
THEOREM TraceNestsHolds == LoadSpec => []TraceNests
<1>1. LoadTypeOK => TraceNests
  BY TracesNest DEF LoadTypeOK, TraceNests, Nests, End
<1>2. QED
  BY <1>1, LoadTypeOKHolds, PTL

(***************************************************************************)
(* What a worker has reported is what it emitted, and is flushed before it *)
(* is reported; the parent joins only when it has a report of each.        *)
(***************************************************************************)
Workplaces ==
  /\ worker \in [Workers -> Steps]
  /\ DOMAIN buffer = Workers
  /\ DOMAIN report = Workers
  /\ DOMAIN spans = Workers

Collected ==
  /\ parent = "idle" => collected = {}
  /\ collected \subseteq {w \in Workers : worker[w] = "exited"}
  /\ parent \in {"joining", "returned"} => collected = Workers

Flushed == \A w \in Workers : worker[w] \in {"reporting", "exited"} => buffer[w] = 0

Reported == \A w \in Workers : worker[w] = "exited" => report[w] = spans[w]

TallyInv == Workplaces /\ Collected /\ Flushed /\ Reported

LEMMA WorkKeeps == ASSUME TallyInv, NEW w \in Workers, Work(w) PROVE TallyInv'
<1> USE DEF TallyInv, Workplaces, Collected, Flushed, Reported, Steps, Goto
<1>1. CASE Begin(w)
  BY <1>1 DEF Begin
<1>2. CASE Export(w)
  <2>1. /\ UNCHANGED <<parent, collected, worker, report, spans>>
        /\ worker[w] \notin {"exited", "reporting"} /\ DOMAIN buffer' = Workers
        /\ \A v \in Workers \ {w} : buffer'[v] = buffer[v]
    BY <1>2 DEF Export
  <2>2. QED
    BY <2>1
<1>3. CASE Flush(w)
  <2>1. /\ UNCHANGED <<parent, collected, report, spans>>
        /\ worker[w] \in {"flushing", "unwinding"} /\ buffer' = [buffer EXCEPT ![w] = 0]
        /\ worker' = [worker EXCEPT ![w] = "reporting"] \/ worker' = [worker EXCEPT ![w] = "dead"]
    BY <1>3 DEF Flush
  <2>2. QED
    BY <2>1
<1>4. CASE Report(w)
  BY <1>4 DEF Report
<1>5. CASE Fail(w)
  <2>1. /\ UNCHANGED <<parent, collected, report, spans, buffer>>
        /\ worker[w] \in {"pacing", "emitting", "starting"}
        /\ worker' = [worker EXCEPT ![w] = "unwinding"] \/ worker' = [worker EXCEPT ![w] = "dead"]
    BY <1>5 DEF Fail
  <2>2. QED
    BY <2>1
<1>6. CASE Kill(w)
  BY <1>6 DEF Kill
<1>7. ASSUME NEW dt \in 0 .. MaxDelay, Acquire(w, dt)
      PROVE  TallyInv'
  <2>1. /\ UNCHANGED <<parent, collected, report, spans, buffer>>
        /\ worker[w] = "pacing"
        /\ worker' = [worker EXCEPT ![w] = "emitting"] \/ worker' = worker
    BY <1>7 DEF Acquire
  <2>2. QED
    BY <2>1
<1>8. ASSUME NEW dt \in 0 .. MaxDelay, Finish(w, dt)
      PROVE  TallyInv'
  BY <1>8 DEF Finish
<1>9. QED
  BY <1>1, <1>2, <1>3, <1>4, <1>5, <1>6, <1>7, <1>8 DEF Work

LEMMA EmitKeeps == ASSUME TallyInv, NEW w \in Workers, NEW t \in Traces, Emit(w, t) PROVE TallyInv'
<1> USE DEF TallyInv, Workplaces, Collected, Flushed, Reported, Steps
<1>1. /\ worker[w] = "emitting" /\ UNCHANGED <<parent, collected, report>>
      /\ worker' = [worker EXCEPT ![w] = "pacing"] \/ worker' = [worker EXCEPT ![w] = @]
      /\ DOMAIN buffer' = Workers /\ DOMAIN spans' = Workers
      /\ \A v \in Workers \ {w} : buffer'[v] = buffer[v] /\ spans'[v] = spans[v]
  BY DEF Emit
<1>2. QED
  BY <1>1

LEMMA ParentKeeps == ASSUME TallyInv, Parent PROVE TallyInv'
<1> USE DEF TallyInv, Workplaces, Collected, Flushed, Reported, Steps
<1>1. CASE Spawn
  BY <1>1 DEF Spawn
<1>2. CASE Timeout \/ Join
  BY <1>2 DEF Timeout, Join
<1>3. CASE ProcessEnds
  BY <1>3 DEF ProcessEnds
<1>4. ASSUME NEW w \in Workers, Get(w)
      PROVE  TallyInv'
  BY <1>4 DEF Get
<1>5. QED
  BY <1>1, <1>2, <1>3, <1>4 DEF Parent

(***************************************************************************)
(* A run that returns has the spans of every worker, all of them flushed   *)
(* (run_load, _run_worker).                                                *)
(***************************************************************************)
THEOREM TallyIsWholeHolds == LoadSpec => []TallyIsWhole
<1>1. LoadInit => TallyInv
  BY DEF LoadInit, TallyInv, Workplaces, Collected, Flushed, Reported, Steps
<1>2. TallyInv /\ [LoadNext]_loadVars => TallyInv'
  <2>1. ASSUME TallyInv, UNCHANGED loadVars
        PROVE  TallyInv'
    BY <2>1 DEF loadVars, TallyInv, Workplaces, Collected, Flushed, Reported
  <2>2. QED
    BY <2>1, WorkKeeps, EmitKeeps, ParentKeeps DEF LoadNext
<1>3. TallyInv => TallyIsWhole
  BY DEF TallyInv, Workplaces, Collected, Flushed, Reported, TallyIsWhole
<1>4. QED
  BY <1>1, <1>2, <1>3, PTL DEF LoadSpec
-----------------------------------------------------------------------------
(***************************************************************************)
(* The collector, the topic and the engine.  What is on a partition was    *)
(* handed to the collector; a block in hand begins where the group stands, *)
(* or where retention has let it begin; what one of its views has done is  *)
(* in that view's table.                                                   *)
(***************************************************************************)
Handed ==
  /\ \A p \in Partitions : \A i \in 1 .. Len(log[p]) : stage[log[p][i]] # "out"
  /\ \A v \in Views : \A m \in table[v] : stage[m] # "out"

BlockFits(p) ==
  block[p] # None =>
    /\ block[p].from >= Position(p)
    /\ block[p].from = Position(p) \/ block[p].from <= logStart[p]

BlockStored(p) ==
  block[p] # None =>
    \A v \in block[p].done : \A i \in block[p].from + 1 .. block[p].to :
      Takes(v, log[p][i]) => log[p][i] \in table[v]

\* What is read of a partition leaves room for its backlog, and so does the log
\* while nothing is read of it.
ReadingCovers(p) ==
  backlog[p] + reading.position[p]
    <= (IF reading.high[p] = None THEN High(p) ELSE reading.high[p])

ReaderInv == reading # None => \A p \in DOMAIN reading.high : ReadingCovers(p)

EngineInv == \A p \in Partitions : BlockFits(p) /\ BlockStored(p)

\* A batch in the queue has all its parts there, but for those that were sent.
Together ==
  \A m, k \in Messages :
    stage[m] = "queued" /\ BatchOf[k] = BatchOf[m] => stage[k] \in {"queued", "sent"}

IngestInv == TypeOK /\ IsFiniteSet(QueuedBatches) /\ Handed /\ Together /\ EngineInv /\ ReaderInv

LEMMA PositionType ==
  ASSUME TypeOK, NEW p \in Partitions
  PROVE  /\ Position(p) \in Nat /\ Position(p) <= High(p) /\ High(p) \in Nat
         /\ Offset(p) = Position(p) /\ logStart[p] \in Nat /\ logStart[p] <= High(p)
         /\ log[p] \in Seq(Messages)
BY DEF TypeOK, Position, High, Offset

LEMMA ReadingType ==
  ASSUME TypeOK, reading # None
  PROVE  /\ DOMAIN reading.high \subseteq Partitions
         /\ \A p \in DOMAIN reading.high :
              /\ reading.position[p] \in Nat /\ reading.high[p] \in Nat \union {None}
              /\ backlog[p] \in Nat
BY DEF TypeOK, Reading

\* A step that the reader has no part in: the logs get no shorter.
LEMMA ReaderUndisturbed ==
  ASSUME IngestInv, UNCHANGED readerVars,
         \A p \in Partitions : High(p)' \in Nat /\ High(p) <= High(p)'
  PROVE  ReaderInv'
<1> SUFFICES ASSUME reading # None, NEW p \in DOMAIN reading.high
             PROVE  ReadingCovers(p)'
  BY DEF ReaderInv, readerVars
<1>1. ReadingCovers(p) /\ p \in Partitions
  BY ReadingType DEF IngestInv, ReaderInv
<1>2. reading.position[p] \in Nat /\ backlog[p] \in Nat /\ High(p) \in Nat /\ High(p) <= High(p)'
  BY <1>1, ReadingType, PositionType DEF IngestInv
<1>3. QED
  BY <1>1, <1>2 DEF ReadingCovers, readerVars

\* A step that only moves messages within the collector, and takes none back.
LEMMA CollectorKeeps ==
  ASSUME IngestInv, UNCHANGED <<topicVars, engineVars, readerVars>>,
         stage' \in [Messages -> Stages], mishaps' \in 0 .. MaxMishaps,
         \A m \in Messages : stage[m] # "out" => stage'[m] # "out",
         IsFiniteSet(QueuedBatches'), Cardinality(QueuedBatches') <= QueueSize, Together'
  PROVE  IngestInv'
<1> USE DEF IngestInv, topicVars, engineVars, readerVars
<1>1. TypeOK'
  <2>1. Cardinality({BatchOf[m] : m \in {k \in Messages : stage'[k] = "queued"}}) <= QueueSize
    BY DEF Queue, QueuedBatches
  <2>2. QED
    BY <2>1 DEF TypeOK
<1>2. Handed'
  <2>1. \A p \in Partitions : \A i \in 1 .. Len(log[p]) : log[p][i] \in Messages
    BY DEF TypeOK
  <2>2. \A v \in Views : table[v] \subseteq Messages
    BY DEF TypeOK
  <2>3. QED
    BY <2>1, <2>2 DEF Handed
<1>3. EngineInv'
  BY DEF EngineInv, BlockFits, BlockStored, Position
<1>4. ReaderInv'
  <2>1. \A p \in Partitions : High(p)' = High(p) /\ High(p) \in Nat
    BY PositionType DEF High
  <2>2. QED
    BY <2>1, ReaderUndisturbed
<1>5. QED
  BY <1>1, <1>2, <1>3, <1>4

LEMMA ArrivesKeeps ==
  ASSUME IngestInv, NEW b \in Batches, NEW to \in {"refused", "queued", "rejected"}, Arrives(b, to),
         to = "queued" => Cardinality(QueuedBatches) < QueueSize
  PROVE  IngestInv'
<1>1. /\ stage \in [Messages -> Stages] /\ mishaps \in 0 .. MaxMishaps
      /\ \A m \in Parts(b) : stage[m] = "out"
      /\ stage' = [m \in Messages |-> IF m \in Parts(b) THEN to ELSE stage[m]]
      /\ UNCHANGED <<topicVars, engineVars, readerVars, mishaps>>
  BY DEF IngestInv, TypeOK, Arrives, Move
<1>2. /\ IsFiniteSet(QueuedBatches) /\ Cardinality(QueuedBatches) <= QueueSize
      /\ Cardinality(QueuedBatches) \in Nat /\ QueueSize \in Nat
  BY FS_CardinalityType, IngestAssumption DEF IngestInv, TypeOK, QueuedBatches, Queue
<1>3. stage' \in [Messages -> Stages] /\ \A m \in Messages : stage[m] # "out" => stage'[m] # "out"
  BY <1>1 DEF Stages
<1>4. Together'
  BY <1>1 DEF Together, IngestInv, Parts
<1>5. CASE to = "queued"
  <2>1. QueuedBatches' \subseteq QueuedBatches \union {b}
    BY <1>1, <1>5 DEF QueuedBatches, Queue, Parts
  <2>2. /\ IsFiniteSet(QueuedBatches \union {b})
        /\ Cardinality(QueuedBatches \union {b}) \in Nat /\ Cardinality(QueuedBatches \union {b}) <= QueueSize
    <3>1. /\ IsFiniteSet(QueuedBatches \union {b})
          /\ Cardinality(QueuedBatches \union {b}) \in {Cardinality(QueuedBatches), Cardinality(QueuedBatches) + 1}
      BY <1>2, FS_AddElement
    <3>2. QED
      BY <3>1, <1>2, <1>5
  <2>3. IsFiniteSet(QueuedBatches') /\ Cardinality(QueuedBatches') <= Cardinality(QueuedBatches \union {b})
    BY <2>1, <2>2, FS_Subset
  <2>4. Cardinality(QueuedBatches') \in Nat
    BY <2>3, FS_CardinalityType
  <2>5. Cardinality(QueuedBatches') <= QueueSize
    BY <2>2, <2>3, <2>4, <1>2
  <2>6. QED
    BY <1>1, <1>3, <1>4, <2>3, <2>5, CollectorKeeps
<1>6. CASE to # "queued"
  <2>1. Queue' = Queue
    BY <1>1, <1>6 DEF Queue
  <2>2. QueuedBatches' = QueuedBatches
    BY <2>1 DEF QueuedBatches
  <2>3. QED
    BY <1>1, <1>2, <1>3, <1>4, <2>2, CollectorKeeps
<1>7. QED
  BY <1>5, <1>6

LEMMA RefuseKeeps == ASSUME IngestInv, NEW b \in Batches, Refuse(b) PROVE IngestInv'
BY ArrivesKeeps DEF Refuse

LEMMA EnqueueKeeps == ASSUME IngestInv, NEW b \in Batches, Enqueue(b) PROVE IngestInv'
<1>1. CASE Cardinality(QueuedBatches) < QueueSize
  BY <1>1, ArrivesKeeps DEF Enqueue
<1>2. CASE ~ (Cardinality(QueuedBatches) < QueueSize)
  BY <1>2, ArrivesKeeps DEF Enqueue
<1>3. QED
  BY <1>1, <1>2

\* A queue that no batch comes to is still within its bound.
LEMMA QueueShrinks ==
  ASSUME IngestInv, QueuedBatches' \subseteq QueuedBatches
  PROVE  IsFiniteSet(QueuedBatches') /\ Cardinality(QueuedBatches') <= QueueSize
<1>1. /\ IsFiniteSet(QueuedBatches) /\ Cardinality(QueuedBatches) <= QueueSize
      /\ Cardinality(QueuedBatches) \in Nat /\ QueueSize \in Nat
  BY FS_CardinalityType, IngestAssumption DEF IngestInv, TypeOK, QueuedBatches, Queue
<1>2. IsFiniteSet(QueuedBatches') /\ Cardinality(QueuedBatches') <= Cardinality(QueuedBatches)
  BY <1>1, FS_Subset
<1>3. Cardinality(QueuedBatches') \in Nat
  BY <1>2, FS_CardinalityType
<1>4. QED
  BY <1>1, <1>2, <1>3

LEMMA RetryKeeps == ASSUME IngestInv, NEW b \in Batches, Retry(b) PROVE IngestInv'
<1>1. /\ stage \in [Messages -> Stages] /\ b \in QueuedBatches /\ mishaps' \in 0 .. MaxMishaps
      /\ stage' = [m \in Messages |-> IF m \in Sent(b) THEN "queued" ELSE stage[m]]
      /\ UNCHANGED <<topicVars, engineVars, readerVars>>
  BY IngestAssumption DEF IngestInv, TypeOK, Retry, Move, Mishap
<1>2. stage' \in [Messages -> Stages] /\ \A m \in Messages : stage[m] # "out" => stage'[m] # "out"
  BY <1>1 DEF Stages
<1>3. QueuedBatches' \subseteq QueuedBatches
  BY <1>1 DEF QueuedBatches, Queue, Sent, Parts
<1>4. Together'
  <2>1. PICK j \in Messages : stage[j] = "queued" /\ BatchOf[j] = b
    BY <1>1 DEF QueuedBatches, Queue
  <2>2. ASSUME NEW m \in Messages, NEW k \in Messages, stage'[m] = "queued", BatchOf[k] = BatchOf[m]
        PROVE  stage'[k] \in {"queued", "sent"}
    <3>1. stage[k] \in {"queued", "sent"}
      <4>1. CASE m \in Sent(b)
        BY <2>1, <2>2, <4>1 DEF IngestInv, Together, Sent, Parts
      <4>2. CASE m \notin Sent(b)
        BY <1>1, <2>2, <4>2 DEF IngestInv, Together
      <4>3. QED
        BY <4>1, <4>2
    <3>2. QED
      BY <3>1, <1>1
  <2>3. QED
    BY <2>2 DEF Together
<1>5. QED
  BY <1>1, <1>2, <1>3, <1>4, QueueShrinks, CollectorKeeps

LEMMA GiveUpKeeps == ASSUME IngestInv, NEW b \in Batches, GiveUp(b) PROVE IngestInv'
<1>1. /\ stage \in [Messages -> Stages]
      /\ stage' = [m \in Messages |-> IF m \in Parts(b) THEN "failed" ELSE stage[m]]
      /\ UNCHANGED <<topicVars, engineVars, readerVars, mishaps>> /\ mishaps \in 0 .. MaxMishaps
  BY DEF IngestInv, TypeOK, GiveUp, Move
<1>2. QueuedBatches' \subseteq QueuedBatches
  BY <1>1 DEF QueuedBatches, Queue
<1>3. stage' \in [Messages -> Stages] /\ \A m \in Messages : stage[m] # "out" => stage'[m] # "out"
  BY <1>1 DEF Stages
<1>4. Together'
  BY <1>1 DEF Together, IngestInv, Parts
<1>5. QED
  BY <1>1, <1>2, <1>3, <1>4, QueueShrinks, CollectorKeeps

LEMMA RestartKeeps == ASSUME IngestInv, RestartCollector PROVE IngestInv'
<1>1. /\ stage \in [Messages -> Stages]
      /\ stage' = [m \in Messages |-> IF stage[m] = "queued" THEN "forgotten" ELSE stage[m]]
      /\ UNCHANGED <<topicVars, engineVars, readerVars>> /\ mishaps' \in 0 .. MaxMishaps
  BY IngestAssumption DEF IngestInv, TypeOK, RestartCollector, Mishap
<1>2. QueuedBatches' \subseteq QueuedBatches
  BY <1>1 DEF QueuedBatches, Queue
<1>3. stage' \in [Messages -> Stages] /\ \A m \in Messages : stage[m] # "out" => stage'[m] # "out"
  BY <1>1 DEF Stages
<1>4. Together'
  BY <1>1 DEF Together
<1>5. QED
  BY <1>1, <1>2, <1>3, <1>4, QueueShrinks, CollectorKeeps

\* A log with one more message.
LEMMA Appended ==
  ASSUME IngestInv, NEW m \in Messages, NEW q \in Partitions,
         log' = [log EXCEPT ![q] = Append(@, m)]
  PROVE  /\ log' \in [Partitions -> Seq(Messages)]
         /\ \A p \in Partitions :
              /\ High(p)' = IF p = q THEN High(p) + 1 ELSE High(p)
              /\ \A i \in 1 .. High(p) : log'[p][i] = log[p][i]
         /\ log'[q][High(q) + 1] = m
<1>1. log \in [Partitions -> Seq(Messages)]
  BY DEF IngestInv, TypeOK
<1>2. \A p \in Partitions : log[p] \in Seq(Messages) /\ log'[p] = IF p = q THEN Append(log[p], m) ELSE log[p]
  BY <1>1
<1>3. \A s \in Seq(Messages) : /\ Append(s, m) \in Seq(Messages) /\ Len(Append(s, m)) = Len(s) + 1
                               /\ \A i \in 1 .. Len(s) : Append(s, m)[i] = s[i]
                               /\ Append(s, m)[Len(s) + 1] = m
  OBVIOUS
<1>4. log' \in [Partitions -> Seq(Messages)]
  BY <1>1, <1>2, <1>3
<1>5. QED
  BY <1>2, <1>3, <1>4 DEF High

LEMMA SendKeeps ==
  ASSUME IngestInv, NEW m \in Messages, NEW answered \in BOOLEAN, Send(m, answered)
  PROVE  IngestInv'
<1> DEFINE q == PartitionOf[m]
<1>1. /\ stage \in [Messages -> Stages] /\ stage[m] = "queued" /\ q \in Partitions
      /\ log' = [log EXCEPT ![q] = Append(@, m)] /\ mishaps' \in 0 .. MaxMishaps
      /\ stage' = stage \/ stage' = [k \in Messages |-> IF k \in {m} THEN "sent" ELSE stage[k]]
      /\ UNCHANGED <<logStart, engineVars, readerVars>>
  BY IngestAssumption DEF IngestInv, TypeOK, Send, Move, Mishap
<1>2. stage' \in [Messages -> Stages] /\ \A k \in Messages : stage'[k] = "out" <=> stage[k] = "out"
  BY <1>1 DEF Stages
<1>3. IsFiniteSet(QueuedBatches') /\ Cardinality(QueuedBatches') <= QueueSize /\ Together'
  <2>1. QueuedBatches' \subseteq QueuedBatches
    BY <1>1 DEF QueuedBatches, Queue
  <2>2. Together'
    BY <1>1 DEF Together, IngestInv
  <2>3. QED
    BY <2>1, <2>2, QueueShrinks
<1> HIDE DEF q
<1>4. /\ log' \in [Partitions -> Seq(Messages)]
      /\ \A p \in Partitions :
           /\ High(p)' = IF p = q THEN High(p) + 1 ELSE High(p)
           /\ \A i \in 1 .. High(p) : log'[p][i] = log[p][i]
      /\ log'[q][High(q) + 1] = m
  BY <1>1, Appended
<1>5. \A p \in Partitions : High(p) \in Nat /\ High(p)' \in Nat /\ High(p) <= High(p)'
  <2>1. \A p \in Partitions : High(p) \in Nat
    BY PositionType DEF IngestInv
  <2>2. QED
    BY <2>1, <1>4
<1>6. TypeOK'
  <2>1. /\ logStart' \in [Partitions -> Nat] /\ committed' \in [Partitions -> Nat \union {None}]
        /\ block' \in [Partitions -> Block \union {None}] /\ table' \in [Views -> SUBSET Messages]
        /\ reading' \in {None} \/ reading' \in Reading({}) \/ reading' \in Reading(Partitions)
        /\ backlog' \in [Partitions -> Nat]
    BY <1>1 DEF IngestInv, TypeOK, engineVars, readerVars
  <2>2. ASSUME NEW p \in Partitions
        PROVE  /\ logStart'[p] <= High(p)'
               /\ committed'[p] # None => committed'[p] <= High(p)'
               /\ block'[p] # None => block'[p].from < block'[p].to /\ block'[p].to <= High(p)'
    <3>1. /\ logStart[p] <= High(p) /\ logStart[p] \in Nat
          /\ committed[p] # None => committed[p] <= High(p) /\ committed[p] \in Nat
          /\ block[p] # None => /\ block[p].from < block[p].to /\ block[p].to <= High(p)
                                /\ block[p].from \in Nat /\ block[p].to \in Nat
      BY DEF IngestInv, TypeOK, High, Block
    <3>2. UNCHANGED <<logStart[p], committed[p], block[p]>>
      BY <1>1 DEF engineVars
    <3>3. QED
      BY <3>1, <3>2, <1>5
  <2>3. QED
    BY <1>1, <1>2, <1>3, <1>4, <2>1, <2>2 DEF TypeOK, High, Queue, QueuedBatches
<1>7. Handed'
  <2>1. \A p \in Partitions : \A i \in 1 .. High(p)' : stage'[log'[p][i]] # "out"
    <3> TAKE p \in Partitions
    <3> TAKE i \in 1 .. High(p)'
    <3>1. CASE i \in 1 .. High(p)
      <4>1. log[p][i] \in Messages /\ stage[log[p][i]] # "out"
        BY <3>1, <1>5 DEF IngestInv, TypeOK, Handed, High
      <4>2. QED
        BY <4>1, <3>1, <1>2, <1>4
    <3>2. CASE p = q /\ i = High(p) + 1
      BY <3>2, <1>1, <1>2, <1>4
    <3>3. QED
      BY <3>1, <3>2, <1>4, <1>5
  <2>2. \A v \in Views : \A k \in table'[v] : stage'[k] # "out"
    BY <1>1, <1>2 DEF IngestInv, TypeOK, Handed, engineVars
  <2>3. QED
    BY <2>1, <2>2 DEF Handed, High
<1>8. EngineInv'
  <2> SUFFICES ASSUME NEW p \in Partitions
               PROVE  BlockFits(p)' /\ BlockStored(p)'
    BY DEF EngineInv
  <2>1. UNCHANGED <<block, committed, logStart, table>> /\ BlockFits(p) /\ BlockStored(p)
    BY <1>1 DEF engineVars, IngestInv, EngineInv
  <2>2. block[p] # None => /\ block[p].from \in Nat /\ block[p].to \in Nat /\ block[p].to <= High(p)
    BY DEF IngestInv, TypeOK, Block, High
  <2>3. block[p] # None => \A i \in block[p].from + 1 .. block[p].to : log'[p][i] = log[p][i]
    BY <2>2, <1>4, <1>5
  <2>4. BlockFits(p)'
    BY <2>1 DEF BlockFits, Position
  <2>5. QED
    BY <2>1, <2>3, <2>4 DEF BlockStored, Takes
<1>9. ReaderInv'
  BY <1>1, <1>5, ReaderUndisturbed
<1>10. QED
  BY <1>3, <1>6, <1>7, <1>8, <1>9 DEF IngestInv

\* A step of the engine or of retention: the logs stay as they are.
LEMMA LogsStay ==
  ASSUME IngestInv, UNCHANGED <<stage, log, readerVars>>,
         logStart' \in [Partitions -> Nat], committed' \in [Partitions -> Nat \union {None}],
         block' \in [Partitions -> Block \union {None}], table' \in [Views -> SUBSET Messages],
         mishaps' \in 0 .. MaxMishaps,
         \A p \in Partitions :
           /\ logStart'[p] <= High(p)
           /\ committed'[p] # None => committed'[p] <= High(p)
           /\ block'[p] # None => block'[p].from < block'[p].to /\ block'[p].to <= High(p)
           /\ BlockFits(p)' /\ BlockStored(p)',
         \A v \in Views : \A m \in table'[v] : stage[m] # "out"
  PROVE  IngestInv'
<1> USE DEF IngestInv, readerVars
<1>1. QueuedBatches' = QueuedBatches /\ Together' /\ \A p \in Partitions : High(p)' = High(p)
  BY DEF QueuedBatches, Queue, Together, High
<1>2. TypeOK'
  BY <1>1 DEF TypeOK, High
<1>3. Handed'
  BY DEF Handed
<1>4. ReaderInv'
  BY <1>1, PositionType, ReaderUndisturbed
<1>5. QED
  BY <1>1, <1>2, <1>3, <1>4 DEF EngineInv

\* What the invariant says of one partition.
LEMMA OfPartition ==
  ASSUME IngestInv, NEW p \in Partitions
  PROVE  /\ log[p] \in Seq(Messages) /\ High(p) \in Nat
         /\ Position(p) \in Nat /\ Position(p) <= High(p)
         /\ logStart[p] \in Nat /\ logStart[p] <= High(p)
         /\ committed[p] # None => committed[p] \in Nat /\ committed[p] <= High(p)
         /\ block[p] # None =>
              /\ block[p] \in Block
              /\ block[p].from \in Nat /\ block[p].to \in Nat /\ block[p].done \subseteq Views
              /\ block[p].from < block[p].to /\ block[p].to <= High(p)
              /\ Position(p) <= block[p].from
              /\ block[p].from = Position(p) \/ block[p].from <= logStart[p]
              /\ \A v \in block[p].done : \A i \in block[p].from + 1 .. block[p].to :
                   Takes(v, log[p][i]) => log[p][i] \in table[v]
         /\ \A i \in 1 .. High(p) : log[p][i] \in Messages /\ stage[log[p][i]] # "out"
<1>1. TypeOK /\ BlockFits(p) /\ BlockStored(p)
  BY DEF IngestInv, EngineInv
<1>2. block[p] # None =>
        /\ block[p] \in Block
        /\ block[p].from \in Nat /\ block[p].to \in Nat /\ block[p].done \subseteq Views
        /\ block[p].from < block[p].to /\ block[p].to <= High(p)
  BY <1>1 DEF TypeOK, Block, High
<1>3. \A i \in 1 .. High(p) : log[p][i] \in Messages /\ stage[log[p][i]] # "out"
  BY <1>1 DEF IngestInv, TypeOK, Handed, High
<1>4. committed[p] # None => committed[p] \in Nat /\ committed[p] <= High(p)
  BY <1>1 DEF TypeOK, High
<1>5. QED
  BY <1>1, <1>2, <1>3, <1>4, PositionType DEF BlockFits, BlockStored

LEMMA ExpireKeeps == ASSUME IngestInv, NEW q \in Partitions, Expire(q) PROVE IngestInv'
<1>1. /\ UNCHANGED <<stage, log, readerVars, committed, block, table>>
      /\ logStart' = [logStart EXCEPT ![q] = @ + 1] /\ logStart[q] < High(q)
      /\ mishaps' \in 0 .. MaxMishaps
  BY IngestAssumption DEF IngestInv, TypeOK, Expire, Mishap, collectorVars, engineVars
<1>2. /\ logStart \in [Partitions -> Nat] /\ committed \in [Partitions -> Nat \union {None}]
      /\ block \in [Partitions -> Block \union {None}] /\ table \in [Views -> SUBSET Messages]
      /\ \A v \in Views : \A m \in table[v] : stage[m] # "out"
  BY DEF IngestInv, TypeOK, Handed
<1>3. \A p \in Partitions : logStart'[p] \in Nat /\ logStart[p] <= logStart'[p] /\ logStart'[p] <= High(p)
  <2> TAKE p \in Partitions
  <2>1. logStart[p] \in Nat /\ logStart[p] <= High(p) /\ High(p) \in Nat
    BY OfPartition
  <2>2. QED
    BY <2>1, <1>1, <1>2
<1>4. \A p \in Partitions : BlockFits(p)' /\ BlockStored(p)'
  <2> TAKE p \in Partitions
  <2>1. BlockFits(p)'
    <3>1. SUFFICES ASSUME block[p] # None
                   PROVE  /\ block[p].from >= Position(p)
                          /\ block[p].from = Position(p) \/ block[p].from <= logStart'[p]
      BY <1>1 DEF BlockFits, Position
    <3>2. /\ block[p].from \in Nat /\ logStart[p] \in Nat /\ Position(p) \in Nat
          /\ Position(p) <= block[p].from
          /\ block[p].from = Position(p) \/ block[p].from <= logStart[p]
      BY <3>1, OfPartition
    <3>3. QED
      BY <3>2, <1>3
  <2>2. BlockStored(p)'
    BY <1>1 DEF BlockStored, Takes, IngestInv, EngineInv
  <2>3. QED
    BY <2>1, <2>2
<1>5. QED
  <2>1. logStart' \in [Partitions -> Nat]
    BY <1>1, <1>2, <1>3
  <2>2. \A p \in Partitions :
          /\ committed'[p] # None => committed'[p] <= High(p)
          /\ block'[p] # None => block'[p].from < block'[p].to /\ block'[p].to <= High(p)
    BY <1>1, OfPartition
  <2>3. QED
    BY <1>1, <1>2, <1>3, <1>4, <2>1, <2>2, LogsStay

\* A step of the engine on one partition's block.
LEMMA BlockMoves ==
  ASSUME IngestInv, NEW q \in Partitions, UNCHANGED <<stage, log, logStart, readerVars>>,
         NEW b \in Block \union {None}, block' = [block EXCEPT ![q] = b],
         NEW c \in Nat \union {None}, committed' = [committed EXCEPT ![q] = c],
         c # None => c <= High(q),
         b # None => /\ b.from < b.to /\ b.to <= High(q),
         BlockFits(q)', BlockStored(q)',
         table' \in [Views -> SUBSET Messages], \A v \in Views : table[v] \subseteq table'[v],
         \A v \in Views : \A m \in table'[v] : stage[m] # "out",
         mishaps' \in 0 .. MaxMishaps
  PROVE  IngestInv'
<1>1. /\ logStart \in [Partitions -> Nat] /\ committed \in [Partitions -> Nat \union {None}]
      /\ block \in [Partitions -> Block \union {None}]
  BY DEF IngestInv, TypeOK
<1>2. /\ committed' \in [Partitions -> Nat \union {None}]
      /\ block' \in [Partitions -> Block \union {None}]
      /\ block'[q] = b /\ committed'[q] = c
      /\ \A p \in Partitions \ {q} : UNCHANGED <<block[p], committed[p]>>
  BY <1>1
<1>3. ASSUME NEW p \in Partitions
      PROVE  /\ committed'[p] # None => committed'[p] <= High(p)
             /\ block'[p] # None => block'[p].from < block'[p].to /\ block'[p].to <= High(p)
             /\ BlockFits(p)' /\ BlockStored(p)'
  <2>1. CASE p = q
    BY <2>1, <1>2
  <2>2. CASE p # q
    <3>1. UNCHANGED <<block[p], committed[p]>> /\ BlockFits(p) /\ BlockStored(p)
      BY <2>2, <1>2 DEF IngestInv, EngineInv
    <3>2. BlockFits(p)'
      BY <3>1 DEF BlockFits, Position
    <3>3. BlockStored(p)'
      <4>1. block[p] # None => block[p].done \subseteq Views
        BY OfPartition
      <4>2. QED
        BY <3>1, <4>1 DEF BlockStored, Takes
    <3>4. QED
      BY <3>1, <3>2, <3>3, OfPartition
  <2>3. QED
    BY <2>1, <2>2
<1>4. \A p \in Partitions : logStart[p] <= High(p)
  BY OfPartition
<1>5. QED
  BY <1>1, <1>2, <1>3, <1>4, LogsStay

LEMMA PollKeeps ==
  ASSUME IngestInv, NEW q \in Partitions, NEW to \in 1 .. High(q), Poll(q, to)
  PROVE  IngestInv'
<1> DEFINE from == Max({Position(q), logStart[q]})
           b == [from |-> from, to |-> to, done |-> {}]
<1>1. /\ from < to /\ block' = [block EXCEPT ![q] = b] /\ block[q] = None
      /\ UNCHANGED <<stage, log, logStart, readerVars, committed, table, mishaps>>
  BY DEF Poll, collectorVars, topicVars
<1>2. /\ Position(q) \in Nat /\ logStart[q] \in Nat /\ High(q) \in Nat
  BY OfPartition
<1>3. /\ from \in Nat /\ Position(q) <= from /\ logStart[q] <= from
      /\ from = Position(q) \/ from = logStart[q]
  BY <1>2, MaxOfTwo
<1>4. to \in Nat /\ to <= High(q)
  BY <1>2
<1> HIDE DEF from
<1>5. b \in Block /\ b.from = from /\ b.to = to /\ b.done = {}
  BY <1>3, <1>4 DEF Block
<1> HIDE DEF b
<1>6. block'[q] = b
  BY <1>1 DEF IngestInv, TypeOK
<1>7. BlockFits(q)' /\ BlockStored(q)'
  BY <1>1, <1>2, <1>3, <1>5, <1>6 DEF BlockFits, BlockStored, Position
<1>8. /\ table' \in [Views -> SUBSET Messages] /\ mishaps' \in 0 .. MaxMishaps
      /\ \A v \in Views : table[v] \subseteq table'[v] /\ \A m \in table'[v] : stage[m] # "out"
      /\ committed' = [committed EXCEPT ![q] = committed[q]]
      /\ committed[q] \in Nat \union {None} /\ (committed[q] # None => committed[q] <= High(q))
  BY <1>1, OfPartition DEF IngestInv, TypeOK, Handed
<1>9. QED
  BY <1>1, <1>4, <1>5, <1>7, <1>8, BlockMoves

LEMMA AbandonKeeps == ASSUME IngestInv, NEW q \in Partitions, Abandon(q) PROVE IngestInv'
<1>1. /\ block' = [block EXCEPT ![q] = None] /\ mishaps' \in 0 .. MaxMishaps
      /\ UNCHANGED <<stage, log, logStart, readerVars, committed, table>>
  BY IngestAssumption DEF Abandon, collectorVars, topicVars, IngestInv, TypeOK, Mishap
<1>2. block'[q] = None
  BY <1>1 DEF IngestInv, TypeOK
<1>3. BlockFits(q)' /\ BlockStored(q)'
  BY <1>2 DEF BlockFits, BlockStored
<1>4. /\ table' \in [Views -> SUBSET Messages]
      /\ \A v \in Views : table[v] \subseteq table'[v] /\ \A m \in table'[v] : stage[m] # "out"
      /\ committed' = [committed EXCEPT ![q] = committed[q]]
      /\ committed[q] \in Nat \union {None} /\ (committed[q] # None => committed[q] <= High(q))
  BY <1>1, OfPartition DEF IngestInv, TypeOK, Handed
<1>5. QED
  BY <1>1, <1>3, <1>4, BlockMoves

\* What a view puts into its table: the block's messages that it takes.
Fed(q, view) ==
  {m \in Messages : /\ Takes(view, m)
                    /\ \E i \in block[q].from + 1 .. block[q].to : log[q][i] = m}

LEMMA InsertFacts ==
  ASSUME IngestInv, NEW q \in Partitions, NEW view \in Views, Insert(q, view)
  PROVE  /\ block[q] # None /\ view \notin block[q].done
         /\ block' = [block EXCEPT ![q] = [from |-> block[q].from, to |-> block[q].to,
                                           done |-> block[q].done \union {view}]]
         /\ table' = [table EXCEPT ![view] = @ \union Fed(q, view)]
         /\ UNCHANGED <<stage, log, logStart, readerVars, committed, mishaps>>
<1>1. block[q] # None /\ block[q] \in Block
  BY OfPartition DEF Insert
<1>2. [block[q] EXCEPT !.done = @ \union {view}]
        = [from |-> block[q].from, to |-> block[q].to, done |-> block[q].done \union {view}]
  BY <1>1 DEF Block
<1>3. block' = [block EXCEPT ![q] = [block[q] EXCEPT !.done = @ \union {view}]]
  BY <1>1 DEF Insert, IngestInv, TypeOK
<1>4. QED
  BY <1>1, <1>2, <1>3 DEF Insert, Fed, collectorVars, topicVars

LEMMA InsertKeeps ==
  ASSUME IngestInv, NEW q \in Partitions, NEW view \in Views, Insert(q, view)
  PROVE  IngestInv'
<1> DEFINE b == [from |-> block[q].from, to |-> block[q].to, done |-> block[q].done \union {view}]
<1>1. /\ block[q] # None /\ block' = [block EXCEPT ![q] = b]
      /\ table' = [table EXCEPT ![view] = @ \union Fed(q, view)]
      /\ UNCHANGED <<stage, log, logStart, readerVars, committed, mishaps>>
  BY InsertFacts
<1>2. /\ block[q].from \in Nat /\ block[q].to \in Nat /\ block[q].done \subseteq Views
      /\ block[q].from < block[q].to /\ block[q].to <= High(q) /\ High(q) \in Nat
      /\ \A i \in 1 .. High(q) : log[q][i] \in Messages /\ stage[log[q][i]] # "out"
      /\ \A v \in block[q].done : \A i \in block[q].from + 1 .. block[q].to :
            Takes(v, log[q][i]) => log[q][i] \in table[v]
  BY <1>1, OfPartition
<1>3. /\ b \in Block /\ b.from = block[q].from /\ b.to = block[q].to
      /\ b.done = block[q].done \union {view}
  BY <1>2 DEF Block
<1> HIDE DEF b
<1>4. /\ table \in [Views -> SUBSET Messages] /\ mishaps' \in 0 .. MaxMishaps
      /\ \A v \in Views : \A m \in table[v] : stage[m] # "out"
      /\ block'[q] = b
  BY <1>1 DEF IngestInv, TypeOK, Handed
<1>5. /\ Fed(q, view) \subseteq Messages /\ \A m \in Fed(q, view) : stage[m] # "out"
      /\ \A i \in b.from + 1 .. b.to : Takes(view, log[q][i]) => log[q][i] \in Fed(q, view)
  BY <1>2, <1>3 DEF Fed
<1>6. /\ table' \in [Views -> SUBSET Messages]
      /\ \A v \in Views : table[v] \subseteq table'[v] /\ \A m \in table'[v] : stage[m] # "out"
      /\ Fed(q, view) \subseteq table'[view]
  BY <1>1, <1>4, <1>5
<1>7. BlockFits(q)'
  <2>1. BlockFits(q)
    BY DEF IngestInv, EngineInv
  <2>2. QED
    BY <2>1, <1>1, <1>3, <1>4 DEF BlockFits, Position
<1>8. BlockStored(q)'
  <2> SUFFICES ASSUME NEW v \in b.done, NEW i \in b.from + 1 .. b.to, Takes(v, log[q][i])
               PROVE  log[q][i] \in table'[v]
    BY <1>1, <1>4 DEF BlockStored, Takes
  <2>1. CASE v = view
    BY <2>1, <1>5, <1>6
  <2>2. CASE v \in block[q].done
    BY <2>2, <1>2, <1>3, <1>6
  <2>3. QED
    BY <2>1, <2>2, <1>3
<1>9. /\ committed' = [committed EXCEPT ![q] = committed[q]]
      /\ committed[q] \in Nat \union {None} /\ (committed[q] # None => committed[q] <= High(q))
  BY <1>1, OfPartition DEF IngestInv, TypeOK
<1>10. QED
  BY <1>1, <1>2, <1>3, <1>4, <1>6, <1>7, <1>8, <1>9, BlockMoves

LEMMA CommitKeeps == ASSUME IngestInv, NEW q \in Partitions, Commit(q) PROVE IngestInv'
<1>1. /\ block[q] # None /\ block' = [block EXCEPT ![q] = None]
      /\ committed' = [committed EXCEPT ![q] = block[q].to]
      /\ UNCHANGED <<stage, log, logStart, readerVars, table, mishaps>>
  BY DEF Commit, collectorVars, topicVars
<1>2. block'[q] = None
  BY <1>1 DEF IngestInv, TypeOK
<1>3. BlockFits(q)' /\ BlockStored(q)'
  BY <1>2 DEF BlockFits, BlockStored
<1>4. /\ table' \in [Views -> SUBSET Messages] /\ mishaps' \in 0 .. MaxMishaps
      /\ \A v \in Views : table[v] \subseteq table'[v] /\ \A m \in table'[v] : stage[m] # "out"
      /\ block[q].to \in Nat /\ block[q].to <= High(q)
  BY <1>1, OfPartition DEF IngestInv, TypeOK, Handed
<1>5. QED
  BY <1>1, <1>3, <1>4, BlockMoves

\* A step of the reader alone.
LEMMA ReaderKeeps ==
  ASSUME IngestInv, UNCHANGED <<collectorVars, topicVars, engineVars, mishaps>>,
         reading' \in {None} \/ reading' \in Reading({}) \/ reading' \in Reading(Partitions),
         backlog' \in [Partitions -> Nat], ReaderInv'
  PROVE  IngestInv'
<1> USE DEF collectorVars, topicVars, engineVars
<1>1. QueuedBatches' = QueuedBatches /\ Together'
  BY DEF QueuedBatches, Queue, Together, IngestInv
<1>2. TypeOK'
  BY <1>1 DEF IngestInv, TypeOK
<1>3. Handed' /\ EngineInv'
  BY DEF IngestInv, Handed, EngineInv, BlockFits, BlockStored, Position, Takes
<1>4. QED
  BY <1>1, <1>2, <1>3 DEF IngestInv

LEMMA ReadCommittedKeeps == ASSUME IngestInv, ReadCommitted PROVE IngestInv'
<1>1. /\ reading' = [position |-> [p \in Partitions |-> Offset(p)],
                     high |-> [p \in Partitions |-> None]]
      /\ backlog' = [p \in Partitions |-> Outstanding(p)]
      /\ UNCHANGED <<collectorVars, topicVars, engineVars, mishaps>>
  BY DEF ReadCommitted
<1>2. \A p \in Partitions : /\ Offset(p) \in Nat /\ Outstanding(p) \in Nat /\ High(p) \in Nat
                            /\ Outstanding(p) + Offset(p) <= High(p)
  <2> TAKE p \in Partitions
  <2>1. /\ Position(p) \in Nat /\ Position(p) <= High(p) /\ High(p) \in Nat
        /\ Offset(p) = Position(p) /\ logStart[p] \in Nat /\ logStart[p] <= High(p)
    BY PositionType DEF IngestInv
  <2>2. Outstanding(p) = High(p) - (IF Position(p) >= logStart[p] THEN Position(p) ELSE logStart[p])
    BY <2>1, MaxOfTwo DEF Outstanding
  <2>3. QED
    BY <2>1, <2>2
<1>3. reading' \in Reading(Partitions) /\ backlog' \in [Partitions -> Nat]
  BY <1>1, <1>2 DEF Reading
<1>4. ReaderInv'
  BY <1>1, <1>2 DEF ReaderInv, ReadingCovers, High, topicVars
<1>5. QED
  BY <1>1, <1>3, <1>4, ReaderKeeps

LEMMA ReadHighKeeps == ASSUME IngestInv, NEW q \in Partitions, ReadHigh(q) PROVE IngestInv'
<1>1. /\ reading # None /\ q \in DOMAIN reading.high /\ reading.high[q] = None
      /\ reading' = [reading EXCEPT !.high[q] = High(q)] /\ backlog' = backlog
      /\ UNCHANGED <<collectorVars, topicVars, engineVars, mishaps>>
  BY DEF ReadHigh
<1>2. High(q) \in Nat /\ \A p \in Partitions : High(p)' = High(p)
  BY <1>1, OfPartition DEF High, topicVars
<1>3. PICK S \in SUBSET Partitions : reading \in Reading(S)
  BY <1>1 DEF IngestInv, TypeOK
<1>4. S = {} \/ S = Partitions
  BY <1>1, <1>3 DEF IngestInv, TypeOK, Reading
<1>5. /\ reading'.position = reading.position
      /\ reading'.high = [reading.high EXCEPT ![q] = High(q)]
      /\ reading' = [position |-> reading'.position, high |-> reading'.high]
  BY <1>1, <1>3 DEF Reading
<1>6. reading' \in Reading(S)
  BY <1>2, <1>3, <1>5 DEF Reading
<1>7. ReaderInv'
  <2> SUFFICES ASSUME NEW p \in DOMAIN reading'.high
               PROVE  ReadingCovers(p)'
    BY DEF ReaderInv
  <2>1. p \in DOMAIN reading.high /\ reading.high \in [S -> Nat \union {None}]
    BY <1>3, <1>5 DEF Reading
  <2>2. ReadingCovers(p)
    BY <2>1, <1>1 DEF IngestInv, ReaderInv
  <2>3. CASE p = q
    <3>1. reading'.high[p] = High(p) /\ High(p) # None
      BY <2>1, <2>3, <1>2, <1>5, IngestAssumption
    <3>2. QED
      BY <3>1, <2>2, <2>3, <1>1, <1>5 DEF ReadingCovers
  <2>4. CASE p # q
    <3>1. reading'.high[p] = reading.high[p] /\ High(p)' = High(p)
      BY <2>1, <2>4, <1>2, <1>3, <1>5
    <3>2. QED
      BY <3>1, <2>2, <1>1, <1>5 DEF ReadingCovers
  <2>5. QED
    BY <2>3, <2>4
<1>8. QED
  BY <1>1, <1>4, <1>6, <1>7, ReaderKeeps DEF IngestInv, TypeOK

LEMMA ReadNothingKeeps == ASSUME IngestInv, ReadNothing PROVE IngestInv'
<1>1. /\ reading' = [position |-> << >>, high |-> << >>] /\ backlog' = backlog
      /\ UNCHANGED <<collectorVars, topicVars, engineVars, mishaps>>
  BY DEF ReadNothing
<1>2. << >> \in [{} -> Nat] /\ << >> \in [{} -> Nat \union {None}] /\ DOMAIN << >> = {}
  OBVIOUS
<1>3. reading' \in Reading({}) /\ DOMAIN reading'.high = {}
  BY <1>1, <1>2 DEF Reading
<1>4. ReaderInv'
  BY <1>3 DEF ReaderInv
<1>5. QED
  BY <1>1, <1>3, <1>4, ReaderKeeps DEF IngestInv, TypeOK

LEMMA RecordKeeps == ASSUME IngestInv, Record PROVE IngestInv'
<1>1. /\ reading' = None /\ backlog' = [p \in Partitions |-> 0]
      /\ UNCHANGED <<collectorVars, topicVars, engineVars, mishaps>>
  BY DEF Record, NoBacklog
<1>2. ReaderInv'
  BY <1>1 DEF ReaderInv
<1>3. QED
  BY <1>1, <1>2, ReaderKeeps

LEMMA IngestInvHolds == Spec => []IngestInv
<1>1. Init => IngestInv
  <2> SUFFICES ASSUME Init
               PROVE  IngestInv
    OBVIOUS
  <2>1. QueuedBatches = {} /\ IsFiniteSet({}) /\ Cardinality({}) = 0
    BY FS_EmptySet DEF Init, QueuedBatches, Queue
  <2>2. TypeOK
    <3>1. Cardinality({BatchOf[m] : m \in {k \in Messages : stage[k] = "queued"}}) <= QueueSize
      BY <2>1, IngestAssumption DEF QueuedBatches, Queue
    <3>2. /\ stage \in [Messages -> Stages] /\ log \in [Partitions -> Seq(Messages)]
          /\ table \in [Views -> SUBSET Messages] /\ \A p \in Partitions : Len(log[p]) = 0
      BY DEF Init, Stages
    <3>3. QED
      BY <3>1, <3>2, IngestAssumption DEF Init, TypeOK, NoBacklog
  <2>3. Handed /\ Together /\ EngineInv /\ ReaderInv
    BY DEF Init, Handed, Together, EngineInv, BlockFits, BlockStored, ReaderInv
  <2>4. QED
    BY <2>1, <2>2, <2>3 DEF IngestInv
<1>2. IngestInv /\ [Next]_vars => IngestInv'
  <2> SUFFICES ASSUME IngestInv, [Next]_vars
               PROVE  IngestInv'
    OBVIOUS
  <2>1. CASE Collector
    BY <2>1, RefuseKeeps, EnqueueKeeps, RetryKeeps, GiveUpKeeps, SendKeeps, RestartKeeps DEF Collector
  <2>2. CASE Engine
    BY <2>2, PollKeeps, InsertKeeps, CommitKeeps, AbandonKeeps DEF Engine, PollSome, InsertSome
  <2>3. CASE Reader
    BY <2>3, ReadCommittedKeeps, ReadNothingKeeps, RecordKeeps, ReadHighKeeps DEF Reader
  <2>4. CASE \E p \in Partitions : Expire(p)
    BY <2>4, ExpireKeeps
  <2>5. CASE UNCHANGED vars
    BY <2>5 DEF vars, IngestInv, TypeOK, QueuedBatches, Queue, Handed, Together, EngineInv, BlockFits, BlockStored,
                Position, Takes, ReaderInv, ReadingCovers, High
  <2>6. QED
    BY <2>1, <2>2, <2>3, <2>4, <2>5 DEF Next
<1>3. QED
  BY <1>1, <1>2, PTL DEF Spec

(***************************************************************************)
(* The collector's queue stays within its size, and offsets, blocks and    *)
(* logs fit one another (config.yaml, 010_kafka_spans.sql).                *)
(***************************************************************************)
THEOREM IngestTypeOK == Spec => []TypeOK
<1>1. IngestInv => TypeOK
  BY DEF IngestInv
<1>2. QED
  BY <1>1, IngestInvHolds, PTL

(***************************************************************************)
(* No lag is read below the backlog there was when the reading began       *)
(* (read_lag): offsets first, watermarks after, whatever happens between.  *)
(***************************************************************************)
THEOREM LagCoversBacklogHolds == Spec => []LagCoversBacklog
<1>1. ASSUME IngestInv, Complete, NEW p \in DOMAIN reading.high
      PROVE  PartitionLag(p) >= backlog[p]
  <2>1. ReadingCovers(p) /\ reading.high[p] # None
    BY <1>1 DEF IngestInv, ReaderInv, Complete
  <2>2. reading.position[p] \in Nat /\ reading.high[p] \in Nat /\ backlog[p] \in Nat
    BY <1>1, <2>1, ReadingType DEF IngestInv, Complete
  <2>3. backlog[p] + reading.position[p] <= reading.high[p]
    BY <2>1 DEF ReadingCovers
  <2>4. QED
    BY <2>2, <2>3, MaxOfTwo DEF PartitionLag
<1>2. IngestInv => LagCoversBacklog
  BY <1>1 DEF LagCoversBacklog
<1>3. QED
  BY <1>2, IngestInvHolds, PTL

-----------------------------------------------------------------------------
(***************************************************************************)
(* The way implements Delivery.  What is on the way is in the collector's  *)
(* queue or at an offset ahead of the group, so a step is read off from    *)
(* what it does to the two.                                                *)
(***************************************************************************)
LEMMA ByPlace ==
  ASSUME NEW m
  PROVE  m \in OnTheWay <=>
           \/ m \in Queue
           \/ \E p \in Partitions : \E i \in Ahead(p) : log[p][i] = m
BY DEF OnTheWay

LEMMA AheadIsLogged ==
  ASSUME IngestInv, NEW p \in Partitions, NEW i \in Ahead(p)
  PROVE  /\ i \in Nat /\ i \in 1 .. High(p) /\ i > Position(p)
         /\ i > logStart[p] \/ (block[p] # None /\ i > block[p].from /\ i <= block[p].to)
         /\ log[p][i] \in Messages /\ stage[log[p][i]] # "out"
<1>1. /\ Position(p) \in Nat /\ High(p) \in Nat
      /\ \A j \in 1 .. High(p) : log[p][j] \in Messages /\ stage[log[p][j]] # "out"
  BY OfPartition
<1>2. /\ i \in Position(p) + 1 .. High(p)
      /\ i > logStart[p] \/ (block[p] # None /\ i > block[p].from /\ i <= block[p].to)
  BY DEF Ahead
<1>3. i \in Nat /\ i \in 1 .. High(p) /\ i > Position(p)
  BY <1>1, <1>2
<1>4. QED
  BY <1>1, <1>2, <1>3

LEMMA AllWereTaken ==
  ASSUME IngestInv
  PROVE  /\ OnTheWay \subseteq Taken /\ Stored \subseteq Taken /\ GivenUp \subseteq Taken
         /\ Taken \subseteq Messages
<1>1. OnTheWay \subseteq Taken
  <2> SUFFICES ASSUME NEW m \in OnTheWay
               PROVE  m \in Taken
    OBVIOUS
  <2>1. CASE m \in Queue
    BY <2>1 DEF Queue, Taken
  <2>2. CASE \E p \in Partitions : \E i \in Ahead(p) : log[p][i] = m
    BY <2>2, AheadIsLogged DEF Taken
  <2>3. QED
    BY <2>1, <2>2, ByPlace
<1>2. Stored \subseteq Taken
  BY DEF Stored, Taken, IngestInv, Handed, TypeOK
<1>3. QED
  BY <1>1, <1>2 DEF GivenUp, Taken

LEMMA NothingSeen ==
  ASSUME UNCHANGED <<OnTheWay, Stored, GivenUp, Taken, mishaps>>
  PROVE  UNCHANGED Promise!vars
BY DEF Promise!vars

LEMMA MishapLoses ==
  ASSUME IngestInv, UNCHANGED <<Stored, GivenUp, Taken>>, OnTheWay' \subseteq OnTheWay,
         mishaps' = mishaps + 1
  PROVE  Promise!Next
<1> DEFINE ms == OnTheWay \ OnTheWay'
<1>1. ms \in SUBSET OnTheWay /\ ms \subseteq Taken /\ OnTheWay' = OnTheWay \ ms
  BY AllWereTaken
<1>2. Promise!Lose(ms)
  BY <1>1 DEF Promise!Lose
<1> HIDE DEF ms
<1>3. QED
  BY <1>1, <1>2 DEF Promise!Next

LEMMA StoredIsSettled ==
  ASSUME IngestInv, UNCHANGED <<Stored, GivenUp, Taken, mishaps>>, OnTheWay' \subseteq OnTheWay,
         OnTheWay \ OnTheWay' \subseteq Stored
  PROVE  Promise!Next
<1> DEFINE ms == OnTheWay \ OnTheWay'
<1>1. ms \in SUBSET (OnTheWay \intersect Stored) /\ OnTheWay' = OnTheWay \ ms
  BY AllWereTaken
<1>2. Promise!Settle(ms)
  BY <1>1 DEF Promise!Settle
<1> HIDE DEF ms
<1>3. QED
  BY <1>1, <1>2 DEF Promise!Next

\* The collector's steps but Send.
LEMMA SameAhead ==
  ASSUME UNCHANGED <<topicVars, engineVars>>
  PROVE  /\ UNCHANGED <<log, Stored>> /\ \A p \in Partitions : Ahead(p)' = Ahead(p)
         /\ \A m : m \in OnTheWay' <=>
                     m \in Queue' \/ \E p \in Partitions : \E i \in Ahead(p) : log[p][i] = m
<1>1. UNCHANGED <<log, Stored>> /\ \A p \in Partitions : Ahead(p)' = Ahead(p)
  BY DEF topicVars, engineVars, Stored, Ahead, Position, High
<1>2. QED
  BY <1>1 DEF OnTheWay

LEMMA OutIsNowhere ==
  ASSUME IngestInv, NEW m \in Messages, stage[m] = "out"
  PROVE  m \notin OnTheWay \union Stored \union GivenUp \union Taken
BY AllWereTaken DEF Taken

LEMMA TakenOrRefused ==
  ASSUME IngestInv, NEW b \in Batches, Refuse(b) \/ Enqueue(b)
  PROVE  Promise!Next
<1> DEFINE ms == Parts(b)
<1>1. /\ stage \in [Messages -> Stages] /\ \A m \in ms : stage[m] = "out"
      /\ UNCHANGED <<topicVars, engineVars, mishaps>> /\ ms \subseteq Messages
      /\ \E to \in {"refused", "queued", "rejected"} :
           stage' = [m \in Messages |-> IF m \in ms THEN to ELSE stage[m]]
  BY DEF Refuse, Enqueue, Arrives, Move, IngestInv, TypeOK, Parts
<1>2. PICK to \in {"refused", "queued", "rejected"} :
        stage' = [m \in Messages |-> IF m \in ms THEN to ELSE stage[m]]
  BY <1>1
<1> HIDE DEF ms
<1>3. \A m \in ms : m \notin OnTheWay \union Stored \union GivenUp \union Taken
  BY <1>1, OutIsNowhere
<1>4. ms \in SUBSET (Messages \ Promise!Known)
  BY <1>1, <1>3 DEF Promise!Known
<1>5. Taken' = Taken \union ms /\ UNCHANGED Stored
  BY <1>1, <1>2, SameAhead DEF Taken
<1>6. CASE to = "queued"
  <2>1. Queue' = Queue \union ms /\ GivenUp' = GivenUp
    BY <1>1, <1>2, <1>6 DEF Queue, GivenUp
  <2>2. OnTheWay' = OnTheWay \union ms
    BY <2>1, <1>1, SameAhead, ByPlace
  <2>3. Promise!Accept(ms)
    BY <1>1, <1>3, <1>5, <2>1, <2>2 DEF Promise!Accept
  <2>4. QED
    BY <1>4, <2>3 DEF Promise!Next
<1>7. CASE to # "queued"
  <2>1. Queue' = Queue /\ GivenUp' = GivenUp \union ms
    BY <1>1, <1>2, <1>7 DEF Queue, GivenUp
  <2>2. OnTheWay' = OnTheWay
    BY <2>1, <1>1, SameAhead, ByPlace
  <2>3. Promise!Reject(ms)
    BY <1>1, <1>3, <1>5, <2>1, <2>2 DEF Promise!Reject
  <2>4. QED
    BY <1>4, <2>3 DEF Promise!Next
<1>8. QED
  BY <1>6, <1>7

LEMMA RetryRepeats ==
  ASSUME IngestInv, NEW b \in Batches, Retry(b)
  PROVE  Promise!Next
<1> DEFINE ms == Sent(b)
<1>1. /\ stage \in [Messages -> Stages] /\ \A m \in ms : stage[m] = "sent"
      /\ stage' = [m \in Messages |-> IF m \in ms THEN "queued" ELSE stage[m]]
      /\ UNCHANGED <<topicVars, engineVars>> /\ ms \subseteq Messages /\ mishaps' = mishaps + 1
  BY DEF Retry, Mishap, Move, IngestInv, TypeOK, Sent, Parts
<1> HIDE DEF ms
<1>2. /\ Queue' = Queue \union ms /\ GivenUp' = GivenUp /\ Taken' = Taken /\ UNCHANGED Stored
      /\ ms \subseteq Taken \ GivenUp
  BY <1>1, SameAhead DEF Queue, GivenUp, Taken
<1>3. OnTheWay' = OnTheWay \union ms
  BY <1>1, <1>2, SameAhead, ByPlace
<1>4. Promise!Repeat(ms)
  BY <1>1, <1>2, <1>3 DEF Promise!Repeat
<1>5. ms \in SUBSET (OnTheWay \union Stored \union (Taken \ (OnTheWay \union Stored \union GivenUp)))
  BY <1>2
<1>6. QED
  BY <1>4, <1>5 DEF Promise!Next

LEMMA GiveUpCounts ==
  ASSUME IngestInv, NEW b \in Batches, GiveUp(b)
  PROVE  Promise!Next
<1> DEFINE ms == Parts(b)
<1>1. /\ stage \in [Messages -> Stages] /\ \A m \in ms : stage[m] \in {"queued", "sent"}
      /\ stage' = [m \in Messages |-> IF m \in ms THEN "failed" ELSE stage[m]]
      /\ UNCHANGED <<topicVars, engineVars, mishaps>> /\ ms \subseteq Messages
  BY DEF GiveUp, Move, IngestInv, Together, TypeOK, Parts, QueuedBatches, Queue
<1> HIDE DEF ms
<1>2. /\ Queue' = Queue \ ms /\ GivenUp' = GivenUp \union ms /\ Taken' = Taken
      /\ ms \subseteq Taken \ GivenUp /\ UNCHANGED Stored
  BY <1>1, SameAhead DEF Queue, GivenUp, Taken
<1>3. OnTheWay' \subseteq OnTheWay /\ OnTheWay \ OnTheWay' \subseteq ms
  BY <1>1, <1>2, SameAhead, ByPlace
<1>4. Promise!GiveUp(ms)
  BY <1>1, <1>2, <1>3 DEF Promise!GiveUp
<1>5. ms \in SUBSET (OnTheWay \union Stored \union (Taken \ (OnTheWay \union Stored \union GivenUp)))
  BY <1>2
<1>6. QED
  BY <1>4, <1>5 DEF Promise!Next

LEMMA RestartLoses == ASSUME IngestInv, RestartCollector PROVE Promise!Next
<1>1. /\ stage \in [Messages -> Stages] /\ mishaps' = mishaps + 1
      /\ stage' = [m \in Messages |-> IF stage[m] = "queued" THEN "forgotten" ELSE stage[m]]
      /\ UNCHANGED <<topicVars, engineVars>>
  BY DEF RestartCollector, Mishap, IngestInv, TypeOK
<1>2. Queue' = {} /\ GivenUp' = GivenUp /\ Taken' = Taken /\ UNCHANGED Stored
  BY <1>1, SameAhead DEF Queue, GivenUp, Taken
<1>3. OnTheWay' \subseteq OnTheWay
  BY <1>1, <1>2, SameAhead, ByPlace
<1>4. QED
  BY <1>1, <1>2, <1>3, MishapLoses

LEMMA SendKeepsAll ==
  ASSUME IngestInv, NEW m \in Messages, NEW answered \in BOOLEAN, Send(m, answered)
  PROVE  Promise!Next \/ UNCHANGED Promise!vars
<1> DEFINE q == PartitionOf[m]
<1>1. /\ stage \in [Messages -> Stages] /\ stage[m] = "queued" /\ q \in Partitions
      /\ log' = [log EXCEPT ![q] = Append(@, m)]
      /\ \/ /\ stage' = [k \in Messages |-> IF k \in {m} THEN "sent" ELSE stage[k]]
            /\ mishaps' = mishaps
         \/ stage' = stage /\ mishaps' = mishaps + 1
      /\ UNCHANGED <<logStart, engineVars>>
  BY IngestAssumption DEF IngestInv, TypeOK, Send, Move, Mishap
<1> HIDE DEF q
<1>2. /\ \A p \in Partitions :
           /\ High(p)' = IF p = q THEN High(p) + 1 ELSE High(p)
           /\ \A i \in 1 .. High(p) : log'[p][i] = log[p][i]
      /\ log'[q][High(q) + 1] = m
  BY <1>1, Appended
<1>3. Queue' \union {m} = Queue /\ GivenUp' = GivenUp /\ Taken' = Taken /\ UNCHANGED Stored
  BY <1>1 DEF Queue, GivenUp, Taken, Stored, engineVars
<1>4. ASSUME NEW p \in Partitions, NEW i
      PROVE  i \in Ahead(p)' <=> i \in Ahead(p) \/ (p = q /\ i = High(q) + 1)
  <2>1. /\ Position(p)' = Position(p) /\ UNCHANGED <<logStart[p], block[p]>>
        /\ Position(p) \in Nat /\ Position(p) <= High(p) /\ High(p) \in Nat
        /\ logStart[p] \in Nat /\ logStart[p] <= High(p)
    BY <1>1, OfPartition DEF Position, engineVars
  <2>2. block[p] # None => block[p].to \in Nat /\ block[p].from \in Nat /\ block[p].to <= High(p)
    BY OfPartition
  <2>3. CASE p # q
    BY <2>1, <2>3, <1>2 DEF Ahead
  <2>4. CASE p = q
    BY <2>1, <2>2, <2>4, <1>2 DEF Ahead
  <2>5. QED
    BY <2>3, <2>4
<1>5. OnTheWay' = OnTheWay
  <2>1. ASSUME NEW x
        PROVE  x \in OnTheWay' <=> x \in OnTheWay
    <3>1. x \in OnTheWay' <=> \/ x \in Queue'
                              \/ \E p \in Partitions : \E i \in Ahead(p)' : log'[p][i] = x
      BY DEF OnTheWay
    <3>2. x = m => x \in OnTheWay' /\ x \in OnTheWay
      <4>1. High(q) + 1 \in Ahead(q)'
        BY <1>1, <1>4
      <4>2. \E p \in Partitions : \E i \in Ahead(p)' : log'[p][i] = m
        BY <4>1, <1>1, <1>2
      <4>3. QED
        BY <3>1, <4>2, <1>3, ByPlace
    <3>3. CASE x # m
      <4>1. x \in Queue' <=> x \in Queue
        BY <1>3, <3>3
      <4>2. ASSUME NEW p \in Partitions
            PROVE  (\E i \in Ahead(p)' : log'[p][i] = x) <=> (\E i \in Ahead(p) : log[p][i] = x)
        <5>1. \A i \in Ahead(p) : i \in Ahead(p)' /\ log'[p][i] = log[p][i]
          BY <1>2, <1>4, AheadIsLogged
        <5>2. \A i \in Ahead(p)' : i \in Ahead(p) \/ log'[p][i] = m
          BY <1>2, <1>4
        <5>3. QED
          BY <5>1, <5>2, <3>3
      <4>3. QED
        BY <3>1, <4>1, <4>2, ByPlace
    <3>4. QED
      BY <3>2, <3>3
  <2>2. QED
    BY <2>1
<1>6. CASE mishaps' = mishaps
  BY <1>3, <1>5, <1>6, NothingSeen
<1>7. CASE mishaps' = mishaps + 1
  BY <1>3, <1>5, <1>7, MishapLoses
<1>8. QED
  BY <1>1, <1>6, <1>7

\* A step that leaves the collector and the logs alone, and gets no offset ahead.
LEMMA FewerAhead ==
  ASSUME UNCHANGED <<stage, log>>, \A p \in Partitions : Ahead(p)' \subseteq Ahead(p)
  PROVE  /\ OnTheWay' \subseteq OnTheWay /\ UNCHANGED <<GivenUp, Taken>>
         /\ (\A p \in Partitions : Ahead(p)' = Ahead(p)) => OnTheWay' = OnTheWay
         /\ \A m \in OnTheWay \ OnTheWay' :
              \E p \in Partitions : \E i \in Ahead(p) \ Ahead(p)' : log[p][i] = m
<1>1. Queue' = Queue /\ UNCHANGED <<GivenUp, Taken>>
  BY DEF Queue, GivenUp, Taken
<1>2. \A m : m \in OnTheWay' <=>
               m \in Queue \/ \E p \in Partitions : \E i \in Ahead(p)' : log[p][i] = m
  BY <1>1 DEF OnTheWay
<1>3. OnTheWay' \subseteq OnTheWay
  BY <1>2, ByPlace
<1>4. (\A p \in Partitions : Ahead(p)' = Ahead(p)) => OnTheWay' = OnTheWay
  BY <1>2, ByPlace
<1>5. ASSUME NEW m \in OnTheWay \ OnTheWay'
      PROVE  \E p \in Partitions : \E i \in Ahead(p) \ Ahead(p)' : log[p][i] = m
  <2>1. m \notin Queue
    BY <1>2
  <2>2. PICK p \in Partitions : \E i \in Ahead(p) : log[p][i] = m
    BY <2>1, ByPlace
  <2>3. PICK i \in Ahead(p) : log[p][i] = m
    BY <2>2
  <2>4. i \notin Ahead(p)'
    BY <1>2, <2>3
  <2>5. QED
    BY <2>3, <2>4
<1>6. QED
  BY <1>1, <1>3, <1>4, <1>5

LEMMA ExpireLoses == ASSUME IngestInv, NEW q \in Partitions, Expire(q) PROVE Promise!Next
<1>1. /\ UNCHANGED <<stage, log, committed, block, table>> /\ mishaps' = mishaps + 1
      /\ logStart' = [logStart EXCEPT ![q] = @ + 1] /\ logStart \in [Partitions -> Nat]
  BY DEF Expire, Mishap, collectorVars, engineVars, IngestInv, TypeOK
<1>2. \A p \in Partitions : Ahead(p)' \subseteq Ahead(p)
  <2> TAKE p \in Partitions
  <2>1. logStart[p] \in Nat /\ logStart'[p] \in Nat /\ logStart[p] <= logStart'[p]
    BY <1>1
  <2>2. \A i \in Int : i > logStart'[p] => i > logStart[p]
    BY <2>1
  <2>3. Position(p)' = Position(p) /\ High(p)' = High(p) /\ Position(p) \in Nat /\ High(p) \in Nat
    BY <1>1, OfPartition DEF Position, High
  <2>4. QED
    BY <1>1, <2>2, <2>3 DEF Ahead
<1>3. UNCHANGED Stored
  BY <1>1 DEF Stored
<1>4. QED
  BY <1>1, <1>2, <1>3, FewerAhead, MishapLoses

LEMMA PollMovesNothing ==
  ASSUME IngestInv, NEW q \in Partitions, NEW to \in 1 .. High(q), Poll(q, to)
  PROVE  UNCHANGED Promise!vars
<1> DEFINE from == Max({Position(q), logStart[q]})
<1>1. /\ block[q] = None
      /\ block' = [block EXCEPT ![q] = [from |-> from, to |-> to, done |-> {}]]
      /\ UNCHANGED <<stage, log, logStart, committed, table, mishaps>>
      /\ DOMAIN block = Partitions
  BY DEF Poll, collectorVars, topicVars, IngestInv, TypeOK
<1>2. /\ Position(q) \in Nat /\ logStart[q] \in Nat /\ High(q) \in Nat
      /\ from \in Nat /\ logStart[q] <= from
  <2>1. Position(q) \in Nat /\ logStart[q] \in Nat /\ High(q) \in Nat
    BY OfPartition
  <2>2. QED
    BY <2>1, MaxOfTwo
<1> HIDE DEF from
<1>3. \A p \in Partitions : Ahead(p)' = Ahead(p)
  <2> TAKE p \in Partitions
  <2>1. UNCHANGED <<Position(p), High(p), logStart[p]>>
    BY <1>1 DEF Position, High
  <2>2. CASE p = q
    <3>1. block'[q].from = from
      BY <1>1
    <3>2. \A i \in Position(q) + 1 .. High(q) : i > from => i > logStart[q]
      BY <1>2
    <3>3. QED
      BY <2>1, <2>2, <3>1, <3>2, <1>1 DEF Ahead
  <2>3. CASE p # q
    BY <2>1, <2>3, <1>1 DEF Ahead
  <2>4. QED
    BY <2>2, <2>3
<1>4. UNCHANGED Stored
  BY <1>1 DEF Stored
<1>5. QED
  BY <1>1, <1>3, <1>4, FewerAhead, NothingSeen

LEMMA AbandonLoses == ASSUME IngestInv, NEW q \in Partitions, Abandon(q) PROVE Promise!Next
<1>1. /\ block' = [block EXCEPT ![q] = None] /\ mishaps' = mishaps + 1 /\ DOMAIN block = Partitions
      /\ UNCHANGED <<stage, log, logStart, committed, table>>
  BY DEF Abandon, Mishap, collectorVars, topicVars, IngestInv, TypeOK
<1>2. \A p \in Partitions : Ahead(p)' \subseteq Ahead(p)
  <2> TAKE p \in Partitions
  <2>1. UNCHANGED <<Position(p), High(p), logStart[p]>>
    BY <1>1 DEF Position, High
  <2>2. block'[p] = None \/ block'[p] = block[p]
    BY <1>1
  <2>3. QED
    BY <2>1, <2>2 DEF Ahead
<1>3. UNCHANGED Stored
  BY <1>1 DEF Stored
<1>4. QED
  BY <1>1, <1>2, <1>3, FewerAhead, MishapLoses

LEMMA InsertStores ==
  ASSUME IngestInv, NEW q \in Partitions, NEW view \in Views, Insert(q, view)
  PROVE  Promise!Next
<1> DEFINE b == [from |-> block[q].from, to |-> block[q].to, done |-> block[q].done \union {view}]
           ms == Fed(q, view)
<1>1. /\ block[q] # None /\ block' = [block EXCEPT ![q] = b]
      /\ table' = [table EXCEPT ![view] = @ \union ms]
      /\ UNCHANGED <<stage, log, logStart, committed, mishaps>>
      /\ DOMAIN block = Partitions /\ DOMAIN table = Views
  BY InsertFacts DEF readerVars, IngestInv, TypeOK
<1>2. /\ block[q].from \in Nat /\ block[q].to \in Nat /\ block[q].to <= High(q) /\ High(q) \in Nat
      /\ Position(q) <= block[q].from /\ Position(q) \in Nat /\ block[q] \in Block
      /\ block[q].done \subseteq Views
  BY <1>1, OfPartition
<1>3. b # None /\ b.from = block[q].from /\ b.to = block[q].to
  <2>1. b \in Block
    BY <1>2 DEF Block
  <2>2. QED
    BY <2>1, IngestAssumption
<1> HIDE DEF b
<1>4. \A p \in Partitions : Ahead(p)' = Ahead(p)
  <2> TAKE p \in Partitions
  <2>1. UNCHANGED <<Position(p), High(p), logStart[p]>>
    BY <1>1 DEF Position, High
  <2>2. CASE p = q
    BY <2>1, <2>2, <1>1, <1>3 DEF Ahead
  <2>3. CASE p # q
    BY <2>1, <2>3, <1>1 DEF Ahead
  <2>4. QED
    BY <2>2, <2>3
<1>5. OnTheWay' = OnTheWay /\ UNCHANGED <<GivenUp, Taken>>
  BY <1>1, <1>4, FewerAhead
<1>6. ms \subseteq OnTheWay
  <2> SUFFICES ASSUME NEW m \in ms
               PROVE  m \in OnTheWay
    OBVIOUS
  <2>1. PICK i \in block[q].from + 1 .. block[q].to : log[q][i] = m
    BY DEF Fed
  <2>2. i \in Ahead(q)
    BY <1>1, <1>2 DEF Ahead
  <2>3. QED
    BY <2>1, <2>2, ByPlace
<1> HIDE DEF ms
<1>7. Stored' = Stored \union ms
  BY <1>1 DEF Stored
<1>8. Promise!Store(ms)
  BY <1>1, <1>5, <1>6, <1>7 DEF Promise!Store
<1>9. QED
  BY <1>6, <1>8 DEF Promise!Next

LEMMA CommitSettles == ASSUME IngestInv, NEW q \in Partitions, Commit(q) PROVE Promise!Next
<1>1. /\ block[q] # None /\ block[q].done = Views /\ block' = [block EXCEPT ![q] = None]
      /\ committed' = [committed EXCEPT ![q] = block[q].to]
      /\ UNCHANGED <<stage, log, logStart, table, mishaps>>
      /\ DOMAIN block = Partitions /\ DOMAIN committed = Partitions
  BY DEF Commit, collectorVars, topicVars, IngestInv, TypeOK
<1>2. /\ block[q].from \in Nat /\ block[q].to \in Nat /\ block[q].from < block[q].to
      /\ block[q].to <= High(q) /\ High(q) \in Nat
      /\ Position(q) <= block[q].from /\ Position(q) \in Nat /\ logStart[q] \in Nat
      /\ block[q].from = Position(q) \/ block[q].from <= logStart[q]
      /\ \A v \in Views : \A i \in block[q].from + 1 .. block[q].to :
            Takes(v, log[q][i]) => log[q][i] \in table[v]
  BY <1>1, OfPartition
<1>3. Position(q)' = block[q].to
  BY <1>1, <1>2, IngestAssumption DEF Position
<1>4. /\ Ahead(q)' \subseteq Ahead(q)
      /\ \A i \in Ahead(q) \ Ahead(q)' : i \in block[q].from + 1 .. block[q].to
  <2>1. /\ Ahead(q) = {i \in Position(q) + 1 .. High(q) :
                         i > logStart[q] \/ (i > block[q].from /\ i <= block[q].to)}
        /\ Ahead(q)' = {i \in block[q].to + 1 .. High(q) : i > logStart[q]}
    BY <1>1, <1>3 DEF Ahead, High
  <2>2. Ahead(q)' \subseteq Ahead(q)
    BY <2>1, <1>2
  <2>3. ASSUME NEW i \in Ahead(q), i \notin Ahead(q)'
        PROVE  i \in block[q].from + 1 .. block[q].to
    BY <2>1, <2>3, <1>2
  <2>4. QED
    BY <2>2, <2>3
<1>5. \A p \in Partitions \ {q} : Ahead(p)' = Ahead(p)
  BY <1>1 DEF Ahead, Position, High
<1>6. \A p \in Partitions : Ahead(p)' \subseteq Ahead(p)
  BY <1>4, <1>5
<1>7. UNCHANGED Stored
  BY <1>1 DEF Stored
<1>8. OnTheWay \ OnTheWay' \subseteq Stored
  <2> SUFFICES ASSUME NEW m \in OnTheWay \ OnTheWay'
               PROVE  m \in Stored
    OBVIOUS
  <2>1. PICK p \in Partitions : \E i \in Ahead(p) \ Ahead(p)' : log[p][i] = m
    BY <1>1, <1>6, FewerAhead
  <2>2. PICK i \in Ahead(p) \ Ahead(p)' : log[p][i] = m
    BY <2>1
  <2>3. p = q
    BY <2>2, <1>5
  <2>4. i \in block[q].from + 1 .. block[q].to
    BY <2>2, <2>3, <1>4
  <2>5. \E v \in Views : Takes(v, m)
    BY DEF Takes, Views
  <2>6. PICK v \in Views : Takes(v, m)
    BY <2>5
  <2>7. m \in table[v]
    BY <2>2, <2>3, <2>4, <2>6, <1>2
  <2>8. QED
    BY <2>7 DEF Stored
<1>9. QED
  BY <1>1, <1>6, <1>7, <1>8, FewerAhead, StoredIsSettled

LEMMA ReaderMovesNothing ==
  ASSUME UNCHANGED <<stage, log, logStart, committed, block, table, mishaps>>
  PROVE  UNCHANGED Promise!vars
<1>1. UNCHANGED <<OnTheWay, Stored, GivenUp, Taken, mishaps>>
  BY DEF OnTheWay, Stored, GivenUp, Taken, Queue, Ahead, Position, High
<1>2. QED
  BY <1>1, NothingSeen

(***************************************************************************)
(* The way implements Delivery: a message is handed on, stored, let go of  *)
(* once it is stored, counted, sent again or lost to a mishap, and nothing *)
(* else happens to it, whatever its batch was split into (config.yaml,     *)
(* 010_kafka_spans.sql, 050_mv_ingest_errors.sql).                         *)
(***************************************************************************)
THEOREM DeliveryImplemented == Spec => ImplementsDelivery
<1>1. Init => Promise!Init
  <2> SUFFICES ASSUME Init
               PROVE  Promise!Init
    OBVIOUS
  <2>1. Queue = {} /\ GivenUp = {} /\ Taken = {}
    BY DEF Init, Queue, GivenUp, Taken
  <2>2. \A p \in Partitions : Ahead(p) = {}
    BY DEF Init, Ahead, Position, High
  <2>3. OnTheWay = {} /\ Stored = {}
    BY <2>1, <2>2 DEF OnTheWay, Init, Stored
  <2>4. QED
    BY <2>1, <2>3 DEF Promise!Init, Init
<1>2. IngestInv /\ [Next]_vars => [Promise!Next]_(Promise!vars)
  <2> SUFFICES ASSUME IngestInv, [Next]_vars
               PROVE  Promise!Next \/ UNCHANGED Promise!vars
    OBVIOUS
  <2>1. CASE Collector
    BY <2>1, TakenOrRefused, RetryRepeats, GiveUpCounts, SendKeepsAll, RestartLoses DEF Collector
  <2>2. CASE Engine
    BY <2>2, PollMovesNothing, InsertStores, CommitSettles, AbandonLoses
       DEF Engine, PollSome, InsertSome
  <2>3. CASE Reader
    BY <2>3, ReaderMovesNothing
       DEF Reader, ReadCommitted, ReadNothing, Record, ReadHigh, collectorVars, topicVars, engineVars
  <2>4. CASE \E p \in Partitions : Expire(p)
    BY <2>4, ExpireLoses
  <2>5. CASE UNCHANGED vars
    BY <2>5, ReaderMovesNothing DEF vars
  <2>6. QED
    BY <2>1, <2>2, <2>3, <2>4, <2>5 DEF Next
<1>3. QED
  BY <1>1, <1>2, IngestInvHolds, PTL DEF Spec, ImplementsDelivery, Promise!Spec
=============================================================================
