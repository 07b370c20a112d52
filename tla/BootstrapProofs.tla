-------------------------- MODULE BootstrapProofs --------------------------
(***************************************************************************)
(* Proofs about Bootstrap, for any number of operators at work at once,    *)
(* any versions of topics.yaml and any topics on the broker.               *)
(***************************************************************************)
EXTENDS Bootstrap, TLAPS

LEMMA Files ==
  ASSUME NEW f \in TopicFiles
  PROVE  f \in Seq(Topics) /\ Len(f) \in Nat \ {0} /\ DOMAIN f = 1 .. Len(f) /\ f # None
BY BootstrapAssumption

\* What a topic of the file is, without its record's set in sight.
LEMMA TopicTypes ==
  ASSUME NEW t \in Topics
  PROVE  /\ t.name \in Names /\ t.partitions \in 1 .. MaxPartitions
         /\ DOMAIN t.config \subseteq Keys
         /\ Whole(t.config) \in Configs /\ Drift(t.config, Whole(t.config)) = {}
<1>1. PICK K \in SUBSET Keys : t.config \in [K -> Values]
  BY DEF Topics
<1>2. \A k \in K : t.config[k] \in Values
  BY <1>1
<1>3. QED
  BY <1>1, <1>2 DEF Topics, Whole, Configs, Drift

-----------------------------------------------------------------------------
(***************************************************************************)
(* Types: a reconciler never leaves its file, and no topic has more        *)
(* partitions than some file asks for (reconcile).                         *)
(***************************************************************************)
Held == \A o \in Operators : step[o] = "list" => file[o] # None

LEMMA AtTopic ==
  ASSUME TypeOK, NEW o \in Operators, step[o] \in {"topic", "config", "alter"}
  PROVE  /\ file[o] \in TopicFiles /\ at[o] \in 1 .. Len(file[o]) /\ Len(file[o]) \in Nat
         /\ Topic(o) \in Topics
<1>1. file[o] \in TopicFiles /\ at[o] \in DOMAIN file[o]
  BY DEF TypeOK
<1>2. QED
  BY <1>1, Files DEF Topic

LEMMA ProceedTypes ==
  ASSUME TypeOK, NEW o \in Operators, Proceed(o), step[o] \in {"topic", "config", "alter"}, UNCHANGED file
  PROVE  /\ step' \in [Operators -> Steps]
         /\ existing' \in [Operators -> [Names -> 1 .. MaxPartitions \union {None}]]
         /\ at' \in [Operators -> Nat \ {0}]
         /\ \A q \in Operators : step'[q] \in {"topic", "config", "alter"} =>
              file'[q] # None /\ at'[q] \in DOMAIN file'[q]
         /\ \A q \in Operators : step'[q] = "list" => step[q] = "list"
<1>1. file[o] \in TopicFiles /\ at[o] \in 1 .. Len(file[o]) /\ Len(file[o]) \in Nat
  BY AtTopic
<1>2. /\ step \in [Operators -> Steps] /\ at \in [Operators -> Nat \ {0}]
      /\ existing \in [Operators -> [Names -> 1 .. MaxPartitions \union {None}]]
      /\ \A q \in Operators : step[q] \in {"topic", "config", "alter"} => file[q] # None /\ at[q] \in DOMAIN file[q]
  BY DEF TypeOK
<1>3. DOMAIN file[o] = 1 .. Len(file[o]) /\ file[o] # None
  BY <1>1, Files
<1>4. CASE at[o] < Len(file[o])
  <2>1. step' = [step EXCEPT ![o] = "topic"] /\ at' = [at EXCEPT ![o] = at[o] + 1] /\ existing' = existing
    BY <1>4 DEF Proceed
  <2>2. at[o] + 1 \in DOMAIN file[o] /\ at[o] + 1 \in Nat \ {0}
    BY <1>1, <1>3, <1>4
  <2>3. QED
    BY <1>2, <1>3, <2>1, <2>2 DEF Steps
<1>5. CASE ~ (at[o] < Len(file[o]))
  <2>1. PICK s \in {"migrate", "succeeded"} : step' = [step EXCEPT ![o] = s]
    BY <1>5 DEF Proceed
  <2>2. at' = [at EXCEPT ![o] = 1] /\ existing' = [existing EXCEPT ![o] = NoCounts]
    BY <1>5 DEF Proceed
  <2>3. NoCounts \in [Names -> 1 .. MaxPartitions \union {None}]
    BY DEF NoCounts
  <2>4. s \in Steps /\ s \notin {"list", "topic", "config", "alter"}
    BY DEF Steps, Resting
  <2>5. /\ step' \in [Operators -> Steps] /\ at' \in [Operators -> Nat \ {0}]
        /\ existing' \in [Operators -> [Names -> 1 .. MaxPartitions \union {None}]]
    BY <1>2, <2>1, <2>2, <2>3, <2>4
  <2>6. \A q \in Operators : step'[q] \in {"list", "topic", "config", "alter"} =>
          q # o /\ step'[q] = step[q] /\ at'[q] = at[q]
    BY <1>2, <2>1, <2>2, <2>4
  <2>7. QED
    BY <1>2, <2>5, <2>6
<1>6. QED
  BY <1>4, <1>5

\* The steps that leave the reconciler's locals alone.
LEMMA StackTypes ==
  ASSUME TypeOK, Held,
         \/ \E o \in Operators : ComposeStarts(o) \/ Compose(o) \/ Wait(o) \/ Migrate(o) \/ ApplyDimensions(o)
         \/ \E s \in Services : Starts(s) \/ GoesDown(s)
         \/ \E n \in Names : AutoCreate(n)
  PROVE  TypeOK' /\ Held'
<1> USE BootstrapAssumption DEF TypeOK, Held, stack, broker, clickhouse, reconciler, Goto, Steps, Resting
<1>1. ASSUME NEW o \in Operators, ComposeStarts(o)
      PROVE  TypeOK' /\ Held'
  BY <1>1 DEF ComposeStarts
<1>2. ASSUME NEW o \in Operators, Compose(o) \/ Wait(o)
      PROVE  TypeOK' /\ Held'
  BY <1>2 DEF Compose, Wait
<1>3. ASSUME NEW o \in Operators, Migrate(o) \/ ApplyDimensions(o)
      PROVE  TypeOK' /\ Held'
  <2>1. {schema', allowlist'} \subseteq BOOLEAN
    BY <1>3 DEF Migrate, ApplyDimensions
  <2>2. QED
    BY <1>3, <2>1 DEF Migrate, ApplyDimensions
<1>4. ASSUME NEW s \in Services, Starts(s)
      PROVE  TypeOK' /\ Held'
  BY <1>4 DEF Starts
<1>5. ASSUME NEW s \in Services, GoesDown(s)
      PROVE  TypeOK' /\ Held'
  BY <1>5 DEF GoesDown
<1>6. ASSUME NEW n \in Names, AutoCreate(n)
      PROVE  TypeOK' /\ Held'
  <2>1. Defaults \in Configs
    BY DEF Defaults, Configs
  <2>2. config' \in [Names -> Configs] /\ partitions' \in [Names -> 1 .. MaxPartitions \union {None}]
    BY <1>6, <2>1 DEF AutoCreate
  <2>3. QED
    BY <1>6, <2>2 DEF AutoCreate
<1>7. QED
  BY <1>1, <1>2, <1>3, <1>4, <1>5, <1>6

LEMMA CommandTypes ==
  ASSUME TypeOK, Held, NEW o \in Operators,
         \/ Raise(o)
         \/ \E c \in Commands : Run(o, c)
         \/ \E f \in TopicFiles : Load(o, f)
         \/ \E errors \in SUBSET Names : List(o, errors)
  PROVE  TypeOK' /\ Held'
<1> USE DEF stack, broker, clickhouse
<1>0. NoCounts \in [Names -> 1 .. MaxPartitions \union {None}]
  BY DEF NoCounts
<1>1. CASE Raise(o)
  <2>1. "idle" \in Steps /\ "up" \in Commands
    BY DEF Steps, Resting, Commands
  <2>2. /\ step' \in [Operators -> Steps] /\ command' \in [Operators -> Commands]
        /\ file' \in [Operators -> TopicFiles \union {None}] /\ at' \in [Operators -> Nat \ {0}]
    BY <1>1, <2>1 DEF Raise, TypeOK
  <2>3. existing' \in [Operators -> [Names -> 1 .. MaxPartitions \union {None}]]
    BY <1>0, <1>1 DEF Raise, TypeOK
  <2>4. \A q \in Operators : step'[q] \in {"list", "topic", "config", "alter"} =>
          step'[q] = step[q] /\ file'[q] = file[q] /\ at'[q] = at[q]
    BY <1>1 DEF Raise, TypeOK
  <2>5. QED
    BY <1>1, <2>2, <2>3, <2>4 DEF Raise, TypeOK, Held
<1>2. ASSUME NEW c \in Commands, Run(o, c)
      PROVE  TypeOK' /\ Held'
  <2>1. FirstStep(c) \in {"compose", "clickhouse", "load"}
    BY DEF FirstStep
  <2>2. QED
    BY <1>2, <2>1 DEF Run, TypeOK, Held, Steps, Resting
<1>3. ASSUME NEW f \in TopicFiles, Load(o, f)
      PROVE  TypeOK' /\ Held'
  <2>1. f # None
    BY Files
  <2>2. loaded' \subseteq TopicFiles
    BY <1>3 DEF Load, TypeOK
  <2>3. QED
    BY <1>3, <2>1, <2>2 DEF Load, Goto, TypeOK, Held, Steps, Resting
<1>4. ASSUME NEW errors \in SUBSET Names, List(o, errors)
      PROVE  TypeOK' /\ Held'
  <2>1. file[o] \in TopicFiles
    BY <1>4 DEF List, Goto, Held, TypeOK
  <2>2. 1 \in DOMAIN file[o]
    BY <2>1, Files
  <2>3. [n \in Names |-> IF n \in errors THEN None ELSE partitions[n]]
           \in [Names -> 1 .. MaxPartitions \union {None}]
    BY DEF TypeOK
  <2>4. existing' \in [Operators -> [Names -> 1 .. MaxPartitions \union {None}]]
    BY <1>4, <2>3 DEF List, TypeOK
  <2>5. step' = [step EXCEPT ![o] = "topic"] /\ at' = [at EXCEPT ![o] = 1]
    BY <1>4 DEF List, Goto
  <2>6. /\ step' \in [Operators -> Steps] /\ at' \in [Operators -> Nat \ {0}]
        /\ \A q \in Operators : step'[q] \in {"topic", "config", "alter"} =>
             file[q] # None /\ at'[q] \in DOMAIN file[q]
    BY <2>1, <2>2, <2>5, Files DEF TypeOK, Steps
  <2>7. Held'
    BY <1>4, <2>5 DEF Held, List, TypeOK
  <2>8. QED
    BY <1>4, <2>4, <2>6, <2>7 DEF List, TypeOK
<1>5. QED
  BY <1>1, <1>2, <1>3, <1>4

LEMMA ReconcilerTypes ==
  ASSUME TypeOK, Held, NEW o \in Operators,
         Create(o) \/ Grow(o) \/ KeepPartitions(o) \/ Compare(o) \/ Alter(o)
  PROVE  TypeOK' /\ Held'
<1> USE DEF stack, broker, clickhouse, reconciler
<1>0. /\ step[o] \in {"topic", "config", "alter"}
      /\ UNCHANGED <<service, outages, schema, allowlist, command, file, loaded>>
  BY DEF Create, Grow, KeepPartitions, Listed, Compare, Alter
<1>1. Topic(o) \in Topics
  BY <1>0, AtTopic
<1>2. /\ Topic(o).name \in Names /\ Topic(o).partitions \in 1 .. MaxPartitions
      /\ Whole(Topic(o).config) \in Configs
  BY <1>1, TopicTypes
<1>3. /\ partitions' \in [Names -> 1 .. MaxPartitions \union {None}]
      /\ config' \in [Names -> Configs]
  <2>1. partitions \in [Names -> 1 .. MaxPartitions \union {None}] /\ config \in [Names -> Configs]
    BY DEF TypeOK
  <2>2. CASE Create(o)
    BY <1>2, <2>1, <2>2 DEF Create
  <2>3. CASE Grow(o) \/ KeepPartitions(o) \/ Compare(o)
    BY <1>2, <2>1, <2>3 DEF Grow, KeepPartitions, Compare
  <2>4. CASE Alter(o)
    BY <1>2, <2>1, <2>4 DEF Alter
  <2>5. QED
    BY <2>2, <2>3, <2>4
<1>4. CASE Proceed(o)
  <2>1. UNCHANGED file
    BY <1>0
  <2>2. QED
    BY <1>0, <1>3, <1>4, <2>1, ProceedTypes DEF TypeOK, Held
<1>5. CASE ~ Proceed(o)
  <2>1. PICK s \in {"config", "alter"} : step' = [step EXCEPT ![o] = s] /\ UNCHANGED <<existing, at>>
    BY <1>5 DEF Create, Grow, KeepPartitions, Listed, Compare, Alter
  <2>2. /\ step' \in [Operators -> Steps]
        /\ \A q \in Operators : step'[q] \in {"topic", "config", "alter"} => step[q] \in {"topic", "config", "alter"}
        /\ \A q \in Operators : step'[q] = "list" => step[q] = "list"
    BY <1>0, <2>1 DEF TypeOK, Steps
  <2>3. QED
    BY <1>0, <1>3, <2>1, <2>2 DEF TypeOK, Held
<1>6. QED
  BY <1>4, <1>5

LEMMA NukeTypes == ASSUME TypeOK, Held, Nuke PROVE TypeOK' /\ Held'
<1>1. /\ NoCounts \in [Names -> 1 .. MaxPartitions \union {None}]
      /\ [n \in Names |-> Defaults] \in [Names -> Configs]
  BY DEF NoCounts, Defaults, Configs
<1>2. {schema', allowlist'} \subseteq BOOLEAN
  BY DEF Nuke
<1>3. QED
  BY <1>1, <1>2 DEF Nuke, TypeOK, Held, Steps, Resting

LEMMA TypesHold == Spec => [](TypeOK /\ Held)
<1>1. Init => TypeOK /\ Held
  <2> SUFFICES ASSUME Init PROVE TypeOK /\ Held
    OBVIOUS
  <2>1. /\ NoCounts \in [Names -> 1 .. MaxPartitions \union {None}]
        /\ [n \in Names |-> Defaults] \in [Names -> Configs]
    BY DEF NoCounts, Defaults, Configs
  <2>2. {schema, allowlist} \subseteq BOOLEAN
    BY DEF Init
  <2>3. QED
    BY <2>1, <2>2, BootstrapAssumption DEF Init, TypeOK, Held, Steps, Resting, Commands
<1>2. TypeOK /\ Held /\ [Next]_vars => (TypeOK /\ Held)'
  <2>1. ASSUME TypeOK, Held, UNCHANGED vars
        PROVE  (TypeOK /\ Held)'
    BY <2>1 DEF vars, stack, broker, clickhouse, reconciler, TypeOK, Held
  <2>2. QED
    BY <2>1, StackTypes, CommandTypes, ReconcilerTypes, NukeTypes DEF Next, Command, Others
<1>3. QED
  BY <1>1, <1>2, PTL DEF Spec

\* A reconciler is never past the end of its file, has a file whenever it is at a
\* topic, and no topic gets more partitions than the files ask for (reconcile).
THEOREM BootstrapTypeCorrect == Spec => []TypeOK
BY TypesHold, PTL

-----------------------------------------------------------------------------
(***************************************************************************)
(* Nothing but a nuke takes back what a reconciler has seen to: topics only*)
(* grow, and a config is set as a whole, from a file that was loaded.      *)
(***************************************************************************)
Matches(n, c) == \E f \in loaded : \E j \in DOMAIN f : f[j].name = n /\ Drift(f[j].config, c) = {}

Usable(topic) ==
  /\ partitions[topic.name] # None
  /\ partitions[topic.name] >= topic.partitions
  /\ Matches(topic.name, config[topic.name])

\* The topics of its file that an operator's reconciler is past.
Passed(o) ==
  IF step[o] \in {"topic", "config", "alter"} THEN {i \in DOMAIN file[o] : i < at[o]}
  ELSE IF step[o] \in {"migrate", "dimensions", "succeeded"} THEN DOMAIN file[o]
  ELSE {}

Seen(o) ==
  step[o] \in {"topic", "config", "alter"} =>
    \A n \in Names : existing[o][n] # None => partitions[n] # None /\ existing[o][n] <= partitions[n]

Applied(o) ==
  Changes(o) =>
    /\ step[o] \in {"list", "topic", "config", "alter", "migrate", "dimensions", "succeeded"} =>
         file[o] \in loaded
    /\ \A i \in Passed(o) : Usable(file[o][i])
    /\ step[o] \in {"config", "alter"} =>
         partitions[Topic(o).name] # None /\ partitions[Topic(o).name] >= Topic(o).partitions

Bootstrapped(o) ==
  /\ step[o] \in {"migrate", "dimensions"} => command[o] \in Bootstraps
  /\ step[o] = "dimensions" => schema
  /\ step[o] = "succeeded" /\ command[o] \in Bootstraps => schema /\ allowlist

Good(o) == Seen(o) /\ Applied(o) /\ Bootstrapped(o)

\* What a step other than a nuke may do to the stack.
Steady ==
  /\ loaded \subseteq loaded'
  /\ schema => schema'
  /\ allowlist => allowlist'
  /\ \A n \in Names : partitions[n] # None =>
       /\ partitions'[n] # None /\ partitions'[n] >= partitions[n]
       /\ config'[n] = config[n] \/ Matches(n, config'[n])

LEMMA SteadyUsable ==
  ASSUME TypeOK, TypeOK', Steady, NEW topic \in Topics, Usable(topic)
  PROVE  Usable(topic)'
<1>1. topic.name \in Names /\ topic.partitions \in 1 .. MaxPartitions
  BY TopicTypes
<1>2. /\ partitions[topic.name] \in 1 .. MaxPartitions \union {None}
      /\ partitions'[topic.name] \in 1 .. MaxPartitions \union {None}
  BY <1>1 DEF TypeOK
<1>3. partitions'[topic.name] # None /\ partitions'[topic.name] >= topic.partitions
  BY <1>1, <1>2, BootstrapAssumption DEF Steady, Usable
<1>4. Matches(topic.name, config'[topic.name])
  BY <1>1 DEF Steady, Usable
<1>5. Matches(topic.name, config[topic.name])'
  BY <1>4 DEF Steady, Matches
<1>6. QED
  BY <1>3, <1>5 DEF Usable

LEMMA SeenKept ==
  ASSUME TypeOK, TypeOK', Steady, NEW o \in Operators, Seen(o),
         existing'[o] = existing[o], step[o] \in {"topic", "config", "alter"}
  PROVE  Seen(o)'
<1> SUFFICES ASSUME NEW n \in Names, existing[o][n] # None
             PROVE  partitions'[n] # None /\ existing[o][n] <= partitions'[n]
  BY DEF Seen
<1>1. /\ existing[o][n] \in 1 .. MaxPartitions \union {None}
      /\ partitions[n] \in 1 .. MaxPartitions \union {None}
      /\ partitions'[n] \in 1 .. MaxPartitions \union {None}
  BY DEF TypeOK
<1>2. partitions[n] # None /\ existing[o][n] <= partitions[n]
  BY DEF Seen
<1>3. partitions'[n] # None /\ partitions'[n] >= partitions[n]
  BY <1>2 DEF Steady
<1>4. QED
  BY <1>1, <1>2, <1>3, BootstrapAssumption

\* An operator that does nothing keeps what it has.
LEMMA Idle ==
  ASSUME TypeOK, TypeOK', Steady, NEW o \in Operators, Good(o),
         step'[o] = step[o], command'[o] = command[o], file'[o] = file[o],
         existing'[o] = existing[o], at'[o] = at[o]
  PROVE  Good(o)'
<1>1. Seen(o)'
  BY SeenKept DEF Good, Seen
<1>2. Applied(o)'
  <2> SUFFICES ASSUME Changes(o)'
               PROVE  Applied(o)'
    BY DEF Applied
  <2>0. Changes(o)
    BY DEF Changes
  <2>1. Passed(o)' = Passed(o)
    BY DEF Passed
  <2>2. ASSUME NEW i \in Passed(o)
        PROVE  Usable(file[o][i])'
    <3>1. step[o] \in {"topic", "config", "alter", "migrate", "dimensions", "succeeded"}
      BY <2>2 DEF Passed
    <3>2. file[o] \in TopicFiles
      BY <2>0, <3>1 DEF Good, Applied, TypeOK
    <3>3. file[o][i] \in Topics
      BY <2>2, <3>2, Files DEF Passed
    <3>4. QED
      BY <2>0, <2>2, <3>3, SteadyUsable DEF Good, Applied
  <2>3. ASSUME step[o] \in {"config", "alter"}
        PROVE  partitions'[Topic(o).name] # None /\ partitions'[Topic(o).name] >= Topic(o).partitions
    <3>1. Topic(o) \in Topics
      BY <2>3, AtTopic
    <3>2. Topic(o).name \in Names /\ Topic(o).partitions \in 1 .. MaxPartitions
      BY <3>1, TopicTypes
    <3>3. partitions[Topic(o).name] # None /\ partitions[Topic(o).name] >= Topic(o).partitions
      BY <2>0, <2>3 DEF Good, Applied
    <3>4. /\ partitions[Topic(o).name] \in 1 .. MaxPartitions \union {None}
          /\ partitions'[Topic(o).name] \in 1 .. MaxPartitions \union {None}
      BY <3>2 DEF TypeOK
    <3>5. partitions'[Topic(o).name] # None /\ partitions'[Topic(o).name] >= partitions[Topic(o).name]
      BY <3>2, <3>3 DEF Steady
    <3>6. QED
      BY <3>2, <3>3, <3>4, <3>5, BootstrapAssumption
  <2>4. Topic(o)' = Topic(o)
    BY DEF Topic
  <2>5. \A i \in Passed(o)' : Usable(file[o][i])'
    BY <2>1, <2>2
  <2>6. QED
    BY <2>0, <2>3, <2>4, <2>5 DEF Good, Applied, Steady
<1>3. Bootstrapped(o)'
  BY DEF Good, Bootstrapped, Steady
<1>4. QED
  BY <1>1, <1>2, <1>3 DEF Good

\* A reconciler goes on when the topic in hand is as its file wants it.
LEMMA ProceedGood ==
  ASSUME TypeOK, TypeOK', Steady, NEW o \in Operators, Good(o), Proceed(o),
         step[o] \in {"topic", "config", "alter"}, UNCHANGED <<file, command>>,
         Changes(o) => \A t \in Topics : t = Topic(o) => Usable(t)'
  PROVE  Good(o)'
<1>1. file[o] \in TopicFiles /\ at[o] \in 1 .. Len(file[o]) /\ Len(file[o]) \in Nat /\ Topic(o) \in Topics
  BY AtTopic
<1>2. DOMAIN file[o] = 1 .. Len(file[o]) /\ \A i \in DOMAIN file[o] : file[o][i] \in Topics
  BY <1>1, Files
<1>3. step \in [Operators -> Steps] /\ at \in [Operators -> Nat \ {0}]
  BY DEF TypeOK
<1>4. /\ Passed(o) = {i \in DOMAIN file[o] : i < at[o]}
      /\ Passed(o)' \subseteq {i \in DOMAIN file[o] : i <= at[o]}
      /\ step'[o] \in {"topic", "migrate", "succeeded"}
      /\ step'[o] = "migrate" => command[o] \in Bootstraps
      /\ step'[o] = "succeeded" => command[o] \notin Bootstraps
      /\ step'[o] = "topic" => existing' = existing
  <2>1. CASE at[o] < Len(file[o])
    <3>1. step'[o] = "topic" /\ at'[o] = at[o] + 1 /\ existing' = existing /\ file'[o] = file[o]
      BY <1>3, <2>1 DEF Proceed
    <3>2. QED
      BY <1>1, <1>2, <3>1 DEF Passed
  <2>2. CASE ~ (at[o] < Len(file[o]))
    <3>1. /\ step'[o] = (IF command[o] \in Bootstraps THEN "migrate" ELSE "succeeded")
          /\ file'[o] = file[o] /\ at[o] = Len(file[o])
      BY <1>1, <1>3, <2>2 DEF Proceed
    <3>2. QED
      BY <1>1, <1>2, <3>1 DEF Passed
  <2>3. QED
    BY <2>1, <2>2
<1>5. Seen(o)'
  BY <1>4, SeenKept DEF Good, Seen
<1>6. Applied(o)'
  <2> SUFFICES ASSUME Changes(o)
               PROVE  Applied(o)'
    BY DEF Applied, Changes
  <2>1. file[o] \in loaded'
    BY DEF Good, Applied, Steady
  <2>2. \A i \in Passed(o)' : Usable(file[o][i])'
    <3> SUFFICES ASSUME NEW i \in Passed(o)'
                 PROVE  Usable(file[o][i])'
      OBVIOUS
    <3>1. CASE i = at[o]
      BY <1>1, <3>1 DEF Topic
    <3>2. CASE i # at[o]
      <4>1. i \in Passed(o) /\ file[o][i] \in Topics
        BY <1>1, <1>2, <1>4, <3>2
      <4>2. Usable(file[o][i])
        BY <4>1 DEF Good, Applied
      <4>3. QED
        BY <4>1, <4>2, SteadyUsable
    <3>3. QED
      BY <3>1, <3>2
  <2>3. step'[o] \notin {"config", "alter"}
    BY <1>4
  <2>4. QED
    BY <2>1, <2>2, <2>3 DEF Applied
<1>7. Bootstrapped(o)'
  BY <1>4 DEF Bootstrapped
<1>8. QED
  BY <1>5, <1>6, <1>7 DEF Good

\* Nothing is asked of an operator that has not loaded a file.
LEMMA Fresh ==
  ASSUME NEW o \in Operators, step'[o] \in {"idle", "compose", "clickhouse", "otelcol", "load"}
  PROVE  Good(o)'
<1>1. step'[o] \notin {"list", "topic", "config", "alter", "migrate", "dimensions", "succeeded"}
  OBVIOUS
<1>2. Passed(o)' = {}
  BY <1>1 DEF Passed
<1>3. QED
  BY <1>1, <1>2 DEF Good, Seen, Applied, Bootstrapped

\* A topic that a reconciler has just created, altered, or found as its file wants it.
LEMMA MadeUsable ==
  ASSUME TypeOK, NEW o \in Operators, step[o] \in {"topic", "config", "alter"}, file[o] \in loaded, loaded' = loaded,
         partitions'[Topic(o).name] # None, partitions'[Topic(o).name] >= Topic(o).partitions,
         Drift(Topic(o).config, config'[Topic(o).name]) = {}
  PROVE  \A t \in Topics : t = Topic(o) => Usable(t)'
<1>1. at[o] \in DOMAIN file[o] /\ Topic(o) = file[o][at[o]]
  BY DEF TypeOK, Topic
<1>2. SUFFICES ASSUME NEW t \in Topics, t = Topic(o)
               PROVE  Usable(t)'
  OBVIOUS
<1>3. Matches(t.name, config[t.name])'
  BY <1>1, <1>2 DEF Matches
<1>4. QED
  BY <1>2, <1>3 DEF Usable

\* The reconciler's steps.
LEMMA ReconcilerSteady ==
  ASSUME TypeOK, NEW o \in Operators, Good(o),
         Create(o) \/ Grow(o) \/ KeepPartitions(o) \/ Compare(o) \/ Alter(o)
  PROVE  Steady
<1> USE DEF stack, broker, clickhouse, reconciler
<1>0. step[o] \in {"topic", "config", "alter"} /\ UNCHANGED <<schema, allowlist, file, loaded>>
  BY DEF Create, Grow, KeepPartitions, Listed, Compare, Alter
<1>1. Topic(o) \in Topics
  BY <1>0, AtTopic
<1>2. Topic(o).name \in Names /\ Topic(o).partitions \in 1 .. MaxPartitions /\ Drift(Topic(o).config, Whole(Topic(o).config)) = {}
  BY <1>1, TopicTypes
<1>3. /\ partitions \in [Names -> 1 .. MaxPartitions \union {None}] /\ config \in [Names -> Configs]
      /\ at[o] \in DOMAIN file[o]
  BY <1>0 DEF TypeOK
<1> SUFFICES ASSUME NEW n \in Names, partitions[n] # None
             PROVE  /\ partitions'[n] # None /\ partitions'[n] >= partitions[n]
                    /\ config'[n] = config[n] \/ Matches(n, config'[n])
  BY <1>0 DEF Steady
<1>4. partitions[n] \in 1 .. MaxPartitions
  BY <1>3
<1>5. CASE Create(o)
  <2>1. partitions'[n] = partitions[n] /\ config'[n] = config[n]
    BY <1>2, <1>3, <1>5 DEF Create
  <2>2. QED
    BY <1>4, <2>1
<1>6. CASE Grow(o)
  <2>1. config' = config
    BY <1>6 DEF Grow
  <2>2. CASE Changes(o) /\ n = Topic(o).name
    <3>1. partitions'[n] = Topic(o).partitions /\ partitions[n] < Topic(o).partitions
      BY <1>3, <1>6, <2>2 DEF Grow
    <3>2. QED
      BY <1>2, <1>4, <2>1, <3>1, BootstrapAssumption
  <2>3. CASE ~ (Changes(o) /\ n = Topic(o).name)
    <3>1. partitions'[n] = partitions[n]
      BY <1>3, <1>6, <2>3 DEF Grow
    <3>2. QED
      BY <1>4, <2>1, <3>1
  <2>4. QED
    BY <2>2, <2>3
<1>7. CASE KeepPartitions(o) \/ Compare(o)
  BY <1>4, <1>7 DEF KeepPartitions, Compare
<1>8. CASE Alter(o)
  <2>1. partitions' = partitions
    BY <1>8 DEF Alter
  <2>2. CASE Changes(o) /\ n = Topic(o).name
    <3>1. config'[n] = Whole(Topic(o).config)
      BY <1>3, <1>8, <2>2 DEF Alter
    <3>2. file[o] \in loaded
      BY <1>0, <2>2 DEF Good, Applied
    <3>3. Matches(n, config'[n])
      BY <1>2, <1>3, <2>2, <3>1, <3>2 DEF Matches, Topic
    <3>4. QED
      BY <1>4, <2>1, <3>3
  <2>3. CASE ~ (Changes(o) /\ n = Topic(o).name)
    <3>1. config'[n] = config[n]
      BY <1>3, <1>8, <2>3 DEF Alter
    <3>2. QED
      BY <1>4, <2>1, <3>1
  <2>4. QED
    BY <2>2, <2>3
<1>9. QED
  BY <1>5, <1>6, <1>7, <1>8

LEMMA ReconcilerGood ==
  ASSUME TypeOK, TypeOK', Steady, NEW o \in Operators, Good(o),
         Create(o) \/ Grow(o) \/ KeepPartitions(o) \/ Compare(o) \/ Alter(o)
  PROVE  Good(o)'
<1> USE DEF stack, broker, clickhouse, reconciler
<1>0. step[o] \in {"topic", "config", "alter"} /\ UNCHANGED <<schema, allowlist, file, command, loaded>>
  BY DEF Create, Grow, KeepPartitions, Listed, Compare, Alter
<1>1. /\ Topic(o) \in Topics /\ file[o] \in TopicFiles
      /\ at[o] \in 1 .. Len(file[o]) /\ DOMAIN file[o] = 1 .. Len(file[o])
  BY <1>0, AtTopic, Files
<1>2. Topic(o).name \in Names /\ Topic(o).partitions \in 1 .. MaxPartitions /\ Drift(Topic(o).config, Whole(Topic(o).config)) = {}
  BY <1>1, TopicTypes
<1>3. /\ partitions \in [Names -> 1 .. MaxPartitions \union {None}] /\ config \in [Names -> Configs]
      /\ existing \in [Operators -> [Names -> 1 .. MaxPartitions \union {None}]]
      /\ step \in [Operators -> Steps]
  BY DEF TypeOK
<1>4. Changes(o) => file[o] \in loaded
  BY <1>0 DEF Good, Applied
<1>5. CASE Create(o)
  <2>1. ASSUME Changes(o)
        PROVE  \A t \in Topics : t = Topic(o) => Usable(t)'
    <3>1. /\ partitions'[Topic(o).name] = Topic(o).partitions
          /\ config'[Topic(o).name] = Whole(Topic(o).config)
      BY <1>2, <1>3, <1>5, <2>1 DEF Create, Creates
    <3>2. Topic(o).partitions # None /\ Topic(o).partitions >= Topic(o).partitions
      BY <1>2, BootstrapAssumption
    <3>3. QED
      BY <1>0, <1>2, <1>4, <2>1, <3>1, <3>2, MadeUsable
  <2>2. Proceed(o)
    BY <1>5 DEF Create
  <2>3. QED
    BY <1>0, <2>1, <2>2, ProceedGood
<1>6. CASE Compare(o) /\ Proceed(o)
  <2>1. Changes(o) => partitions[Topic(o).name] # None /\ partitions[Topic(o).name] >= Topic(o).partitions
    BY <1>6 DEF Compare, Good, Applied
  <2>2. UNCHANGED <<partitions, config>>
    BY <1>6 DEF Compare
  <2>3. CASE Drift(Topic(o).config, config[Topic(o).name]) = {}
    <3>1. Changes(o) => \A t \in Topics : t = Topic(o) => Usable(t)'
      BY <1>0, <1>4, <2>1, <2>2, <2>3, MadeUsable
    <3>2. QED
      BY <1>0, <1>6, <3>1, ProceedGood
  <2>4. CASE Drift(Topic(o).config, config[Topic(o).name]) # {}
    <3>1. step' = [step EXCEPT ![o] = "alter"]
      BY <1>6, <2>4 DEF Compare
    <3>2. step'[o] = "alter"
      BY <1>3, <3>1
    <3>3. step'[o] \in {"topic", "migrate", "succeeded"}
      BY <1>3, <1>6 DEF Proceed
    <3>4. QED
      BY <3>2, <3>3
  <2>5. QED
    BY <2>3, <2>4
<1>7. CASE Alter(o)
  <2>1. ASSUME Changes(o)
        PROVE  \A t \in Topics : t = Topic(o) => Usable(t)'
    <3>1. config'[Topic(o).name] = Whole(Topic(o).config) /\ partitions' = partitions
      BY <1>2, <1>3, <1>7, <2>1 DEF Alter
    <3>2. partitions[Topic(o).name] # None /\ partitions[Topic(o).name] >= Topic(o).partitions
      BY <1>7, <2>1 DEF Alter, Good, Applied
    <3>3. QED
      BY <1>0, <1>2, <1>4, <2>1, <3>1, <3>2, MadeUsable
  <2>2. Proceed(o)
    BY <1>7 DEF Alter
  <2>3. QED
    BY <1>0, <2>1, <2>2, ProceedGood
<1>8. CASE Grow(o) \/ KeepPartitions(o) \/ (Compare(o) /\ ~ Proceed(o))
  <2>1. /\ step'[o] \in {"config", "alter"} /\ UNCHANGED <<existing, at>>
        /\ step'[o] = "alter" => step[o] = "config" /\ UNCHANGED broker
    BY <1>3, <1>8 DEF Grow, KeepPartitions, Listed, Compare
  <2>2. Seen(o)'
    BY <1>0, <2>1, SeenKept DEF Good
  <2>3. Bootstrapped(o)'
    BY <2>1 DEF Bootstrapped
  <2>4. Applied(o)'
    <3> SUFFICES ASSUME Changes(o)
                 PROVE  Applied(o)'
      BY <1>0 DEF Applied, Changes
    <3>1. file[o] \in loaded'
      BY <1>0, <1>4
    <3>2. Passed(o)' = Passed(o) /\ Passed(o) \subseteq DOMAIN file[o] /\ Topic(o)' = Topic(o)
      BY <1>0, <2>1 DEF Passed, Topic
    <3>3. \A i \in Passed(o)' : Usable(file[o][i])'
      <4> SUFFICES ASSUME NEW i \in Passed(o)
                   PROVE  Usable(file[o][i])'
        BY <3>2
      <4>1. file[o][i] \in Topics
        BY <1>1, <3>2, Files
      <4>2. Usable(file[o][i])
        BY DEF Good, Applied
      <4>3. QED
        BY <1>0, <4>1, <4>2, SteadyUsable
    <3>4. partitions'[Topic(o).name] # None /\ partitions'[Topic(o).name] >= Topic(o).partitions
      <4>1. CASE Grow(o)
        <5>1. partitions'[Topic(o).name] = Topic(o).partitions
          BY <1>2, <1>3, <4>1 DEF Grow
        <5>2. QED
          BY <1>2, <5>1, BootstrapAssumption
      <4>2. CASE KeepPartitions(o)
        <5>1. /\ step[o] = "topic" /\ existing[o][Topic(o).name] # None
              /\ Topic(o).partitions <= existing[o][Topic(o).name] /\ partitions' = partitions
          BY <4>2 DEF KeepPartitions, Listed
        <5>2. partitions[Topic(o).name] # None /\ existing[o][Topic(o).name] <= partitions[Topic(o).name]
          BY <1>2, <5>1 DEF Good, Seen
        <5>3. QED
          BY <1>2, <1>3, <5>1, <5>2
      <4>3. CASE Compare(o)
        <5>1. step[o] = "config" /\ partitions' = partitions
          BY <4>3 DEF Compare
        <5>2. QED
          BY <5>1 DEF Good, Applied
      <4>4. QED
        BY <1>8, <4>1, <4>2, <4>3
    <3>5. QED
      BY <1>0, <3>1, <3>2, <3>3, <3>4 DEF Applied
  <2>5. QED
    BY <2>2, <2>3, <2>4 DEF Good
<1>9. QED
  BY <1>5, <1>6, <1>7, <1>8

\* The other steps of a command.
LEMMA CommandGood ==
  ASSUME TypeOK, TypeOK', Held, Steady, NEW o \in Operators, Good(o),
         \/ \E c \in Commands : Run(o, c)
         \/ \E f \in TopicFiles : Load(o, f)
         \/ \E errors \in SUBSET Names : List(o, errors)
         \/ Raise(o) \/ ComposeStarts(o) \/ Compose(o) \/ Wait(o)
         \/ Migrate(o) \/ ApplyDimensions(o)
  PROVE  Good(o)'
<1> USE DEF stack, broker, clickhouse, reconciler
<1>0. /\ step \in [Operators -> Steps] /\ file \in [Operators -> TopicFiles \union {None}]
      /\ existing \in [Operators -> [Names -> 1 .. MaxPartitions \union {None}]]
      /\ at \in [Operators -> Nat \ {0}]
      /\ partitions \in [Names -> 1 .. MaxPartitions \union {None}]
  BY DEF TypeOK
<1>1. CASE Raise(o) \/ Compose(o) \/ Wait(o) \/ \E c \in Commands : Run(o, c)
  <2>1. \A c \in Commands : FirstStep(c) \in {"compose", "clickhouse", "load"}
    BY DEF FirstStep
  <2>2. step'[o] \in {"idle", "compose", "clickhouse", "otelcol", "load"}
    BY <1>0, <1>1, <2>1 DEF Raise, Compose, Wait, Goto, Run
  <2>3. QED
    BY <2>2, Fresh
<1>2. CASE ComposeStarts(o)
  BY <1>2, Idle DEF ComposeStarts
<1>3. ASSUME NEW f \in TopicFiles, Load(o, f)
      PROVE  Good(o)'
  <2>1. step'[o] = "list" /\ file'[o] = f /\ (Changes(o) => f \in loaded') /\ command' = command
    BY <1>0, <1>3 DEF Load, Goto
  <2>2. Passed(o)' = {}
    BY <2>1 DEF Passed
  <2>3. QED
    BY <2>1, <2>2 DEF Good, Seen, Applied, Bootstrapped, Changes
<1>4. ASSUME NEW errors \in SUBSET Names, List(o, errors)
      PROVE  Good(o)'
  <2>1. step'[o] = "topic" /\ at'[o] = 1 /\ UNCHANGED <<file, command, loaded, partitions>> /\ step[o] = "list"
    BY <1>0, <1>4 DEF List, Goto
  <2>2. \A n \in Names : existing'[o][n] # None => existing'[o][n] = partitions[n] /\ partitions[n] \in 1 .. MaxPartitions
    <3>1. existing'[o] = [n \in Names |-> IF n \in errors THEN None ELSE partitions[n]]
      BY <1>0, <1>4 DEF List
    <3>2. QED
      BY <1>0, <3>1
  <2>3. Passed(o)' = {}
    <3>1. file[o] \in TopicFiles
      BY <1>0, <2>1 DEF Held
    <3>2. DOMAIN file[o] = 1 .. Len(file[o]) /\ Len(file[o]) \in Nat
      BY <3>1, Files
    <3>3. QED
      BY <2>1, <3>2 DEF Passed
  <2>4. Seen(o)'
    BY <1>0, <2>1, <2>2 DEF Seen
  <2>5. Applied(o)'
    BY <2>1, <2>3 DEF Good, Applied, Changes
  <2>6. Bootstrapped(o)'
    BY <2>1 DEF Bootstrapped
  <2>7. QED
    BY <2>4, <2>5, <2>6 DEF Good
<1>5. CASE Migrate(o) \/ ApplyDimensions(o)
  <2>1. /\ \/ step[o] = "migrate" /\ step'[o] = "dimensions"
           \/ step[o] = "dimensions" /\ step'[o] = "succeeded"
        /\ UNCHANGED <<file, command, loaded>>
    BY <1>0, <1>5 DEF Migrate, ApplyDimensions, Goto
  <2>2. Passed(o) = DOMAIN file[o] /\ Passed(o)' = DOMAIN file[o]
    BY <2>1 DEF Passed
  <2>3. Applied(o)'
    <3> SUFFICES ASSUME Changes(o)
                 PROVE  Applied(o)'
      BY <2>1 DEF Applied, Changes
    <3>1. file[o] \in loaded /\ file[o] \in TopicFiles
      BY <2>1 DEF Good, Applied, TypeOK
    <3>2. \A i \in DOMAIN file[o] : Usable(file[o][i])'
      <4> TAKE i \in DOMAIN file[o]
      <4>1. file[o][i] \in Topics
        BY <3>1, Files
      <4>2. Usable(file[o][i])
        BY <2>2 DEF Good, Applied
      <4>3. QED
        BY <2>1, <4>1, <4>2, SteadyUsable
    <3>3. \A i \in Passed(o)' : Usable(file[o][i])'
      BY <2>1, <2>2, <3>2
    <3>4. QED
      BY <2>1, <3>1, <3>3 DEF Applied
  <2>4. Bootstrapped(o)'
    <3>1. CASE Migrate(o)
      <4>1. step'[o] = "dimensions" /\ step[o] = "migrate" /\ UNCHANGED command
        BY <1>0, <3>1 DEF Migrate, Goto
      <4>2. schema'
        BY <3>1 DEF Migrate
      <4>3. command'[o] \in Bootstraps
        BY <4>1 DEF Good, Bootstrapped
      <4>4. QED
        BY <4>1, <4>2, <4>3 DEF Bootstrapped
    <3>2. CASE ApplyDimensions(o)
      <4>1. step'[o] = "succeeded"
        BY <1>0, <3>2 DEF ApplyDimensions, Goto
      <4>2. schema' /\ allowlist'
        BY <3>2 DEF ApplyDimensions
      <4>3. QED
        BY <4>1, <4>2 DEF Bootstrapped
    <3>3. QED
      BY <1>5, <3>1, <3>2
  <2>5. QED
    BY <2>1, <2>3, <2>4 DEF Good, Seen
<1>6. QED
  BY <1>1, <1>2, <1>3, <1>4, <1>5

\* What everything but a nuke leaves to every operator.
LEMMA StackSteady ==
  ASSUME TypeOK, Next, \A o \in Operators : Good(o)
  PROVE  Nuke \/ Steady
<1> USE DEF stack, broker, clickhouse, reconciler
<1>0. partitions \in [Names -> 1 .. MaxPartitions \union {None}] /\ config \in [Names -> Configs]
  BY DEF TypeOK
<1>1. \A n \in Names : partitions[n] # None => partitions[n] >= partitions[n]
  BY <1>0
<1>2. ASSUME NEW n \in Names, AutoCreate(n)
      PROVE  Steady
  BY <1>0, <1>1, <1>2 DEF AutoCreate, Steady
<1>3. ASSUME NEW s \in Services, Starts(s) \/ GoesDown(s)
      PROVE  Steady
  BY <1>1, <1>3 DEF Starts, GoesDown, Steady
<1>4. ASSUME NEW o \in Operators, Command(o)
      PROVE  Steady
  <2>1. CASE Create(o) \/ Grow(o) \/ KeepPartitions(o) \/ Compare(o) \/ Alter(o)
    BY <2>1, ReconcilerSteady
  <2>2. CASE \/ \E c \in Commands : Run(o, c)
             \/ \E f \in TopicFiles : Load(o, f)
             \/ \E errors \in SUBSET Names : List(o, errors)
             \/ Raise(o) \/ ComposeStarts(o) \/ Compose(o) \/ Wait(o)
             \/ Migrate(o) \/ ApplyDimensions(o)
    <3>1. UNCHANGED broker /\ loaded \subseteq loaded' /\ (schema => schema') /\ (allowlist => allowlist')
      BY <2>2 DEF Run, Load, List, Raise, ComposeStarts, Compose, Wait, Migrate, ApplyDimensions
    <3>2. QED
      BY <1>1, <3>1 DEF Steady
  <2>3. QED
    BY <1>4, <2>1, <2>2 DEF Command
<1>5. QED
  BY <1>2, <1>3, <1>4 DEF Next, Others

LEMMA GoodHolds == Spec => [](\A o \in Operators : Good(o))
<1>1. Init => \A o \in Operators : Good(o)
  <2> SUFFICES ASSUME Init, NEW o \in Operators PROVE Good(o)
    OBVIOUS
  <2>1. step[o] = "idle" /\ Passed(o) = {}
    BY DEF Init, Passed
  <2>2. QED
    BY <2>1 DEF Good, Seen, Applied, Bootstrapped
<1>2. TypeOK /\ Held /\ (TypeOK /\ Held)' /\ (\A o \in Operators : Good(o)) /\ [Next]_vars
        => (\A o \in Operators : Good(o))'
  <2> SUFFICES ASSUME TypeOK, Held, TypeOK', \A o \in Operators : Good(o), [Next]_vars, NEW o \in Operators
               PROVE  Good(o)'
    OBVIOUS
  <2> USE DEF stack, broker, clickhouse, reconciler
  <2>1. CASE UNCHANGED vars
    <3>1. Steady
      <4>1. \A n \in Names : partitions[n] # None => partitions[n] >= partitions[n]
        BY DEF TypeOK
      <4>2. QED
        BY <2>1, <4>1 DEF vars, Steady
    <3>2. QED
      BY <2>1, <3>1, Idle DEF vars
  <2>2. CASE Nuke
    <3>1. step'[o] = "idle"
      BY <2>2 DEF Nuke
    <3>2. QED
      BY <3>1, Fresh
  <2>3. CASE Next /\ ~ Nuke
    <3>1. Steady
      BY <2>3, StackSteady
    <3>2. CASE Others
      <4>1. UNCHANGED <<step, command, file, existing, at>>
        BY <2>3, <3>2 DEF Others, Starts, GoesDown, AutoCreate
      <4>2. QED
        BY <3>1, <4>1, Idle
    <3>3. ASSUME NEW q \in Operators, Command(q), q # o
          PROVE  Good(o)'
      <4>1. /\ step'[o] = step[o] /\ command'[o] = command[o] /\ file'[o] = file[o]
            /\ existing'[o] = existing[o] /\ at'[o] = at[o]
        <5>0. /\ step \in [Operators -> Steps] /\ file \in [Operators -> TopicFiles \union {None}]
              /\ existing \in [Operators -> [Names -> 1 .. MaxPartitions \union {None}]]
              /\ at \in [Operators -> Nat \ {0}] /\ command \in [Operators -> Commands]
          BY DEF TypeOK
        <5>1. CASE Proceed(q) /\ UNCHANGED <<command, file>>
          BY <3>3, <5>0, <5>1 DEF Proceed
        <5>2. CASE Create(q) \/ Grow(q) \/ KeepPartitions(q) \/ Compare(q) \/ Alter(q)
          BY <3>3, <5>0, <5>1, <5>2 DEF Create, Grow, KeepPartitions, Listed, Compare, Alter
        <5>3. CASE (\E c \in Commands : Run(q, c)) \/ \E f \in TopicFiles : Load(q, f)
          BY <3>3, <5>0, <5>3 DEF Run, Load, Goto
        <5>4. CASE \/ \E errors \in SUBSET Names : List(q, errors)
                   \/ Raise(q) \/ ComposeStarts(q)
          BY <3>3, <5>0, <5>4 DEF List, Raise, ComposeStarts, Goto
        <5>5. CASE Compose(q) \/ Wait(q) \/ Migrate(q) \/ ApplyDimensions(q)
          BY <3>3, <5>0, <5>5 DEF Compose, Wait, Migrate, ApplyDimensions, Goto
        <5>6. QED
          BY <3>3, <5>2, <5>3, <5>4, <5>5 DEF Command
      <4>2. QED
        BY <3>1, <4>1, Idle
    <3>4. CASE Command(o)
      BY <3>1, <3>4, ReconcilerGood, CommandGood DEF Command
    <3>5. QED
      BY <2>3, <3>2, <3>3, <3>4 DEF Next
  <2>4. QED
    BY <2>1, <2>2, <2>3
<1>3. QED
  BY <1>1, <1>2, TypesHold, PTL DEF Spec

\* Whatever other operators do at the same time, whichever versions of topics.yaml
\* they have and whichever services go down: a reconcile or a bootstrap that exits 0
\* leaves topics as large as its file asks for, configured as an applied file wants
\* them, and after a bootstrap the schema and the allowlist (reconcile, bootstrap).
THEOREM SuccessIsUsableHolds == Spec => []SuccessIsUsable
<1>1. (\A o \in Operators : Good(o)) => SuccessIsUsable
  <2> SUFFICES ASSUME NEW o \in Operators, Good(o), step[o] = "succeeded", Changes(o)
               PROVE  /\ \A i \in DOMAIN file[o] : Usable(file[o][i])
                      /\ command[o] \in Bootstraps => schema /\ allowlist
    BY DEF SuccessIsUsable, Usable, Matches
  <2>1. Passed(o) = DOMAIN file[o]
    BY DEF Passed
  <2>2. QED
    BY <2>1 DEF Good, Applied, Bootstrapped
<1>2. QED
  BY <1>1, GoodHolds, PTL
=============================================================================
