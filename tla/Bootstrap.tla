----------------------------- MODULE Bootstrap ------------------------------
(***************************************************************************)
(* Bringing a stack to a usable state: compose, the waits for its services,*)
(* the topic reconciler, the migrations and the dimension sync (tasks.py,  *)
(* cli.py, ingest/topics.py, storage/client.py, common/health.py).         *)
(*                                                                         *)
(* Several operators may run these commands at once, from checkouts with   *)
(* different topics.yaml, and the broker's topics may be touched by others *)
(* too.  A migration and a sync are one step each: Migrations and          *)
(* CardinalityGuard take them apart.                                       *)
(***************************************************************************)
EXTENDS Integers, Sequences

CONSTANTS
  Operators,
  TopicFiles,     \* versions of topics.yaml: sequences of [name, partitions, config]
  Names,          \* of topics
  Keys, Values,   \* of topic configs
  Default,        \* the broker's default value of a key
  MaxPartitions,
  MaxOutages,     \* bound on services that go down
  None            \* no topic, no file

Configs == [Keys -> Values \union {Default}]
Defaults == [k \in Keys |-> Default]
Services == {"redpanda", "clickhouse", "otelcol"}

\* TopicSpec
Topics == [name : Names, partitions : 1 .. MaxPartitions,
           config : UNION {[K -> Values] : K \in SUBSET Keys}]

ASSUME BootstrapAssumption ==
  /\ MaxPartitions \in Nat \ {0} /\ MaxOutages \in Nat
  /\ TopicFiles \subseteq Seq(Topics) \ {<< >>}
  /\ None \notin TopicFiles /\ None \notin 1 .. MaxPartitions

VARIABLES
  service,     \* "down", "starting" or "ready"
  partitions,  \* of each topic on the broker, or None
  config,      \* of each topic on the broker
  schema,      \* the migrations are applied
  allowlist,   \* the static dimensions are in it
  step,        \* each operator's step; "succeeded" is exit code 0, a failure is "idle"
  command,     \* the command it has given last
  file,        \* the topics.yaml its reconciler has loaded
  existing,    \* the partition counts its reconciler has listed
  at,          \* the topic of the file it is at
  outages,
  loaded       \* history: the files loaded by reconcilers that change topics

stack == <<service, outages>>
broker == <<partitions, config>>
clickhouse == <<schema, allowlist>>
reconciler == <<file, existing, at, loaded>>
vars == <<stack, broker, clickhouse, step, command, reconciler>>

Commands == {"up", "bootstrap", "topics", "topics --dry-run"}
Bootstraps == {"up", "bootstrap"}
Resting == {"idle", "succeeded"}
Steps == Resting \union
         {"compose", "clickhouse", "otelcol", "load", "list", "topic", "config", "alter", "migrate", "dimensions"}

TypeOK ==
  /\ service \in [Services -> {"down", "starting", "ready"}]
  /\ partitions \in [Names -> 1 .. MaxPartitions \union {None}]
  /\ config \in [Names -> Configs]
  /\ {schema, allowlist} \subseteq BOOLEAN
  /\ step \in [Operators -> Steps]
  /\ command \in [Operators -> Commands]
  /\ file \in [Operators -> TopicFiles \union {None}]
  /\ existing \in [Operators -> [Names -> 1 .. MaxPartitions \union {None}]]
  /\ at \in [Operators -> Nat \ {0}]
  /\ outages \in 0 .. MaxOutages
  /\ loaded \subseteq TopicFiles
  /\ \A o \in Operators : step[o] \in {"topic", "config", "alter"} =>
       file[o] # None /\ at[o] \in DOMAIN file[o]

-----------------------------------------------------------------------------
Goto(o, from, to) == step[o] = from /\ step' = [step EXCEPT ![o] = to]

NoCounts == [n \in Names |-> None]

\* Whatever raises ends the command with an exit code other than 0.
Raise(o) ==
  /\ step[o] \notin Resting
  /\ step' = [step EXCEPT ![o] = "idle"]
  /\ command' = [command EXCEPT ![o] = "up"]
  /\ file' = [file EXCEPT ![o] = None]
  /\ existing' = [existing EXCEPT ![o] = NoCounts]
  /\ at' = [at EXCEPT ![o] = 1]
  /\ UNCHANGED <<stack, broker, clickhouse, loaded>>

\* Its first step, when an operator gives command c.
FirstStep(c) ==
  CASE c = "up" -> "compose" [] c = "bootstrap" -> "clickhouse" [] OTHER -> "load"

Run(o, c) ==
  /\ step[o] \in Resting
  /\ command' = [command EXCEPT ![o] = c]
  /\ step' = [step EXCEPT ![o] = FirstStep(c)]
  /\ file' = [file EXCEPT ![o] = None]
  /\ UNCHANGED <<stack, broker, clickhouse, existing, at, loaded>>

\* docker compose up -d starts what is down ...
ComposeStarts(o) ==
  /\ step[o] = "compose"
  /\ \E s \in Services : service[s] = "down"
  /\ service' = [s \in Services |-> IF service[s] = "down" THEN "starting" ELSE service[s]]
  /\ UNCHANGED <<outages, broker, clickhouse, step, command, reconciler>>

\* ... and --wait waits for the services that have a healthcheck, which the collector
\* has not.
Compose(o) ==
  /\ \A s \in {"redpanda", "clickhouse"} : service[s] = "ready"
  /\ service["otelcol"] # "down"
  /\ Goto(o, "compose", "clickhouse")
  /\ UNCHANGED <<stack, broker, clickhouse, command, reconciler>>

\* wait_until_ready and the two wait_for_http of stack_wait; on a timeout they raise.
Wait(o) ==
  /\ \/ service["clickhouse"] = "ready" /\ Goto(o, "clickhouse", "otelcol")
     \/ service["otelcol"] = "ready" /\ Goto(o, "otelcol", "load")
  /\ UNCHANGED <<stack, broker, clickhouse, command, reconciler>>

-----------------------------------------------------------------------------
(* reconcile. *)

Changes(o) == command[o] # "topics --dry-run"

\* load_specs
Load(o, f) ==
  /\ Goto(o, "load", "list")
  /\ file' = [file EXCEPT ![o] = f]
  /\ loaded' = IF Changes(o) THEN loaded \union {f} ELSE loaded
  /\ UNCHANGED <<stack, broker, clickhouse, command, existing, at>>

Reached(s) == service[s] = "ready"

\* _existing_partition_counts leaves out the topics that are listed with an error.
List(o, errors) ==
  /\ Reached("redpanda")
  /\ Goto(o, "list", "topic")
  /\ existing' = [existing EXCEPT ![o] = [n \in Names |-> IF n \in errors THEN None ELSE partitions[n]]]
  /\ at' = [at EXCEPT ![o] = 1]
  /\ UNCHANGED <<stack, broker, clickhouse, command, file, loaded>>

Topic(o) == file[o][at[o]]

\* To the next topic of the file, or out of the reconciler.
Proceed(o) ==
  IF at[o] < Len(file[o])
    THEN /\ step' = [step EXCEPT ![o] = "topic"]
         /\ at' = [at EXCEPT ![o] = @ + 1]
         /\ UNCHANGED existing
    ELSE /\ step' = [step EXCEPT ![o] = IF command[o] \in Bootstraps THEN "migrate" ELSE "succeeded"]
         /\ at' = [at EXCEPT ![o] = 1]
         /\ existing' = [existing EXCEPT ![o] = NoCounts]

\* A config that is set is set as a whole: the other keys go back to their defaults.
Whole(c) == [k \in Keys |-> IF k \in DOMAIN c THEN c[k] ELSE Default]

Drift(c, current) == {k \in DOMAIN c : current[k] # c[k]}

\* Mutant of Creates: a topic that is there by now is taken for the one wanted.
CreatesOrTakes(o) == TRUE

\* create_topics fails on a topic that is there by now.
Creates(o) == partitions[Topic(o).name] = None

Create(o) ==
  /\ step[o] = "topic"
  /\ existing[o][Topic(o).name] = None
  /\ Changes(o) => Reached("redpanda") /\ Creates(o)
  /\ IF Changes(o) /\ partitions[Topic(o).name] = None
       THEN /\ partitions' = [partitions EXCEPT ![Topic(o).name] = Topic(o).partitions]
            /\ config' = [config EXCEPT ![Topic(o).name] = Whole(Topic(o).config)]
       ELSE UNCHANGED broker
  /\ Proceed(o)
  /\ UNCHANGED <<stack, clickhouse, command, file, loaded>>

Listed(o) ==
  /\ step[o] = "topic"
  /\ existing[o][Topic(o).name] # None
  /\ step' = [step EXCEPT ![o] = "config"]
  /\ UNCHANGED <<stack, clickhouse, command, reconciler>>

\* create_partitions fails when the topic has that many by now, or more.
Grow(o) ==
  /\ Listed(o)
  /\ Topic(o).partitions > existing[o][Topic(o).name]
  /\ Changes(o) => Reached("redpanda") /\ partitions[Topic(o).name] < Topic(o).partitions
  /\ partitions' = IF Changes(o) THEN [partitions EXCEPT ![Topic(o).name] = Topic(o).partitions]
                                 ELSE partitions
  /\ UNCHANGED config

\* A shrink is refused, which is reported and is no error.
KeepPartitions(o) ==
  /\ Listed(o)
  /\ Topic(o).partitions <= existing[o][Topic(o).name]
  /\ UNCHANGED broker

\* _current_config.  A topic without a config in the file is left alone.
Compare(o) ==
  /\ step[o] = "config"
  /\ Topic(o).config # << >> => Reached("redpanda")
  /\ IF Drift(Topic(o).config, config[Topic(o).name]) = {}
       THEN Proceed(o)
       ELSE step' = [step EXCEPT ![o] = "alter"] /\ UNCHANGED <<existing, at>>
  /\ UNCHANGED <<stack, broker, clickhouse, command, file, loaded>>

Alter(o) ==
  /\ step[o] = "alter"
  /\ Changes(o) => Reached("redpanda")
  /\ config' = IF Changes(o) THEN [config EXCEPT ![Topic(o).name] = Whole(Topic(o).config)]
                             ELSE config
  /\ Proceed(o)
  /\ UNCHANGED <<stack, partitions, clickhouse, command, file, loaded>>

-----------------------------------------------------------------------------
(* The rest of bootstrap: migrate, with a wait of its own, and dimensions_apply. *)

Migrate(o) ==
  /\ Reached("clickhouse")
  /\ Goto(o, "migrate", "dimensions")
  /\ schema' = TRUE
  /\ UNCHANGED <<stack, broker, allowlist, command, reconciler>>

ApplyDimensions(o) ==
  /\ Reached("clickhouse") /\ schema
  /\ Goto(o, "dimensions", "succeeded")
  /\ allowlist' = TRUE
  /\ UNCHANGED <<stack, broker, schema, command, reconciler>>

-----------------------------------------------------------------------------
(* The services, and what others do to them. *)

Starts(s) ==
  /\ service[s] = "starting"
  /\ s = "redpanda" \/ Reached("redpanda")   \* depends_on: service_healthy
  /\ service' = [service EXCEPT ![s] = "ready"]
  /\ UNCHANGED <<outages, broker, clickhouse, step, command, reconciler>>

GoesDown(s) ==
  /\ service[s] # "down" /\ outages < MaxOutages
  /\ outages' = outages + 1
  /\ service' = [service EXCEPT ![s] = "down"]
  /\ UNCHANGED <<broker, clickhouse, step, command, reconciler>>

\* A topic is created by hand, or by the broker for a client, with the defaults.
AutoCreate(n) ==
  /\ Reached("redpanda") /\ partitions[n] = None
  /\ partitions' = [partitions EXCEPT ![n] = 1]
  /\ config' = [config EXCEPT ![n] = Defaults]
  /\ UNCHANGED <<stack, clickhouse, step, command, reconciler>>

\* compose down -v, with no command running.
Nuke ==
  /\ \A o \in Operators : step[o] \in Resting
  /\ service' = [s \in Services |-> "down"]
  /\ partitions' = NoCounts
  /\ config' = [n \in Names |-> Defaults]
  /\ schema' = FALSE /\ allowlist' = FALSE
  /\ step' = [o \in Operators |-> "idle"]
  /\ loaded' = {}
  /\ UNCHANGED <<outages, command, file, existing, at>>

-----------------------------------------------------------------------------
Init ==
  /\ service = [s \in Services |-> "down"]
  /\ partitions = NoCounts
  /\ config = [n \in Names |-> Defaults]
  /\ schema = FALSE /\ allowlist = FALSE
  /\ step = [o \in Operators |-> "idle"]
  /\ command = [o \in Operators |-> "up"]
  /\ file = [o \in Operators |-> None]
  /\ existing = [o \in Operators |-> NoCounts]
  /\ at = [o \in Operators |-> 1]
  /\ outages = 0
  /\ loaded = {}

Command(o) ==
  \/ \E c \in Commands : Run(o, c)
  \/ \E f \in TopicFiles : Load(o, f)
  \/ \E errors \in SUBSET Names : List(o, errors)
  \/ Raise(o) \/ ComposeStarts(o) \/ Compose(o) \/ Wait(o)
  \/ Create(o) \/ Grow(o) \/ KeepPartitions(o) \/ Compare(o) \/ Alter(o)
  \/ Migrate(o) \/ ApplyDimensions(o)

Others == Nuke \/ (\E s \in Services : Starts(s) \/ GoesDown(s)) \/ \E n \in Names : AutoCreate(n)

Next == Others \/ \E o \in Operators : Command(o)

Spec == Init /\ [][Next]_vars

-----------------------------------------------------------------------------
\* A command that ends with exit code 0 leaves a stack that can be used, whoever
\* else is at work on it: every topic of its file has the partitions the file asks
\* for, or more, and the config of a file that was applied; and after a bootstrap
\* the schema and the allowlist are there (reconcile: "Make the broker match the
\* spec. Safe to run repeatedly."; bootstrap: "to a usable state").
SuccessIsUsable ==
  \A o \in Operators : step[o] = "succeeded" /\ Changes(o) =>
    /\ \A i \in DOMAIN file[o] :
         LET topic == file[o][i]
         IN /\ partitions[topic.name] # None /\ partitions[topic.name] >= topic.partitions
            /\ \E f \in loaded : \E j \in DOMAIN f :
                 f[j].name = topic.name /\ Drift(f[j].config, config[topic.name]) = {}
    /\ command[o] \in Bootstraps => schema /\ allowlist
=============================================================================
