-------------------------- MODULE ScenarioExperiments --------------------------
(***************************************************************************)
(* A demo run of any scenario whose user runs its experiments, in any      *)
(* order that their prerequisites allow and as often as they like          *)
(* (scenario-experiments.ts, and the checks of runExperiment() in          *)
(* playground-runtime.ts). Between experiments the consumers of the run    *)
(* may crash and its messages may be processed. An experiment is one step  *)
(* here: ExperimentTransaction has what can happen while it runs.          *)
(***************************************************************************)
EXTENDS ScenarioObservations, ScenarioDelivery, ScenarioDataLifecycle, ScenarioConsistency,
        ScenarioPipelines, ScenarioContracts

CONSTANTS
  MaxExperiments,     \* bound on the experiments of a behaviour
  MaxCommands         \* bound on what else is done to the run

VARIABLES
  state,                    \* run.scenarioState
  run,                      \* the run, for the scenarios that observe it
  completedExperimentIds,
  consumerLimit, partitionOf,
  previous,                 \* history: the state before the last experiment
  transitions,              \* history: those of the last experiment
  experiments, commands     \* counted for the bounds

vars == <<state, run, completedExperimentIds, consumerLimit, partitionOf, previous, transitions, experiments, commands>>

scenarioId == state.scenarioId
ObservesRun == scenarioId \in {"partitioning", "fan-out-load-balancing"}

-----------------------------------------------------------------------------

\* buildScenarioExperimentResult()
Built(s, experimentId, observations) ==
  LET at == s.virtualTimeMs IN
  CASE s.scenarioId = "partitioning" -> buildPartitioningExperiment(s, experimentId, at, observations)
    [] s.scenarioId = "fan-out-load-balancing" -> buildLoadBalancingExperiment(s, experimentId, at, observations)
    [] s.scenarioId = "at-least-once-duplicates" -> buildAtLeastOnceExperiment(s, experimentId, at)
    [] s.scenarioId = "retry-dead-letter-queues" -> buildRetryDeadLetterExperiment(s, experimentId, at)
    [] s.scenarioId = "schema-evolution-karapace" -> buildSchemaEvolutionExperiment(s, experimentId, at)
    [] s.scenarioId = "transactional-producers" -> buildTransactionalProducerExperiment(s, experimentId, at)
    [] s.scenarioId = "event-replay-sourcing" -> buildEventReplayExperiment(s, experimentId, at)
    [] s.scenarioId = "consumer-lag-backpressure" -> buildConsumerLagExperiment(s, experimentId, at)
    [] s.scenarioId = "hot-partitions-key-skew" -> buildHotPartitionExperiment(s, experimentId, at)
    [] s.scenarioId = "log-compaction-tombstones" -> buildLogCompactionExperiment(s, experimentId, at)
    [] s.scenarioId = "retention-data-loss" -> buildRetentionExperiment(s, experimentId, at)
    [] s.scenarioId = "cooperative-rebalancing" -> buildCooperativeRebalancingExperiment(s, experimentId, at)
    [] s.scenarioId = "streams-joins-windows" -> buildStreamsJoinExperiment(s, experimentId, at)
    [] s.scenarioId = "outbox-cdc" -> buildOutboxCdcExperiment(s, experimentId, at)
    [] OTHER -> buildAclExperiment(s, experimentId, at)

\* prepareScenarioExperimentObservations(): the run it leaves and what it saw.
Observed(experimentId) ==
  LET growGroup == experimentId = "grow-consumer-group" IN
  CASE scenarioId = "partitioning" ->
         LET after == PartitioningRun(run, state, growGroup, consumerLimit, partitionOf)
         IN  [run |-> after,
              seen |-> {ObservedPartitioning(after, ProducedIndexes(run, state, growGroup), state,
                                             growGroup /\ consumerLimit < 3)}]
    [] scenarioId = "fan-out-load-balancing" ->
         LET after == BurstRun(run, experimentId, partitionOf)
         IN  [run |-> after, seen |-> {ObservedLoadBalancing(run, after, experimentId)}]
    [] OTHER -> [run |-> run, seen |-> {}]

Init ==
  /\ \E id \in scenarioStateIds :
       /\ state = createInitialScenarioState(id, SCENARIOS[id].partitions)
       /\ run = EmptyRun(SCENARIOS[id].partitions)
       /\ consumerLimit \in IF id = "partitioning" THEN 2..SCENARIOS[id].maxConsumers ELSE {SCENARIOS[id].maxConsumers}
       /\ partitionOf \in IF id = "partitioning" THEN [{"A", "B"} -> Partitions(run)] ELSE {[k \in {"A", "B"} |-> 0]}
  /\ completedExperimentIds = {}
  /\ previous = state /\ transitions = <<>>
  /\ experiments = 0 /\ commands = 0

RunExperiment(experimentId) ==
  /\ experiments < MaxExperiments
  /\ supportsScenarioExperiment(scenarioId, experimentId)
  /\ LET prerequisite == scenarioExperimentPrerequisite(scenarioId, experimentId)
     IN  prerequisite # Null => prerequisite \in completedExperimentIds
  /\ LET observed == Observed(experimentId)
         result == Built(state, experimentId, observed.seen)
     IN  /\ state' = result.state
         /\ transitions' = result.transitions
         /\ run' = observed.run
  /\ completedExperimentIds' = completedExperimentIds \union {experimentId}
  /\ previous' = state
  /\ experiments' = experiments + 1
  /\ UNCHANGED <<consumerLimit, partitionOf, commands>>

\* A command or a timer between two experiments.
Command ==
  /\ ObservesRun
  /\ commands < MaxCommands
  /\ commands' = commands + 1
  /\ UNCHANGED <<state, completedExperimentIds, consumerLimit, partitionOf, previous, transitions, experiments>>

AddConsumer == Command /\ Cardinality(ActiveIndexes(run)) < consumerLimit /\ run' = ConsumerAdded(run)

CrashConsumer ==
  /\ Command
  /\ \E i \in ActiveIndexes(run) : run' = ConsumerCrashed(run, run.consumers[i].consumerId)

ProduceMessage == Command /\ \E key \in DOMAIN partitionOf : run' = Produced(run, key, partitionOf)

ProcessMessage ==
  /\ Command
  /\ \E i \in DOMAIN run.messages : run.messages[i].state = "received" /\ run' = Processed(run, i, TRUE)

Next ==
  \/ \E experimentId \in UNION {scenarioExperimentIds(id) : id \in scenarioStateIds} : RunExperiment(experimentId)
  \/ AddConsumer \/ CrashConsumer \/ ProduceMessage \/ ProcessMessage

Spec == Init /\ [][Next]_vars

-----------------------------------------------------------------------------

\* Clients can parse every snapshot: the state of a scenario meets its schema
\* (scenario-state.ts) after any sequence of experiments.
SchemaHolds == scenarioStateSchema(state)

OwnersOf(p, owners) == {i \in DOMAIN owners : p \in owners[i].partitions}
OwnerOf(p, owners) == owners[CHOOSE i \in DOMAIN owners : p \in owners[i].partitions].consumerId
OwnedOnce(owners, partitions) == \A p \in partitions : Cardinality(OwnersOf(p, owners)) = 1

MovesAgree(c) ==
  LET moved == {p \in 0..2 : OwnerOf(p, c.before) # OwnerOf(p, c.after)}
  IN  /\ {[partition |-> p, fromConsumerId |-> OwnerOf(p, c.before), toConsumerId |-> OwnerOf(p, c.after)] :
            p \in moved} = Range(c.movedPartitions)
      /\ moved \subseteq c.revokedPartitions
      /\ c.keptPartitions \intersect c.revokedPartitions = {}
      /\ c.strategy = "cooperative_sticky" => c.revokedPartitions = moved /\ c.keptPartitions = (0..2) \ moved

\* A group owns each partition once, whatever crashed or joined between the
\* experiments, and what a rebalance is said to move, keep and revoke is what
\* its assignments before and after it show.
GroupsAgree ==
  CASE scenarioId = "partitioning" ->
         state.consumers # <<>> => OwnedOnce(state.consumers, Partitions(run))
    [] scenarioId = "fan-out-load-balancing" ->
         \A e \in Range(state.epochs) : OwnedOnce(e.assignments, Partitions(run))
    [] scenarioId = "cooperative-rebalancing" ->
         \A c \in Range(state.comparisons) :
           OwnedOnce(c.before, 0..2) /\ OwnedOnce(c.after, 0..2) /\ MovesAgree(c)
    [] OTHER -> TRUE

\* The times at which the transitions of the last experiment happen.
TransitionTimes ==
  {previous.virtualTimeMs + Elapsed(SubSeq(transitions, 1, i)) : i \in DOMAIN transitions}

\* Rows that the last experiment wrote.
Fresh(rows, old) == Range(rows) \ Range(old)

\* A row that says when something happened says the time of a transition of
\* the experiment that wrote it: the builders state these times beside the
\* transitions, and experiments start at any time.
TimesFollowTransitions ==
  CASE scenarioId = "retry-dead-letter-queues" ->
         \A r \in Fresh(state.records, previous.records) :
           \A hop \in Range(r.route) : hop.atVirtualMs \in TransitionTimes
    [] scenarioId = "consumer-lag-backpressure" ->
         \A s \in Fresh(state.samples, previous.samples) : s.atVirtualMs \in TransitionTimes
    [] scenarioId = "log-compaction-tombstones" ->
         \A pass \in Fresh(state.cleanerPasses, previous.cleanerPasses) : pass.atVirtualMs = state.virtualTimeMs
    [] scenarioId = "retention-data-loss" ->
         state.cutoffVirtualMs # previous.cutoffVirtualMs =>
           state.cutoffVirtualMs = state.virtualTimeMs - state.retentionMs
    [] OTHER -> TRUE

Increasing(numbers) == \A i, j \in DOMAIN numbers : i < j => numbers[i] < numbers[j]

SameKeySamePartition(traces) ==
  \A i, j \in DOMAIN traces :
    traces[i].key = traces[j].key /\ i < j =>
      traces[i].partition = traces[j].partition /\ traces[i].offset < traces[j].offset

\* What the events of a log add to an aggregate.
DeltasOf(a, log) == Each(log, LAMBDA e : IF e.aggregateId = a THEN e.delta ELSE 0)

ReplayAgrees(s) ==
  /\ \A i \in DOMAIN s.log : s.log[i].offset = i - 1
  /\ s.producedCount = Len(s.log)
  /\ s.cursor = IF s.log = <<>> THEN Null ELSE Len(s.log) - 1
  /\ s.projection = [a \in {e.aggregateId : e \in Range(s.log)} |-> Total(DeltasOf(a, s.log))]

LagAgrees(s) ==
  s.samples # <<>> =>
    /\ Increasing(Each(s.samples, LAMBDA x : x.atVirtualMs))
    /\ Last(s.samples).lag = Total(Each(s.partitions, LAMBDA p : p.lag))
    /\ \A p \in Range(s.partitions) : p.lag = p.endOffset - p.committedOffset

RetentionAgrees(s) ==
  /\ \A r \in Range(s.records) : r.expired <=> r.offset < s.logStartOffset
  /\ s.logStartOffset >= previous.logStartOffset

\* Where a transaction of s accepts a producer sequence.
Acceptances(s) ==
  {a \in UNION {{i} \X DOMAIN s.transactions[i].dedupe : i \in DOMAIN s.transactions} :
     s.transactions[a[1]].dedupe[a[2]].accepted}
SequenceAt(s, a) == s.transactions[a[1]].dedupe[a[2]].producerSequence

ExactlyOnce(s) ==
  /\ \A a, b \in Acceptances(s) : SequenceAt(s, a) = SequenceAt(s, b) => a = b
  /\ \A t \in Range(s.transactions) :
       /\ \A r \in Range(t.records) :
            r.visible => \E a \in Acceptances(s) : SequenceAt(s, a) = r.producerSequence
       /\ t.status = "aborted" => ~t.offsetsCommitted

\* What a scenario derives from its log agrees with the log, after experiments
\* that are repeated and started in any order: one key stays in one partition
\* in order, the projection and the cursor are those of the events, the last
\* sample of the lag is the lag of the partitions, exactly the records below
\* the log start have expired and it never moves back, and no producer
\* sequence is accepted twice.
LogsAgree ==
  CASE scenarioId = "partitioning" -> SameKeySamePartition(state.routingTraces)
    [] scenarioId = "event-replay-sourcing" -> ReplayAgrees(state)
    [] scenarioId = "consumer-lag-backpressure" -> LagAgrees(state)
    [] scenarioId = "retention-data-loss" -> RetentionAgrees(state)
    [] scenarioId = "transactional-producers" -> ExactlyOnce(state)
    [] OTHER -> TRUE
=============================================================================
