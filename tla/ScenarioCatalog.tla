--------------------------- MODULE ScenarioCatalog ---------------------------
(***************************************************************************)
(* What the two catalogs say of the fifteen scenarios: their experiments   *)
(* (packages/contracts/src/scenario-experiments.ts) and their topic,       *)
(* limits and defaults (packages/scenario-engine/src/index.ts).            *)
(***************************************************************************)
EXTENDS Integers, Sequences, SequencesExt, FiniteSets, TLC

CONSTANT Null     \* null and undefined

Experiment(id, role, prerequisite) == [id |-> id, role |-> role, prerequisite |-> prerequisite]
Primary(id) == Experiment(id, "primary", Null)
Contrast(id, prerequisite) == Experiment(id, "contrast", prerequisite)
Auxiliary(id) == Experiment(id, "auxiliary", Null)

scenarioStateIds ==
  {"partitioning", "fan-out-load-balancing", "at-least-once-duplicates",
   "retry-dead-letter-queues", "schema-evolution-karapace", "transactional-producers",
   "event-replay-sourcing", "consumer-lag-backpressure", "hot-partitions-key-skew",
   "log-compaction-tombstones", "retention-data-loss", "cooperative-rebalancing",
   "streams-joins-windows", "outbox-cdc", "acl-least-privilege"}

scenarioExperimentCatalog ==
  [scenarioId \in scenarioStateIds |->
     CASE scenarioId = "partitioning" ->
            {Primary("produce-keyed-record"), Contrast("grow-consumer-group", "produce-keyed-record")}
       [] scenarioId = "fan-out-load-balancing" ->
            {Contrast("produce-unkeyed-burst", "grow-consumer-group"), Auxiliary("balance-settings"),
             Primary("grow-consumer-group")}
       [] scenarioId = "at-least-once-duplicates" ->
            {Contrast("duplicate-risk-records", "crash-and-redeliver"), Auxiliary("slow-commit-window"),
             Primary("crash-and-redeliver")}
       [] scenarioId = "retry-dead-letter-queues" ->
            {Auxiliary("trigger-retry-failure"), Primary("transient-recovery"),
             Contrast("poison-to-dlq", "transient-recovery")}
       [] scenarioId = "schema-evolution-karapace" ->
            {Contrast("trigger-schema-rejection", "compatible-schema"), Primary("compatible-schema")}
       [] scenarioId = "transactional-producers" ->
            {Primary("transaction-pair"), Contrast("abort-and-dedupe", "transaction-pair")}
       [] scenarioId = "event-replay-sourcing" ->
            {Primary("aggregate-events"), Contrast("rebuild-projection", "aggregate-events")}
       [] scenarioId = "consumer-lag-backpressure" ->
            {Primary("build-lag"), Contrast("recover-lag", "build-lag")}
       [] scenarioId = "hot-partitions-key-skew" ->
            {Primary("hot-key-burst"), Contrast("balanced-comparison", "hot-key-burst")}
       [] scenarioId = "log-compaction-tombstones" ->
            {Auxiliary("compacted-key-series"), Primary("run-compaction"),
             Contrast("expire-tombstone", "run-compaction")}
       [] scenarioId = "retention-data-loss" ->
            {Auxiliary("retention-window"), Primary("advance-retention"),
             Contrast("recover-retention", "advance-retention")}
       [] scenarioId = "cooperative-rebalancing" ->
            {Contrast("cooperative-pressure", "compare-rebalance"), Primary("compare-rebalance")}
       [] scenarioId = "streams-joins-windows" ->
            {Primary("window-pair"), Contrast("late-arrival", "window-pair")}
       [] scenarioId = "outbox-cdc" -> {Primary("cdc-batch"), Contrast("retry-cdc", "cdc-batch")}
       [] scenarioId = "acl-least-privilege" ->
            {Primary("trigger-acl-denial"), Contrast("grant-required-permission", "trigger-acl-denial")}]

scenarioExperimentIds(scenarioId) == {e.id : e \in scenarioExperimentCatalog[scenarioId]}

\* isScenarioExperimentIdFor() and supportsScenarioExperiment()
supportsScenarioExperiment(scenarioId, experimentId) == experimentId \in scenarioExperimentIds(scenarioId)

scenarioExperimentDescriptorFor(scenarioId, experimentId) ==
  CHOOSE e \in scenarioExperimentCatalog[scenarioId] : e.id = experimentId

scenarioExperimentPrerequisite(scenarioId, experimentId) ==
  scenarioExperimentDescriptorFor(scenarioId, experimentId).prerequisite

\* What defineScenarioExperimentCatalog() throws for.
ASSUME CatalogIsWellFormed ==
  \A scenarioId \in scenarioStateIds :
    LET descriptors == scenarioExperimentCatalog[scenarioId]
        ids == scenarioExperimentIds(scenarioId)
    IN  /\ Cardinality(ids) = Cardinality(descriptors)
        /\ \A role \in {"primary", "contrast"} : Cardinality({e \in descriptors : e.role = role}) = 1
        /\ \A e \in descriptors : e.prerequisite = Null \/ e.prerequisite \in ids

-----------------------------------------------------------------------------

Scenario(partitions, maxConsumers) == [partitions |-> partitions, maxConsumers |-> maxConsumers]

SCENARIOS ==
  [scenarioId \in scenarioStateIds |->
     CASE scenarioId = "fan-out-load-balancing" -> Scenario(3, 4)
       [] scenarioId = "hot-partitions-key-skew" -> Scenario(4, 3)
       [] scenarioId \in {"consumer-lag-backpressure", "cooperative-rebalancing", "streams-joins-windows"} ->
            Scenario(3, 3)
       [] OTHER -> Scenario(2, 3)]

defaultKeyStrategyForScenario(scenarioId) ==
  CASE scenarioId = "hot-partitions-key-skew" -> "fixed"
    [] scenarioId \in {"fan-out-load-balancing", "consumer-lag-backpressure"} -> "no_key"
    [] scenarioId \in {"schema-evolution-karapace", "acl-least-privilege"} -> "random_user"
    [] OTHER -> "round_robin_users"

defaultProcessingLatencyForScenario(scenarioId) ==
  CASE scenarioId = "consumer-lag-backpressure" -> 1200
    [] scenarioId = "retry-dead-letter-queues" -> 800
    [] scenarioId = "streams-joins-windows" -> 900
    [] OTHER -> 3000

\* The error a scenario gives the processing of its sequence-th message, or Null.
evaluateScenarioProcessing(scenarioId, sequence) ==
  CASE scenarioId = "retry-dead-letter-queues" /\ sequence % 3 = 0 -> "ROUTE_TO_RETRY"
    [] scenarioId = "schema-evolution-karapace" /\ sequence % 4 = 0 -> "SCHEMA_INCOMPATIBLE"
    [] scenarioId = "acl-least-privilege" /\ sequence % 3 = 0 -> "AUTHORIZATION_FAILED"
    [] OTHER -> Null
=============================================================================
