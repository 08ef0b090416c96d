----------------------------- MODULE ScenarioGraphs -----------------------------
(***************************************************************************)
(* The graph each scenario draws and its layout on the explore canvas      *)
(* (scenario-experience/scenario-graph-descriptors and                     *)
(* explore-topology.ts). A node has a rank and a lane; an edge has its     *)
(* ends and says whether it is feedback.                                   *)
(***************************************************************************)
EXTENDS ScenarioCatalog

At(id, rank, lane) == id :> [rank |-> rank, lane |-> lane]

\* The core nodes by their ranks, in lane 0.
Core(producer, topic, consumerGroup) ==
  At("producer", producer, 0) @@ At("topic", topic, 0) @@ At("consumerGroup", consumerGroup, 0)

\* scenarioEdge(): the kinds of the others all flow forward.
Edge(id, source, target) == id :> [source |-> source, target |-> target, feedback |-> FALSE]
Feedback(id, source, target) == id :> [source |-> source, target |-> target, feedback |-> TRUE]

Append2Topic == Edge("producer-topic", "producer", "topic")
Topic2Group == Edge("topic-group", "topic", "consumerGroup")

Descriptor(partitions, replacesCoreProducerTopicEdge, nodes, edges) ==
  [partitions |-> partitions, replacesCoreProducerTopicEdge |-> replacesCoreProducerTopicEdge,
   nodes |-> nodes, edges |-> edges]

partitioningGraph ==
  Descriptor(TRUE, TRUE, Core(0, 2, 3) @@ At("key-router", 1, 0) @@ At("commit-progress", 4, 0),
    Edge("producer-router", "producer", "key-router") @@ Edge("router-topic", "key-router", "topic")
    @@ Edge("group-commit", "consumerGroup", "commit-progress"))

loadBalancingGraph ==
  Descriptor(TRUE, FALSE,
    At("consumerGroup", 3, -1) @@ Core(0, 1, 3) @@ At("group-balancer", 2, 0) @@ At("idle-members", 3, 1),
    Append2Topic @@ Edge("topic-balancer", "topic", "group-balancer")
    @@ Edge("balancer-group", "group-balancer", "consumerGroup")
    @@ Edge("balancer-idle", "group-balancer", "idle-members"))

lagGraph ==
  Descriptor(TRUE, FALSE, Core(0, 1, 3) @@ At("backlog-buffer", 2, 0) @@ At("pressure-meter", 4, 0),
    Append2Topic @@ Edge("topic-backlog", "topic", "backlog-buffer")
    @@ Edge("backlog-group", "backlog-buffer", "consumerGroup")
    @@ Edge("group-pressure", "consumerGroup", "pressure-meter"))

hotPartitionGraph ==
  Descriptor(TRUE, TRUE, Core(0, 2, 4) @@ At("hot-key-router", 1, 0) @@ At("hottest-partition", 3, 0),
    Edge("producer-router", "producer", "hot-key-router") @@ Edge("router-topic", "hot-key-router", "topic")
    @@ Edge("topic-hotspot", "topic", "hottest-partition")
    @@ Edge("hotspot-group", "hottest-partition", "consumerGroup"))

cooperativeGraph ==
  Descriptor(TRUE, FALSE,
    At("producer", 0, -1) @@ Core(0, 1, 4) @@ At("rebalance-coordinator", 2, 0) @@ At("incremental-movement", 3, 0),
    Edge("topic-coordinator", "topic", "rebalance-coordinator")
    @@ Edge("coordinator-delta", "rebalance-coordinator", "incremental-movement")
    @@ Edge("delta-group", "incremental-movement", "consumerGroup"))

duplicateGraph ==
  Descriptor(FALSE, FALSE,
    Core(0, 1, 2) @@ At("idempotent-handler", 3, 0) @@ At("commit-gate", 4, 0) @@ At("replay-loop", 5, 0),
    Append2Topic @@ Topic2Group @@ Edge("group-handler", "consumerGroup", "idempotent-handler")
    @@ Edge("handler-commit", "idempotent-handler", "commit-gate")
    @@ Edge("commit-replay", "commit-gate", "replay-loop")
    @@ Feedback("replay-group", "replay-loop", "consumerGroup"))

retryGraph ==
  Descriptor(FALSE, FALSE, Core(0, 1, 2) @@ At("retry-topic", 3, 0) @@ At("dead-letter-topic", 4, 0),
    Append2Topic @@ Topic2Group @@ Edge("group-retry", "consumerGroup", "retry-topic")
    @@ Feedback("retry-group", "retry-topic", "consumerGroup")
    @@ Edge("retry-dlq", "retry-topic", "dead-letter-topic"))

transactionGraph ==
  Descriptor(FALSE, TRUE, Core(0, 3, 4) @@ At("transaction-coordinator", 1, 0) @@ At("commit-boundary", 2, 0),
    Edge("producer-coordinator", "producer", "transaction-coordinator")
    @@ Edge("coordinator-boundary", "transaction-coordinator", "commit-boundary")
    @@ Edge("boundary-topic", "commit-boundary", "topic") @@ Topic2Group)

schemaGraph ==
  Descriptor(FALSE, TRUE, Core(0, 3, 4) @@ At("schema-registry", 1, 0) @@ At("compatibility-gate", 2, 0),
    Edge("producer-registry", "producer", "schema-registry")
    @@ Edge("registry-gate", "schema-registry", "compatibility-gate")
    @@ Edge("gate-topic", "compatibility-gate", "topic") @@ Topic2Group)

aclGraph ==
  Descriptor(FALSE, FALSE, Core(2, 3, 4) @@ At("principal-identity", 0, 0) @@ At("authorization-gate", 1, 0),
    Edge("principal-gate", "principal-identity", "authorization-gate")
    @@ Edge("gate-producer", "authorization-gate", "producer") @@ Append2Topic @@ Topic2Group)

replayGraph ==
  Descriptor(FALSE, FALSE, Core(0, 1, 4) @@ At("projection-store", 3, 0) @@ At("replay-cursor", 2, 0),
    Append2Topic @@ Edge("topic-cursor", "topic", "replay-cursor")
    @@ Edge("cursor-projection", "replay-cursor", "projection-store")
    @@ Edge("projection-group", "projection-store", "consumerGroup"))

compactionGraph ==
  Descriptor(FALSE, FALSE, Core(0, 1, 3) @@ At("compacted-state-store", 2, -1) @@ At("tombstone-marker", 2, 1),
    Append2Topic @@ Edge("topic-state", "topic", "compacted-state-store")
    @@ Edge("topic-tombstone", "topic", "tombstone-marker")
    @@ Edge("tombstone-state", "tombstone-marker", "compacted-state-store")
    @@ Edge("state-group", "compacted-state-store", "consumerGroup"))

retentionGraph ==
  Descriptor(FALSE, FALSE, Core(0, 1, 4) @@ At("retention-window", 2, 0) @@ At("expired-boundary", 3, 0),
    Append2Topic @@ Edge("topic-window", "topic", "retention-window")
    @@ Edge("window-boundary", "retention-window", "expired-boundary")
    @@ Edge("boundary-group", "expired-boundary", "consumerGroup"))

streamsGraph ==
  Descriptor(FALSE, TRUE,
    Core(0, 3, 4) @@ At("orders-stream", 1, -1) @@ At("payments-stream", 1, 1) @@ At("window-state-store", 2, 0),
    Edge("producer-orders", "producer", "orders-stream") @@ Edge("producer-payments", "producer", "payments-stream")
    @@ Edge("orders-window", "orders-stream", "window-state-store")
    @@ Edge("payments-window", "payments-stream", "window-state-store")
    @@ Edge("window-topic", "window-state-store", "topic") @@ Topic2Group)

outboxGraph ==
  Descriptor(FALSE, TRUE,
    At("topic", 3, 0) @@ At("consumerGroup", 4, 0) @@ At("database-outbox", 0, 0) @@ At("transaction-log", 1, 0)
    @@ At("cdc-connector", 2, 0),
    Edge("outbox-wal", "database-outbox", "transaction-log") @@ Edge("wal-cdc", "transaction-log", "cdc-connector")
    @@ Edge("cdc-topic", "cdc-connector", "topic") @@ Topic2Group)

SCENARIO_GRAPH_DESCRIPTORS ==
  "partitioning" :> partitioningGraph @@ "fan-out-load-balancing" :> loadBalancingGraph
  @@ "consumer-lag-backpressure" :> lagGraph @@ "hot-partitions-key-skew" :> hotPartitionGraph
  @@ "cooperative-rebalancing" :> cooperativeGraph @@ "at-least-once-duplicates" :> duplicateGraph
  @@ "retry-dead-letter-queues" :> retryGraph @@ "transactional-producers" :> transactionGraph
  @@ "schema-evolution-karapace" :> schemaGraph @@ "acl-least-privilege" :> aclGraph
  @@ "event-replay-sourcing" :> replayGraph @@ "log-compaction-tombstones" :> compactionGraph
  @@ "retention-data-loss" :> retentionGraph @@ "streams-joins-windows" :> streamsGraph
  @@ "outbox-cdc" :> outboxGraph

-----------------------------------------------------------------------------

PartitionNode(partition) == "partition-" \o ToString(partition)

\* The nodes and edges of a causal graph: the descriptor's, and a node for
\* each partition where the descriptor asks for them.
GraphNodeIds(scenarioId, partitionCount) ==
  LET descriptor == SCENARIO_GRAPH_DESCRIPTORS[scenarioId]
  IN  DOMAIN descriptor.nodes
      \union {PartitionNode(p) : p \in {q \in 0..(partitionCount - 1) : descriptor.partitions}}

GraphEdgeIds(scenarioId, partitionCount) ==
  LET descriptor == SCENARIO_GRAPH_DESCRIPTORS[scenarioId]
  IN  DOMAIN descriptor.edges
      \union {"topic-" \o PartitionNode(p) : p \in {q \in 0..(partitionCount - 1) : descriptor.partitions}}

\* projectScenarioExploreTopology(): every node has its rank in the layout, so
\* calculateRanks() derives none; nodes of a rank are stacked by lane.
PositionInLayout(nodes, id) ==
  [x |-> nodes[id].rank,
   y |-> Cardinality({other \in DOMAIN nodes : nodes[other].rank = nodes[id].rank /\ nodes[other].lane < nodes[id].lane})]

\* deriveCoreProducerTopicRoute()
HasCoreProducerTopicRoute(descriptor) ==
  /\ ~descriptor.replacesCoreProducerTopicEdge
  /\ ~ \E id \in DOMAIN descriptor.edges :
         descriptor.edges[id].source = "producer" /\ descriptor.edges[id].target = "topic"
  /\ {"producer", "topic"} \subseteq DOMAIN descriptor.nodes

\* validateScenarioExploreTopologyGraph() finds no issue: every edge joins two
\* nodes. No two nodes are drawn at one place, what is not feedback never runs
\* backwards, and every scenario shows how records come to the topic: from a
\* producer, through a node that replaces its edge, or over the core route.
ASSUME GraphsAreWellFormed ==
  \A scenarioId \in DOMAIN SCENARIO_GRAPH_DESCRIPTORS :
    LET descriptor == SCENARIO_GRAPH_DESCRIPTORS[scenarioId]
        nodes == descriptor.nodes
        edges == {descriptor.edges[id] : id \in DOMAIN descriptor.edges}
    IN  /\ \A e \in edges : {e.source, e.target} \subseteq DOMAIN nodes
        /\ \A e \in edges : ~e.feedback => nodes[e.source].rank <= nodes[e.target].rank
        /\ \A i, j \in DOMAIN nodes : PositionInLayout(nodes, i) = PositionInLayout(nodes, j) => i = j
        /\ HasCoreProducerTopicRoute(descriptor) \/ \E e \in edges : e.target = "topic"
=============================================================================
