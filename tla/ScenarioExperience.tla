--------------------------- MODULE ScenarioExperience ---------------------------
(***************************************************************************)
(* The experiments of the server and what the client makes of their        *)
(* results: the frame of every state that ScenarioExperiments reaches      *)
(* (scenario-experience/registry.ts), with the event of any transition     *)
(* selected in the timeline.                                               *)
(***************************************************************************)
EXTENDS ScenarioExperiments, ExperienceFundamentals, ExperienceDelivery, ExperienceGates, ExperienceHistory,
        ExperiencePipelines

\* projectScenarioExperience() of a snapshot with the state s, n partitions
\* and some recent messages.
projectScenarioExperience(s, n, messageIds) ==
  CASE s.scenarioId = "partitioning" -> projectPartitioning(s, n, messageIds)
    [] s.scenarioId = "fan-out-load-balancing" -> projectLoadBalancing(s, n)
    [] s.scenarioId = "at-least-once-duplicates" -> projectDuplicates(s, n, messageIds)
    [] s.scenarioId = "retry-dead-letter-queues" -> projectRetry(s, n)
    [] s.scenarioId = "schema-evolution-karapace" -> projectSchema(s, n)
    [] s.scenarioId = "transactional-producers" -> projectTransactions(s, n, messageIds)
    [] s.scenarioId = "event-replay-sourcing" -> projectReplay(s, n, messageIds)
    [] s.scenarioId = "consumer-lag-backpressure" -> projectConsumerLag(s, n)
    [] s.scenarioId = "hot-partitions-key-skew" -> projectHotPartitions(s, n)
    [] s.scenarioId = "log-compaction-tombstones" -> projectCompaction(s, n, messageIds)
    [] s.scenarioId = "retention-data-loss" -> projectRetention(s, n, messageIds)
    [] s.scenarioId = "cooperative-rebalancing" -> projectCooperativeRebalancing(s, n)
    [] s.scenarioId = "streams-joins-windows" -> projectStreams(s, n, messageIds)
    [] s.scenarioId = "outbox-cdc" -> projectOutbox(s, n)
    [] OTHER -> projectAcl(s, n)

Frame == projectScenarioExperience(state, run.partitionCount, {m.messageId : m \in Range(run.messages)})

-----------------------------------------------------------------------------

Distinct(rows) == \A i, j \in DOMAIN rows : rows[i].id = rows[j].id => i = j

NamesItsGraph(frame) ==
  LET graph == frame.graph
      rows == UNION {Range(frame.tables[t]) : t \in DOMAIN frame.tables}
  IN  /\ DOMAIN graph.options.metrics \union DOMAIN graph.options.states \subseteq graph.nodeIds
      /\ graph.options.inactiveEdgeIds \subseteq graph.edgeIds
      /\ \A r \in rows : r.focus.graphEntityId \in graph.nodeIds \union {Null}
      /\ \A t \in DOMAIN frame.tables : Distinct(frame.tables[t])
      /\ graph.options.active <=> frame.told # {}

\* A frame names nothing that its graph lacks, where the client would ignore
\* it silently: the nodes its metrics, states and rows belong to, and the edges
\* it darkens. The rows of a table have ids of their own, which React keys them by.
FrameNamesItsGraph == NamesItsGraph(Frame)
================================================================================
