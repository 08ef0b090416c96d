------------------------- MODULE ExperienceFundamentals -------------------------
(***************************************************************************)
(* The frames of the scenarios about partitions, groups and capacity       *)
(* (scenario-experience/scenarios/fundamentals). s is the state of the     *)
(* scenario, n the number of partitions and messageIds the run's recent    *)
(* messages.                                                               *)
(***************************************************************************)
EXTENDS ExperienceFrame

(* partitioning *)

hasCommitGap(position) ==
  /\ position.processedOffset # Null
  /\ \/ position.committedOffset = Null
     \/ position.committedOffset # position.processedOffset + 1

PartitioningFacts(s) ==
  "routing-trace-count" :> Len(s.routingTraces) @@ "assignment-epoch" :> s.assignmentEpoch
  @@ "commit-gaps" :> count(s.partitionPositions, hasCommitGap)
  @@ "idle-consumers" :> count(s.consumers, LAMBDA c : c.status = "idle")

RoutingTable(s, messageIds) ==
  tableOf(latestWindow(s.routingTraces),
          LAMBDA t : row(t.id, recordFocus(messageIds, t.messageId, t.partition, "key-router")))

PositionTable(s) ==
  tableOf(s.partitionPositions,
          LAMBDA p : row("watermark-" \o ToString(p.partition), entityFocus(p.id, "commit-progress")))

\* partitionMetrics(): a count for each partition.
PerPartitionMetrics(n, Count(_)) ==
  [node \in {PartitionNode(p) : p \in 0..(n - 1)} |->
     Count(CHOOSE p \in 0..(n - 1) : PartitionNode(p) = node)]

PartitioningGraph(s, n) ==
  buildScenarioGraph(s.scenarioId, n, GraphOptions(s.revision > 0,
    "key-router" :> Len(s.routingTraces)
    @@ "commit-progress" :> count(s.partitionPositions, LAMBDA p : p.committedOffset # Null)
    @@ PerPartitionMetrics(n, LAMBDA p : count(s.routingTraces, LAMBDA t : t.partition = p))))

partitionRoutesBefore(s) ==
  IF isExperiment(s, "produce-keyed-record") /\ Len(s.routingTraces) > 3 THEN Len(s.routingTraces) - 3
  ELSE IF isExperiment(s, "produce-keyed-record") THEN 0 ELSE Len(s.routingTraces)

projectPartitioning(s, n, messageIds) ==
  createFrame(PartitioningGraph(s, n),
    "partition-routing-evidence" :> RoutingTable(s, messageIds) @@ "partition-watermarks" :> PositionTable(s),
    PartitioningFacts(s), idsOf({latestOf(s.routingTraces)}),
    "before-routes" :> partitionRoutesBefore(s), whenCompleted(s, PartitioningFacts(s)))

-----------------------------------------------------------------------------
(* fan-out-load-balancing: the last assignment and the one it is compared with *)

unkeyedContrast(s) == isExperiment(s, "produce-unkeyed-burst")
epochBefore(s) == fromLast(s.epochs, IF unkeyedContrast(s) THEN 1 ELSE 2)
epochAfter(s) == latestOf(s.epochs)
assignmentsOf(epoch) == IF epoch = Null THEN <<>> ELSE epoch.assignments

assignmentDelta(beforeOwner, afterOwner) ==
  CASE beforeOwner = afterOwner /\ afterOwner # Null -> "kept"
    [] beforeOwner # Null /\ afterOwner = Null -> "revoked"
    [] beforeOwner = Null /\ afterOwner # Null -> "assigned"
    [] beforeOwner # afterOwner /\ beforeOwner # Null /\ afterOwner # Null -> "moved"
    [] OTHER -> "idle"

assignmentDeltas(before, after, n) ==
  [p \in 0..(n - 1) |-> assignmentDelta(ownerOf(assignmentsOf(before), p), ownerOf(assignmentsOf(after), p))]

assignmentOwnershipChanged(before, after) ==
  LET deltas == assignmentDeltas(before, after, 3)
  IN  before # Null /\ after # Null /\ \E p \in DOMAIN deltas : deltas[p] \in {"moved", "revoked", "assigned"}

assignmentFacts(epoch) ==
  IF epoch = Null
  THEN "assignment-members" :> 0 @@ "assignment-owned" :> 0 @@ "assignment-idle" :> 0
  ELSE "assignment-members" :> Len(epoch.memberIds)
       @@ "assignment-owned" :> sum(epoch.assignments, LAMBDA a : Cardinality(a.partitions))
       @@ "assignment-idle" :> Cardinality(epoch.idleConsumerIds)

LoadBalancingFacts(s) ==
  assignmentFacts(epochAfter(s))
  @@ "assignment-ownership-changed" :> assignmentOwnershipChanged(epochBefore(s), epochAfter(s))
  @@ "assignment-unkeyed-routes" :> (IF unkeyedContrast(s) THEN s.experiment.totalSteps ELSE 0)

AssignmentTable(s, n) ==
  LET epoch == orElse(epochAfter(s), epochBefore(s))
      focus(p) == IF epoch = Null THEN "assignment-partition-" \o ToString(p) ELSE epoch.id
  IN  [i \in 1..n |-> row("assignment-" \o ToString(i - 1), entityFocus(focus(i - 1), "group-balancer"))]

AssignmentGraph(s, n) ==
  LET after == epochAfter(s)
  IN  buildScenarioGraph(s.scenarioId, n, GraphOptions(after # Null,
        "group-balancer" :> (IF after = Null THEN 0 ELSE after.epoch)
        @@ "idle-members" :> (IF after = Null THEN 0 ELSE Cardinality(after.idleConsumerIds))))

projectLoadBalancing(s, n) ==
  createFrame(AssignmentGraph(s, n), "assignment-before-after" :> AssignmentTable(s, n),
    LoadBalancingFacts(s), idsOf({epochAfter(s)}),
    assignmentFacts(epochBefore(s))
    @@ (IF unkeyedContrast(s) THEN "assignment-before-unkeyed-routes" :> 0 ELSE <<>>),
    IF epochAfter(s) = Null THEN <<>> ELSE whenCompleted(s, LoadBalancingFacts(s)))
  @@ [deltas |-> assignmentDeltas(epochBefore(s), epochAfter(s), n)]

-----------------------------------------------------------------------------
(* consumer-lag-backpressure *)

LagFacts(s) ==
  LET current == latestOf(s.samples)
  IN  "lag-total" :> sum(s.partitions, LAMBDA p : p.lag)
      @@ "production-rate" :> (IF current = Null THEN 0 ELSE current.productionRate)
      @@ "processing-rate" :> (IF current = Null THEN 0 ELSE current.processingRate)
      @@ "consumer-count" :> s.consumerCount @@ "drain-estimate" :> s.drainEstimateMs

LagTables(s) ==
  "lag-by-partition" :> tableOf(s.partitions, LAMBDA p : row(p.id, entityFocus(p.id, PartitionNode(p.partition))))
  @@ "lag-rate-samples" :> entityTable(latestWindow(s.samples), "pressure-meter")

LagGraph(s, n) ==
  LET current == latestOf(s.samples)
  IN  buildScenarioGraph(s.scenarioId, n, GraphOptions(current # Null,
        "backlog-buffer" :> sum(s.partitions, LAMBDA p : p.lag)
        @@ "pressure-meter" :> (IF current = Null THEN "empty" ELSE current.trend)
        @@ [node \in {PartitionNode(p.partition) : p \in Range(s.partitions)} |->
              find(s.partitions, LAMBDA p : PartitionNode(p.partition) = node).lag]))

projectConsumerLag(s, n) ==
  createFrame(LagGraph(s, n), LagTables(s), LagFacts(s), idsOf({latestOf(s.samples)}), <<>>,
    IF s.samples = <<>> THEN <<>> ELSE LagFacts(s))

-----------------------------------------------------------------------------
(* hot-partitions-key-skew *)

phaseOf(s, kind) == find(s.phases, LAMBDA p : p.kind = kind)

HotPartitionFacts(s) ==
  LET hot == phaseOf(s, "hot")
      balanced == phaseOf(s, "balanced")
      total(phase) == IF phase = Null THEN 0 ELSE phase.total
      skew(phase) == IF phase = Null THEN 0 ELSE phase.skewRatio
  IN  "hot-phase-size" :> total(hot) @@ "balanced-phase-size" :> total(balanced)
      @@ "equal-phase-size" :> (hot # Null /\ balanced # Null /\ total(hot) = total(balanced))
      @@ "hot-skew-ratio" :> skew(hot) @@ "balanced-skew-ratio" :> skew(balanced)

\* The partition with the most records, the first of those that tie.
hottestPartition(partitionCounts) ==
  (CHOOSE p \in DOMAIN partitionCounts :
     \A q \in DOMAIN partitionCounts :
       partitionCounts[q] < partitionCounts[p] \/ (partitionCounts[q] = partitionCounts[p] /\ p <= q)) - 1

HotPartitionGraph(s, n) ==
  LET current == latestOf(s.phases)
      counted(p) == IF current = Null \/ p + 1 \notin DOMAIN current.partitionCounts THEN 0
                    ELSE current.partitionCounts[p + 1]
  IN  buildScenarioGraph(s.scenarioId, n, GraphOptions(current # Null,
        "hot-key-router" :> (IF current = Null THEN 0 ELSE current.total)
        @@ "hottest-partition" :> (IF current = Null THEN Null ELSE hottestPartition(current.partitionCounts))
        @@ PerPartitionMetrics(n, counted)))

phaseFacts(phase) ==
  IF phase = Null THEN <<>>
  ELSE (phase.id \o "-sample") :> phase.total @@ (phase.id \o "-skew") :> phase.skewRatio

projectHotPartitions(s, n) ==
  LET both == {phaseOf(s, "hot"), phaseOf(s, "balanced")}
  IN  createFrame(HotPartitionGraph(s, n),
        "hot-phase-comparison" :> entityTable(s.phases, "hottest-partition"), HotPartitionFacts(s),
        IF Null \notin both THEN idsOf(both) ELSE idsOf({latestOf(s.phases)}),
        phaseFacts(phaseOf(s, "hot")), phaseFacts(phaseOf(s, "balanced")))

-----------------------------------------------------------------------------
(* cooperative-rebalancing *)

comparisonOf(s, strategy) == find(s.comparisons, LAMBDA c : c.strategy = strategy)
selectedComparison(s) == orElse(comparisonOf(s, "cooperative_sticky"), comparisonOf(s, "eager"))

CooperativeFacts(s) ==
  LET number(comparison, field) == IF comparison = Null THEN 0 ELSE Cardinality(comparison[field])
      eager == comparisonOf(s, "eager")
      cooperative == comparisonOf(s, "cooperative_sticky")
  IN  "eager-kept" :> number(eager, "keptPartitions") @@ "eager-revoked" :> number(eager, "revokedPartitions")
      @@ "cooperative-kept" :> number(cooperative, "keptPartitions")
      @@ "cooperative-paused" :> number(cooperative, "pausedPartitions")

\* comparisonDeltas(): the partitions owned before or after, and what became of each.
comparisonDeltas(comparison) ==
  LET owned(assignments) == UNION {a.partitions : a \in Range(assignments)}
  IN  [p \in owned(comparison.before) \union owned(comparison.after) |->
         CASE p \in comparison.keptPartitions -> "kept"
           [] p \notin comparison.keptPartitions /\ ownerOf(comparison.after, p) = Null -> "revoked"
           [] p \notin comparison.keptPartitions /\ ownerOf(comparison.after, p) # Null
              /\ ownerOf(comparison.before, p) = Null -> "assigned"
           [] OTHER -> "moved"]

CooperativeGraph(s, n) ==
  LET selected == selectedComparison(s)
  IN  buildScenarioGraph(s.scenarioId, n, GraphOptions(s.comparisons # <<>>,
        "rebalance-coordinator" :> Len(s.comparisons)
        @@ "incremental-movement" :> (IF selected = Null THEN 0 ELSE Len(selected.movedPartitions))))

comparisonFacts(comparison) ==
  IF comparison = Null THEN <<>>
  ELSE (comparison.id \o "-kept") :> Cardinality(comparison.keptPartitions)
       @@ (comparison.id \o "-revoked") :> Cardinality(comparison.revokedPartitions)

projectCooperativeRebalancing(s, n) ==
  createFrame(CooperativeGraph(s, n),
    "rebalance-strategy-comparison" :> entityTable(s.comparisons, "rebalance-coordinator"), CooperativeFacts(s),
    idsOf({comparisonOf(s, "eager"), comparisonOf(s, "cooperative_sticky")}),
    comparisonFacts(comparisonOf(s, "eager")), comparisonFacts(comparisonOf(s, "cooperative_sticky")))
  @@ [deltas |-> IF selectedComparison(s) = Null THEN <<>> ELSE comparisonDeltas(selectedComparison(s))]
=============================================================================
