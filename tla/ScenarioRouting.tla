---------------------------- MODULE ScenarioRouting ----------------------------
(***************************************************************************)
(* The experiments about partitions and their owners                       *)
(* (scenario-experiments/routing.ts). Lists of partitions are sets.        *)
(***************************************************************************)
EXTENDS ScenarioShared

route(id, messageId, key, partition, offset, sequence) ==
  [id |-> id, messageId |-> messageId, key |-> key, partition |-> partition, offset |-> offset,
   sequence |-> sequence]

consumer(consumerId, partitions, assignmentEpoch) ==
  [id |-> "assignment-" \o consumerId \o "-" \o ToString(assignmentEpoch), consumerId |-> consumerId,
   partitions |-> partitions, status |-> IF partitions = {} THEN "idle" ELSE "running",
   epoch |-> assignmentEpoch]

\* Partitions dealt out to members consumers in turn.
Dealt(partitions, members, index) == {p \in partitions : p % members = index - 1}

\* What was observed, where something was: observations are a set of at most one.
The(observations) == CHOOSE observed \in observations : TRUE

-----------------------------------------------------------------------------
(* partitioning *)

PartitioningSteps(growGroup) ==
  IF growGroup
  THEN <<step("assign-consumers", "group.assignment_changed", <<>>, 100)>>
  ELSE <<step("route-key-a", "key.hashed", <<"key-A">>, 100),
         step("route-key-b", "key.hashed", <<"key-B">>, 100),
         step("route-key-a-again", "partition.order.extended", <<"key-A">>, 100),
         step("assign-primary-consumer", "group.assignment_changed", <<>>, 100)>>

\* What the experiment shows when nothing was observed: the preview.
FallbackPartitioning(state, growGroup) ==
  LET partitions == {position.partition : position \in Range(state.partitionPositions)}
      epoch == IF growGroup THEN state.assignmentEpoch + 1 ELSE 1
  IN  [routingTraces |->
         IF growGroup THEN state.routingTraces
         ELSE <<route("routing-a-1", "partitioning-message-a-1", "A", 0, 0, 1),
                route("routing-b-1", "partitioning-message-b-1", "B", 1, 0, 2),
                route("routing-a-2", "partitioning-message-a-2", "A", 0, 1, 3)>>,
       partitionPositions |->
         IF growGroup THEN state.partitionPositions
         ELSE upsertAll(state.partitionPositions, <<Position(0, 1, 1), Position(1, 0, 1)>>),
       consumers |->
         IF growGroup
         THEN [i \in 1..3 |-> consumer(Numbered("consumer", i), Dealt(partitions, 3, i), epoch)]
         ELSE <<consumer("consumer-1", partitions, epoch)>>,
       assignmentEpoch |-> epoch]

\* The entities of a step, once it is known where the records went.
RoutedStep(transition, trace) ==
  About([transition EXCEPT
           !.entityIds = <<trace.id, trace.messageId, Position(trace.partition, Null, Null).id>> \o @],
        trace.messageId, trace.partition, trace.offset)

AssignedStep(transition, consumers) ==
  [transition EXCEPT !.entityIds = FlattenSeq(Each(consumers, LAMBDA c : <<c.id, c.consumerId>>))]

PartitioningTransitions(growGroup, partitioning) ==
  LET steps == PartitioningSteps(growGroup)
      assigns(i) == steps[i].transition = "group.assignment_changed"
  IN  [i \in DOMAIN steps |->
         IF ~assigns(i) /\ i \in DOMAIN partitioning.routingTraces
         THEN RoutedStep(steps[i], partitioning.routingTraces[i])
         ELSE IF assigns(i) THEN AssignedStep(steps[i], partitioning.consumers)
         ELSE steps[i]]

buildPartitioningExperiment(state, experimentId, startedAt, observations) ==
  LET growGroup == experimentId = "grow-consumer-group"
      partitioning == IF observations = {} THEN FallbackPartitioning(state, growGroup) ELSE The(observations)
  IN  Result([state EXCEPT !.routingTraces = partitioning.routingTraces,
                           !.partitionPositions = partitioning.partitionPositions,
                           !.consumers = partitioning.consumers,
                           !.assignmentEpoch = partitioning.assignmentEpoch],
             experimentId, startedAt, PartitioningTransitions(growGroup, partitioning))

-----------------------------------------------------------------------------
(* fan-out-load-balancing *)

\* One group of members, over partitions.
Epoch(members, partitions) ==
  LET memberIds == [i \in 1..members |-> Numbered("consumer", i)]
      assigned(i) == Dealt(partitions, members, i)
  IN  [id |-> Numbered("assignment-epoch", members), epoch |-> members, memberIds |-> memberIds,
       assignments |-> [i \in 1..members |-> [consumerId |-> memberIds[i], partitions |-> assigned(i)]],
       idleConsumerIds |-> {memberIds[i] : i \in {j \in 1..members : assigned(j) = {}}}]

FallbackEpochs == [members \in 1..4 |-> Epoch(members, 0..2)]

FallbackRoutes ==
  [i \in 1..3 |-> [messageId |-> Numbered("load-message", i), partition |-> i - 1, offset |-> 0]]

UnkeyedBurst(routes) ==
  [i \in DOMAIN routes |->
     About(step(Numbered("route-unkeyed", i), "record.partitioned",
                <<routes[i].messageId, Numbered("partition", routes[i].partition)>>, 100),
           routes[i].messageId, routes[i].partition, routes[i].offset)]

GrowingGroup ==
  [members \in 1..4 |->
     step(Numbered("members", members), "group.assignment_changed",
          <<Numbered("assignment-epoch", members)>> \o [i \in 1..members |-> Numbered("consumer", i)], 100)]

\* Without observations, as in the preview, it builds what the code falls back on.
buildLoadBalancingExperiment(state, experimentId, startedAt, observations) ==
  LET seen(field) == IF observations = {} THEN <<>> ELSE The(observations)[field]
      routes == IF seen("routes") = <<>> THEN FallbackRoutes ELSE seen("routes")
      epochs == IF seen("epochs") # <<>> THEN seen("epochs")
                ELSE IF state.epochs # <<>> THEN state.epochs ELSE FallbackEpochs
  IN  CASE experimentId = "produce-unkeyed-burst" ->
             Result(state, experimentId, startedAt, UnkeyedBurst(routes))
        [] experimentId = "balance-settings" ->
             Result(state, experimentId, startedAt,
                    <<step("balance-settings", "producer.settings_changed", <<"producer">>, 100)>>)
        [] OTHER -> Result([state EXCEPT !.epochs = epochs], experimentId, startedAt, GrowingGroup)

-----------------------------------------------------------------------------
(* hot-partitions-key-skew *)

phase(kind, partitionCounts, percentages, skewRatio, key) ==
  LET id == "phase-" \o kind
  IN  [id |-> id, kind |-> kind, total |-> Total(partitionCounts),
       partitionCounts |-> partitionCounts, percentages |-> percentages, skewRatio |-> skewRatio,
       routes |-> UNION {{[messageId |-> Numbered(Numbered(id \o "-message", p - 1), n), key |-> key,
                           partition |-> p - 1] : n \in 0..(partitionCounts[p] - 1)} : p \in DOMAIN partitionCounts}]

HotPhase == phase("hot", <<0, 8, 0, 0>>, <<0, 100, 0, 0>>, 8, "celebrity-user")
BalancedPhase == phase("balanced", <<2, 2, 2, 2>>, <<25, 25, 25, 25>>, 1, Null)

buildHotPartitionExperiment(state, experimentId, startedAt) ==
  IF experimentId = "balanced-comparison"
  THEN Result([state EXCEPT !.phases = upsertById(@, BalancedPhase)], experimentId, startedAt,
              <<step("balanced", "phase.completed", <<"phase-balanced">>, 100),
                step("compare", "skew.compared", <<"phase-hot", "phase-balanced">>, 100)>>)
  ELSE Result([state EXCEPT !.phases = upsertById(@, HotPhase)], experimentId, startedAt,
              <<step("hot", "phase.completed", <<"phase-hot">>, 100)>>)

-----------------------------------------------------------------------------
(* cooperative-rebalancing *)

Owned(consumerId, partitions) == [consumerId |-> consumerId, partitions |-> partitions]
Moved(partition, to) == [partition |-> partition, fromConsumerId |-> "consumer-1", toConsumerId |-> to]

OwnershipBefore == <<Owned("consumer-1", {0, 1, 2})>>
OwnershipAfter(pressure) ==
  IF pressure
  THEN <<Owned("consumer-1", {0}), Owned("consumer-2", {1}), Owned("consumer-3", {2})>>
  ELSE <<Owned("consumer-1", {0, 2}), Owned("consumer-2", {1})>>
MovedPartitions(pressure) ==
  <<Moved(1, "consumer-2")>> \o IF pressure THEN <<Moved(2, "consumer-3")>> ELSE <<>>

Comparison(id, strategy, pressure, kept, stopped) ==
  [id |-> id, strategy |-> strategy, before |-> OwnershipBefore, after |-> OwnershipAfter(pressure),
   keptPartitions |-> kept, movedPartitions |-> MovedPartitions(pressure),
   revokedPartitions |-> stopped, pausedPartitions |-> stopped]

EagerComparison(pressure) == Comparison("eager-comparison", "eager", pressure, {}, {0, 1, 2})
StickyComparison(pressure) ==
  Comparison("sticky-comparison", "cooperative_sticky", pressure,
             IF pressure THEN {0} ELSE {0, 2}, IF pressure THEN {1, 2} ELSE {1})

buildCooperativeRebalancingExperiment(state, experimentId, startedAt) ==
  LET pressure == experimentId = "cooperative-pressure"
      name(id) == IF pressure THEN id \o "-pressure" ELSE id
  IN  Result([state EXCEPT !.comparisons = upsertAll(@, <<EagerComparison(pressure), StickyComparison(pressure)>>)],
             experimentId, startedAt,
             <<step(name("eager"), "rebalance.eager", <<"eager-comparison">>, 100),
               step(name("sticky"), "rebalance.cooperative", <<"sticky-comparison">>, 100),
               step(name("compare"), "rebalance.compared", <<"eager-comparison", "sticky-comparison">>, 100)>>)
=============================================================================
