------------------------- MODULE ScenarioObservations -------------------------
(***************************************************************************)
(* What an experiment of the first two scenarios does to its run before    *)
(* its result is built: it produces, adds consumers and processes for real *)
(* (scenario-experiment-observations.ts), in the demo run as               *)
(* playground-runtime-messages and playground-runtime-consumers.ts keep it.*)
(* A run is a record; a command on it is a function from run to run. The   *)
(* commands run one by one in the experiment's turn; DemoMessages has what *)
(* can happen between them.                                                *)
(***************************************************************************)
EXTENDS ScenarioRouting

\* A record without a key has none of the keys of the experiments.
ASSUME NullIsNoKey == Null \notin {"A", "B"}

Partitions(run) == 0..(run.partitionCount - 1)

EmptyRun(partitionCount) ==
  [partitionCount |-> partitionCount, messages |-> <<>>, consumers |-> <<>>, noKeyCursor |-> 0,
   nextOffset |-> [p \in 0..(partitionCount - 1) |-> 0],
   latestCommittedOffsets |-> [p \in 0..(partitionCount - 1) |-> Null]]

ActiveIndexes(run) == {i \in DOMAIN run.consumers : ~run.consumers[i].crashed}
Active(run) == Each(InOrder(ActiveIndexes(run)), LAMBDA i : run.consumers[i])

\* The consumer a partition is assigned to, or Null.
Owner(run, partition) ==
  LET i == SelectInSeq(run.consumers, LAMBDA c : partition \in c.partitions)
  IN  IF i = 0 THEN Null ELSE run.consumers[i].consumerId

\* deliver(): the timer it arms is the processing that follows.
Delivered(run, message) ==
  IF message.state = "produced" /\ Owner(run, message.partition) # Null
  THEN [message EXCEPT !.state = "received", !.assignedConsumerId = Owner(run, message.partition)]
  ELSE message

\* A group in which the active consumers have the partitions in turn.
Regrouped(run, active) ==
  [run EXCEPT !.consumers =
     [i \in DOMAIN run.consumers |->
        IF i \in active
        THEN [run.consumers[i] EXCEPT
               !.partitions = Dealt(Partitions(run), Cardinality(active), Place(i, active))]
        ELSE run.consumers[i]]]

\* Whatever waits is delivered to the group as it is now.
Redelivered(run) == [run EXCEPT !.messages = Each(@, LAMBDA m : Delivered(run, m))]

\* Mutant: partitions are dealt to crashed consumers too.
RebalancedWithCrashed(run) == Redelivered(Regrouped(run, DOMAIN run.consumers))

\* rebalanceAndDeliver()
Rebalanced(run) == Redelivered(Regrouped(run, ActiveIndexes(run)))

\* The demo broker's choice: partitionOf[key] is the hash of the key.
ChosenPartition(run, key, partitionOf) ==
  IF key = Null THEN run.noKeyCursor % run.partitionCount ELSE partitionOf[key]

Produced(run, key, partitionOf) ==
  LET p == ChosenPartition(run, key, partitionOf)
      message == [messageId |-> Numbered("message", Len(run.messages) + 1), key |-> key, partition |-> p,
                  offset |-> run.nextOffset[p], state |-> "produced", assignedConsumerId |-> Null]
  IN  [run EXCEPT !.messages = Append(@, Delivered(run, message)),
                  !.nextOffset[p] = @ + 1,
                  !.noKeyCursor = IF key = Null THEN @ + 1 ELSE @]

ConsumerAdded(run) ==
  LET used == {c.consumerId : c \in Range(run.consumers)}
      index == CHOOSE i \in 1..(Len(run.consumers) + 1) :
                 /\ Numbered("consumer", i) \notin used
                 /\ \A j \in 1..(i - 1) : Numbered("consumer", j) \in used
  IN  Rebalanced([run EXCEPT !.consumers =
        Append(@, [consumerId |-> Numbered("consumer", index), partitions |-> {}, crashed |-> FALSE])])

\* requeueMessagesForConsumer() takes back what was not committed.
Requeued(messages, consumerId) ==
  Each(messages, LAMBDA m : IF m.assignedConsumerId = consumerId /\ m.state \in {"received", "processed"}
                            THEN [m EXCEPT !.state = "produced", !.assignedConsumerId = Null] ELSE m)

ConsumerCrashed(run, consumerId) ==
  Rebalanced([run EXCEPT
    !.consumers = Each(@, LAMBDA c : IF c.consumerId = consumerId
                                     THEN [c EXCEPT !.partitions = {}, !.crashed = TRUE] ELSE c),
    !.messages = Requeued(@, consumerId)])

\* processInRun() of the i-th message for the consumer that has it.
Processed(run, i, commit) ==
  LET m == run.messages[i] IN
  IF m.state # "received" THEN run
  ELSE IF ~commit THEN [run EXCEPT !.messages[i].state = "processed"]
  ELSE [run EXCEPT !.messages[i].state = "committed", !.latestCommittedOffsets[m.partition] = m.offset + 1]

-----------------------------------------------------------------------------

\* Commands that are repeated: a record with each key, n consumers more, and
\* each of some messages, of which some are committed.
ProducedInTurn(run, keys, partitionOf) == InTurn(run, keys, LAMBDA r, key : Produced(r, key, partitionOf))
AddedInTurn(run, n) == InTurn(run, [i \in 1..n |-> i], LAMBDA r, i : ConsumerAdded(r))
ProcessedInTurn(run, indexes, committed) ==
  InTurn(run, indexes, LAMBDA r, i : Processed(r, i, i \in committed))

\* The three keyed records an experiment produces, or those its traces name.
ProducedIndexes(run, state, growGroup) ==
  IF ~growGroup THEN [i \in 1..3 |-> Len(run.messages) + i]
  ELSE InOrder({i \in DOMAIN run.messages :
                  \E t \in Range(state.routingTraces) : t.messageId = run.messages[i].messageId})

\* The commands of a partitioning experiment. The last record is left uncommitted
\* by the first one, to be redelivered.
PartitioningRun(run, state, growGroup, limit, partitionOf) ==
  LET indexes == ProducedIndexes(run, state, growGroup)
      sent == IF growGroup THEN run ELSE ProducedInTurn(run, <<"A", "B", "A">>, partitionOf)
      missing == Max({0, (IF growGroup THEN 3 ELSE 1) - Cardinality(ActiveIndexes(sent))})
      committed == IF growGroup THEN Range(indexes) ELSE Range(indexes) \ {Last(indexes)}
  IN  IF growGroup /\ limit < 3 THEN sent
      ELSE ProcessedInTurn(AddedInTurn(sent, missing), indexes, committed)

ObservedPosition(run, indexes, p) ==
  LET processed == SelectSeq(indexes, LAMBDA i : /\ run.messages[i].partition = p
                                                 /\ run.messages[i].state \in {"processed", "committed"})
  IN  Position(p, IF processed = <<>> THEN Null ELSE run.messages[Last(processed)].offset,
               run.latestCommittedOffsets[p])

GuidedConsumers(run) ==
  [i \in 1..3 |-> [consumerId |-> Numbered("guided-consumer", i), partitions |-> Dealt(Partitions(run), 3, i)]]

\* What is observed of the run that results; a group that may not grow is simulated.
ObservedPartitioning(run, indexes, state, simulateConsumerGrowth) ==
  LET epoch == state.assignmentEpoch + 1
      members == IF simulateConsumerGrowth THEN GuidedConsumers(run) ELSE Active(run)
      trace(n) == run.messages[indexes[n]]
  IN  [routingTraces |-> [n \in DOMAIN indexes |->
         route("routing-" \o trace(n).messageId, trace(n).messageId, trace(n).key, trace(n).partition,
               trace(n).offset, n)],
       partitionPositions |->
         IF simulateConsumerGrowth THEN state.partitionPositions
         ELSE PerPartition(run.partitionCount, LAMBDA p : ObservedPosition(run, indexes, p)),
       consumers |-> Each(members, LAMBDA c : consumer(c.consumerId, c.partitions, epoch)),
       assignmentEpoch |-> epoch]

\* Three records without a key, produced by the burst only.
BurstRun(run, experimentId, partitionOf) ==
  IF experimentId # "produce-unkeyed-burst" THEN run
  ELSE ProducedInTurn(run, <<Null, Null, Null>>, partitionOf)

ObservedLoadBalancing(before, after, experimentId) ==
  [routes |-> [i \in 1..(Len(after.messages) - Len(before.messages)) |->
     LET m == after.messages[Len(before.messages) + i]
     IN  [messageId |-> m.messageId, partition |-> m.partition, offset |-> m.offset]],
   epochs |-> IF experimentId = "grow-consumer-group"
              THEN [members \in 1..4 |-> Epoch(members, Partitions(before))] ELSE <<>>]
=============================================================================
