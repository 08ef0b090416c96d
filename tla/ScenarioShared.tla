---------------------------- MODULE ScenarioShared ----------------------------
(***************************************************************************)
(* What the builders of experiments share (scenario-experiments/shared.ts) *)
(* and the state a scenario starts from (initial-state.ts). Everything     *)
(* these files build has the provenance "simulated", which is left out;    *)
(* labels are left out; offsets are numbers.                               *)
(***************************************************************************)
EXTENDS ScenarioCatalog, FiniteSetsExt

\* The id of the n-th entity of a kind.
Numbered(kind, n) == kind \o "-" \o ToString(n)

\* The map() of an array.
Each(items, Op(_)) == SubSeq([i \in DOMAIN items |-> Op(items[i])], 1, Len(items))

\* The reduce() of an array, and a loop over one: what Op makes of first, item after item.
InTurn(first, items, Op(_, _)) ==
  LET after[i \in 0..Len(items)] == IF i = 0 THEN first ELSE Op(after[i - 1], items[i])
  IN  after[Len(items)]

Total(numbers) == InTurn(0, numbers, LAMBDA total, number : total + number)

\* Some indexes in increasing order; the filter() of an array keeps this order.
Place(index, indexes) == Cardinality({i \in indexes : i <= index})
InOrder(indexes) == [n \in 1..Cardinality(indexes) |-> CHOOSE i \in indexes : Place(i, indexes) = n]

upsertById(items, item) ==
  LET existing == {i \in DOMAIN items : items[i].id = item.id}
  IN  IF existing = {} THEN Append(items, item) ELSE [items EXCEPT ![Min(existing)] = item]

upsertAll(items, additions) == InTurn(items, additions, upsertById)

step(id, transition, entityIds, advanceMs) ==
  [id |-> id, transition |-> transition, entityIds |-> entityIds, advanceMs |-> advanceMs,
   messageId |-> Null, partition |-> Null, offset |-> Null]

\* A transition that names a record.
About(transition, messageId, partition, offset) ==
  [transition EXCEPT !.messageId = messageId, !.partition = partition, !.offset = offset]

Elapsed(transitions) == Total(Each(transitions, LAMBDA item : item.advanceMs))

Progress(status, experimentId, stepIndex, totalSteps, startedAt, completedAt, error) ==
  [status |-> status, experimentId |-> experimentId, stepIndex |-> stepIndex, totalSteps |-> totalSteps,
   startedAtVirtualMs |-> startedAt, completedAtVirtualMs |-> completedAt, error |-> error]

complete(state, experimentId, startedAt, transitions) ==
  LET n == Len(transitions)
      now == startedAt + Elapsed(transitions)
  IN  [state EXCEPT
        !.virtualTimeMs = now,
        !.revision = @ + n,
        !.experiment = Progress("completed", experimentId, n, n, startedAt, now, Null)]

\* What a builder returns.
Result(state, experimentId, startedAt, transitions) ==
  [state |-> complete(state, experimentId, startedAt, transitions), transitions |-> transitions]

-----------------------------------------------------------------------------

idleExperiment == Progress("idle", Null, 0, 0, Null, Null, Null)

base(scenarioId) ==
  [scenarioId |-> scenarioId, virtualTimeMs |-> 0, revision |-> 0, experiment |-> idleExperiment]

\* { ...first, ...rest }
Joined(first, rest) ==
  [field \in DOMAIN first \union DOMAIN rest |-> IF field \in DOMAIN rest THEN rest[field] ELSE first[field]]

\* partitionIndexes(partitionCount).map(...)
PerPartition(partitionCount, Op(_)) == [i \in 1..partitionCount |-> Op(i - 1)]

Position(partition, processedOffset, committedOffset) ==
  [id |-> "partition-" \o ToString(partition) \o "-position", partition |-> partition,
   processedOffset |-> processedOffset, committedOffset |-> committedOffset]

LagPartition(partition, endOffset, committedOffset) ==
  [id |-> Numbered("lag-partition", partition), partition |-> partition, endOffset |-> endOffset,
   committedOffset |-> committedOffset, lag |-> endOffset - committedOffset]

Policy(id, operation) ==
  [id |-> id, principal |-> "orders-service", operation |-> operation, resource |-> "orders", effect |-> "allow"]

createInitialScenarioState(scenarioId, partitionCount) ==
  Joined(base(scenarioId),
  CASE scenarioId = "partitioning" ->
         [routingTraces |-> <<>>, consumers |-> <<>>, assignmentEpoch |-> 0,
          partitionPositions |-> PerPartition(partitionCount, LAMBDA p : Position(p, Null, Null))]
    [] scenarioId = "fan-out-load-balancing" -> [epochs |-> <<>>]
    [] scenarioId = "at-least-once-duplicates" -> [deliveries |-> <<>>, sideEffects |-> <<>>]
    [] scenarioId = "retry-dead-letter-queues" -> [records |-> <<>>]
    [] scenarioId = "schema-evolution-karapace" ->
         [activeVersion |-> 1, topicRecordCount |-> 0, attempts |-> <<>>]
    [] scenarioId = "transactional-producers" -> [transactions |-> <<>>]
    [] scenarioId = "event-replay-sourcing" ->
         [log |-> <<>>, cursor |-> Null, projection |-> <<>>, rebuildInProgress |-> FALSE, producedCount |-> 0]
    [] scenarioId = "consumer-lag-backpressure" ->
         [samples |-> <<>>, consumerCount |-> 1, drainEstimateMs |-> Null,
          partitions |-> PerPartition(partitionCount, LAMBDA p : LagPartition(p, 0, 0))]
    [] scenarioId = "hot-partitions-key-skew" -> [phases |-> <<>>]
    [] scenarioId = "log-compaction-tombstones" ->
         [rawLog |-> <<>>, materialized |-> <<>>, cleanerPasses |-> <<>>]
    [] scenarioId = "retention-data-loss" ->
         [records |-> <<>>, retentionMs |-> 60000, cutoffVirtualMs |-> 0, logStartOffset |-> 0,
          committedOffset |-> 0, error |-> Null, lastOffsetOutOfRange |-> Null]
    [] scenarioId = "cooperative-rebalancing" -> [comparisons |-> <<>>]
    [] scenarioId = "streams-joins-windows" ->
         [inputs |-> <<>>, windows |-> <<>>, joins |-> <<>>, lateRecords |-> <<>>]
    [] scenarioId = "outbox-cdc" ->
         [dbTransactions |-> <<>>, wal |-> <<>>, connectorAttempts |-> <<>>, publishes |-> <<>>,
          dedupeLedger |-> <<>>]
    [] scenarioId = "acl-least-privilege" ->
         [policies |-> <<Policy("policy-orders-read", "read")>>, attempts |-> <<>>, lastHighlightedCell |-> Null])
=============================================================================
