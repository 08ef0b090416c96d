--------------------------- MODULE ScenarioContracts ---------------------------
(***************************************************************************)
(* The schema of a scenario's state that clients parse snapshots with      *)
(* (packages/contracts/src/scenario-state.ts). Provenance, error texts and *)
(* the version are left out with the fields they constrain.                *)
(***************************************************************************)
EXTENDS ScenarioCatalog

Nullable(S) == S \union {Null}
Positive == Nat \ {0}

\* An array of rows of a type, each with its id.
Rows(items, type) == Range(items) \subseteq type

scenarioExperimentStatusSchema(scenarioId) ==
  [status : {"idle", "running", "completed", "failed"},
   experimentId : Nullable(scenarioExperimentIds(scenarioId)),
   stepIndex : Nat, totalSteps : Nat, startedAtVirtualMs : Nat \union {Null},
   completedAtVirtualMs : Nat \union {Null}, error : Nullable({"failure"})]

Offset == Nat \union {Null}
Assignment == [consumerId : STRING, partitions : SUBSET (0..7)]

PartitioningRows(s) ==
  /\ Rows(s.routingTraces, [id : STRING, messageId : STRING, key : STRING \union {Null}, partition : Nat,
                            offset : Nat, sequence : Positive])
  /\ Rows(s.partitionPositions, [id : STRING, partition : Nat, processedOffset : Offset, committedOffset : Offset])
  /\ Rows(s.consumers, [id : STRING, consumerId : STRING, partitions : SUBSET (0..7),
                        status : {"running", "idle"}, epoch : Nat])
  /\ s.assignmentEpoch \in Nat

LoadBalancingRows(s) ==
  Rows(s.epochs, [id : STRING, epoch : Nat, memberIds : Seq(STRING), assignments : Seq(Assignment),
                  idleConsumerIds : SUBSET STRING])

DuplicateRows(s) ==
  /\ Rows(s.deliveries, [id : STRING, messageId : STRING, partition : Nat, offset : Nat, attempt : Positive,
                         consumerId : STRING, sideEffectApplied : BOOLEAN, committed : BOOLEAN])
  /\ Rows(s.sideEffects, [id : STRING, idempotencyKey : STRING, naiveCount : Nat, idempotentCount : Nat])

RetryStages == {"main", "retry", "backoff", "succeeded", "dlq"}
RetryRows(s) ==
  Rows(s.records, [id : STRING, messageId : STRING, kind : {"transient", "poison"}, status : RetryStages,
                   attempt : Positive, maxAttempts : Positive, backoffUntilVirtualMs : Nat \union {Null},
                   error : STRING \union {Null}, route : Seq([stage : RetryStages, atVirtualMs : Nat])])

SchemaRows(s) ==
  /\ s.activeVersion \in Positive /\ s.topicRecordCount \in Nat
  /\ Rows(s.attempts, [id : STRING, version : Positive, compatible : BOOLEAN,
                       fieldDiff : Seq([field : STRING, compatibility : {"compatible", "incompatible"}]),
                       gate : {"accepted", "rejected"}, reachedTopic : BOOLEAN])

TransactionRows(s) ==
  Rows(s.transactions,
       [id : STRING, transactionId : STRING, status : {"open", "committed", "aborted"},
        records : Seq([recordId : STRING, producerSequence : Nat, staged : BOOLEAN, visible : BOOLEAN]),
        visibleRecordIds : SUBSET STRING, offsetsCommitted : BOOLEAN,
        dedupe : Seq([producerSequence : Nat, accepted : BOOLEAN])])

ReplayRows(s) ==
  /\ Rows(s.log, [id : STRING, offset : Nat, aggregateId : STRING, eventName : STRING, delta : Int])
  /\ s.cursor \in Offset
  /\ \A aggregateId \in DOMAIN s.projection : s.projection[aggregateId] \in Int
  /\ s.rebuildInProgress \in BOOLEAN /\ s.producedCount \in Nat

LagRows(s) ==
  /\ Rows(s.samples, [id : STRING, atVirtualMs : Nat, productionRate : Nat, processingRate : Nat, lag : Nat,
                      trend : {"rising", "steady", "falling"}])
  /\ Rows(s.partitions, [id : STRING, partition : Nat, endOffset : Nat, committedOffset : Nat, lag : Nat])
  /\ s.consumerCount \in Nat /\ s.drainEstimateMs \in Nat \union {Null}

HotPartitionRows(s) ==
  /\ Rows(s.phases, [id : STRING, kind : {"hot", "balanced"}, total : Nat, partitionCounts : Seq(Nat),
                     percentages : Seq(Nat), skewRatio : Nat,
                     routes : SUBSET [messageId : STRING, key : STRING \union {Null}, partition : Nat]])

CleanerStages == {"compaction", "tombstone_cleanup"}
CompactionRows(s) ==
  /\ Rows(s.rawLog, [id : STRING, offset : Nat, key : STRING, value : STRING \union {Null}, tombstone : BOOLEAN,
                     removedAtStage : Nullable(CleanerStages)])
  /\ Rows(s.materialized, [id : STRING, key : STRING, value : STRING \union {Null}, sourceOffset : Nat])
  /\ Rows(s.cleanerPasses, [id : STRING, stage : CleanerStages, removedOffsets : SUBSET Nat, atVirtualMs : Nat])

OutOfRangeSchema == [code : {"offset_out_of_range"}, requestedOffset : Nat]
RetentionRows(s) ==
  /\ Rows(s.records, [id : STRING, offset : Nat, createdAtVirtualMs : Nat, expired : BOOLEAN])
  /\ s.retentionMs \in Positive /\ s.cutoffVirtualMs \in Nat
  /\ s.logStartOffset \in Nat /\ s.committedOffset \in Nat
  /\ {s.error, s.lastOffsetOutOfRange} \ {Null} \subseteq OutOfRangeSchema

CooperativeRows(s) ==
  Rows(s.comparisons,
       [id : STRING, strategy : {"eager", "cooperative_sticky"}, before : Seq(Assignment), after : Seq(Assignment),
        keptPartitions : SUBSET Nat,
        movedPartitions : Seq([partition : Nat, fromConsumerId : STRING, toConsumerId : STRING]),
        revokedPartitions : SUBSET Nat, pausedPartitions : SUBSET Nat])

StreamsRows(s) ==
  /\ Rows(s.inputs, [id : STRING, recordId : STRING, stream : {"orders", "payments"}, key : STRING,
                     eventTimeMs : Nat, arrivalTimeMs : Nat, windowId : STRING,
                     status : {"buffered", "joined", "unmatched", "late"}])
  /\ Rows(s.windows, [id : STRING, windowId : STRING, startMs : Nat, endMs : Nat, graceEndMs : Nat,
                      closed : BOOLEAN])
  /\ Rows(s.joins, [id : STRING, joinId : STRING, key : STRING, orderRecordId : STRING,
                    paymentRecordId : STRING, windowId : STRING])
  /\ Rows(s.lateRecords, STRING)

OutboxRows(s) ==
  /\ Rows(s.dbTransactions, [id : STRING, transactionId : STRING, businessRowId : STRING, outboxRowId : STRING,
                             committed : BOOLEAN])
  /\ Rows(s.wal, [id : STRING, lsn : STRING, transactionId : STRING, outboxRowId : STRING])
  /\ Rows(s.connectorAttempts, [id : STRING, attemptId : STRING, outboxRowId : STRING, lsn : STRING,
                                attempt : Positive, status : {"read", "published", "retried"}])
  /\ Rows(s.publishes, [id : STRING, messageId : STRING, outboxRowId : STRING, lsn : STRING,
                        acknowledged : BOOLEAN, deduplicated : BOOLEAN])
  /\ Rows(s.dedupeLedger, [id : STRING, outboxRowId : STRING, acceptedMessageId : STRING,
                           suppressedAttempts : Nat])

Operations == {"read", "write", "create", "describe"}
AclRows(s) ==
  /\ Rows(s.policies, [id : STRING, principal : STRING, operation : Operations, resource : STRING,
                       effect : {"allow", "deny"}])
  /\ Rows(s.attempts, [id : STRING, principal : STRING, operation : Operations, resource : STRING,
                       matchedPolicyId : STRING \union {Null}, decision : {"allowed", "denied"},
                       terminatedBeforeKafka : BOOLEAN])
  /\ s.lastHighlightedCell # Null =>
       s.lastHighlightedCell \in [principal : STRING, operation : Operations, resource : STRING]

scenarioStateSchema(s) ==
  /\ s.virtualTimeMs \in Nat /\ s.revision \in Nat
  /\ s.experiment \in scenarioExperimentStatusSchema(s.scenarioId)
  /\ CASE s.scenarioId = "partitioning" -> PartitioningRows(s)
       [] s.scenarioId = "fan-out-load-balancing" -> LoadBalancingRows(s)
       [] s.scenarioId = "at-least-once-duplicates" -> DuplicateRows(s)
       [] s.scenarioId = "retry-dead-letter-queues" -> RetryRows(s)
       [] s.scenarioId = "schema-evolution-karapace" -> SchemaRows(s)
       [] s.scenarioId = "transactional-producers" -> TransactionRows(s)
       [] s.scenarioId = "event-replay-sourcing" -> ReplayRows(s)
       [] s.scenarioId = "consumer-lag-backpressure" -> LagRows(s)
       [] s.scenarioId = "hot-partitions-key-skew" -> HotPartitionRows(s)
       [] s.scenarioId = "log-compaction-tombstones" -> CompactionRows(s)
       [] s.scenarioId = "retention-data-loss" -> RetentionRows(s)
       [] s.scenarioId = "cooperative-rebalancing" -> CooperativeRows(s)
       [] s.scenarioId = "streams-joins-windows" -> StreamsRows(s)
       [] s.scenarioId = "outbox-cdc" -> OutboxRows(s)
       [] OTHER -> AclRows(s)
=============================================================================
