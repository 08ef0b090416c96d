--------------------------- MODULE ExperienceDelivery ---------------------------
(***************************************************************************)
(* The frames of the scenarios about redelivery, retries and transactions  *)
(* (scenario-experience/scenarios/delivery).                               *)
(***************************************************************************)
EXTENDS ExperienceFrame

(* at-least-once-duplicates *)

redeliveries(s) == count(s.deliveries, LAMBDA d : d.attempt > 1)
naiveTotal(s) == sum(s.sideEffects, LAMBDA e : e.naiveCount)
idempotentTotal(s) == sum(s.sideEffects, LAMBDA e : e.idempotentCount)

DuplicateFacts(s) ==
  "delivery-count" :> Len(s.deliveries) @@ "redelivery-count" :> redeliveries(s)
  @@ "naive-side-effects" :> naiveTotal(s) @@ "idempotent-side-effects" :> idempotentTotal(s)

deliveryFocus(messageIds, d) ==
  recordFocus(messageIds, IF d.messageId \in messageIds THEN d.messageId ELSE d.id, d.partition,
              IF d.attempt > 1 THEN "replay-loop" ELSE "commit-gate")

DeliveryTable(s, messageIds) == tableOf(s.deliveries, LAMBDA d : row(d.id, deliveryFocus(messageIds, d)))
SideEffectTable(s) == entityTable(s.sideEffects, "idempotent-handler")

DuplicateGraph(s, n) ==
  buildScenarioGraph(s.scenarioId, n,
    [GraphOptions(s.deliveries # <<>>,
       "idempotent-handler" :> idempotentTotal(s) @@ "commit-gate" :> count(s.deliveries, LAMBDA d : d.committed)
       @@ "replay-loop" :> redeliveries(s))
     EXCEPT !.inactiveEdgeIds = IF redeliveries(s) = 0 THEN {"commit-replay", "replay-group"} ELSE {}])

DuplicateBeforeFacts(s) ==
  LET compares == isExperiment(s, "duplicate-risk-records") /\ redeliveries(s) > 0
  IN  "before-naive" :> (IF compares THEN naiveTotal(s) ELSE 0)
      @@ "before-idempotent" :> (IF compares THEN idempotentTotal(s) ELSE 0)

projectDuplicates(s, n, messageIds) ==
  createFrame(DuplicateGraph(s, n),
    "duplicate-delivery-attempts" :> DeliveryTable(s, messageIds)
    @@ "duplicate-side-effect-comparison" :> SideEffectTable(s),
    DuplicateFacts(s), idsOf({latestOf(s.deliveries)}), DuplicateBeforeFacts(s),
    whenCompleted(s, "naive-side-effects" :> naiveTotal(s) @@ "idempotent-side-effects" :> idempotentTotal(s)))

-----------------------------------------------------------------------------
(* retry-dead-letter-queues *)

recovered(s) == count(s.records, LAMBDA r : r.kind = "transient" /\ r.status = "succeeded")
deadLettered(s) == count(s.records, LAMBDA r : r.status = "dlq")

RetryFacts(s) ==
  "retry-records" :> Len(s.records) @@ "transient-recovered" :> recovered(s)
  @@ "retry-backoff" :> count(s.records, LAMBDA r : r.status = "backoff")
  @@ "retry-dead-lettered" :> deadLettered(s)

\* Mutant: the focus of the other rows has the id of the lesson's copy, not of the graph.
retryGraphEntityRenamed(status) ==
  CASE status = "dlq" -> "dead-letter-topic"
    [] status \in {"retry", "backoff"} -> "retry-topic"
    [] OTHER -> "consumer-group"

retryGraphEntity(status) ==
  CASE status = "dlq" -> "dead-letter-topic"
    [] status \in {"retry", "backoff"} -> "retry-topic"
    [] OTHER -> "consumerGroup"

\* retryInactiveEdges(): all but the route of the last record.
retryInactiveEdges(status) ==
  {"producer-topic", "topic-group", "group-retry", "retry-group", "retry-dlq"} \
  CASE status = "main" -> {"producer-topic", "topic-group"}
    [] status \in {"retry", "backoff"} -> {"group-retry"}
    [] status = "succeeded" -> {"retry-group"}
    [] status = "dlq" -> {"retry-dlq"}
    [] OTHER -> {}

RetryGraph(s, n) ==
  LET current == latestOf(s.records)
  IN  buildScenarioGraph(s.scenarioId, n,
        [GraphOptions(current # Null,
           "retry-topic" :> count(s.records, LAMBDA r : r.status \in {"retry", "backoff"})
           @@ "dead-letter-topic" :> deadLettered(s))
         EXCEPT !.inactiveEdgeIds = retryInactiveEdges(IF current = Null THEN Null ELSE current.status)])

projectRetry(s, n) ==
  createFrame(RetryGraph(s, n),
    "retry-current-route" :> tableOf(s.records, LAMBDA r : row(r.id, entityFocus(r.id, retryGraphEntity(r.status)))),
    RetryFacts(s), idsOf({latestOf(s.records)}), "before-retry" :> 0,
    IF recovered(s) > 0 \/ deadLettered(s) > 0 THEN RetryFacts(s) ELSE <<>>)

-----------------------------------------------------------------------------
(* transactional-producers *)

visibleTotal(s) == sum(s.transactions, LAMBDA t : Cardinality(t.visibleRecordIds))
abortedTotal(s) == count(s.transactions, LAMBDA t : t.status = "aborted")

TransactionFacts(s) ==
  "transaction-staged" :> sum(s.transactions, LAMBDA t : count(t.records, LAMBDA r : r.staged))
  @@ "transaction-visible" :> visibleTotal(s) @@ "transaction-aborted" :> abortedTotal(s)
  @@ "transaction-deduplicated" :> sum(s.transactions, LAMBDA t : count(t.dedupe, LAMBDA d : ~d.accepted))

TransactionTable(s) == entityTable(s.transactions, "commit-boundary")

TransactionRecordTable(s, messageIds) ==
  FlattenSeq(tableOf(s.transactions, LAMBDA t :
    tableOf(t.records, LAMBDA r :
      row(t.id \o "-" \o r.recordId, recordFocus(messageIds, r.recordId, Null, "commit-boundary")))))

TransactionGraph(s, n) ==
  buildScenarioGraph(s.scenarioId, n,
    [GraphOptions(s.transactions # <<>>,
       "transaction-coordinator" :> Len(s.transactions) @@ "commit-boundary" :> visibleTotal(s))
     EXCEPT !.inactiveEdgeIds = IF visibleTotal(s) = 0 THEN {"boundary-topic", "topic-group"} ELSE {}])

projectTransactions(s, n, messageIds) ==
  LET latest == latestOf(s.transactions)
      decided == (latest # Null /\ latest.status = "committed") \/ abortedTotal(s) > 0
  IN  createFrame(TransactionGraph(s, n),
        "transaction-boundaries" :> TransactionTable(s)
        @@ "transaction-record-visibility" :> TransactionRecordTable(s, messageIds),
        TransactionFacts(s), idsOf({latest}), "before-visible" :> 0,
        IF decided THEN TransactionFacts(s) ELSE <<>>)
=============================================================================
