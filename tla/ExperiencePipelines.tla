--------------------------- MODULE ExperiencePipelines ---------------------------
(***************************************************************************)
(* The frames of the scenarios about windowed joins and the outbox         *)
(* (scenario-experience/scenarios/pipelines).                              *)
(***************************************************************************)
EXTENDS ExperienceFrame

(* streams-joins-windows *)

\* isValidJoin(): the client shows no join that its own inputs do not prove.
isValidJoin(s, join) ==
  \E order, payment \in Range(s.inputs), window \in Range(s.windows) :
    /\ order.recordId = join.orderRecordId /\ order.stream = "orders"
    /\ payment.recordId = join.paymentRecordId /\ payment.stream = "payments"
    /\ window.windowId = join.windowId
    /\ order.key = payment.key /\ join.key = order.key
    /\ \A r \in {order, payment} :
         /\ r.windowId = join.windowId
         /\ r.eventTimeMs \in window.startMs..window.endMs
         /\ r.arrivalTimeMs <= window.graceEndMs
         /\ r.recordId \notin Range(s.lateRecords)

validJoins(s) == SelectSeq(s.joins, LAMBDA j : isValidJoin(s, j))
unmatched(s) == count(s.inputs, LAMBDA r : r.status = "unmatched")

StreamsFacts(s) ==
  "streams-input-count" :> Len(s.inputs) @@ "streams-valid-joins" :> Len(validJoins(s))
  @@ "streams-unmatched" :> unmatched(s) @@ "streams-late" :> Len(s.lateRecords)

streamNode(stream) == IF stream = "orders" THEN "orders-stream" ELSE "payments-stream"

StreamsInputTable(s, messageIds) ==
  tableOf(s.inputs, LAMBDA r : row(r.id, recordFocus(messageIds, r.recordId, Null, streamNode(r.stream))))

WindowBoundaryTable(s) == entityTable(s.windows, "window-state-store")
JoinOutputTable(s) == entityTable(validJoins(s), "window-state-store")

StreamsGraph(s, n) ==
  LET inputs(stream) == count(s.inputs, LAMBDA r : r.stream = stream)
  IN  buildScenarioGraph(s.scenarioId, n,
        [GraphOptions(s.inputs # <<>>,
           "orders-stream" :> inputs("orders") @@ "payments-stream" :> inputs("payments")
           @@ "window-state-store" :> Len(validJoins(s)))
         EXCEPT !.inactiveEdgeIds = IF validJoins(s) = <<>> THEN {"window-topic", "topic-group"} ELSE {}])

projectStreams(s, n, messageIds) ==
  LET facts == StreamsFacts(s)
  IN  createFrame(StreamsGraph(s, n),
        "streams-window-inputs" :> StreamsInputTable(s, messageIds)
        @@ "streams-window-boundaries" :> WindowBoundaryTable(s) @@ "streams-join-outputs" :> JoinOutputTable(s),
        facts, idsOf({latestOf(s.inputs)}), "streams-before-output" :> 0,
        IF s.inputs = <<>> THEN <<>>
        ELSE [f \in {"streams-valid-joins", "streams-unmatched", "streams-late"} |-> facts[f]])

-----------------------------------------------------------------------------
(* outbox-cdc *)

committedTransactions(s) == count(s.dbTransactions, LAMBDA t : t.committed)
acknowledgedPublishes(s) == count(s.publishes, LAMBDA p : p.acknowledged /\ ~p.deduplicated)
suppressedAttempts(s) == sum(s.dedupeLedger, LAMBDA e : e.suppressedAttempts)

acknowledgement(publish) ==
  CASE publish = Null -> "Pending"
    [] publish # Null /\ publish.deduplicated -> "Not emitted"
    [] publish # Null /\ ~publish.deduplicated /\ publish.acknowledged -> "Acknowledged"
    [] OTHER -> "Pending"

OutboxFacts(s) ==
  "outbox-db-commits" :> committedTransactions(s) @@ "outbox-wal-records" :> Len(s.wal)
  @@ "outbox-acknowledged" :> acknowledgedPublishes(s) @@ "outbox-suppressed" :> suppressedAttempts(s)
  @@ "outbox-latest-acknowledgement" :> acknowledgement(latestOf(s.publishes))

OutboxTraceTable(s) == entityTable(s.dbTransactions, "database-outbox")
ConnectorAttemptTable(s) == entityTable(s.connectorAttempts, "cdc-connector")

\* buildOutboxStages(): how far the pipeline has come.
OutboxStages(s) ==
  LET reached(done) == IF done THEN "complete" ELSE "waiting"
      connector == IF suppressedAttempts(s) > 0 THEN "deduplicated"
                   ELSE IF acknowledgedPublishes(s) > 0 THEN "complete"
                   ELSE IF s.connectorAttempts # <<>> THEN "active" ELSE "waiting"
  IN  "database-outbox" :> reached(committedTransactions(s) > 0)
      @@ "transaction-log" :> reached(s.wal # <<>>) @@ "cdc-connector" :> connector
      @@ "topic" :> reached(acknowledgedPublishes(s) > 0)

OutboxGraph(s, n) ==
  buildScenarioGraph(s.scenarioId, n, GraphOptions(s.dbTransactions # <<>>,
    "database-outbox" :> committedTransactions(s) @@ "transaction-log" :> Len(s.wal)
    @@ "cdc-connector" :> Len(s.connectorAttempts) @@ "topic" :> acknowledgedPublishes(s)))

\* The last publish, or the transaction that has none yet.
OutboxTold(s) ==
  IF s.publishes = <<>> THEN idsOf(Range(s.dbTransactions)) ELSE idsOf({latestOf(s.publishes)})

projectOutbox(s, n) ==
  LET facts == OutboxFacts(s)
  IN  createFrame(OutboxGraph(s, n),
        "outbox-cdc-trace" :> OutboxTraceTable(s) @@ "outbox-connector-attempts" :> ConnectorAttemptTable(s), facts,
        OutboxTold(s), "outbox-before-publish" :> 0,
        IF s.publishes = <<>> THEN <<>>
        ELSE [f \in {"outbox-acknowledged", "outbox-suppressed", "outbox-latest-acknowledgement"} |-> facts[f]])
      @@ [stages |-> OutboxStages(s)]
=============================================================================
