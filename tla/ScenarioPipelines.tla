--------------------------- MODULE ScenarioPipelines ---------------------------
(***************************************************************************)
(* The experiments about windowed joins and the outbox                     *)
(* (scenario-experiments/pipelines.ts).                                    *)
(***************************************************************************)
EXTENDS ScenarioShared

(* streams-joins-windows *)

streamInput(recordId, stream, key, eventTimeMs, arrivalTimeMs, status) ==
  [id |-> "stream-input-" \o recordId, recordId |-> recordId, stream |-> stream, key |-> key,
   eventTimeMs |-> eventTimeMs, arrivalTimeMs |-> arrivalTimeMs, windowId |-> "window-0", status |-> status]

BaseInputs ==
  <<streamInput("order-42", "orders", "42", 1000, 1000, "joined"),
    streamInput("payment-42", "payments", "42", 1500, 1600, "joined"),
    streamInput("order-99", "orders", "99", 2000, 2000, "unmatched")>>
LateInput == streamInput("payment-99", "payments", "99", 2200, 7500, "late")

Window(closed) ==
  [id |-> "window-state-0", windowId |-> "window-0", startMs |-> 0, endMs |-> 5000, graceEndMs |-> 7000,
   closed |-> closed]

Join42 ==
  [id |-> "join-row-42", joinId |-> "join-42", key |-> "42", orderRecordId |-> "order-42",
   paymentRecordId |-> "payment-42", windowId |-> "window-0"]

buildStreamsJoinExperiment(state, experimentId, startedAt) ==
  IF experimentId = "late-arrival"
  THEN Result([state EXCEPT !.inputs = upsertById(@, LateInput), !.windows = <<Window(TRUE)>>,
                            !.lateRecords = <<"payment-99">>],
              experimentId, startedAt,
              <<step("late", "window.record_late",
                     <<"stream-input-payment-99", "payment-99", "window-state-0">>, 6000)>>)
  ELSE Result([state EXCEPT !.inputs = upsertAll(@, BaseInputs), !.windows = <<Window(FALSE)>>,
                            !.joins = <<Join42>>],
              experimentId, startedAt,
              <<step("order", "window.record_buffered",
                     <<"stream-input-order-42", "order-42", "window-state-0">>, 100),
                step("payment", "window.join_emitted",
                     <<"stream-input-payment-42", "join-row-42", "join-42", "window-state-0">>, 100),
                step("unmatched", "window.record_unmatched",
                     <<"stream-input-order-99", "order-99", "window-state-0">>, 100)>>)

-----------------------------------------------------------------------------
(* outbox-cdc: one order, its row in the outbox and its position in the WAL *)

OutboxRow == [outboxRowId |-> "outbox-order-1"]
AtLsn == OutboxRow @@ [lsn |-> "0/100"]

DbTransaction ==
  OutboxRow @@ [id |-> "db-transaction-row-1", transactionId |-> "db-txn-1",
                businessRowId |-> "business-order-1", committed |-> TRUE]
WalRow == AtLsn @@ [id |-> "wal-row-100", transactionId |-> "db-txn-1"]

ConnectorAttempt(attempt, status) ==
  AtLsn @@ [id |-> Numbered("connector-row", attempt), attemptId |-> Numbered("cdc-attempt", attempt),
            attempt |-> attempt, status |-> status]

FirstPublish ==
  AtLsn @@ [id |-> "publish-row-1", messageId |-> "cdc-message-1", acknowledged |-> TRUE,
            deduplicated |-> FALSE]
DedupeEntry ==
  OutboxRow @@ [id |-> "dedupe-outbox-order-1", acceptedMessageId |-> "cdc-message-1",
                suppressedAttempts |-> 1]

buildOutboxCdcExperiment(state, experimentId, startedAt) ==
  IF experimentId = "retry-cdc"
  THEN Result([state EXCEPT !.connectorAttempts = upsertById(@, ConnectorAttempt(2, "retried")),
                            !.dedupeLedger = <<DedupeEntry>>],
              experimentId, startedAt,
              <<step("retry", "cdc.retry_deduplicated",
                     <<"connector-row-2", "cdc-attempt-2", "publish-row-1", "dedupe-outbox-order-1">>, 100)>>)
  ELSE Result([state EXCEPT !.dbTransactions = <<DbTransaction>>, !.wal = <<WalRow>>,
                            !.connectorAttempts = upsertById(@, ConnectorAttempt(1, "published")),
                            !.publishes = upsertById(@, FirstPublish)],
              experimentId, startedAt,
              <<step("db", "database.transaction_committed",
                     <<"db-transaction-row-1", "db-txn-1", "business-order-1", "outbox-order-1">>, 100),
                step("wal", "wal.recorded", <<"wal-row-100", "wal-100", "connector-row-1">>, 100),
                step("publish", "kafka.publish_acknowledged",
                     <<"publish-row-1", "cdc-message-1", "connector-row-1">>, 100)>>)
=============================================================================
