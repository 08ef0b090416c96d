-------------------------- MODULE ScenarioConsistency --------------------------
(***************************************************************************)
(* The experiments about schemas, transactions and permissions             *)
(* (scenario-experiments/consistency.ts).                                  *)
(***************************************************************************)
EXTENDS ScenarioShared

(* schema-evolution-karapace *)

SchemaAttempt(version, compatible) ==
  [id |-> Numbered("schema-attempt", version), version |-> version, compatible |-> compatible,
   fieldDiff |-> <<[field |-> IF compatible THEN "displayName" ELSE "email",
                    compatibility |-> IF compatible THEN "compatible" ELSE "incompatible"]>>,
   gate |-> IF compatible THEN "accepted" ELSE "rejected", reachedTopic |-> compatible]

SchemaSteps(version, outcome) ==
  LET entities == <<"schema-attempt-" \o version, "schema-" \o version>>
  IN  <<step(version \o "-diff", "schema.diffed", entities, 100),
        step(version \o "-" \o outcome, "schema." \o outcome \o "ed", entities, 100)>>

buildSchemaEvolutionExperiment(state, experimentId, startedAt) ==
  IF experimentId = "compatible-schema"
  THEN Result([state EXCEPT
                 !.activeVersion = 2, !.topicRecordCount = @ + 1,
                 !.attempts = upsertById(@, [SchemaAttempt(2, TRUE) EXCEPT !.id = "schema-attempt-v2"])],
              experimentId, startedAt, SchemaSteps("v2", "accept"))
  ELSE Result([state EXCEPT
                 !.attempts = upsertById(@, [SchemaAttempt(3, FALSE) EXCEPT !.id = "schema-attempt-v3"])],
              experimentId, startedAt, SchemaSteps("v3", "reject"))

-----------------------------------------------------------------------------
(* transactional-producers *)

Dedupe(producerSequence, accepted) == [producerSequence |-> producerSequence, accepted |-> accepted]

\* A transaction over some producer sequences; aborted, none of its records is visible.
transaction(transactionId, status, sequences) ==
  LET visible == status = "committed"
      records == [i \in DOMAIN sequences |->
                    [recordId |-> Numbered(transactionId \o "-record", i), producerSequence |-> sequences[i],
                     staged |-> TRUE, visible |-> visible]]
  IN  [id |-> "transaction-row-" \o transactionId, transactionId |-> transactionId, status |-> status,
       records |-> records,
       visibleRecordIds |-> {r.recordId : r \in {q \in Range(records) : q.visible}},
       offsetsCommitted |-> visible,
       dedupe |-> Each(sequences, LAMBDA s : Dedupe(s, TRUE))]

CommittedTransaction == transaction("txn-1", "committed", <<0, 1>>)
ContrastedTransactions ==
  <<transaction("txn-2", "aborted", <<2>>),
    [transaction("txn-3", "committed", <<3>>) EXCEPT !.dedupe = <<Dedupe(3, TRUE), Dedupe(3, FALSE)>>]>>

buildTransactionalProducerExperiment(state, experimentId, startedAt) ==
  IF experimentId = "abort-and-dedupe"
  THEN Result([state EXCEPT !.transactions = upsertAll(@, ContrastedTransactions)], experimentId, startedAt,
              <<step("abort", "transaction.aborted", <<"transaction-row-txn-2", "txn-2", "txn-2-record-1">>, 100),
                step("dedupe", "producer.deduplicated",
                     <<"transaction-row-txn-3", "txn-3", "txn-3-record-1">>, 100)>>)
  ELSE Result([state EXCEPT !.transactions = upsertById(@, CommittedTransaction)], experimentId, startedAt,
              <<step("stage", "transaction.staged",
                     <<"transaction-row-txn-1", "txn-1-record-1", "txn-1-record-2">>, 100),
                step("commit", "transaction.committed", <<"transaction-row-txn-1", "txn-1">>, 100)>>)

-----------------------------------------------------------------------------
(* acl-least-privilege *)

WritePolicy == Policy("policy-orders-write", "write")

\* The write of an order, as a policy decided it: without one it ends before Kafka.
AclAttempt(id, matchedPolicyId) ==
  [id |-> id, principal |-> "orders-service", operation |-> "write", resource |-> "orders",
   matchedPolicyId |-> matchedPolicyId,
   decision |-> IF matchedPolicyId = Null THEN "denied" ELSE "allowed",
   terminatedBeforeKafka |-> matchedPolicyId = Null]

HighlightedCell == [principal |-> "orders-service", operation |-> "write", resource |-> "orders"]

buildAclExperiment(state, experimentId, startedAt) ==
  IF experimentId = "grant-required-permission"
  THEN Result([state EXCEPT !.policies = upsertById(@, WritePolicy),
                            !.attempts = upsertById(@, AclAttempt("acl-attempt-2", WritePolicy.id)),
                            !.lastHighlightedCell = HighlightedCell],
              experimentId, startedAt,
              <<step("grant", "acl.granted", <<"policy-orders-write">>, 100),
                step("retry", "acl.allowed", <<"acl-attempt-2">>, 100)>>)
  ELSE Result([state EXCEPT !.attempts = upsertById(@, AclAttempt("acl-attempt-1", Null)),
                            !.lastHighlightedCell = HighlightedCell],
              experimentId, startedAt,
              <<step("evaluate", "acl.evaluated", <<"acl-attempt-1", "acl-cell-write">>, 100),
                step("deny", "acl.denied", <<"acl-attempt-1">>, 100)>>)
=============================================================================
