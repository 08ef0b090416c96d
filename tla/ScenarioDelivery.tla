--------------------------- MODULE ScenarioDelivery ---------------------------
(***************************************************************************)
(* The experiments about delivery, retries and lag                         *)
(* (scenario-experiments/delivery.ts).                                     *)
(***************************************************************************)
EXTENDS ScenarioShared

(* at-least-once-duplicates *)

delivery(attempt) ==
  [id |-> Numbered("delivery", attempt), messageId |-> "duplicate-message-42", partition |-> 0, offset |-> 7,
   attempt |-> attempt, consumerId |-> Numbered("consumer", attempt), sideEffectApplied |-> TRUE,
   committed |-> attempt = 2]

Ledger(naiveCount) ==
  [id |-> "ledger-payment-42", idempotencyKey |-> "payment-42", naiveCount |-> naiveCount, idempotentCount |-> 1]

OnMessage42(transition) == About(transition, "duplicate-message-42", 0, 7)

CrashAndRedeliver ==
  <<OnMessage42(step("deliver-first-attempt", "record.delivered", <<"delivery-1", "duplicate-message-42">>, 100)),
    step("side-effect", "side_effect.applied", <<"payment-42", "ledger-payment-42", "delivery-1">>, 100),
    OnMessage42(step("hold", "offset.commit_held", <<"delivery-1", "duplicate-message-42">>, 100)),
    step("crash", "consumer.crashed", <<"consumer-1", "delivery-1">>, 100),
    OnMessage42(step("redeliver", "record.redelivered", <<"delivery-2", "duplicate-message-42">>, 100)),
    step("dedupe", "idempotency.checked", <<"ledger-payment-42", "payment-42">>, 100)>>

CompareHandlers ==
  <<step("compare-handlers", "idempotency.checked", <<"ledger-payment-42", "delivery-1", "delivery-2">>, 100)>>

HoldCommit ==
  <<step("side-effect", "side_effect.applied", <<"payment-42", "ledger-payment-42">>, 100),
    OnMessage42(step("hold", "offset.commit_held", <<"delivery-1">>, 100))>>

buildAtLeastOnceExperiment(state, experimentId, startedAt) ==
  LET redeliver == experimentId = "crash-and-redeliver"
      alreadyRedelivered == \E d \in Range(state.deliveries) : d.attempt > 1
      attempts == IF redeliver \/ alreadyRedelivered THEN 2 ELSE 1
  IN  Result([state EXCEPT !.deliveries = [a \in 1..attempts |-> delivery(a)],
                           !.sideEffects = <<Ledger(attempts)>>],
             experimentId, startedAt,
             IF redeliver THEN CrashAndRedeliver
             ELSE IF alreadyRedelivered THEN CompareHandlers ELSE HoldCommit)

-----------------------------------------------------------------------------
(* retry-dead-letter-queues *)

\* One attempt of a record: the retry that ends it waits for a backoff.
Attempt(record, id, transition, advanceMs) == step(id, transition, <<record>>, advanceMs)

TransientSteps ==
  LET a(id, transition, advanceMs) == Attempt("retry-transient", id, transition, advanceMs)
  IN  <<a("transient-attempt-1", "record.attempt_started", 100),
        a("transient-fail", "record.retry_scheduled", 100),
        a("backoff", "record.backoff_elapsed", 1000),
        a("transient-attempt-2", "record.attempt_started", 100),
        a("transient-success", "record.succeeded", 100)>>

PoisonSteps ==
  LET a(id, transition, advanceMs) == Attempt("retry-poison", id, transition, advanceMs)
  IN  <<a("poison-attempt-1", "record.attempt_started", 100),
        a("poison-retry-1", "record.retry_scheduled", 100),
        a("poison-backoff-1", "record.backoff_elapsed", 1000),
        a("poison-attempt-2", "record.attempt_started", 100),
        a("poison-retry-2", "record.retry_scheduled", 100),
        a("poison-backoff-2", "record.backoff_elapsed", 2000),
        a("poison-attempt-3", "record.attempt_started", 100),
        a("poison-dlq", "record.dead_lettered", 100)>>

retryRecord(id, kind, status, attempt, startedAt, stages, delays) ==
  [id |-> id, messageId |-> id \o "-message", kind |-> kind, status |-> status, attempt |-> attempt,
   maxAttempts |-> 3, backoffUntilVirtualMs |-> Null,
   error |-> IF status = "dlq" THEN "POISON_RECORD" ELSE Null,
   route |-> [i \in DOMAIN stages |-> [stage |-> stages[i], atVirtualMs |-> startedAt + delays[i]]]]

\* Mutant: the hops of a record are counted from the start of the run.
TransientSinceZero(startedAt) ==
  retryRecord("retry-transient", "transient", "succeeded", 2, 0,
              <<"main", "retry", "backoff", "retry", "succeeded">>, <<100, 200, 200, 1300, 1400>>)

TransientRecord(startedAt) ==
  retryRecord("retry-transient", "transient", "succeeded", 2, startedAt,
              <<"main", "retry", "backoff", "retry", "succeeded">>, <<100, 200, 200, 1300, 1400>>)

PoisonRecord(startedAt) ==
  retryRecord("retry-poison", "poison", "dlq", 3, startedAt,
              <<"main", "retry", "backoff", "retry", "backoff", "retry", "dlq">>,
              <<100, 200, 200, 1300, 1400, 3500, 3600>>)

buildRetryDeadLetterExperiment(state, experimentId, startedAt) ==
  LET transient == experimentId = "transient-recovery"
      record == IF transient THEN TransientRecord(startedAt) ELSE PoisonRecord(startedAt)
  IN  Result([state EXCEPT !.records = upsertById(@, record)], experimentId, startedAt,
             IF transient THEN TransientSteps ELSE PoisonSteps)

-----------------------------------------------------------------------------
(* consumer-lag-backpressure *)

sample(id, atVirtualMs, productionRate, processingRate, lag, trend) ==
  [id |-> id, atVirtualMs |-> atVirtualMs, productionRate |-> productionRate,
   processingRate |-> processingRate, lag |-> lag, trend |-> trend]

Samples(recover, startedAt) ==
  IF recover
  THEN <<sample("lag-sample-1", startedAt + 100, 3, 9, 6, "falling"),
         sample("lag-sample-2", startedAt + 5100, 3, 9, 0, "steady")>>
  ELSE <<sample("lag-sample-0", startedAt + 5000, 8, 2, 18, "rising")>>

\* A stable sort by time: each sample goes after those that are not later.
Inserted(sorted, s) ==
  LET k == CHOOSE n \in 0..Len(sorted) : \A i \in DOMAIN sorted : i <= n <=> sorted[i].atVirtualMs <= s.atVirtualMs
  IN  SubSeq(sorted, 1, k) \o <<s>> \o SubSeq(sorted, k + 1, Len(sorted))
InOrderOfTime(samples) == InTurn(<<>>, samples, Inserted)

\* The offsets of the partitions 0, 1 and 2.
EndOffsets == <<10, 8, 6>>
\* Mutant: the group commits the offset after the end of the log.
CommittedPastEnd(recover) == IF recover THEN Each(EndOffsets, LAMBDA o : o + 1) ELSE <<3, 3, 0>>

CommittedOffsets(recover) == IF recover THEN EndOffsets ELSE <<3, 3, 0>>

ModeledPartition(recover, p) ==
  CASE p.partition < 3 -> LagPartition(p.partition, EndOffsets[p.partition + 1],
                                       CommittedOffsets(recover)[p.partition + 1])
    [] p.partition >= 3 /\ recover -> [p EXCEPT !.committedOffset = p.endOffset, !.lag = 0]
    [] OTHER -> p

buildConsumerLagExperiment(state, experimentId, startedAt) ==
  LET recover == experimentId = "recover-lag"
      partitionIds == Each(state.partitions, LAMBDA p : p.id)
  IN  Result([state EXCEPT
                !.samples = InOrderOfTime(upsertAll(@, Samples(recover, startedAt))),
                !.partitions = Each(@, LAMBDA p : ModeledPartition(recover, p)),
                !.consumerCount = IF recover THEN 3 ELSE 1,
                !.drainEstimateMs = IF recover THEN 0 ELSE 9000],
             experimentId, startedAt,
             IF recover
             THEN <<step("scale", "capacity.increased",
                         <<"lag-sample-1", "consumer-2", "consumer-3">> \o partitionIds, 100),
                    step("recover", "lag.decreased", <<"lag-sample-2", "consumer-group">> \o partitionIds, 5000)>>
             ELSE <<step("build", "lag.increased", <<"lag-sample-0", "consumer-group">> \o partitionIds, 5000)>>)
=============================================================================
