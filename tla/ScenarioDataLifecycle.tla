------------------------- MODULE ScenarioDataLifecycle -------------------------
(***************************************************************************)
(* The experiments about replay, compaction and retention                  *)
(* (scenario-experiments/data-lifecycle.ts).                               *)
(***************************************************************************)
EXTENDS ScenarioShared

(* event-replay-sourcing *)

replayEvent(offset, eventName, delta) ==
  [id |-> Numbered("event", offset), offset |-> offset, aggregateId |-> "cart-1", eventName |-> eventName,
   delta |-> delta]

Projected(projection, event) ==
  LET old == IF event.aggregateId \in DOMAIN projection THEN projection[event.aggregateId] ELSE 0
  IN  [a \in DOMAIN projection \union {event.aggregateId} |->
         IF a = event.aggregateId THEN old + event.delta ELSE projection[a]]

projectReplayLog(log) == InTurn(<<>>, log, Projected)

\* Mutant: every batch of events starts at offset 0.
AppendedFromZero(length) ==
  <<replayEvent(0, "ItemAdded", 1), replayEvent(1, "ItemAdded", 1), replayEvent(2, "ItemRemoved", -1)>>

AppendedEvents(length) ==
  <<replayEvent(length, "ItemAdded", 1), replayEvent(length + 1, "ItemAdded", 1),
    replayEvent(length + 2, "ItemRemoved", -1)>>

AppendSteps(length) ==
  [i \in 1..3 |-> step(Numbered("append", length + i - 1), "event.produced",
                       <<Numbered("event", length + i - 1)>>, 100)]

RebuildSteps(log) ==
  <<step("clear", "projection.cleared", <<"cart-projection">>, 100),
    step("reset", "cursor.reset", <<"replay-cursor">>, 100)>>
  \o Each(log, LAMBDA event :
            About(step(Numbered("replay", event.offset), "event.replayed", <<event.id>>, 100),
                  Null, 0, event.offset))

buildEventReplayExperiment(state, experimentId, startedAt) ==
  LET rebuild == experimentId = "rebuild-projection"
      log == IF rebuild THEN state.log ELSE state.log \o AppendedEvents(Len(state.log))
  IN  Result([state EXCEPT
                !.log = log,
                !.cursor = IF log = <<>> THEN Null ELSE Last(log).offset,
                !.projection = projectReplayLog(log),
                !.rebuildInProgress = FALSE,
                !.producedCount = IF rebuild THEN @ ELSE @ + 3],
             experimentId, startedAt,
             IF rebuild THEN RebuildSteps(state.log) ELSE AppendSteps(Len(state.log)))

-----------------------------------------------------------------------------
(* log-compaction-tombstones *)

compactedRecord(id, offset, key, value) ==
  [id |-> id, offset |-> offset, key |-> key, value |-> value, tombstone |-> value = Null,
   removedAtStage |-> Null]

AppendedLog ==
  <<compactedRecord("record-a1", 0, "A", "A1"), compactedRecord("record-b1", 1, "B", "B1"),
    compactedRecord("record-a2", 2, "A", "A2"), compactedRecord("record-b-tombstone", 3, "B", Null)>>

KeyHistory ==
  <<"record-a1", "record-b1", "record-a2", "record-b-tombstone", "materialized-a", "materialized-b">>

CompactionSteps(state, experimentId) ==
  CASE experimentId = "compacted-key-series" -> <<step("append", "log.appended", KeyHistory, 100)>>
    [] experimentId = "run-compaction" ->
         (IF state.rawLog = <<>> THEN <<step("materialize-log-history", "log.appended", KeyHistory, 100)>>
          ELSE <<>>)
         \o <<step("compact", "log.compacted", <<"cleaner-compaction">> \o KeyHistory, 5000)>>
    [] OTHER -> <<step("cleanup", "tombstone.expired",
                       <<"cleaner-tombstone", "record-b-tombstone", "materialized-b">>, 60000)>>

\* A pass of the cleaner: it marks the records of some offsets.
CleanerPass(id, stage, removedOffsets, atVirtualMs) ==
  [id |-> id, stage |-> stage, removedOffsets |-> removedOffsets, atVirtualMs |-> atVirtualMs]

PassOf(compact, at) ==
  IF compact THEN CleanerPass("cleaner-compaction", "compaction", {0, 1}, at)
  ELSE CleanerPass("cleaner-tombstone", "tombstone_cleanup", {3}, at)

Cleaned(log, pass) ==
  Each(log, LAMBDA record : IF record.offset \in pass.removedOffsets
                            THEN [record EXCEPT !.removedAtStage = pass.stage] ELSE record)

MaterializedA == [id |-> "materialized-a", key |-> "A", value |-> "A2", sourceOffset |-> 2]
MaterializedB == [id |-> "materialized-b", key |-> "B", value |-> Null, sourceOffset |-> 3]

buildLogCompactionExperiment(state, experimentId, startedAt) ==
  LET append == experimentId = "compacted-key-series"
      compact == experimentId = "run-compaction"
      steps == CompactionSteps(state, experimentId)
      pass == PassOf(compact, startedAt + Elapsed(steps))
      sourceLog == IF state.rawLog = <<>> THEN AppendedLog ELSE state.rawLog
  IN  Result([state EXCEPT
                !.rawLog = IF append THEN AppendedLog ELSE Cleaned(sourceLog, pass),
                !.materialized = IF append \/ compact THEN <<MaterializedA, MaterializedB>>
                                 ELSE <<MaterializedA>>,
                !.cleanerPasses = IF append THEN @ ELSE upsertById(@, pass)],
             experimentId, startedAt, steps)

-----------------------------------------------------------------------------
(* retention-data-loss *)

RetentionRecord(offset) ==
  [id |-> Numbered("retention-record", offset), offset |-> offset, createdAtVirtualMs |-> offset * 100,
   expired |-> FALSE]

RetentionRecords == [i \in 1..5 |-> RetentionRecord(i - 1)]
RetentionIds == Each(RetentionRecords, LAMBDA record : record.id)

RetentionSteps(state, experimentId) ==
  CASE experimentId = "retention-window" ->
         <<step("append", "log.appended", <<"retention-records">> \o RetentionIds, 500)>>
    [] experimentId = "advance-retention" ->
         (IF state.records = <<>>
          THEN <<step("materialize-retention-window", "log.appended", <<"retention-records">> \o RetentionIds, 500)>>
          ELSE <<>>)
         \o <<step("advance", "virtual_time.advanced", <<"retention-clock">> \o RetentionIds, 59550),
              step("expire", "retention.expired", <<"log-start-offset">> \o RetentionIds, 100),
              step("replay", "offset.out_of_range", <<"consumer-group">> \o RetentionIds, 100)>>
    [] OTHER -> <<step("recover", "offset.recovered", <<"consumer-group">> \o RetentionIds, 100)>>

\* The offset of the first record that is left, or the one after the last.
LogStart(records) ==
  LET left == {i \in DOMAIN records : ~records[i].expired}
  IN  IF left = {} THEN Last(records).offset + 1 ELSE records[Min(left)].offset

OffsetOutOfRange(requestedOffset) == [code |-> "offset_out_of_range", requestedOffset |-> requestedOffset]

\* The consumer has read one record when the window is first filled.
FilledWindow(state) ==
  IF state.records = <<>> THEN [state EXCEPT !.records = RetentionRecords, !.committedOffset = 1] ELSE state

AdvanceRetention(filled, completedAt) ==
  LET cutoff == Max({0, completedAt - filled.retentionMs})
      records == Each(filled.records, LAMBDA r : [r EXCEPT !.expired = r.createdAtVirtualMs < cutoff])
      error == OffsetOutOfRange(filled.committedOffset)
  IN  [filled EXCEPT !.records = records, !.cutoffVirtualMs = cutoff, !.logStartOffset = LogStart(records),
                     !.error = error, !.lastOffsetOutOfRange = error]

buildRetentionExperiment(state, experimentId, startedAt) ==
  LET steps == RetentionSteps(state, experimentId)
      filled == FilledWindow(state)
  IN  Result(CASE experimentId = "retention-window" ->
                    [filled EXCEPT !.committedOffset = 1, !.error = Null, !.lastOffsetOutOfRange = Null]
               [] experimentId = "advance-retention" -> AdvanceRetention(filled, startedAt + Elapsed(steps))
               [] OTHER -> [filled EXCEPT !.committedOffset = filled.logStartOffset, !.error = Null],
             experimentId, startedAt, steps)
=============================================================================
