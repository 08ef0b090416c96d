---------------------------- MODULE ExperienceHistory ----------------------------
(***************************************************************************)
(* The frames of the scenarios about the history of a topic: replay,       *)
(* compaction and retention (scenario-experience/scenarios/history).       *)
(***************************************************************************)
EXTENDS ExperienceFrame

(* event-replay-sourcing *)

appliedCount(s) == IF s.cursor = Null THEN 0 ELSE count(s.log, LAMBDA e : e.offset <= s.cursor)

ReplayFacts(s) ==
  "replay-produced-count" :> s.producedCount @@ "replay-log-count" :> Len(s.log)
  @@ "replay-cursor-value" :> s.cursor @@ "replay-applied-count" :> appliedCount(s)
  @@ "replay-status" :> (IF s.rebuildInProgress THEN "In progress" ELSE "Stopped")

ReplaySourceTable(s, messageIds) ==
  tableOf(latestWindow(s.log), LAMBDA e : row(e.id, recordFocus(messageIds, e.id, Null, "replay-cursor")))

ReplayProjectionTable(s) ==
  tableOf(SetToSeq(DOMAIN s.projection),
          LAMBDA aggregateId : row("projection-" \o aggregateId, entityFocus("cart-projection", "projection-store")))

projectReplay(s, n, messageIds) ==
  LET facts == ReplayFacts(s)
      graph == buildScenarioGraph(s.scenarioId, n,
                 [GraphOptions(s.log # <<>>,
                    "replay-cursor" :> s.cursor @@ "projection-store" :> Cardinality(DOMAIN s.projection))
                  EXCEPT !.inactiveEdgeIds = IF s.cursor = Null THEN {"cursor-projection", "projection-group"} ELSE {}])
  IN  createFrame(graph,
        "replay-source-log" :> ReplaySourceTable(s, messageIds)
        @@ "replay-projection-state" :> ReplayProjectionTable(s), facts,
        IF s.log = <<>> THEN {} ELSE {"cart-projection"},
        "replay-before-produced" :> s.producedCount @@ "replay-before-projection" :> 0,
        IF s.cursor = Null THEN <<>> ELSE [f \in {"replay-produced-count", "replay-applied-count"} |-> facts[f]])

-----------------------------------------------------------------------------
(* log-compaction-tombstones *)

removedAt(s, stage) == count(s.rawLog, LAMBDA e : e.removedAtStage = stage)
activeTombstones(s) == count(s.rawLog, LAMBDA e : e.tombstone /\ e.removedAtStage = Null)

CompactionFacts(s) ==
  "compaction-raw-count" :> Len(s.rawLog) @@ "compaction-state-count" :> Len(s.materialized)
  @@ "compaction-removed" :> removedAt(s, "compaction") @@ "compaction-tombstones" :> activeTombstones(s)
  @@ "compaction-cleaned-tombstones" :> removedAt(s, "tombstone_cleanup")

RawLogTable(s, messageIds) ==
  tableOf(latestWindow(s.rawLog),
          LAMBDA e : row(e.id, recordFocus(messageIds, e.id, Null, IF e.tombstone THEN "tombstone-marker" ELSE "topic")))

CleanerTable(s) ==
  tableOf(s.cleanerPasses,
          LAMBDA pass : row(pass.id, entityFocus(pass.id, IF pass.stage = "compaction" THEN "compacted-state-store"
                                                          ELSE "tombstone-marker")))

CompactionGraph(s, n) ==
  buildScenarioGraph(s.scenarioId, n, GraphOptions(s.rawLog # <<>>,
    "compacted-state-store" :> Len(s.materialized) @@ "tombstone-marker" :> activeTombstones(s)))

projectCompaction(s, n, messageIds) ==
  LET latestPass == latestOf(s.cleanerPasses)
  IN  createFrame(CompactionGraph(s, n),
        "compaction-raw-log" :> RawLogTable(s, messageIds)
        @@ "compaction-materialized-state" :> entityTable(s.materialized, "compacted-state-store")
        @@ "compaction-cleaner-passes" :> CleanerTable(s),
        CompactionFacts(s), IF latestPass = Null THEN {e.id : e \in Range(s.rawLog)} ELSE {latestPass.id},
        "before-cleaner" :> 0, IF latestPass = Null THEN <<>> ELSE CompactionFacts(s))

-----------------------------------------------------------------------------
(* retention-data-loss *)

expiredRecords(s) == SelectSeq(s.records, LAMBDA r : r.expired)

RetentionFacts(s) ==
  "retention-duration" :> s.retentionMs @@ "retention-log-start" :> s.logStartOffset
  @@ "retention-committed" :> s.committedOffset @@ "retention-expired" :> Len(expiredRecords(s))
  @@ "retention-error" :> (IF s.error = Null THEN "Available" ELSE s.error.code)

RetentionTable(s, messageIds) ==
  tableOf(latestWindow(s.records),
          LAMBDA r : row(r.id, recordFocus(messageIds, r.id, Null,
                                           IF r.expired THEN "expired-boundary" ELSE "retention-window")))

\* The choices an error leaves, which stay once it is recovered from.
RecoveryTable(s) ==
  IF orElse(s.error, s.lastOffsetOutOfRange) = Null THEN <<>>
  ELSE tableOf(<<"earliest", "latest", "restore">>,
               LAMBDA option : row("recovery-" \o option, entityFocus("recovery-" \o option, "expired-boundary")))

RetentionGraph(s, n) ==
  buildScenarioGraph(s.scenarioId, n,
    [GraphOptions(s.records # <<>>,
       "retention-window" :> s.retentionMs @@ "expired-boundary" :> s.logStartOffset)
     EXCEPT !.states = "expired-boundary" :> (IF s.error = Null THEN "active" ELSE "failed")])

RetentionBeforeFacts(s) ==
  LET recovers == isExperiment(s, "recover-retention")
      firstExpired == find(s.records, LAMBDA r : r.expired)
      requested == IF s.lastOffsetOutOfRange # Null THEN s.lastOffsetOutOfRange.requestedOffset
                   ELSE IF firstExpired # Null THEN firstExpired.offset ELSE s.committedOffset
  IN  "retention-before-start" :> (IF recovers THEN s.logStartOffset ELSE 0)
      @@ "retention-before-committed" :> (IF recovers THEN requested ELSE s.committedOffset)
      @@ "retention-before-error" :> (IF recovers THEN "offset_out_of_range" ELSE "Available")

\* What the narrative reports: the committed progress that recovered, the log
\* start that moved, or the records.
RetentionTold(s) ==
  IF isExperiment(s, "recover-retention") THEN {"consumer-group"}
  ELSE IF s.error # Null THEN {"log-start-offset"}
  ELSE idsOf(Range(s.records))

projectRetention(s, n, messageIds) ==
  createFrame(RetentionGraph(s, n),
    "retention-record-window" :> RetentionTable(s, messageIds) @@ "retention-recovery-options" :> RecoveryTable(s),
    RetentionFacts(s), RetentionTold(s), RetentionBeforeFacts(s), whenCompleted(s, RetentionFacts(s)))
=============================================================================
