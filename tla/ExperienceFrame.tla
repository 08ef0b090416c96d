---------------------------- MODULE ExperienceFrame ----------------------------
(***************************************************************************)
(* What the client makes of a scenario's state: a frame with a causal      *)
(* graph, tables of evidence and facts, and the focus that links an event, *)
(* a row and a node (apps/web/lib/client/scenario-experience: helpers.ts,  *)
(* definition-helpers.ts, graphs.ts). Texts, labels, columns, emphasis and *)
(* provenance are left out; the cells of a row are those of the record it  *)
(* is made from.                                                           *)
(***************************************************************************)
EXTENDS ScenarioGraphs

\* entityFocus(), messageFocus()
entityFocus(id, graphEntityId) == [kind |-> "entity", id |-> id, graphEntityId |-> graphEntityId, partition |-> Null]
messageFocus(id, partition) == [kind |-> "message", id |-> id, graphEntityId |-> Null, partition |-> partition]

\* A record is a message if the run still has one of that name.
recordFocus(messageIds, id, partition, graphEntityId) ==
  IF id \in messageIds THEN messageFocus(id, partition) ELSE entityFocus(id, graphEntityId)

row(id, focus) == [id |-> id, focus |-> focus]

\* A table with a row for each of some records.
tableOf(records, Row(_)) == [i \in DOMAIN records |-> Row(records[i])]
entityTable(records, node) == tableOf(records, LAMBDA r : row(r.id, entityFocus(r.id, node)))

\* latestWindow(): the last eight.
latestWindow(items) == SubSeq(items, Len(items) - (IF Len(items) < 8 THEN Len(items) ELSE 8) + 1, Len(items))

find(items, Test(_)) == LET found == SelectSeq(items, Test) IN IF found = <<>> THEN Null ELSE found[1]
fromLast(items, n) == IF Len(items) < n THEN Null ELSE items[Len(items) - n + 1]
latestOf(items) == fromLast(items, 1)
count(items, Test(_)) == Len(SelectSeq(items, Test))
sum(items, Amount(_)) == FoldLeft(LAMBDA total, item : total + Amount(item), 0, items)

\* A field of what may be undefined.
orElse(value, default) == IF value = Null THEN default ELSE value
idsOf(records) == {r.id : r \in {x \in records : x # Null}}

\* ownersByPartition(), and the owner it has for a partition: the last to claim it.
ownerOf(assignments, partition) ==
  LET claims == SelectSeq(assignments, LAMBDA a : partition \in a.partitions)
  IN  IF claims = <<>> THEN Null ELSE Last(claims).consumerId

-----------------------------------------------------------------------------

\* What a scenario passes to buildScenarioGraph(); metrics and states are by node.
GraphOptions(active, metrics) ==
  [active |-> active, inactiveEdgeIds |-> {}, metrics |-> metrics, states |-> <<>>]

\* Options that name nothing in the graph are ignored.
buildScenarioGraph(scenarioId, partitionCount, options) ==
  LET nodeIds == GraphNodeIds(scenarioId, partitionCount)
      edgeIds == GraphEdgeIds(scenarioId, partitionCount)
      given == options.states
  IN  [nodeIds |-> nodeIds, edgeIds |-> edgeIds, options |-> options,
       states |-> [id \in nodeIds |-> IF id \in DOMAIN given THEN given[id]
                                      ELSE IF options.active THEN "active" ELSE "idle"],
       activeEdges |-> IF options.active THEN edgeIds \ options.inactiveEdgeIds ELSE {}]

\* entityDetailsFromGraph() with the facts and targets of the lens: what may
\* be selected, and the node each thing points to.
entityDetails(nodeIds, tables) ==
  LET rows == UNION {Range(tables[t]) : t \in DOMAIN tables}
      entities == {r.focus : r \in {x \in rows : x.focus.kind = "entity"}}
  IN  [id \in nodeIds \union {f.id : f \in entities} |->
         IF id \in nodeIds THEN Null
         ELSE LET targets == {f.graphEntityId : f \in {g \in entities : g.id = id}} \ {Null}
              IN  IF targets = {} THEN Null ELSE CHOOSE t \in targets : TRUE]

\* createFrame(): told are the entities the narrative says what changed of,
\* none while there is nothing to report.
createFrame(graph, tables, facts, told, before, after) ==
  [graph |-> graph, tables |-> tables, facts |-> facts, told |-> told, before |-> before, after |-> after,
   entityDetails |-> entityDetails(graph.nodeIds, tables)]

\* What most frames say after an experiment.
whenCompleted(state, facts) == IF state.experiment.status = "completed" THEN facts ELSE <<>>
isExperiment(state, experimentId) == state.experiment.experimentId = experimentId

-----------------------------------------------------------------------------

\* evidenceFocusForRuntimeEvent(), for the event of a transition that is selected.
evidenceFocus(transition, details) ==
  LET known == SelectSeq(transition.entityIds, LAMBDA id : id \in DOMAIN details)
  IN  CASE known # <<>> -> entityFocus(known[1], details[known[1]])
        [] known = <<>> /\ transition.messageId # Null -> messageFocus(transition.messageId, transition.partition)
        [] OTHER -> entityFocus(transition.entityIds[1], Null)

\* relatedGraphFocus(): the node that lights up.
relatedGraphFocus(focus, nodeIds) ==
  CASE focus.kind = "entity" ->
         IF focus.graphEntityId \in nodeIds THEN entityFocus(focus.graphEntityId, Null) ELSE focus
    [] focus.kind = "message" /\ focus.partition # Null /\ PartitionNode(focus.partition) \in nodeIds ->
         entityFocus(PartitionNode(focus.partition), Null)
    [] OTHER -> IF focus.id \in nodeIds THEN entityFocus(focus.id, Null) ELSE focus
=============================================================================
