----------------------------- MODULE ExperienceGates -----------------------------
(***************************************************************************)
(* The frames of the scenarios whose records meet a gate before the topic: *)
(* schemas and permissions (scenario-experience/scenarios/gates).          *)
(***************************************************************************)
EXTENDS ExperienceFrame

\* A gate shows how it decided last.
gateState(refused) == IF refused THEN "failed" ELSE "active"

(* schema-evolution-karapace *)

acceptedSchemas(s) == count(s.attempts, LAMBDA a : a.gate = "accepted" /\ a.reachedTopic)
rejectedSchemas(s) == count(s.attempts, LAMBDA a : a.gate = "rejected" /\ ~a.reachedTopic)

SchemaFacts(s) ==
  "schema-active-version" :> s.activeVersion @@ "schema-topic-records" :> s.topicRecordCount
  @@ "schema-accepted" :> acceptedSchemas(s) @@ "schema-rejected" :> rejectedSchemas(s)

SchemaAttemptTable(s) == entityTable(s.attempts, "compatibility-gate")

SchemaDiffTable(s) ==
  FlattenSeq(tableOf(s.attempts, LAMBDA a :
    [i \in DOMAIN a.fieldDiff |->
       row(a.id \o "-field-" \o ToString(i - 1), entityFocus(a.id, "compatibility-gate"))]))

SchemaGraph(s, n) ==
  LET latest == latestOf(s.attempts)
      rejected == latest # Null /\ latest.gate = "rejected"
  IN  buildScenarioGraph(s.scenarioId, n,
        [GraphOptions(latest # Null,
           "schema-registry" :> s.activeVersion @@ "compatibility-gate" :> rejectedSchemas(s)
           @@ "topic" :> s.topicRecordCount)
         EXCEPT !.inactiveEdgeIds = IF rejected THEN {"gate-topic", "topic-group"} ELSE {},
                !.states = "compatibility-gate" :> gateState(rejected)])

projectSchema(s, n) ==
  LET before == s.topicRecordCount - acceptedSchemas(s)
      facts == SchemaFacts(s)
  IN  createFrame(SchemaGraph(s, n),
        "schema-gate-attempts" :> SchemaAttemptTable(s) @@ "schema-field-diff" :> SchemaDiffTable(s), facts,
        idsOf({latestOf(s.attempts)}), "schema-before-topic" :> (IF before < 0 THEN 0 ELSE before),
        IF s.attempts = <<>> THEN <<>>
        ELSE [f \in {"schema-topic-records", "schema-accepted", "schema-rejected"} |-> facts[f]])

-----------------------------------------------------------------------------
(* acl-least-privilege *)

allowedAttempts(s) == count(s.attempts, LAMBDA a : a.decision = "allowed" /\ ~a.terminatedBeforeKafka)
deniedAttempts(s) == count(s.attempts, LAMBDA a : a.decision = "denied" /\ a.terminatedBeforeKafka)

AclFacts(s) ==
  "acl-policy-count" :> Len(s.policies) @@ "acl-allowed" :> allowedAttempts(s)
  @@ "acl-denied" :> deniedAttempts(s) @@ "acl-highlighted-cell" :> s.lastHighlightedCell

\* aclMatrixCells(): the cell of a principal, operation and resource is that of
\* its last policy, or of its first attempt if it has no policy.
aclCell(x) == [principal |-> x.principal, operation |-> x.operation, resource |-> x.resource]
aclMatrixCells(s) ==
  LET policies(cell) == SelectSeq(s.policies, LAMBDA p : aclCell(p) = cell)
      attempts(cell) == SelectSeq(s.attempts, LAMBDA a : aclCell(a) = cell)
      effect(cell) == IF policies(cell) # <<>> THEN Last(policies(cell)).effect
                      ELSE IF attempts(cell)[1].decision = "denied" THEN "missing" ELSE "allow"
  IN  [cell \in {aclCell(x) : x \in Range(s.policies) \union Range(s.attempts)} |-> effect(cell)]

AclTables(s) ==
  "acl-attempts" :> entityTable(s.attempts, "authorization-gate")
  @@ "acl-policy-matrix" :> entityTable(s.policies, "authorization-gate")

AclGraph(s, n) ==
  LET latest == latestOf(s.attempts)
      denied == latest # Null /\ latest.decision = "denied"
  IN  buildScenarioGraph(s.scenarioId, n,
        [GraphOptions(latest # Null,
           "principal-identity" :> (IF latest = Null THEN Null ELSE latest.principal)
           @@ "authorization-gate" :> deniedAttempts(s))
         EXCEPT !.inactiveEdgeIds = IF denied THEN {"gate-producer", "producer-topic", "topic-group"} ELSE {},
                !.states = "authorization-gate" :> gateState(denied)])

projectAcl(s, n) ==
  createFrame(AclGraph(s, n), AclTables(s), AclFacts(s), idsOf({latestOf(s.attempts)}), "acl-before-allowed" :> 0,
    IF s.attempts = <<>> THEN <<>>
    ELSE "acl-allowed" :> allowedAttempts(s) @@ "acl-denied" :> deniedAttempts(s))
  @@ [matrixCells |-> aclMatrixCells(s)]
=============================================================================
