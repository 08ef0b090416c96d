------------------------- MODULE RunRegistry_proofs -------------------------
(***************************************************************************)
(* Proofs about RunRegistry, for any runs and sessions.                    *)
(*                                                                         *)
(* That the maps agree needs only that a run nobody has asked for is in    *)
(* neither. The other properties hold when the broker refuses to delete a  *)
(* topic twice (SlowDeletion = FALSE; registry_orphan shows that they do   *)
(* not hold otherwise). Their strengthening is about the broker:           *)
(* DroppedIsDeleted, a run that its session no longer has was deleted      *)
(* there. So the cleanup that succeeds is one of a run its session still   *)
(* has, and what the continuations of reset() and createRun() drop is that *)
(* run and not a newer one.                                                *)
(***************************************************************************)
EXTENDS RunRegistry, TLAPS

(* A run that no createRun() has registered. *)
Fresh ==
  \A r \in Runs : createPc[r] = "idle" =>
    /\ runSessions[r] = NoSession
    /\ status[r] = "new"
    /\ creator[r] = NoSession
    /\ cleanupPc[r] = "none"
    /\ topic[r] = "absent"

(* The run of a session was asked for by that session. *)
OwnerIsCreator ==
  \A s \in Sessions, r \in Runs : activeRuns[s] = r => creator[r] = s /\ createPc[r] # "idle"

CreatorIsKnown ==
  \A r \in Runs : createPc[r] # "idle" => creator[r] \in Sessions

AInv == TypeOK /\ RegistryAgrees /\ Fresh /\ OwnerIsCreator /\ CreatorIsKnown

(* The registry is consistent at first: it is empty. *)
LEMMA InitAInv == Init => AInv
<1> SUFFICES ASSUME Init PROVE AInv
  OBVIOUS
<1> QED
  BY NoOneAssumption DEF Init, AInv, TypeOK, RegistryAgrees, Fresh, OwnerIsCreator, CreatorIsKnown

(* Dropping the runs of some sessions keeps the maps in agreement. *)
LEMMA DeletingAgrees ==
  ASSUME AInv, NEW sessions \in SUBSET Sessions, DeleteSessionRuns(sessions)
  PROVE  /\ activeRuns' \in [Sessions -> Runs \union {NoRun}]
         /\ runSessions' \in [Runs -> Sessions \union {NoSession}]
         /\ RegistryAgrees'
         /\ \A s \in Sessions : activeRuns'[s] \in {activeRuns[s], NoRun}
         /\ \A r \in Runs : runSessions'[r] \in {runSessions[r], NoSession}
<1> USE NoOneAssumption DEF AInv, TypeOK, DeleteSessionRuns
<1>1. /\ activeRuns' \in [Sessions -> Runs \union {NoRun}]
      /\ runSessions' \in [Runs -> Sessions \union {NoSession}]
  OBVIOUS
<1>2. ASSUME NEW s \in Sessions, NEW r \in Runs
      PROVE  activeRuns'[s] = r <=> runSessions'[r] = s
  <2>1. activeRuns[s] = r <=> runSessions[r] = s
    BY DEF RegistryAgrees
  <2>2. \A t \in Sessions : activeRuns[t] = r <=> runSessions[r] = t
    BY DEF RegistryAgrees
  <2>3. CASE s \in sessions
    BY <2>1, <2>2, <2>3
  <2>4. CASE s \notin sessions
    BY <2>1, <2>2, <2>4
  <2> QED BY <2>3, <2>4
<1> QED BY <1>1, <1>2 DEF RegistryAgrees

(* setSessionRun() of a run that is in neither map, after deleteSessionRun(). *)
LEMMA RegisteringAgrees ==
  ASSUME AInv, NEW s \in Sessions, NEW r \in Runs, createPc[r] = "idle", SetSessionRun(s, r)
  PROVE  RegistryAgrees'
<1> USE NoOneAssumption DEF AInv, TypeOK, SetSessionRun
<1>1. runSessions[r] = NoSession
  BY DEF Fresh
<1>2. ASSUME NEW t \in Sessions, NEW q \in Runs
      PROVE  activeRuns'[t] = q <=> runSessions'[q] = t
  <2>1. \A u \in Sessions, p \in Runs : activeRuns[u] = p <=> runSessions[p] = u
    BY DEF RegistryAgrees
  <2>2. CASE q = r
    BY <1>1, <2>1, <2>2
  <2>3. CASE q # r /\ t = s
    BY <2>1, <2>3
  <2>4. CASE q # r /\ t # s
    BY <2>1, <2>4
  <2> QED BY <2>2, <2>3, <2>4
<1> QED BY <1>2 DEF RegistryAgrees

(* Every step keeps the types and the agreement of the maps. *)
LEMMA StepAInv == AInv /\ [Next]_vars => AInv'
<1> SUFFICES ASSUME AInv, [Next]_vars PROVE AInv'
  OBVIOUS
<1> USE NoOneAssumption DEF AInv
<1>1. ASSUME NEW s \in Sessions, NEW r \in Runs, CreateRun(s, r) PROVE AInv'
  <2>1. TypeOK'
    BY <1>1 DEF TypeOK, CreateRun, SetSessionRun, shutdownVars
  <2>2. RegistryAgrees'
    BY <1>1, RegisteringAgrees DEF CreateRun
  <2>3. Fresh' /\ CreatorIsKnown'
    BY <1>1 DEF TypeOK, Fresh, CreatorIsKnown, CreateRun, SetSessionRun
  <2>4. OwnerIsCreator'
    BY <1>1 DEF TypeOK, OwnerIsCreator, CreateRun, SetSessionRun
  <2> QED BY <2>1, <2>2, <2>3, <2>4
<1> DEFINE NoneIsFresh ==
             /\ UNCHANGED creator
             /\ \A r \in Runs : createPc'[r] = "idle" <=> createPc[r] = "idle"
             /\ \A r \in Runs : createPc[r] = "idle" =>
                  /\ status'[r] = status[r]
                  /\ cleanupPc'[r] = cleanupPc[r]
                  /\ topic'[r] = topic[r]
<1>2. ASSUME NEW sessions \in SUBSET Sessions, DeleteSessionRuns(sessions), NoneIsFresh
      PROVE  RegistryAgrees' /\ Fresh' /\ OwnerIsCreator' /\ CreatorIsKnown'
  BY <1>2, DeletingAgrees DEF TypeOK, Fresh, OwnerIsCreator, CreatorIsKnown
<1>3. ASSUME UNCHANGED registryVars, NoneIsFresh
      PROVE  RegistryAgrees' /\ Fresh' /\ OwnerIsCreator' /\ CreatorIsKnown'
  BY <1>3 DEF registryVars, RegistryAgrees, Fresh, OwnerIsCreator, CreatorIsKnown
<1> HIDE DEF NoneIsFresh
<1>4. \A r \in Active \intersect Runs : createPc[r] # "idle"
  BY DEF Active, OwnerIsCreator
<1>5. \A r \in Runs : cleanupPc[r] # "none" => createPc[r] # "idle"
  BY DEF Fresh
<1>6. ASSUME NEW s \in Sessions, RefuseRun(s) PROVE AInv'
  <2>1. NoneIsFresh
    BY <1>6 DEF RefuseRun, runVars, NoneIsFresh
  <2>2. TypeOK'
    BY <1>6, DeletingAgrees DEF TypeOK, RefuseRun, runVars, shutdownVars
  <2> QED BY <1>2, <1>6, <2>1, <2>2 DEF RefuseRun
<1>7. ASSUME NEW r \in Runs, RunCreated(r) \/ CreateFails(r) PROVE AInv'
  <2>1. NoneIsFresh
    BY <1>7 DEF TypeOK, RunCreated, CreateFails, BeginCleanup, NoneIsFresh
  <2>2. TypeOK'
    BY <1>7 DEF TypeOK, RunCreated, CreateFails, BeginCleanup, registryVars, shutdownVars
  <2> QED BY <1>3, <1>7, <2>1, <2>2 DEF RunCreated, CreateFails
<1>8. ASSUME NEW r \in Runs, Reset(r) \/ MarkCleaning(r) PROVE AInv'
  <2>1. createPc[r] # "idle"
    BY <1>4, <1>5, <1>8 DEF Reset, MarkCleaning
  <2>2. NoneIsFresh
    BY <1>8, <2>1 DEF TypeOK, Reset, MarkCleaning, BeginCleanup, runVars, NoneIsFresh
  <2>3. TypeOK'
    BY <1>8 DEF TypeOK, Reset, MarkCleaning, BeginCleanup, registryVars, runVars, shutdownVars
  <2> QED BY <1>3, <1>8, <2>2, <2>3 DEF Reset, MarkCleaning
<1>9. ASSUME NEW r \in Runs, CleanupSucceeds(r) PROVE AInv'
  <2>1. createPc[r] # "idle"
    BY <1>5, <1>9 DEF CleanupSucceeds
  <2>2. NoneIsFresh
    BY <1>9, <2>1 DEF TypeOK, CleanupSucceeds, CleanupOver, NoneIsFresh
  <2>3. Waiters(r) \in SUBSET Sessions
    BY DEF Waiters
  <2>4. TypeOK'
    BY <1>9, <2>3, DeletingAgrees DEF TypeOK, CleanupSucceeds, CleanupOver
  <2> QED BY <1>2, <1>9, <2>2, <2>3, <2>4 DEF CleanupSucceeds
<1>10. ASSUME NEW r \in Runs, CleanupFails(r) PROVE AInv'
  <2>1. createPc[r] # "idle"
    BY <1>5, <1>10 DEF CleanupFails
  <2>2. NoneIsFresh
    BY <1>10, <2>1 DEF TypeOK, CleanupFails, CleanupOver, NoneIsFresh
  <2>3. TypeOK'
    BY <1>10 DEF TypeOK, CleanupFails, CleanupOver, registryVars
  <2> QED BY <1>3, <1>10, <2>2, <2>3 DEF CleanupFails
<1>11. ASSUME NEW r \in Runs, ShutdownVisits(r) PROVE AInv'
  <2>1. createPc[r] # "idle"
    BY <1>4, <1>11 DEF ShutdownVisits
  <2>2. NoneIsFresh
    BY <1>11, <2>1 DEF TypeOK, ShutdownVisits, BeginCleanup, runVars, NoneIsFresh
  <2>3. TypeOK'
    BY <1>11 DEF TypeOK, ShutdownVisits, BeginCleanup, registryVars, runVars
  <2> QED BY <1>3, <1>11, <2>2, <2>3 DEF ShutdownVisits
<1>12. ASSUME NEW r \in Runs, TopicCreated(r) \/ TopicGone(r) PROVE AInv'
  <2>1. createPc[r] # "idle"
    BY <1>12 DEF TopicCreated, TopicGone, Fresh
  <2>2. NoneIsFresh
    BY <1>12, <2>1 DEF TypeOK, TopicCreated, TopicGone, runVars, NoneIsFresh
  <2>3. TypeOK'
    BY <1>12 DEF TypeOK, TopicCreated, TopicGone, registryVars, runVars, shutdownVars
  <2> QED BY <1>3, <1>12, <2>2, <2>3 DEF TopicCreated, TopicGone
<1>13. CASE Shutdown
  <2>1. NoneIsFresh
    BY <1>13 DEF Shutdown, runVars, NoneIsFresh
  <2>2. TypeOK'
    BY <1>13 DEF TypeOK, Shutdown, registryVars, runVars
  <2> QED BY <1>3, <1>13, <2>1, <2>2 DEF Shutdown
<1>14. CASE ShutdownEnds
  <2>1. NoneIsFresh
    BY <1>14 DEF ShutdownEnds, runVars, NoneIsFresh
  <2>2. TypeOK'
    BY <1>14, DeletingAgrees DEF TypeOK, ShutdownEnds, runVars
  <2> QED BY <1>2, <1>14, <2>1, <2>2 DEF ShutdownEnds
<1>15. CASE UNCHANGED vars
  <2>1. NoneIsFresh /\ UNCHANGED registryVars
    BY <1>15 DEF vars, runVars, NoneIsFresh
  <2>2. TypeOK'
    BY <1>15 DEF TypeOK, vars, registryVars, runVars, shutdownVars
  <2> QED BY <1>3, <2>1, <2>2
<1> QED
  BY <1>1, <1>6, <1>7, <1>8, <1>9, <1>10, <1>11, <1>12, <1>13, <1>14, <1>15 DEF Next

(* The registry and what it holds have their types, always. *)
THEOREM SpecTypeOK == Spec => []TypeOK
<1>1. AInv => TypeOK
  BY DEF AInv
<1> QED BY InitAInv, StepAInv, <1>1, PTL DEF Spec

(* findRun() finds exactly the runs that sessions own. *)
THEOREM SpecRegistryAgrees == Spec => []RegistryAgrees
<1>1. AInv => RegistryAgrees
  BY DEF AInv
<1> QED BY InitAInv, StepAInv, <1>1, PTL DEF Spec

-----------------------------------------------------------------------------
(* What holds when a topic is deleted once *)

Deleted(r) == topic[r] \in {"deleting", "deleted"}

Owned(r) == activeRuns[creator[r]] = r

RetiredIsDeleted == \A r \in Runs : Retired(r) => Deleted(r)

DroppedIsDeleted ==
  shutdownPc # "over" => \A r \in Runs : createPc[r] # "idle" => Owned(r) \/ Deleted(r)

LiveIsOwned == shutdownPc # "over" => \A r \in Runs : IsLive(r) => Owned(r)

IInv == AInv /\ RetiredIsDeleted /\ DroppedIsDeleted /\ LiveIsOwned

(* At first no run is retired, dropped or live. *)
LEMMA InitIInv == Init => IInv
<1> SUFFICES ASSUME Init PROVE IInv
  OBVIOUS
<1> QED
  BY InitAInv DEF Init, IInv, RetiredIsDeleted, DroppedIsDeleted, LiveIsOwned, Retired, IsLive

(* Only the runs of the sessions are dropped, and a cleanup that succeeds    *)
(* drops the run it has cleaned: its topic could be deleted, so its session  *)
(* still has it.                                                             *)
LEMMA CleanupDropsItsRun ==
  ASSUME IInv, SlowDeletion = FALSE, shutdownPc # "over", NEW r \in Runs, CleanupSucceeds(r)
  PROVE  /\ Owned(r)
         /\ \A q \in Runs \ {r} : createPc[q] # "idle" /\ Owned(q) => Owned(q)'
<1>1. createPc[r] # "idle" /\ topic[r] = "present"
  BY DEF CleanupSucceeds, Deletable, IInv, AInv, Fresh
<1>2. Owned(r)
  BY <1>1 DEF IInv, DroppedIsDeleted, Deleted
<1>3. Waiters(r) \subseteq {creator[r]} /\ Waiters(r) \subseteq Sessions
  BY DEF Waiters
<1>4. ASSUME NEW q \in Runs \ {r}, createPc[q] # "idle", Owned(q) PROVE Owned(q)'
  <2>1. creator[q] \in Sessions /\ creator[q] # creator[r]
    BY <1>2, <1>4 DEF IInv, AInv, CreatorIsKnown, Owned
  <2>2. activeRuns'[creator[q]] = activeRuns[creator[q]] /\ creator' = creator
    BY <1>3, <2>1 DEF CleanupSucceeds, CleanupOver, DeleteSessionRuns
  <2> QED BY <1>4, <2>2 DEF Owned
<1> QED BY <1>2, <1>4

(* The run a new one replaces, or that RefuseRun drops, is a retired one. *)
LEMMA CreateDropsRetired ==
  ASSUME IInv, NEW s \in Sessions, MayCreate(s),
         creator' = creator \/ \E r \in Runs : createPc[r] = "idle" /\ creator' = [creator EXCEPT ![r] = s],
         \A t \in Sessions \ {s} : activeRuns'[t] = activeRuns[t],
         NEW q \in Runs, createPc[q] # "idle", Owned(q), ~Owned(q)'
  PROVE  Retired(q) /\ activeRuns[s] = q
<1>1. creator'[q] = creator[q] /\ creator[q] \in Sessions
  BY DEF IInv, AInv, TypeOK, CreatorIsKnown
<1>2. creator[q] = s
  BY <1>1 DEF Owned
<1> QED BY <1>2, NoOneAssumption DEF MayCreate, Owned

(* A step that leaves the registry, the topics and who is live alone keeps   *)
(* the strengthening; so does one that only takes a run out of life.         *)
LEMMA QuietStep ==
  ASSUME IInv, UNCHANGED <<registryVars, creator>>, shutdownPc' = "over" \/ shutdownPc' = shutdownPc \/ shutdownPc # "over",
         \A q \in Runs : createPc'[q] # "idle" => createPc[q] # "idle",
         \A q \in Runs : Deleted(q) => Deleted(q)',
         \A q \in Runs : Retired(q)' => Retired(q) \/ Deleted(q),
         \A q \in Runs : IsLive(q)' => IsLive(q) \/ Owned(q)
  PROVE  RetiredIsDeleted' /\ DroppedIsDeleted' /\ LiveIsOwned'
<1>1. \A q \in Runs : Owned(q)' <=> Owned(q)
  BY DEF Owned, registryVars
<1>2. shutdownPc' # "over" => shutdownPc # "over"
  OBVIOUS
<1>3. RetiredIsDeleted'
  BY DEF IInv, RetiredIsDeleted
<1>4. DroppedIsDeleted'
  BY <1>1, <1>2 DEF IInv, DroppedIsDeleted
<1>5. LiveIsOwned'
  BY <1>1, <1>2 DEF IInv, LiveIsOwned
<1> QED BY <1>3, <1>4, <1>5

(* Every step keeps the invariant, if a topic is deleted once. *)
LEMMA StepIInv == SlowDeletion = FALSE /\ IInv /\ [Next]_vars => IInv'
<1> SUFFICES ASSUME SlowDeletion = FALSE, IInv, [Next]_vars PROVE IInv'
  OBVIOUS
<1>1. AInv'
  BY StepAInv DEF IInv
<1>2. ASSUME NEW s \in Sessions, NEW r \in Runs, CreateRun(s, r) PROVE IInv'
  <2>1. createPc[r] = "idle" /\ MayCreate(s) /\ activeRuns' = [activeRuns EXCEPT ![s] = r]
    BY <1>2 DEF CreateRun, SetSessionRun
  <2>2. /\ \A q \in Runs \ {r} : createPc'[q] = createPc[q] /\ status'[q] = status[q]
        /\ UNCHANGED <<cleanupStatus, topic, shutdownPc>>
        /\ status'[r] = "starting" /\ creator'[r] = s /\ creator' = [creator EXCEPT ![r] = s]
    BY <1>2 DEF CreateRun, shutdownVars, IInv, AInv, TypeOK
  <2>3. Owned(r)'
    BY <2>1, <2>2 DEF Owned, IInv, AInv, TypeOK
  <2>4. \A q \in Runs : createPc[q] # "idle" /\ Owned(q) /\ ~Owned(q)' => Retired(q)
    BY <2>1, <2>2, CreateDropsRetired DEF IInv, AInv, TypeOK
  <2>5. RetiredIsDeleted'
    BY <2>2 DEF IInv, RetiredIsDeleted, Retired, Incomplete, Deleted
  <2>6. DroppedIsDeleted'
    BY <2>2, <2>3, <2>4 DEF IInv, DroppedIsDeleted, RetiredIsDeleted, Deleted
  <2>7. \A q \in Runs : createPc[q] = "idle" => ~IsLive(q)
    BY DEF IInv, AInv, Fresh, IsLive
  <2>8. LiveIsOwned'
    BY <2>2, <2>3, <2>4, <2>7 DEF IInv, LiveIsOwned, IsLive, Retired
  <2> QED BY <1>1, <2>5, <2>6, <2>8 DEF IInv
<1>3. ASSUME NEW s \in Sessions, RefuseRun(s) PROVE IInv'
  <2>1. MayCreate(s) /\ UNCHANGED <<creator, createPc, status, cleanupStatus, topic, shutdownPc>>
    BY <1>3 DEF RefuseRun, runVars, shutdownVars
  <2>2. \A t \in Sessions \ {s} : activeRuns'[t] = activeRuns[t]
    BY <1>3 DEF RefuseRun, DeleteSessionRuns
  <2>3. \A q \in Runs : createPc[q] # "idle" /\ Owned(q) /\ ~Owned(q)' => Retired(q)
    BY <2>1, <2>2, CreateDropsRetired
  <2>4. RetiredIsDeleted'
    BY <2>1 DEF IInv, RetiredIsDeleted, Retired, Incomplete, Deleted
  <2>5. DroppedIsDeleted'
    BY <2>1, <2>3 DEF IInv, DroppedIsDeleted, RetiredIsDeleted, Deleted
  <2>6. \A q \in Runs : createPc[q] = "idle" => ~IsLive(q)
    BY DEF IInv, AInv, Fresh, IsLive
  <2>7. LiveIsOwned'
    BY <2>1, <2>3, <2>6 DEF IInv, LiveIsOwned, IsLive, Retired
  <2> QED BY <1>1, <2>4, <2>5, <2>7 DEF IInv
<1>4. ASSUME NEW r \in Runs, RunCreated(r) \/ CreateFails(r) PROVE IInv'
  <2>1. UNCHANGED <<registryVars, creator, cleanupStatus, shutdownPc, topic>> /\ createPc[r] # "idle"
    BY <1>4 DEF RunCreated, CreateFails, shutdownVars
  <2>2. \A q \in Runs : (createPc'[q] # "idle" => createPc[q] # "idle") /\ (IsLive(q)' => IsLive(q) \/ Owned(q))
    BY <1>4 DEF RunCreated, CreateFails, IsLive, Owned, IInv, AInv, TypeOK
  <2>3. \A q \in Runs : Retired(q)' => Retired(q)
    BY <1>4, <2>1 DEF RunCreated, CreateFails, Retired, Incomplete, IInv, AInv, TypeOK
  <2> QED BY <1>1, <2>1, <2>2, <2>3, QuietStep DEF IInv, Deleted
<1>5. ASSUME NEW r \in Runs, Reset(r) \/ ShutdownVisits(r) PROVE IInv'
  <2>1. UNCHANGED <<registryVars, creator, createPc, status, cleanupStatus, shutdownPc, topic>>
    BY <1>5 DEF Reset, ShutdownVisits, runVars, shutdownVars
  <2> QED BY <1>1, <2>1, QuietStep DEF IInv, Deleted, Retired, Incomplete, IsLive
<1>6. ASSUME NEW r \in Runs, MarkCleaning(r) PROVE IInv'
  <2>1. UNCHANGED <<registryVars, creator, createPc, shutdownPc, topic>>
    BY <1>6 DEF MarkCleaning, shutdownVars
  <2>2. \A q \in Runs : (Retired(q)' => Retired(q)) /\ (IsLive(q)' => IsLive(q))
    BY <1>6 DEF MarkCleaning, Retired, Incomplete, IsLive, IInv, AInv, TypeOK
  <2> QED BY <1>1, <2>1, <2>2, QuietStep DEF IInv, Deleted
<1>7. ASSUME NEW r \in Runs, CleanupSucceeds(r) PROVE IInv'
  <2>1. /\ UNCHANGED <<creator, shutdownPc>> /\ Deleted(r)'
        /\ \A q \in Runs : createPc'[q] # "idle" <=> createPc[q] # "idle"
        /\ ~IsLive(r)'
    BY <1>7 DEF CleanupSucceeds, CleanupOver, Deleted, IsLive, IInv, AInv, TypeOK
  <2>2. \A q \in Runs \ {r} : UNCHANGED <<status[q], cleanupStatus[q], topic[q]>>
    BY <1>7 DEF CleanupSucceeds, CleanupOver, IInv, AInv, TypeOK
  <2>3. \A q \in Runs \ {r} : /\ Deleted(q)' <=> Deleted(q)
                              /\ Retired(q)' <=> Retired(q)
                              /\ IsLive(q)' <=> IsLive(q)
    BY <2>2 DEF Deleted, Retired, Incomplete, IsLive
  <2>4. RetiredIsDeleted'
    BY <2>1, <2>3 DEF IInv, RetiredIsDeleted
  <2>5. shutdownPc # "over" => \A q \in Runs \ {r} : createPc[q] # "idle" /\ Owned(q) => Owned(q)'
    BY <1>7, CleanupDropsItsRun
  <2>6. DroppedIsDeleted'
    BY <2>1, <2>3, <2>5 DEF IInv, DroppedIsDeleted
  <2>7. \A q \in Runs : createPc[q] = "idle" => ~IsLive(q)
    BY DEF IInv, AInv, Fresh, IsLive
  <2>8. LiveIsOwned'
    BY <2>1, <2>3, <2>5, <2>7 DEF IInv, LiveIsOwned
  <2> QED BY <1>1, <2>4, <2>6, <2>8 DEF IInv
<1>8. ASSUME NEW r \in Runs, CleanupFails(r) PROVE IInv'
  <2>1. UNCHANGED <<registryVars, creator, shutdownPc, topic>>
    BY <1>8 DEF CleanupFails, CleanupOver
  <2>2. \A q \in Runs : createPc'[q] # "idle" => createPc[q] # "idle"
    BY <1>8 DEF CleanupFails, CleanupOver, IInv, AInv, TypeOK
  <2>3. \A q \in Runs : (Retired(q)' => Retired(q)) /\ (IsLive(q)' => IsLive(q))
    BY <1>8 DEF CleanupFails, CleanupOver, Retired, Incomplete, IsLive, IInv, AInv, TypeOK
  <2> QED BY <1>1, <2>1, <2>2, <2>3, QuietStep DEF IInv, Deleted
<1>9. ASSUME NEW r \in Runs, TopicCreated(r) \/ TopicGone(r) PROVE IInv'
  <2>1. UNCHANGED <<registryVars, creator, createPc, status, cleanupStatus, shutdownPc>>
    BY <1>9 DEF TopicCreated, TopicGone, runVars, shutdownVars
  <2>2. \A q \in Runs : Deleted(q) => Deleted(q)'
    BY <1>9 DEF TopicCreated, TopicGone, Deleted, IInv, AInv, TypeOK
  <2> QED BY <1>1, <2>1, <2>2, QuietStep DEF IInv, Retired, Incomplete, IsLive
<1>10. CASE Shutdown
  <2>1. UNCHANGED <<registryVars, creator, createPc, status, cleanupStatus, topic>> /\ shutdownPc # "over"
    BY <1>10 DEF Shutdown, runVars
  <2> QED BY <1>1, <2>1, QuietStep DEF IInv, Deleted, Retired, Incomplete, IsLive
<1>11. CASE ShutdownEnds
  BY <1>1, <1>11 DEF ShutdownEnds, runVars, IInv, RetiredIsDeleted, DroppedIsDeleted, LiveIsOwned,
                     Retired, Incomplete, Deleted
<1>12. CASE UNCHANGED vars
  <2>1. UNCHANGED <<registryVars, creator, createPc, status, cleanupStatus, shutdownPc, topic>>
    BY <1>12 DEF vars, runVars, shutdownVars
  <2> QED BY <1>1, <2>1, QuietStep DEF IInv, Deleted, Retired, Incomplete, IsLive
<1> QED
  BY <1>2, <1>3, <1>4, <1>5, <1>6, <1>7, <1>8, <1>9, <1>10, <1>11, <1>12 DEF Next

(* Whatever overlaps with a createRun(), no second run of its session starts *)
(* or runs while the process is in service.                                  *)
THEOREM SpecOneActiveRun == ASSUME SlowDeletion = FALSE PROVE Spec => []OneActiveRun
<1>1. IInv => OneActiveRun
  BY DEF IInv, LiveIsOwned, OneActiveRun, Owned
<1> QED BY InitIInv, StepIInv, <1>1, PTL DEF Spec

(* A topic nobody is about to delete belongs to a run that its session can   *)
(* still reset: nothing is left on the broker that no operation would find.  *)
THEOREM SpecNoOrphanTopic == ASSUME SlowDeletion = FALSE PROVE Spec => []NoOrphanTopic
<1>1. IInv => NoOrphanTopic
  BY DEF IInv, DroppedIsDeleted, NoOrphanTopic, Owned, Deleted
<1> QED BY InitIInv, StepIInv, <1>1, PTL DEF Spec

(* Who loses a run loses a retired one. *)
LEMMA StepDropsRetired ==
  ASSUME SlowDeletion = FALSE, IInv, [Next]_vars, shutdownPc' # "over",
         NEW s \in Sessions, NEW r \in Runs, activeRuns[s] = r, activeRuns'[s] # r
  PROVE  Retired(r)'
<1>1. creator[r] = s /\ createPc[r] # "idle" /\ Owned(r)
  BY DEF IInv, AInv, OwnerIsCreator, Owned
<1>2. ASSUME NEW t \in Sessions, NEW q \in Runs, CreateRun(t, q) PROVE Retired(r)'
  <2>1. t = s /\ q # r /\ MayCreate(t)
    BY <1>1, <1>2 DEF CreateRun, SetSessionRun, IInv, AInv, TypeOK
  <2>2. Retired(r)
    BY <2>1, NoOneAssumption DEF MayCreate
  <2> QED BY <1>2, <2>1, <2>2 DEF CreateRun, Retired, Incomplete, IInv, AInv, TypeOK
<1>3. ASSUME NEW t \in Sessions, RefuseRun(t) PROVE Retired(r)'
  <2>1. t = s /\ MayCreate(t) /\ UNCHANGED <<status, cleanupStatus>>
    BY <1>3 DEF RefuseRun, DeleteSessionRuns, runVars
  <2> QED BY <2>1, NoOneAssumption DEF MayCreate, Retired, Incomplete
<1>4. ASSUME NEW q \in Runs, CleanupSucceeds(q) PROVE Retired(r)'
  <2>1. shutdownPc # "over"
    BY <1>4 DEF CleanupSucceeds, CleanupOver
  <2>2. CASE q = r
    BY <1>4, <2>2 DEF CleanupSucceeds, CleanupOver, Retired, Incomplete, IInv, AInv, TypeOK
  <2>3. CASE q # r
    <3>1. Owned(r)'
      BY <1>1, <1>4, <2>1, <2>3, CleanupDropsItsRun
    <3>2. creator' = creator
      BY <1>4 DEF CleanupSucceeds, CleanupOver
    <3> QED BY <1>1, <3>1, <3>2 DEF Owned
  <2> QED BY <2>2, <2>3
<1>5. CASE ShutdownEnds
  BY <1>5 DEF ShutdownEnds
<1>6. ASSUME UNCHANGED registryVars PROVE Retired(r)'
  BY <1>6 DEF registryVars
<1>7. ASSUME NEW q \in Runs,
             RunCreated(q) \/ CreateFails(q) \/ Reset(q) \/ MarkCleaning(q) \/ CleanupFails(q)
               \/ ShutdownVisits(q) \/ TopicCreated(q) \/ TopicGone(q)
      PROVE  Retired(r)'
  BY <1>6, <1>7 DEF RunCreated, CreateFails, Reset, MarkCleaning, CleanupFails,
                    ShutdownVisits, TopicCreated, TopicGone
<1>8. CASE Shutdown
  BY <1>6, <1>8 DEF Shutdown
<1>9. CASE UNCHANGED vars
  BY <1>6, <1>9 DEF vars, registryVars
<1> QED
  BY <1>2, <1>3, <1>4, <1>5, <1>7, <1>8, <1>9 DEF Next

(* No operation drops a run that another one has put in the session in the   *)
(* meantime.                                                                 *)
THEOREM SpecDropsRetiredRunsOnly == ASSUME SlowDeletion = FALSE PROVE Spec => DropsRetiredRunsOnly
<1>1. IInv /\ [Next]_vars =>
        [shutdownPc' # "over" =>
           \A s \in Sessions, r \in Runs :
             activeRuns[s] = r /\ activeRuns'[s] # r => Retired(r)']_vars
  BY StepDropsRetired
<1> QED BY InitIInv, StepIInv, <1>1, PTL DEF Spec, DropsRetiredRunsOnly
=============================================================================
