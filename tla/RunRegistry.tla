---------------------------- MODULE RunRegistry ----------------------------
(***************************************************************************)
(* Which run belongs to which session (playground-run-registry.ts), and    *)
(* the operations that create and retire runs: createRun(), reset(),       *)
(* deleteRun() and shutdown() of playground-runtime.ts.                    *)
(*                                                                         *)
(* createRun() is no mutation of RunLifecycle: it awaits the broker while  *)
(* the run is registered already and can be reset. A cleanup is reduced to *)
(* its beginning, the moment it marks the run, and its outcome (RunCleanup *)
(* has the rest); the continuations that await it run one after the other  *)
(* when it settles, with nothing in between.                               *)
(*                                                                         *)
(* The broker is external: it creates a requested topic when it likes, and *)
(* deletes one that exists. A topic whose deletion was accepted and is not *)
(* finished may or may not be accepted for deletion again: SlowDeletion.   *)
(***************************************************************************)
EXTENDS Naturals

CONSTANTS Runs, Sessions, NoRun, NoSession, SlowDeletion

ASSUME SlowDeletionAssumption == SlowDeletion \in BOOLEAN
ASSUME NoOneAssumption == NoRun \notin Runs /\ NoSession \notin Sessions

VARIABLES
  activeRuns,       \* the run of a session
  runSessions,      \* the session of a run
  status, cleanupStatus,
  createPc,         \* createRun() of a run: awaits the broker, awaits its own cleanup, is over
  creator,          \* history: the session that asked for the run
  cleanupPc,        \* the cleanup in progress: "none", "begun" or "marked"
  resetting,        \* the runs whose cleanup a reset() awaits
  shutdownPc,       \* "idle", "iterating" over the runs, or "over"
  iterated,         \* the runs the shutdown has visited; it awaits the cleanup of `visiting`
  visiting,
  topic

registryVars == <<activeRuns, runSessions>>
runVars == <<status, cleanupStatus>>
shutdownVars == <<shutdownPc, iterated, visiting>>
vars == <<registryVars, runVars, createPc, creator, cleanupPc, resetting, shutdownVars, topic>>

TypeOK ==
  /\ activeRuns \in [Sessions -> Runs \union {NoRun}]
  /\ runSessions \in [Runs -> Sessions \union {NoSession}]
  /\ status \in [Runs -> {"new", "starting", "running", "error", "cleaning", "stopped"}]
  /\ cleanupStatus \in [Runs -> {"not_requested", "requested", "failed"}]
  /\ createPc \in [Runs -> {"idle", "creating", "cleaning", "over"}]
  /\ creator \in [Runs -> Sessions \union {NoSession}]
  /\ cleanupPc \in [Runs -> {"none", "begun", "marked"}]
  /\ resetting \subseteq Runs
  /\ shutdownPc \in {"idle", "iterating", "over"}
  /\ iterated \subseteq Runs
  /\ visiting \in Runs \union {NoRun}
  /\ topic \in [Runs -> {"absent", "present", "deleting", "deleted"}]

Init ==
  /\ activeRuns = [s \in Sessions |-> NoRun]
  /\ runSessions = [r \in Runs |-> NoSession]
  /\ status = [r \in Runs |-> "new"]
  /\ cleanupStatus = [r \in Runs |-> "not_requested"]
  /\ createPc = [r \in Runs |-> "idle"]
  /\ creator = [r \in Runs |-> NoSession]
  /\ cleanupPc = [r \in Runs |-> "none"]
  /\ resetting = {}
  /\ shutdownPc = "idle"
  /\ iterated = {}
  /\ visiting = NoRun
  /\ topic = [r \in Runs |-> "absent"]

-----------------------------------------------------------------------------
(* The registry *)

Incomplete(r) == cleanupStatus[r] = "failed"

\* Mutant: an incomplete cleanup is not looked at.
StoppedIsRetired(r) == status[r] = "stopped"

Retired(r) == status[r] = "stopped" /\ ~Incomplete(r)

Active == {activeRuns[s] : s \in Sessions} \ {NoRun}

\* Mutant: one of the maps is forgotten.
DeleteFromOneMap(sessions) ==
  /\ activeRuns' = [s \in Sessions |-> IF s \in sessions THEN NoRun ELSE activeRuns[s]]
  /\ UNCHANGED runSessions

\* deleteSessionRun() for each of the sessions: whatever run they have.
DeleteSessionRuns(sessions) ==
  /\ activeRuns' = [s \in Sessions |-> IF s \in sessions THEN NoRun ELSE activeRuns[s]]
  /\ runSessions' = [r \in Runs |-> IF r \in {activeRuns[s] : s \in sessions}
                                    THEN NoSession ELSE runSessions[r]]

\* deleteSessionRun() of a retired run, if any, then setSessionRun().
SetSessionRun(s, r) ==
  /\ activeRuns' = [activeRuns EXCEPT ![s] = r]
  /\ runSessions' = [q \in Runs |-> IF q = r THEN s
                                    ELSE IF q = activeRuns[s] THEN NoSession ELSE runSessions[q]]

-----------------------------------------------------------------------------
(* createRun() *)

\* A cleanup in progress is joined.
BeginCleanup(r) ==
  cleanupPc' = [cleanupPc EXCEPT ![r] = IF @ = "none" THEN "begun" ELSE @]

\* Mutant: only a running run is in the way.
MayCreateBesideStarting(s) ==
  activeRuns[s] \in {NoRun} \union {r \in Runs : status[r] # "running"}

MayCreate(s) == activeRuns[s] \in {NoRun} \union {r \in Runs : Retired(r)}

CreateRun(s, r) ==
  /\ createPc[r] = "idle"
  /\ MayCreate(s)
  /\ SetSessionRun(s, r)
  /\ status' = [status EXCEPT ![r] = "starting"]
  /\ createPc' = [createPc EXCEPT ![r] = "creating"]
  /\ creator' = [creator EXCEPT ![r] = s]
  /\ UNCHANGED <<cleanupStatus, cleanupPc, resetting, shutdownVars, topic>>

\* The scenario or the Kafka configuration is refused, before or after the
\* run is registered and without a wait in between: only the retired run goes.
RefuseRun(s) ==
  /\ activeRuns[s] # NoRun
  /\ MayCreate(s)
  /\ DeleteSessionRuns({s})
  /\ UNCHANGED <<runVars, createPc, creator, cleanupPc, resetting, shutdownVars, topic>>

\* snapshot() finds the run in its session.
RunCreated(r) ==
  /\ createPc[r] = "creating"
  /\ topic[r] # "absent"
  /\ activeRuns[creator[r]] = r
  /\ status' = [status EXCEPT ![r] = "running"]
  /\ createPc' = [createPc EXCEPT ![r] = "over"]
  /\ UNCHANGED <<registryVars, cleanupStatus, creator, cleanupPc, resetting, shutdownVars, topic>>

\* The catch: the broker's call failed, or the run is no longer its session's.
CreateFails(r) ==
  /\ createPc[r] = "creating"
  /\ createPc' = [createPc EXCEPT ![r] = "cleaning"]
  /\ status' = [status EXCEPT ![r] = "error"]
  /\ BeginCleanup(r)
  /\ UNCHANGED <<registryVars, cleanupStatus, creator, resetting, shutdownVars, topic>>

-----------------------------------------------------------------------------
(* reset(), deleteRun() and the cleanup *)

\* requireRun() finds the run; deleteRun() of another run changes nothing.
Reset(r) ==
  /\ r \in Active
  /\ resetting' = resetting \union {r}
  /\ BeginCleanup(r)
  /\ UNCHANGED <<registryVars, runVars, createPc, creator, shutdownVars, topic>>

MarkCleaning(r) ==
  /\ cleanupPc[r] = "begun"
  /\ cleanupPc' = [cleanupPc EXCEPT ![r] = "marked"]
  /\ status' = [status EXCEPT ![r] = "cleaning"]
  /\ cleanupStatus' = [cleanupStatus EXCEPT ![r] = "requested"]
  /\ UNCHANGED <<registryVars, createPc, creator, resetting, shutdownVars, topic>>

\* Those that await the cleanup, by the session whose entry they drop.
Waiters(r) ==
  {s \in Sessions : \/ r \in resetting /\ creator[r] = s
                    \/ createPc[r] = "cleaning" /\ creator[r] = s}

CleanupOver(r, outcome) ==
  /\ cleanupPc' = [cleanupPc EXCEPT ![r] = "none"]
  /\ status' = [status EXCEPT ![r] = "stopped"]
  /\ cleanupStatus' = [cleanupStatus EXCEPT ![r] = outcome]
  /\ createPc' = [createPc EXCEPT ![r] = IF @ = "cleaning" THEN "over" ELSE @]
  /\ resetting' = resetting \ {r}
  /\ visiting' = IF visiting = r THEN NoRun ELSE visiting
  /\ UNCHANGED <<creator, shutdownPc, iterated>>

\* The states of a topic in which the broker accepts to delete it.
Deletable == {"present"} \union (IF SlowDeletion THEN {"deleting"} ELSE {})

CleanupSucceeds(r) ==
  /\ cleanupPc[r] = "marked"
  /\ topic[r] \in Deletable
  /\ topic' = [topic EXCEPT ![r] = "deleting"]
  /\ CleanupOver(r, "requested")
  /\ DeleteSessionRuns(Waiters(r))

\* Mutant: the run is dropped whatever the outcome.
CleanupFailsAndDrops(r) ==
  /\ cleanupPc[r] = "marked"
  /\ CleanupOver(r, "failed")
  /\ DeleteSessionRuns(Waiters(r))
  /\ UNCHANGED topic

CleanupFails(r) ==
  /\ cleanupPc[r] = "marked"
  /\ CleanupOver(r, "failed")
  /\ UNCHANGED <<registryVars, topic>>

-----------------------------------------------------------------------------
(* shutdown() *)

Shutdown ==
  /\ shutdownPc = "idle"
  /\ shutdownPc' = "iterating"
  /\ UNCHANGED <<registryVars, runVars, createPc, creator, cleanupPc, resetting, iterated, visiting, topic>>

\* The iterator of the map sees the runs that are added while it waits.
ShutdownVisits(r) ==
  /\ shutdownPc = "iterating"
  /\ visiting = NoRun
  /\ r \in Active \ iterated
  /\ visiting' = r
  /\ iterated' = iterated \union {r}
  /\ BeginCleanup(r)
  /\ UNCHANGED <<registryVars, runVars, createPc, creator, resetting, shutdownPc, topic>>

ShutdownEnds ==
  /\ shutdownPc = "iterating"
  /\ visiting = NoRun
  /\ Active \subseteq iterated
  /\ shutdownPc' = "over"
  /\ DeleteSessionRuns(Sessions)
  /\ UNCHANGED <<runVars, createPc, creator, cleanupPc, resetting, iterated, visiting, topic>>

-----------------------------------------------------------------------------
(* The broker *)

\* Also after the call that asked for it has failed.
TopicCreated(r) ==
  /\ createPc[r] # "idle"
  /\ topic[r] = "absent"
  /\ topic' = [topic EXCEPT ![r] = "present"]
  /\ UNCHANGED <<registryVars, runVars, createPc, creator, cleanupPc, resetting, shutdownVars>>

TopicGone(r) ==
  /\ topic[r] = "deleting"
  /\ topic' = [topic EXCEPT ![r] = "deleted"]
  /\ UNCHANGED <<registryVars, runVars, createPc, creator, cleanupPc, resetting, shutdownVars>>

-----------------------------------------------------------------------------

Next ==
  \/ \E s \in Sessions : RefuseRun(s) \/ \E r \in Runs : CreateRun(s, r)
  \/ \E r \in Runs : \/ RunCreated(r)
                     \/ CreateFails(r)
                     \/ Reset(r)
                     \/ MarkCleaning(r)
                     \/ CleanupSucceeds(r)
                     \/ CleanupFails(r)
                     \/ ShutdownVisits(r)
                     \/ TopicCreated(r)
                     \/ TopicGone(r)
  \/ Shutdown
  \/ ShutdownEnds

Spec == Init /\ [][Next]_vars

-----------------------------------------------------------------------------
(* Safety *)

\* The two maps agree, so that findRun() finds exactly the runs sessions own.
RegistryAgrees ==
  \A s \in Sessions, r \in Runs : activeRuns[s] = r <=> runSessions[r] = s

\* A session has one run at a time: whatever overlaps with its createRun(), no
\* second run of the session starts or runs while the process is in service.
\* (README.md:170, "only one active run is supported".)
IsLive(r) == status[r] \in {"starting", "running"}
OneActiveRun ==
  shutdownPc = "idle" =>
    \A p, r \in Runs : IsLive(p) /\ IsLive(r) /\ creator[p] = creator[r] => p = r

\* A topic that exists while nobody is about to delete it belongs to a run
\* that its session can still reset, until the process shuts down.
NoOrphanTopic ==
  shutdownPc # "over" =>
    \A r \in Runs : topic[r] = "present" /\ createPc[r] = "over" /\ cleanupPc[r] = "none"
                      => activeRuns[creator[r]] = r

\* A session loses its run only when that run is retired: no operation drops a
\* run that another one has put in the session in the meantime.
DropsRetiredRunsOnly ==
  [][shutdownPc' # "over" =>
       \A s \in Sessions, r \in Runs :
         activeRuns[s] = r /\ activeRuns'[s] # r => Retired(r)']_vars
=============================================================================
