----------------------------- MODULE RunCleanup -----------------------------
(***************************************************************************)
(* The cleanup of one remote run (playground-cleanup.ts and                *)
(* playground-cleanup-deadlines.ts) against everything that can be in      *)
(* flight when it is requested: the mutations of RunLifecycle with the     *)
(* bodies of playground-runtime-consumers.ts, and the run-scoped work of   *)
(* the messages being consumed.                                            *)
(*                                                                         *)
(* The Kafka client is external: a call to it settles when and how it      *)
(* likes, except that kafkajs ends a disconnect only after the message     *)
(* handlers of that consumer have returned, and refuses to delete a topic  *)
(* that does not exist.                                                    *)
(***************************************************************************)
EXTENDS Naturals, FiniteSets, FiniteSetsExt

CONSTANTS
  Mutations, Cleanups, Works, NoOne, Behavior,   \* see RunLifecycle
  Kind,           \* what a mutation does
  ProcessOf,      \* the mutation that processes the message of a piece of work
  ConsumerIds,    \* consumer-1, consumer-2, ...
  ConsumerLimit,
  Loads           \* what may be asked of the run in a behaviour, and what may go wrong

ASSUME NobodyAssumption == NoOne \notin Mutations \union Cleanups \union ConsumerIds
\* None of these is a call that a cleanup lets pass.
ASSUME RefusalAssumption == Behavior \in [Mutations -> {"reject", "skip"}]
ASSUME KindAssumption == Kind \in [Mutations -> {"add", "stop", "crash", "produce", "process"}]
ASSUME ProcessAssumption ==
  /\ ProcessOf \in [Works -> Mutations]
  /\ \A v, w \in Works : v # w => ProcessOf[v] # ProcessOf[w]
  /\ \A m \in Mutations : Kind[m] = "process" <=> \E w \in Works : ProcessOf[w] = m
ASSUME ConsumerIdsAssumption == ConsumerIds \subseteq Nat /\ ConsumerLimit \in Nat
\* requests: the mutations that are called, the messages that arrive and the
\* resets; late: the steps of a cleanup that may outlast their deadline;
\* healthy: does the broker answer?
ASSUME LoadsAssumption ==
  Loads \subseteq [requests : SUBSET (Mutations \union Works \union Cleanups),
                  late : SUBSET {"prerequisite", "disconnect", "adapter"}, healthy : BOOLEAN]

VARIABLES
  load,                 \* chosen once
  pc, previous, mutationTail, cleanupRequestTokens, cleanupOperation, cleanupPc,
  retainedWork, workPc, ticket, lastTicket, owed,   \* see RunLifecycle
  \* the run
  runStatus, cleanupStatus,
  consumerStatus,       \* run.consumers
  consumerHandles,      \* run.consumerHandles: the mutation that made the handle
  \* the mutations' bodies and the consumer callbacks
  body,                 \* "none", "awaiting" a call of the Kafka client, or "over"
  target,               \* the consumer a body works on
  handlerOf,            \* the handle whose callback a piece of work runs in
  \* the cleanup in progress
  stage,
  gaveUp,               \* the prerequisites that missed their deadline
  awaiting,             \* the handles whose disconnect is awaited
  disconnectFailed, disconnected,
  disconnectAttempts,   \* consumerDisconnectAttempts: the pending ones
  adapterAttempt,       \* adapterCleanupAttempts: is one pending?
  \* the broker
  client,               \* the Kafka consumer behind a handle
  topic

lifecycleVars == <<pc, previous, mutationTail, cleanupRequestTokens, cleanupOperation,
                   cleanupPc, retainedWork, workPc, ticket, lastTicket, owed>>
statusVars == <<runStatus, cleanupStatus>>
consumerVars == <<consumerStatus, consumerHandles, client>>
bodyVars == <<load, body, target, handlerOf>>
attemptVars == <<disconnectAttempts, adapterAttempt, topic>>
stepVars == <<stage, gaveUp, awaiting, disconnectFailed, disconnected>>
vars == <<lifecycleVars, statusVars, consumerVars, bodyVars, attemptVars, stepVars>>

IsIncomplete(status) == status \in {"failed", "partially_completed"}

\* Mutant: a run whose cleanup is incomplete is not refused.
OnlyStoppedIsUnavailable == runStatus = "stopped"

IsRunMutationUnavailable == runStatus = "stopped" \/ IsIncomplete(cleanupStatus)

Lifecycle == INSTANCE RunLifecycle WITH unavailable <- IsRunMutationUnavailable

IsCleanupRequested == Lifecycle!IsCleanupRequested

TypeOK ==
  /\ load \in Loads
  /\ runStatus \in {"running", "cleaning", "stopped"}
  /\ cleanupStatus \in {"not_requested", "requested", "partially_completed", "failed"}
  /\ consumerStatus \in [ConsumerIds -> {"absent", "starting", "running", "stopping", "crashed"}]
  /\ consumerHandles \in [ConsumerIds -> Mutations \union {NoOne}]
  /\ body \in [Mutations -> {"none", "awaiting", "over"}]
  /\ target \in [Mutations -> ConsumerIds \union {NoOne}]
  /\ handlerOf \in [Works -> Mutations \union {NoOne}]
  /\ stage \in {"none", "prerequisites", "disconnecting", "adapter", "settled"}
  /\ gaveUp \subseteq Mutations \union Works
  /\ awaiting \subseteq Mutations
  /\ disconnectFailed \in BOOLEAN
  /\ disconnected \in BOOLEAN
  /\ disconnectAttempts \subseteq Mutations
  /\ adapterAttempt \in BOOLEAN
  /\ client \in [Mutations -> {"none", "connecting", "connected", "closed"}]
  /\ topic \in {"present", "deleted"}

Init ==
  /\ load \in Loads
  /\ runStatus = "running"
  /\ cleanupStatus = "not_requested"
  /\ Lifecycle!Init
  /\ consumerStatus = [k \in ConsumerIds |-> "absent"]
  /\ consumerHandles = [k \in ConsumerIds |-> NoOne]
  /\ body = [m \in Mutations |-> "none"]
  /\ target = [m \in Mutations |-> NoOne]
  /\ handlerOf = [w \in Works |-> NoOne]
  /\ stage = "none"
  /\ gaveUp = {}
  /\ awaiting = {}
  /\ disconnectFailed = FALSE
  /\ disconnected = FALSE
  /\ disconnectAttempts = {}
  /\ adapterAttempt = FALSE
  /\ client = [m \in Mutations |-> "none"]
  /\ topic = "present"

-----------------------------------------------------------------------------
(* Bodies of the mutations: what runs up to the first await. *)

ActiveConsumers == {k \in ConsumerIds : consumerStatus[k] \notin {"absent", "crashed"}}

\* nextConsumerId: an id neither a consumer nor a handle uses.
FreeIds == {k \in ConsumerIds : consumerStatus[k] = "absent" /\ consumerHandles[k] = NoOne}

BeginAdd(m) ==
  IF Cardinality(ActiveConsumers) >= ConsumerLimit
  THEN body' = [body EXCEPT ![m] = "over"] /\ UNCHANGED <<target, consumerVars>>
  ELSE /\ FreeIds # {}
       /\ target' = [target EXCEPT ![m] = Min(FreeIds)]
       /\ consumerStatus' = [consumerStatus EXCEPT ![Min(FreeIds)] = "starting"]
       /\ client' = [client EXCEPT ![m] = "connecting"]
       /\ body' = [body EXCEPT ![m] = "awaiting"]
       /\ UNCHANGED consumerHandles

\* stop() and crash(): no such consumer, or one already crashed, ends the body.
BeginDisconnect(m, k) ==
  IF consumerStatus[k] \in {"absent", "crashed"}
  THEN body' = [body EXCEPT ![m] = "over"] /\ UNCHANGED <<target, consumerVars>>
  ELSE /\ consumerStatus' = IF Kind[m] = "stop" THEN [consumerStatus EXCEPT ![k] = "stopping"]
                                                ELSE consumerStatus
       /\ target' = [target EXCEPT ![m] = k]
       /\ body' = [body EXCEPT ![m] = "awaiting"]
       /\ UNCHANGED <<consumerHandles, client>>

\* produce() and processInRun() await the broker once; their messages are not
\* modelled here.
BeginMessage(m) ==
  body' = [body EXCEPT ![m] = "awaiting"] /\ UNCHANGED <<target, consumerVars>>

Begin(m) ==
  \/ Kind[m] = "add" /\ BeginAdd(m)
  \/ Kind[m] \in {"stop", "crash"} /\ \E k \in ConsumerIds : BeginDisconnect(m, k)
  \/ Kind[m] \in {"produce", "process"} /\ BeginMessage(m)

\* A body starts in the step that gives the mutation its turn.
BeginIfRunning(m) ==
  IF pc'[m] = "running" THEN Begin(m) ELSE UNCHANGED <<body, target, consumerVars>>

(* mutate() *)

CallUpdate(m) ==
  /\ m \in load.requests
  /\ UNCHANGED <<statusVars, attemptVars, stepVars, handlerOf, load>>
  /\ Lifecycle!Call(m) \/ Lifecycle!RefuseCall(m)
  /\ BeginIfRunning(m)

Call(m) == Kind[m] # "process" /\ CallUpdate(m)

Resume(m) ==
  /\ UNCHANGED <<statusVars, attemptVars, stepVars, handlerOf, load>>
  /\ Lifecycle!Resume(m)
  /\ BeginIfRunning(m)

FinishMutation(m) ==
  /\ body[m] = "over"
  /\ UNCHANGED <<statusVars, consumerVars, bodyVars, attemptVars, stepVars>>
  /\ Lifecycle!FinishMutation(m)

-----------------------------------------------------------------------------
(* Bodies of the mutations: what runs when the Kafka client has answered. *)

Answered(m, kinds) ==
  /\ body[m] = "awaiting"
  /\ Kind[m] \in kinds
  /\ body' = [body EXCEPT ![m] = "over"]
  /\ UNCHANGED <<lifecycleVars, load, target, handlerOf, runStatus, attemptVars, stepVars>>

\* Mutant: the run is not looked at again after the await.
ConsumerCreatedRegardless(m) ==
  /\ Answered(m, {"add"})
  /\ client' = [client EXCEPT ![m] = "connected"]
  /\ consumerHandles' = [consumerHandles EXCEPT ![target[m]] = m]
  /\ consumerStatus' = [consumerStatus EXCEPT ![target[m]] = "running"]
  /\ UNCHANGED cleanupStatus

\* createConsumer() returns a handle: it is kept even if the run was cleaned
\* up meanwhile; the consumer is not.
ConsumerCreated(m) ==
  /\ Answered(m, {"add"})
  /\ client' = [client EXCEPT ![m] = "connected"]
  /\ consumerHandles' = [consumerHandles EXCEPT ![target[m]] = m]
  /\ consumerStatus' = [consumerStatus EXCEPT ![target[m]] =
                          IF IsRunMutationUnavailable THEN "absent"
                          ELSE IF @ = "absent" THEN "absent" ELSE "running"]
  /\ UNCHANGED cleanupStatus

\* createConsumer() rejects, its consumer disconnected.
ConsumerRejected(m) ==
  /\ Answered(m, {"add"})
  /\ client' = [client EXCEPT ![m] = "closed"]
  /\ consumerStatus' = [consumerStatus EXCEPT ![target[m]] = "absent"]
  /\ UNCHANGED <<consumerHandles, cleanupStatus>>

\* Mutant: the handle in the error is not kept.
ConsumerNotRolledBackIsForgotten(m) ==
  /\ Answered(m, {"add"})
  /\ client' = [client EXCEPT ![m] = "connected"]
  /\ consumerStatus' = [consumerStatus EXCEPT ![target[m]] = "absent"]
  /\ cleanupStatus' = "failed"
  /\ UNCHANGED consumerHandles

\* KafkaConsumerStartupRollbackError: the consumer could not be disconnected.
ConsumerNotRolledBack(m) ==
  /\ Answered(m, {"add"})
  /\ client' = [client EXCEPT ![m] = "connected"]
  /\ consumerHandles' = [consumerHandles EXCEPT ![target[m]] = m]
  /\ consumerStatus' = [consumerStatus EXCEPT ![target[m]] = "absent"]
  /\ cleanupStatus' = "failed"

\* kafkajs waits for the callbacks of the consumer it disconnects.
HandlersReturned(h) == \A w \in Works : handlerOf[w] = h => workPc[w] # "pending"

\* disconnectHandle() of stop() and crash().
ConsumerDisconnected(m) ==
  /\ Answered(m, {"stop", "crash"})
  /\ LET k == target[m]
         h == consumerHandles[k]
     IN  /\ HandlersReturned(h)
         /\ consumerHandles' = [consumerHandles EXCEPT ![k] = NoOne]
         /\ client' = IF h = NoOne THEN client ELSE [client EXCEPT ![h] = "closed"]
         /\ consumerStatus' = [consumerStatus EXCEPT ![k] =
                                 IF @ = "absent" THEN "absent"
                                 ELSE IF Kind[m] = "stop" THEN "absent" ELSE "crashed"]
  /\ UNCHANGED cleanupStatus

\* A disconnect that fails, and produce() and commit() whatever the answer.
OtherAnswer(m) ==
  /\ Answered(m, {"stop", "crash", "produce", "process"})
  /\ UNCHANGED <<consumerVars, cleanupStatus>>

-----------------------------------------------------------------------------
(* Run-scoped work: handleConsumed() of a message a consumer delivers. *)

\* kafkajs delivers nothing more to a consumer that is being disconnected.
Deliver(w, h) ==
  /\ w \in load.requests
  /\ client[h] = "connected"
  /\ h \notin disconnectAttempts
  /\ \A m \in Mutations : body[m] = "awaiting" /\ Kind[m] \in {"stop", "crash"} => consumerHandles[target[m]] # h
  /\ UNCHANGED <<statusVars, consumerVars, load, body, target, attemptVars, stepVars>>
  /\ Lifecycle!StartWork(w)
  /\ handlerOf' = [handlerOf EXCEPT ![w] = h]

\* A callback that finds the run closed returns at once and is not modelled.
StartWork(w, h) == ~IsCleanupRequested /\ ~IsRunMutationUnavailable /\ Deliver(w, h)

\* The processing delay has passed: process() is called in the queue.
DelayEnds(w) ==
  /\ workPc[w] = "pending"
  /\ ~IsCleanupRequested
  /\ CallUpdate(ProcessOf[w])

\* The work is aborted in its delay, or its process() has settled.
SettleWork(w) ==
  /\ \/ pc[ProcessOf[w]] = "idle" /\ IsCleanupRequested
     \/ pc[ProcessOf[w]] \in {"done", "skipped"}
  /\ UNCHANGED <<statusVars, consumerVars, bodyVars, attemptVars, stepVars>>
  /\ Lifecycle!SettleWork(w)

-----------------------------------------------------------------------------
(* cleanupPlaygroundRun() *)

\* Mutant: the outcome of the prerequisites outlives the cleanup.
RequestCleanupAgain(c) ==
  /\ c \in load.requests
  /\ ~(runStatus = "stopped" /\ ~IsIncomplete(cleanupStatus))
  /\ UNCHANGED <<statusVars, consumerVars, bodyVars, attemptVars>>
  /\ Lifecycle!RequestCleanup(c)
  /\ stage' = "prerequisites"
  /\ awaiting' = {}
  /\ disconnectFailed' = FALSE
  /\ disconnected' = FALSE
  /\ UNCHANGED gaveUp

\* The runs that reset() and createRun() have not dropped can be cleaned.
RequestCleanup(c) ==
  /\ c \in load.requests
  /\ ~(runStatus = "stopped" /\ ~IsIncomplete(cleanupStatus))
  /\ UNCHANGED <<statusVars, consumerVars, bodyVars, attemptVars>>
  /\ Lifecycle!RequestCleanup(c)
  /\ stage' = "prerequisites"
  /\ gaveUp' = {}
  /\ awaiting' = {}
  /\ disconnectFailed' = FALSE
  /\ disconnected' = FALSE

Prerequisites == retainedWork[cleanupOperation]

MissDeadline(p) ==
  /\ stage = "prerequisites"
  /\ p \in Prerequisites \ gaveUp
  /\ Lifecycle!Pending(p)
  /\ gaveUp' = gaveUp \union {p}
  /\ UNCHANGED <<lifecycleVars, statusVars, consumerVars, bodyVars, attemptVars>>
  /\ UNCHANGED <<stage, awaiting, disconnectFailed, disconnected>>

\* Mutant: the chain of mutations is awaited without a deadline.
GiveUpOnWorkOnly(p) == p \in Works /\ MissDeadline(p)

\* waitForCleanupPrerequisite: the timer is first.
GiveUp(p) == "prerequisite" \in load.late /\ MissDeadline(p)

Handles == {consumerHandles[k] : k \in ConsumerIds} \ {NoOne}

\* Every handle there is once the prerequisites are met or missed; a
\* disconnect still pending from an earlier cleanup is awaited, not repeated.
DisconnectConsumers ==
  /\ stage = "prerequisites"
  /\ \A p \in Prerequisites : ~Lifecycle!Pending(p) \/ p \in gaveUp
  /\ stage' = "disconnecting"
  /\ awaiting' = Handles
  /\ disconnectAttempts' = disconnectAttempts \union Handles
  /\ UNCHANGED <<lifecycleVars, statusVars, consumerVars, bodyVars, adapterAttempt, topic>>
  /\ UNCHANGED <<gaveUp, disconnectFailed, disconnected>>

\* A pending attempt succeeds, in time or not.
DisconnectSucceeds(h) ==
  /\ h \in disconnectAttempts
  /\ HandlersReturned(h)
  /\ disconnectAttempts' = disconnectAttempts \ {h}
  /\ client' = [client EXCEPT ![h] = "closed"]
  /\ consumerHandles' = [k \in ConsumerIds |-> IF consumerHandles[k] = h THEN NoOne ELSE consumerHandles[k]]
  /\ awaiting' = awaiting \ {h}
  /\ disconnected' = (disconnected \/ h \in awaiting)
  /\ UNCHANGED <<lifecycleVars, statusVars, consumerStatus, bodyVars, adapterAttempt, topic>>
  /\ UNCHANGED <<stage, gaveUp, disconnectFailed>>

DisconnectFails(h) ==
  /\ h \in disconnectAttempts
  /\ disconnectAttempts' = disconnectAttempts \ {h}
  /\ awaiting' = awaiting \ {h}
  /\ disconnectFailed' = (disconnectFailed \/ h \in awaiting)
  /\ UNCHANGED <<lifecycleVars, statusVars, consumerVars, bodyVars, adapterAttempt, topic>>
  /\ UNCHANGED <<stage, gaveUp, disconnected>>

DisconnectTimesOut(h) ==
  /\ "disconnect" \in load.late
  /\ h \in awaiting
  /\ awaiting' = awaiting \ {h}
  /\ disconnectFailed' = TRUE
  /\ UNCHANGED <<lifecycleVars, statusVars, consumerVars, bodyVars, attemptVars>>
  /\ UNCHANGED <<stage, gaveUp, disconnected>>

\* Mutant: what was released makes up for what was not.
SettleOptimistically(adapterSucceeded) ==
  /\ cleanupStatus' = IF adapterSucceeded \/ disconnected THEN "requested" ELSE "failed"
  /\ runStatus' = "stopped"
  /\ consumerStatus' = [k \in ConsumerIds |-> "absent"]
  /\ stage' = "settled"
  /\ UNCHANGED <<gaveUp, awaiting, disconnectFailed, disconnected>>

\* aggregateCleanupResults and what follows it.
Settle(adapterSucceeded) ==
  /\ cleanupStatus' = IF adapterSucceeded THEN "requested"
                      ELSE IF disconnected THEN "partially_completed" ELSE "failed"
  /\ runStatus' = "stopped"
  /\ consumerStatus' = [k \in ConsumerIds |-> "absent"]
  /\ stage' = "settled"
  /\ UNCHANGED <<gaveUp, awaiting, disconnectFailed, disconnected>>

DisconnectsSettled == stage = "disconnecting" /\ awaiting = {}

\* A step before failed: the topic is left alone.
SkipAdapter ==
  /\ DisconnectsSettled
  /\ gaveUp # {} \/ disconnectFailed
  /\ Settle(FALSE)
  /\ UNCHANGED <<lifecycleVars, consumerHandles, client, bodyVars, attemptVars>>

\* An attempt that is still pending is awaited again.
DeleteRunResources ==
  /\ runStatus' = "cleaning"
  /\ cleanupStatus' = "requested"
  /\ stage' = "adapter"
  /\ adapterAttempt' = TRUE
  /\ UNCHANGED <<lifecycleVars, consumerVars, bodyVars, disconnectAttempts, topic>>
  /\ UNCHANGED <<gaveUp, awaiting, disconnectFailed, disconnected>>

\* Mutant: a missed prerequisite does not keep the topic.
CleanAdapterAfterMissedDeadline == DisconnectsSettled /\ ~disconnectFailed /\ DeleteRunResources

CleanAdapter == DisconnectsSettled /\ gaveUp = {} /\ ~disconnectFailed /\ DeleteRunResources

\* deleteRunResources() settles, in time or not.
AdapterAnswers(deleted) ==
  /\ adapterAttempt
  /\ deleted => topic = "present"
  /\ adapterAttempt' = FALSE
  /\ topic' = IF deleted THEN "deleted" ELSE topic
  /\ IF stage = "adapter"
     THEN Settle(deleted)
     ELSE UNCHANGED <<statusVars, consumerStatus, stepVars>>
  /\ UNCHANGED <<lifecycleVars, consumerHandles, client, bodyVars, disconnectAttempts>>

AdapterTimesOut ==
  /\ "adapter" \in load.late
  /\ stage = "adapter"
  /\ Settle(FALSE)
  /\ UNCHANGED <<lifecycleVars, consumerHandles, client, bodyVars, attemptVars>>

FinishCleanup(c) ==
  /\ stage = "settled"
  /\ stage' = "none"
  /\ UNCHANGED <<gaveUp, awaiting, disconnectFailed, disconnected>>
  /\ UNCHANGED <<statusVars, consumerVars, bodyVars, attemptVars>>
  /\ Lifecycle!FinishCleanup(c)

ReleaseToken(c) ==
  /\ UNCHANGED <<statusVars, consumerVars, bodyVars, attemptVars, stepVars>>
  /\ Lifecycle!ReleaseToken(c)

-----------------------------------------------------------------------------

Next ==
  \/ \E m \in Mutations : \/ Call(m)
                          \/ Resume(m)
                          \/ FinishMutation(m)
                          \/ ConsumerCreated(m)
                          \/ ConsumerRejected(m)
                          \/ ConsumerNotRolledBack(m)
                          \/ ConsumerDisconnected(m)
                          \/ OtherAnswer(m)
                          \/ DisconnectSucceeds(m)
                          \/ DisconnectFails(m)
                          \/ DisconnectTimesOut(m)
  \/ \E w \in Works : \/ \E h \in Mutations : StartWork(w, h)
                      \/ DelayEnds(w)
                      \/ SettleWork(w)
  \/ \E c \in Cleanups : RequestCleanup(c) \/ FinishCleanup(c) \/ ReleaseToken(c)
  \/ \E p \in Mutations \union Works : GiveUp(p)
  \/ DisconnectConsumers
  \/ SkipAdapter
  \/ CleanAdapter
  \/ \E deleted \in BOOLEAN : AdapterAnswers(deleted)
  \/ AdapterTimesOut

Spec == Init /\ [][Next]_vars

(***************************************************************************)
(* Fairness. Continuations and timers run: that is the event loop.         *)
(***************************************************************************)
EventLoop ==
  /\ \A m \in Mutations : /\ WF_vars(Resume(m))
                           /\ WF_vars(FinishMutation(m))
                           /\ WF_vars(DisconnectTimesOut(m))
  /\ \A w \in Works : WF_vars(DelayEnds(w)) /\ WF_vars(SettleWork(w))
  /\ \A c \in Cleanups : WF_vars(FinishCleanup(c)) /\ WF_vars(ReleaseToken(c))
  /\ \A p \in Mutations \union Works : WF_vars(GiveUp(p))
  /\ WF_vars(DisconnectConsumers)
  /\ WF_vars(SkipAdapter)
  /\ WF_vars(CleanAdapter)
  /\ WF_vars(AdapterTimesOut)

\* Nothing is assumed of the Kafka client unless the load is healthy: then the
\* broker answers every call it can answer, and a disconnect or a deletion that
\* is tried again and again succeeds.
HealthyBroker ==
  /\ \A m \in Mutations :
       /\ WF_vars(load.healthy /\ ConsumerCreated(m))
       /\ WF_vars(load.healthy /\ ConsumerDisconnected(m))
       /\ WF_vars(load.healthy /\ Kind[m] \in {"produce", "process"} /\ OtherAnswer(m))
       /\ SF_vars(load.healthy /\ DisconnectSucceeds(m))
  /\ SF_vars(load.healthy /\ AdapterAnswers(TRUE))
  /\ WF_vars(load.healthy /\ (AdapterAnswers(TRUE) \/ AdapterAnswers(FALSE)))

\* The user of a healthy run resets it again while its cleanup is incomplete.
UserRetries ==
  WF_vars(load.healthy /\ \E c \in Cleanups : IsIncomplete(cleanupStatus) /\ RequestCleanup(c))

FairSpec == Spec /\ EventLoop /\ HealthyBroker /\ UserRetries

-----------------------------------------------------------------------------
(* Safety *)

\* The topic is deleted only when nothing uses it any more: no consumer is
\* connected or connecting, no call of the Kafka client is awaited by a
\* mutation and no message is being handled, however late an earlier cleanup,
\* a disconnect or a body settles.
DeleteOnlyWhenQuiet ==
  adapterAttempt =>
    /\ \A m \in Mutations : client[m] \notin {"connecting", "connected"} /\ body[m] # "awaiting"
    /\ \A w \in Works : workPc[w] # "pending"

\* A cleanup that reports no failure has released everything.
CleanMeansClean ==
  runStatus = "stopped" /\ ~IsIncomplete(cleanupStatus) =>
    /\ topic = "deleted"
    /\ Handles = {}
    /\ \A m \in Mutations : client[m] \notin {"connecting", "connected"}

\* A connected consumer can be found by the next cleanup: its handle is kept
\* when startup was superseded, when its rollback failed and when a disconnect
\* fails, and no later consumer takes its id.
NoConsumerLost == \A m \in Mutations : client[m] = "connected" => m \in Handles

\* A run that was stopped shows no consumer, whatever answers afterwards.
StoppedRunIsEmpty == runStatus = "stopped" => \A k \in ConsumerIds : consumerStatus[k] = "absent"

\* No body and no message handler starts once a cleanup was requested or a
\* startup could not be rolled back, neither while the token is held nor
\* between its release and the next retry.
CleanupWasAsked == stage # "none" \/ cleanupStatus # "not_requested"
NothingStartsAfterCleanup ==
  [][CleanupWasAsked =>
       /\ \A m \in Mutations : body[m] = "none" => body'[m] = "none"
       /\ \A w \in Works : workPc[w] = "idle" => workPc'[w] = "idle"]_vars

-----------------------------------------------------------------------------
(* Liveness *)

\* A cleanup ends by its deadlines, even if no call of the Kafka client, no
\* body and no message handler ever settles.
CleanupTerminates == stage # "none" ~> stage = "none"

\* With a healthy broker: stopping a consumer, or crashing it, comes to an end:
\* it is not stuck in the queue of mutations behind what it waits for itself.
\* (README.md:181 "Removes a consumer.")
StopReturns ==
  \A m \in Mutations : load.healthy /\ Kind[m] \in {"stop", "crash"} /\ body[m] = "awaiting" ~> body[m] = "over"

\* With a healthy broker: a reset that is retried while it is incomplete
\* releases the run's resources in the end. (use-playground-run-commands.ts:172
\* "Retry reset to finish releasing Kafka resources.")
RetryReleases ==
  load.healthy /\ stage # "none" ~> CleanMeansClean /\ runStatus = "stopped" /\ ~IsIncomplete(cleanupStatus)
=============================================================================
