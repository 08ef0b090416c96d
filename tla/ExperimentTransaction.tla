------------------------- MODULE ExperimentTransaction -------------------------
(***************************************************************************)
(* An experiment of a demo run and what can happen while it waits          *)
(* (runExperiment() in playground-runtime.ts, scenario-experiment-         *)
(* execution.ts and scenario-experiment-transaction.ts): timers that have  *)
(* fired queue behind it, it fails and takes back what it did, or a        *)
(* cleanup of the run supersedes it.                                       *)
(*                                                                         *)
(* Here a message is received when it is produced and leaves the run's     *)
(* care when it is processed, committed or not: DemoMessages has the rest  *)
(* of its life, and ScenarioExperiments what the experiments do to the     *)
(* scenario's state.                                                       *)
(* The events that a handler emits without a wait between them are one;    *)
(* those of an experiment are told apart.                                  *)
(***************************************************************************)
EXTENDS RuntimeEventHub

CONSTANTS
  ExperimentIds,
  PrerequisiteOf,    \* scenarioExperimentPrerequisite()
  Observing,         \* the experiments that produce and process messages
  Transitions,       \* how many transitions an experiment shows
  MaxMessages,       \* bound on the messages of a behaviour
  Loads              \* what is asked of the run in a behaviour, and what goes wrong

ASSUME ExperimentsAssumption ==
  /\ PrerequisiteOf \in [ExperimentIds -> ExperimentIds \union {Null}] /\ Null \notin ExperimentIds
  /\ Observing \subseteq ExperimentIds /\ Transitions \in [ExperimentIds -> Nat]
ASSUME MessagesAssumption == MaxMessages \in Nat
\* commands: of the client; ticks: of the producer; live: does the client open
\* a stream?; disconnects: how many connections and refreshes are lost.
ASSUME LoadAssumption ==
  Loads \subseteq [commands : Nat, ticks : Nat, messages : Nat, cleanup : BOOLEAN, live : BOOLEAN, disconnects : Nat]

Messages == 1..MaxMessages
MessageStates == {"none", "received", "committed", "commit_requested", "failed"}
ProducerStates == {"running", "paused", "stopped"}
Events ==
  [type : {"producer.started", "message.received", "offset.committed", "started", "transition",
           "completed", "failed", "cleanup_started", "stopped"},
   of : Nat, sequence : Nat]
ProgressRecords == [status : {"idle", "running", "completed", "failed"}, of : ExperimentIds \union {Null}]
Progress == ProgressRecords \union {Null}
Checkpoints ==
  [producerStatus : ProducerStates, pendingProcessingMessageIds : SUBSET Messages,
   messages : [Messages -> MessageStates], completedExperimentIds : SUBSET ExperimentIds, progress : Progress]
Experiments == [id : ExperimentIds, number : Nat, checkpoint : Checkpoints]
Runs ==
  [status : {"running", "cleaning", "stopped", "gone"}, producerStatus : ProducerStates,
   messages : [Messages -> MessageStates], completedExperimentIds : SUBSET ExperimentIds, progress : Progress]
Snapshots == [sequence : Nat, recentEvents : Seq(Events), shown : Runs]

ASSUME NullAssumption ==
  Null \notin Seq(Events) /\ Null \notin ProgressRecords /\ Null \notin Experiments /\ Null \notin Snapshots

VARIABLES
  load,                 \* chosen once, then counted down
  status,               \* run.status, "gone" when no session has the run
  cleanupRequested,
  producerStatus,
  producerTimer,        \* is it armed, or its tick in flight?
  messages,             \* run.messages: their states
  sent,                 \* history: ids are never reused
  processingTimers,
  completedExperimentIds,
  progress,             \* run.scenarioState.experiment
  mutations,            \* the calls that wait for their turn, in order
  reserved,             \* reservedExperimentIds, from the call to its answer
  experiment,           \* what executes: [id, number, checkpoint]
  buffer,               \* bufferedExperimentEvents
  experiments,          \* history: how many have begun
  action                \* the client's command, until it has the answer

timerVars == <<producerStatus, producerTimer, processingTimers>>
scenarioVars == <<completedExperimentIds, progress, reserved, experiment, buffer, experiments>>
runVars == <<status, cleanupRequested, messages, sent, timerVars, scenarioVars, mutations>>
serverVars == <<load, runVars, hubVars, action>>

Idle == [status |-> "idle", of |-> Null]
NoAction == [status |-> "none", answer |-> Null]

InitRun ==
  /\ InitHub
  /\ load \in Loads
  /\ status = "running" /\ cleanupRequested = FALSE
  /\ producerStatus = "stopped" /\ producerTimer = FALSE
  /\ messages = [m \in Messages |-> "none"] /\ sent = 0 /\ processingTimers = {}
  /\ completedExperimentIds = {} /\ progress = Idle
  /\ mutations = <<>> /\ reserved = Null /\ experiment = Null /\ buffer = Null /\ experiments = 0
  /\ action = NoAction

\* createRunSnapshot()
Shown == [status |-> status, producerStatus |-> producerStatus, messages |-> messages,
          completedExperimentIds |-> completedExperimentIds, progress |-> progress]
Snapshot == [sequence |-> sequence, recentEvents |-> LastOf(events, TimelineDisplayLimit), shown |-> Shown]

EmitNow(payloads) == EmitAll(payloads) /\ UNCHANGED subscribed

Event(type, number) == [type |-> type, of |-> number, sequence |-> 0]

-----------------------------------------------------------------------------
(* Calls. The body of one is a step; an experiment's is several. *)

Answered(answer) == action' = [status |-> "answered", answer |-> answer]

\* emit()
Emit(type) ==
  IF cleanupRequested THEN UNCHANGED <<hubVars, buffer>>
  ELSE IF buffer # Null
  THEN buffer' = Append(buffer, Event(type, experiment.number)) /\ UNCHANGED hubVars
  ELSE EmitNow(<<Event(type, 0)>>) /\ UNCHANGED buffer

Call(what) == mutations' = Append(mutations, what)

\* The turn of a call whose body is about to run.
Turn(what) ==
  /\ experiment = Null
  /\ mutations # <<>> /\ Head(mutations) = what
  /\ mutations' = Tail(mutations)

\* Is the call of another mutation refused, when it is made and at its turn?
Refused == cleanupRequested \/ status # "running"

\* produce() in a demo run with a consumer: the message is delivered.
Received ==
  /\ sent + 1 \in Messages /\ sent < load.messages
  /\ sent' = sent + 1
  /\ messages' = [messages EXCEPT ![sent + 1] = "received"]
  /\ processingTimers' = processingTimers \union {sent + 1}

AskStartProducer ==
  /\ IF Refused THEN Answered(Null) /\ UNCHANGED mutations
     ELSE action' = [NoAction EXCEPT !.status = "pending"] /\ Call([does |-> "start", message |-> 0])
  /\ UNCHANGED <<hubVars, status, cleanupRequested, messages, sent, timerVars, scenarioVars>>

StartProducer ==
  /\ Turn([does |-> "start", message |-> 0])
  /\ UNCHANGED <<load, status, cleanupRequested, messages, sent, processingTimers>>
  /\ UNCHANGED <<completedExperimentIds, progress, reserved, experiment, experiments>>
  /\ IF Refused \/ producerStatus = "running" THEN UNCHANGED <<producerStatus, producerTimer, buffer, hubVars>>
     ELSE producerStatus' = "running" /\ producerTimer' = TRUE /\ Emit("producer.started")
  /\ Answered(IF Refused THEN Null ELSE Snapshot')

\* The producer's timer: ProducerScheduler has its generations.
ProducerTick ==
  /\ producerTimer
  /\ \A i \in DOMAIN mutations : mutations[i].does # "produce"
  /\ load.ticks > 0
  /\ load' = [load EXCEPT !.ticks = @ - 1]
  /\ IF Refused THEN UNCHANGED mutations ELSE Call([does |-> "produce", message |-> 0])
  /\ UNCHANGED <<hubVars, action, status, cleanupRequested, messages, sent, timerVars, scenarioVars>>

Produce ==
  /\ Turn([does |-> "produce", message |-> 0])
  /\ IF Refused THEN UNCHANGED <<messages, sent, processingTimers, buffer, hubVars>>
     ELSE Received /\ Emit("message.received")
  /\ UNCHANGED <<load, action, status, cleanupRequested, producerStatus, producerTimer>>
  /\ UNCHANGED <<completedExperimentIds, progress, reserved, experiment, experiments>>

ProcessingTimerFires(m) ==
  /\ m \in processingTimers
  /\ processingTimers' = processingTimers \ {m}
  /\ IF Refused THEN UNCHANGED mutations ELSE Call([does |-> "process", message |-> m])
  /\ UNCHANGED <<load, hubVars, action, status, cleanupRequested, messages, sent, producerStatus, producerTimer, scenarioVars>>

\* processInRun()
ProcessInRun(m) ==
  IF messages[m] # "received" THEN UNCHANGED <<messages, buffer, hubVars>>
  ELSE /\ messages' = [messages EXCEPT ![m] = IF cleanupRequested THEN "commit_requested" ELSE "committed"]
       /\ Emit("offset.committed")

Process(m) ==
  /\ Turn([does |-> "process", message |-> m])
  /\ IF Refused THEN UNCHANGED <<messages, buffer, hubVars>> ELSE ProcessInRun(m)
  /\ UNCHANGED <<load, action, status, cleanupRequested, sent, timerVars>>
  /\ UNCHANGED <<completedExperimentIds, progress, reserved, experiment, experiments>>

-----------------------------------------------------------------------------
(* runExperiment() *)

Available(id) ==
  /\ ~cleanupRequested /\ status = "running"
  /\ PrerequisiteOf[id] # Null => PrerequisiteOf[id] \in completedExperimentIds

AskExperiment(id) ==
  /\ IF Available(id) /\ reserved = Null /\ experiment = Null
     THEN /\ reserved' = id
          /\ action' = [NoAction EXCEPT !.status = "pending"]
          /\ Call([does |-> "experiment", message |-> 0])
     ELSE Answered(Null) /\ UNCHANGED <<mutations, reserved>>
  /\ UNCHANGED <<hubVars, status, cleanupRequested, messages, sent, timerVars>>
  /\ UNCHANGED <<completedExperimentIds, progress, experiment, buffer, experiments>>

Checkpoint ==
  [producerStatus |-> producerStatus, pendingProcessingMessageIds |-> processingTimers,
   messages |-> messages, completedExperimentIds |-> completedExperimentIds, progress |-> progress]

\* Mutant: the start of an experiment is shown at once.
StartUnbuffered(number) == buffer' = <<>> /\ EmitNow(<<Event("started", number)>>)

\* beginEventBuffer() and emitExperimentStarted()
StartBuffered(number) == buffer' = <<Event("started", number)>> /\ UNCHANGED hubVars

\* initializeExperiment(), or the refusal of an experiment that is no longer
\* available when its turn comes.
BeginExperiment ==
  /\ Turn([does |-> "experiment", message |-> 0])
  /\ IF ~Available(reserved)
     THEN /\ reserved' = Null
          /\ Answered(Null)
          /\ UNCHANGED <<timerVars, progress, experiment, buffer, experiments, hubVars>>
     ELSE /\ experiments' = experiments + 1
          /\ experiment' = [id |-> reserved, number |-> experiments + 1, checkpoint |-> Checkpoint]
          /\ processingTimers' = {} /\ producerTimer' = FALSE
          /\ producerStatus' = IF producerStatus = "running" THEN "paused" ELSE producerStatus
          /\ progress' = [status |-> "running", of |-> reserved]
          /\ StartBuffered(experiments + 1)
          /\ UNCHANGED <<action, reserved>>
  /\ UNCHANGED <<load, status, cleanupRequested, messages, sent, completedExperimentIds>>

\* prepareScenarioExperimentObservations(), a wait after each of its messages.
PrepareProduce ==
  /\ experiment # Null /\ experiment.id \in Observing
  /\ cleanupRequested = FALSE
  /\ Received
  /\ Emit("message.received")
  /\ UNCHANGED <<load, action, status, cleanupRequested, producerStatus, producerTimer, mutations>>
  /\ UNCHANGED <<completedExperimentIds, progress, reserved, experiment, experiments>>

\* It processes messages of its own at once, whatever their timers.
PrepareProcess(m) ==
  /\ experiment # Null /\ experiment.id \in Observing
  /\ experiment.checkpoint.messages[m] = "none" /\ messages[m] = "received"
  /\ processingTimers' = processingTimers \ {m}
  /\ ProcessInRun(m)
  /\ UNCHANGED <<load, action, status, cleanupRequested, sent, producerStatus, producerTimer, mutations>>
  /\ UNCHANGED <<completedExperimentIds, progress, reserved, experiment, experiments>>

\* finalizeExperiment(), and the finally of runExperiment()
Finished == reserved' = Null /\ experiment' = Null /\ buffer' = Null

\* Mutant: the timers that were pending stay suspended.
TimersLeftSuspended(armed, after) == armed

\* resumeScenarioExperimentTimers(), of the messages in the state after.
ResumedTimers(armed, after) ==
  armed \union {m \in experiment.checkpoint.pendingProcessingMessageIds : after[m] = "received"}

\* The events that applyExperimentTransitions() and completeExperiment() add.
Conclusion ==
  [i \in 1..Transitions[experiment.id] |-> Event("transition", experiment.number)]
    \o <<Event("completed", experiment.number)>>

CompleteExperiment ==
  /\ experiment # Null
  /\ completedExperimentIds' = completedExperimentIds \union {experiment.id}
  /\ progress' = [status |-> "completed", of |-> experiment.id]
  /\ IF cleanupRequested THEN UNCHANGED <<timerVars, hubVars>>
     ELSE /\ producerStatus' = experiment.checkpoint.producerStatus
          /\ producerTimer' = (producerStatus' = "running")
          /\ processingTimers' = ResumedTimers(processingTimers, messages)
          /\ EmitNow(buffer \o Conclusion)
  /\ Finished
  /\ UNCHANGED <<load, status, cleanupRequested, messages, sent, experiments, mutations>>
  /\ Answered(Snapshot')

\* The production of a message that a cleanup has superseded.
ProductionSuperseded ==
  /\ experiment.id \in Observing
  /\ sent + 1 \in Messages /\ sent < load.messages
  /\ sent' = sent + 1
  /\ messages' = [messages EXCEPT ![sent + 1] = "failed"]

\* recoverFailedExperiment() of any failure: a call of the adapter that is
\* rejected, or the cleanup that supersedes a production.
FailExperiment ==
  LET checkpoint == experiment.checkpoint IN
  /\ experiment # Null
  /\ IF cleanupRequested
     THEN /\ ProductionSuperseded \/ UNCHANGED <<messages, sent>>
          /\ UNCHANGED <<completedExperimentIds, progress, timerVars, hubVars>>
     ELSE /\ completedExperimentIds' = checkpoint.completedExperimentIds
          /\ progress' = [status |-> "failed", of |-> experiment.id]
          /\ messages' = checkpoint.messages
          /\ producerStatus' = checkpoint.producerStatus
          /\ producerTimer' = (producerStatus' = "running")
          /\ processingTimers' = ResumedTimers({}, messages')
          /\ EmitNow(<<Event("failed", experiment.number)>>)
          /\ UNCHANGED sent
  /\ Finished
  /\ Answered(Null)
  /\ UNCHANGED <<load, status, cleanupRequested, experiments, mutations>>

-----------------------------------------------------------------------------
(* The cleanup of the run: RunCleanup. It is not this client that asks. *)

StopRunTimers == producerStatus' = "stopped" /\ producerTimer' = FALSE /\ processingTimers' = {}

RequestCleanup ==
  /\ load.cleanup /\ status = "running" /\ cleanupRequested = FALSE
  /\ cleanupRequested' = TRUE
  /\ buffer' = Null
  /\ StopRunTimers
  /\ UNCHANGED <<load, hubVars, action, status, messages, sent, mutations>>
  /\ UNCHANGED <<completedExperimentIds, progress, reserved, experiment, experiments>>

\* The calls and the experiment that were pending have settled.
StartCleanup ==
  /\ cleanupRequested /\ status = "running"
  /\ mutations = <<>> /\ experiment = Null
  /\ status' = "cleaning"
  /\ StopRunTimers
  /\ progress' = Null /\ completedExperimentIds' = {}
  /\ EmitNow(<<Event("cleanup_started", 0)>>)
  /\ UNCHANGED <<load, action, cleanupRequested, messages, sent, mutations, reserved, experiment, buffer, experiments>>

FinishCleanup ==
  /\ status = "cleaning"
  /\ status' = "stopped"
  /\ EmitAll(<<Event("stopped", 0)>>)
  /\ subscribed' = FALSE
  /\ UNCHANGED <<load, action, cleanupRequested, messages, sent, timerVars, mutations, scenarioVars>>

\* reset()
DeleteSessionRun ==
  /\ status = "stopped"
  /\ status' = "gone"
  /\ UNCHANGED <<load, hubVars, action, cleanupRequested, messages, sent, timerVars, mutations, scenarioVars>>

-----------------------------------------------------------------------------
(* Properties *)

Trimmed == Len(events) = EventHistoryLimit

\* In the history, an experiment is either all there, from its start to its
\* end, or it has failed and is nothing but its failure, and no event of
\* another stands between its events, whatever the timers and the cleanup did
\* meanwhile; the oldest one may have lost its beginning to the limit.
\* (scenario-experiment-execution.ts:241-262.)
AllOrNothing ==
  \A j \in DOMAIN events : events[j].of # 0 =>
    LET number == events[j].of
        mine == {i \in DOMAIN events : events[i].of = number}
        first == CHOOSE i \in mine : \A k \in mine : i <= k
        last == CHOOSE i \in mine : \A k \in mine : k <= i
    IN  /\ mine = first..last
        /\ events[last].type \in {"completed", "failed"}
        /\ IF events[last].type = "failed" THEN first = last
           ELSE events[first].type = "started" \/ (first = 1 /\ Trimmed)

\* Between experiments a run that lives is as any other: its timers are armed,
\* its buffer is gone and no experiment is under way, however the last one
\* ended. Messages that wait have a timer or a call of process().
NothingStrandedByExperiment ==
  experiment = Null /\ ~cleanupRequested =>
    /\ buffer = Null /\ progress.status # "running"
    /\ producerTimer <=> (producerStatus = "running")
    /\ (reserved # Null) <=> (\E i \in DOMAIN mutations : mutations[i].does = "experiment")
    /\ \A m \in Messages : messages[m] = "received" =>
         \/ m \in processingTimers
         \/ \E i \in DOMAIN mutations : mutations[i] = [does |-> "process", message |-> m]
================================================================================
