---------------------------- MODULE DemoMessages ----------------------------
(***************************************************************************)
(* The messages of a demo run: produced, delivered to the consumer that    *)
(* owns their partition, processed after a delay, and given to another     *)
(* consumer when theirs is stopped or crashes (playground-runtime-messages,*)
(* playground-message-lifecycle and playground-runtime-consumers.ts).      *)
(*                                                                         *)
(* The bodies of produce(), of the commands and of the experiments are     *)
(* mutations and never overlap (RunLifecycle). In a demo run only          *)
(* produce() waits inside its body: meanwhile timers fire, and the         *)
(* process() they call queues. The steps a body takes without a wait are   *)
(* one action; an experiment, which may produce, takes several.            *)
(***************************************************************************)
EXTENDS Integers, Sequences, SequencesExt, FiniteSetsExt

CONSTANTS
  MaxMessages,           \* bound on the messages of a behaviour
  RetainedMessageLimit,
  PartitionCount,
  ConsumerIds,           \* bound on the consumers, crashed ones included
  NoConsumer,
  ConsumerLimit,
  Latencies,             \* the processing latencies a user may set
  ScenarioIds,           \* the scenarios a run may be of
  MaxChanges,            \* bound on the changes of the group and the latency
  MaxExperiments,        \* bounds on the experiments, for each scenario
  Null

Catalog == INSTANCE ScenarioCatalog

ASSUME CountsAssumption ==
  /\ MaxMessages \in Nat /\ MaxChanges \in Nat /\ ConsumerLimit \in Nat \ {0}
  /\ RetainedMessageLimit \in Nat \ {0} /\ PartitionCount \in Nat \ {0}
ASSUME IdsAssumption == ConsumerIds \subseteq Nat /\ NoConsumer \notin Nat
ASSUME LatenciesAssumption == Latencies # {} /\ Latencies \subseteq Nat
ASSUME ScenarioAssumption ==
  /\ ScenarioIds # {} /\ ScenarioIds \subseteq Catalog!scenarioStateIds
  /\ MaxExperiments \in [ScenarioIds -> Nat]
  /\ \A id \in ScenarioIds : Null \notin Catalog!scenarioExperimentIds(id)

VARIABLES
  scenarioId,
  first, sent,     \* run.messages holds the messages first..sent
  state, partition, offset,
  assignedConsumerId,
  active,          \* consumers.active(), in the order they were added
  crashed,         \* the rest of run.consumers
  owner,           \* the consumer a partition is assigned to
  processingTimers,   \* of the messages whose timers are armed
  processingLatencyMs,
  queue,           \* the calls of process() that wait for their turn
  nextOffset,      \* the log of the demo broker
  latestCommittedOffsets,
  changes,
  experiment,      \* the id of the experiment that runs
  suspendedTimers, \* the timers it has suspended
  toProduce,       \* how many messages it will still produce
  toProcess,       \* the messages it will process
  traced,          \* the messages scenarioState.routingTraces names
  completedExperimentIds,
  experiments,
  processings,     \* history: how often a message was processed
  uncommitted      \* history: the messages that were processed without a commit

messageVars == <<first, sent, state, partition, offset, assignedConsumerId>>
groupVars == <<active, crashed, owner, changes>>
outcomeVars == <<latestCommittedOffsets, processings, uncommitted>>
bodyVars == <<experiment, suspendedTimers, toProduce, toProcess>>
lessonVars == <<scenarioId, traced, completedExperimentIds, experiments>>
vars == <<messageVars, groupVars, processingTimers, processingLatencyMs, queue, nextOffset,
          outcomeVars, bodyVars, lessonVars>>

Messages == 1..MaxMessages
Partitions == 0..(PartitionCount - 1)
Retained == first..sent
Calls == [message : Messages, consumer : ConsumerIds]
Timers == [consumer : ConsumerIds, latency : Latencies, after : SUBSET Messages]
States == {"none", "producing", "produced", "received", "processed", "committed", "failed"}
consumers == Range(active) \union crashed
ExperimentIds == UNION {Catalog!scenarioExperimentIds(id) : id \in ScenarioIds}

TypeOK ==
  /\ scenarioId \in ScenarioIds
  /\ first \in Nat /\ sent \in Nat /\ Retained \subseteq Messages
  /\ sent < first + RetainedMessageLimit
  /\ state \in [Messages -> States]
  /\ partition \in [Messages -> Partitions]
  /\ offset \in [Messages -> Nat]
  /\ assignedConsumerId \in [Messages -> ConsumerIds \union {NoConsumer}]
  /\ active \in Seq(ConsumerIds) /\ IsInjective(active)
  /\ crashed \subseteq ConsumerIds \ Range(active)
  /\ owner \in [Partitions -> ConsumerIds \union {NoConsumer}]
  /\ DOMAIN processingTimers \subseteq Retained
  /\ processingTimers \in [DOMAIN processingTimers -> Timers]
  /\ \A m \in DOMAIN processingTimers : processingTimers[m].after \subseteq DOMAIN processingTimers \ {m}
  /\ processingLatencyMs \in Latencies
  /\ queue \in Seq(Calls)
  /\ nextOffset \in [Partitions -> Nat]
  /\ latestCommittedOffsets \in [Partitions -> Nat]
  /\ changes \in 0..MaxChanges
  /\ experiment \in ExperimentIds \union {Null}
  /\ experiment = Null => DOMAIN suspendedTimers = {} /\ toProduce = 0 /\ toProcess = {}
  /\ DOMAIN suspendedTimers \subseteq Messages
  /\ suspendedTimers \in [DOMAIN suspendedTimers -> Timers]
  /\ \A m \in DOMAIN suspendedTimers : m \notin suspendedTimers[m].after
  /\ toProduce \in 0..3 /\ toProcess \subseteq Messages
  /\ traced \subseteq Messages
  /\ completedExperimentIds \subseteq ExperimentIds
  /\ experiments \in Nat /\ experiments <= MaxExperiments[scenarioId]
  /\ processings \in [Messages -> Nat]
  /\ uncommitted \subseteq Messages

NoTimers == [m \in {} |-> NoConsumer]

Init ==
  /\ scenarioId \in ScenarioIds
  /\ first = 1 /\ sent = 0
  /\ state = [m \in Messages |-> "none"]
  /\ partition = [m \in Messages |-> 0]
  /\ offset = [m \in Messages |-> 0]
  /\ assignedConsumerId = [m \in Messages |-> NoConsumer]
  /\ active = <<>> /\ crashed = {}
  /\ owner = [p \in Partitions |-> NoConsumer]
  /\ processingTimers = NoTimers /\ queue = <<>>
  /\ processingLatencyMs \in Latencies
  /\ nextOffset = [p \in Partitions |-> 0]
  /\ latestCommittedOffsets = [p \in Partitions |-> 0]
  /\ changes = 0
  /\ experiment = Null /\ suspendedTimers = NoTimers /\ toProduce = 0 /\ toProcess = {}
  /\ traced = {} /\ completedExperimentIds = {} /\ experiments = 0
  /\ processings = [m \in Messages |-> 0] /\ uncommitted = {}

-----------------------------------------------------------------------------
(* Timers *)

\* Those of the messages ms are cleared or have fired.
TimersWithout(ms) ==
  [m \in DOMAIN processingTimers \ ms |-> [processingTimers[m] EXCEPT !.after = @ \ ms]]

\* scheduleMessageProcessing() of the messages that are given to consumers,
\* after the timers of those in gone are cleared; before says in which order,
\* and after which timers were armed before.
Schedule(gone, given, before) ==
  LET timers == TimersWithout(gone \union DOMAIN given) IN
  [m \in DOMAIN timers \union DOMAIN given |->
     IF m \in DOMAIN given
     THEN [consumer |-> given[m], latency |-> processingLatencyMs,
           after |-> DOMAIN timers \union (DOMAIN given \intersect before[m])]
     ELSE timers[m]]

\* Messages are delivered in the order they were produced.
Earlier == [m \in Messages |-> 1..(m - 1)]

\* The delay of a timer may have passed while those armed before it still run
\* only if theirs is longer.
MayFire(m) == \A n \in processingTimers[m].after : processingTimers[n].latency > processingTimers[m].latency

-----------------------------------------------------------------------------
(* produce(), of a user or of an experiment. It fails only once the run's    *)
(* topic is gone: RunCleanup.                                                *)

Producing == sent \in Messages /\ state[sent] = "producing"

Oldest(limit) == Max({first, sent + 2 - limit})

\* Mutant: the limit is checked before the message is added.
BoundTooLate == Oldest(RetainedMessageLimit + 1)

\* boundMessages(), once a message is added.
BoundMessages == Oldest(RetainedMessageLimit)

Produce ==
  /\ ~Producing
  /\ experiment # Null => toProduce > 0
  /\ sent < MaxMessages
  /\ sent' = sent + 1
  /\ first' = BoundMessages
  /\ state' = [state EXCEPT ![sent + 1] = "producing"]
  /\ processingTimers' = TimersWithout(first..(first' - 1))
  /\ toProduce' = IF experiment = Null THEN 0 ELSE toProduce - 1
  /\ UNCHANGED <<partition, offset, assignedConsumerId, groupVars, processingLatencyMs, queue, nextOffset>>
  /\ UNCHANGED <<outcomeVars, experiment, suspendedTimers, toProcess, lessonVars>>

\* The broker has appended the message to a partition; deliver() gives it to
\* the partition's consumer, if there is one.
Produced(p) ==
  /\ Producing
  /\ partition' = [partition EXCEPT ![sent] = p]
  /\ offset' = [offset EXCEPT ![sent] = nextOffset[p]]
  /\ nextOffset' = [nextOffset EXCEPT ![p] = @ + 1]
  /\ assignedConsumerId' = [assignedConsumerId EXCEPT ![sent] = owner[p]]
  /\ IF owner[p] = NoConsumer
     THEN state' = [state EXCEPT ![sent] = "produced"] /\ UNCHANGED processingTimers
     ELSE /\ state' = [state EXCEPT ![sent] = "received"]
          /\ processingTimers' = Schedule({}, [m \in {sent} |-> owner[p]], Earlier)
  /\ UNCHANGED <<first, sent, groupVars, processingLatencyMs, queue, outcomeVars, bodyVars, lessonVars>>

-----------------------------------------------------------------------------
(* process(): what evaluateScenarioProcessing refuses has failed, the rest   *)
(* is processed, and committed unless the caller wants it otherwise.         *)

\* The number of a message is the sequence in its value.
FailedByScenario(m) == Catalog!evaluateScenarioProcessing(scenarioId, m) # Null

\* Mutant: the state of the message is not looked at.
ForThisConsumer(m, k) == m \in Retained /\ assignedConsumerId[m] = k /\ k \in consumers

Processable(m, k) ==
  m \in Retained /\ assignedConsumerId[m] = k /\ state[m] = "received" /\ k \in consumers

Commits(m) ==
  /\ state' = [state EXCEPT ![m] = "committed"]
  /\ latestCommittedOffsets' = [latestCommittedOffsets EXCEPT ![partition[m]] = offset[m] + 1]
  /\ UNCHANGED uncommitted

StaysUncommitted(m) ==
  /\ state' = [state EXCEPT ![m] = "processed"]
  /\ uncommitted' = uncommitted \union {m}
  /\ UNCHANGED latestCommittedOffsets

Process(m, k, commit) ==
  IF ~Processable(m, k) THEN UNCHANGED <<state, outcomeVars>>
  ELSE IF FailedByScenario(m) THEN state' = [state EXCEPT ![m] = "failed"] /\ UNCHANGED outcomeVars
  ELSE /\ processings' = [processings EXCEPT ![m] = @ + 1]
       /\ IF commit THEN Commits(m) ELSE StaysUncommitted(m)

\* A call that finds the queue empty starts at once. No timer fires while calls
\* are handed on from one to the next, nor while an experiment does not wait.
TimerFires(m) ==
  /\ m \in DOMAIN processingTimers
  /\ MayFire(m)
  /\ Producing \/ (queue = <<>> /\ experiment = Null)
  /\ processingTimers' = TimersWithout({m})
  /\ LET k == processingTimers[m].consumer
     IN  IF Producing
         THEN /\ queue' = Append(queue, [message |-> m, consumer |-> k])
              /\ UNCHANGED <<state, outcomeVars>>
         ELSE Process(m, k, TRUE) /\ UNCHANGED queue
  /\ UNCHANGED <<first, sent, partition, offset, assignedConsumerId, groupVars, processingLatencyMs, nextOffset>>
  /\ UNCHANGED <<bodyVars, lessonVars>>

\* No body runs.
Idle == ~Producing /\ experiment = Null

ProcessNext ==
  /\ Idle
  /\ queue # <<>>
  /\ queue' = Tail(queue)
  /\ Process(Head(queue).message, Head(queue).consumer, TRUE)
  /\ UNCHANGED <<first, sent, partition, offset, assignedConsumerId, groupVars>>
  /\ UNCHANGED <<processingTimers, processingLatencyMs, nextOffset, bodyVars, lessonVars>>

-----------------------------------------------------------------------------
(* The group. A command may run before calls of process() that wait: it was  *)
(* called before their timers fired.                                         *)

\* rebalance(): the partitions are dealt out to the active consumers in turn.
Rebalance(group) ==
  [p \in Partitions |-> IF group = <<>> THEN NoConsumer ELSE group[(p % Len(group)) + 1]]

\* Mutant: only what is not yet processed is taken back.
NotProcessedBy(k) == {m \in Retained : assignedConsumerId[m] = k /\ state[m] = "received"}

\* What requeueMessagesForConsumer() takes back.
AssignedTo(k) == {m \in Retained : assignedConsumerId[m] = k /\ state[m] \in {"received", "processed"}}

\* Mutant: only what a consumer has left is delivered again.
DeliverLost(lost) == {m \in lost : owner'[partition[m]] # NoConsumer}

Deliverable(lost) ==
  {m \in {n \in Retained : state[n] = "produced"} \union lost : owner'[partition[m]] # NoConsumer}

\* rebalanceAndDeliver(), after the messages in lost were taken back: what no
\* consumer has received yet is delivered in the order it was produced.
RebalanceAndDeliver(lost) ==
  /\ owner' = Rebalance(active')
  /\ LET given == [m \in Deliverable(lost) |-> owner'[partition[m]]]
     IN  /\ state' = [m \in Messages |-> IF m \in DOMAIN given THEN "received"
                                         ELSE IF m \in lost THEN "produced" ELSE state[m]]
         /\ assignedConsumerId' = [m \in Messages |-> IF m \in DOMAIN given THEN given[m]
                                                      ELSE IF m \in lost THEN NoConsumer ELSE assignedConsumerId[m]]
         /\ processingTimers' = Schedule(lost, given, Earlier)
  /\ UNCHANGED <<first, sent, partition, offset, processingLatencyMs, queue, nextOffset, outcomeVars>>

RunChanges ==
  /\ Idle
  /\ changes < MaxChanges
  /\ changes' = changes + 1
  /\ UNCHANGED <<bodyVars, lessonVars>>

\* addConsumerToRun()
Joins ==
  /\ Len(active) < ConsumerLimit
  /\ ConsumerIds \ consumers # {}
  /\ active' = Append(active, Min(ConsumerIds \ consumers))
  /\ UNCHANGED crashed
  /\ RebalanceAndDeliver({})

AddConsumer == RunChanges /\ Joins

Leaves(k) == \E i \in DOMAIN active : active[i] = k /\ active' = RemoveAt(active, i)

StopConsumer(k) ==
  /\ RunChanges
  /\ Leaves(k)
  /\ UNCHANGED crashed
  /\ RebalanceAndDeliver(AssignedTo(k))

CrashConsumer(k) ==
  /\ RunChanges
  /\ Leaves(k)
  /\ crashed' = crashed \union {k}
  /\ RebalanceAndDeliver(AssignedTo(k))

\* updateSettings(): timers that are armed keep their delay.
UpdateLatency(l) ==
  /\ RunChanges
  /\ l # processingLatencyMs
  /\ processingLatencyMs' = l
  /\ UNCHANGED <<messageVars, active, crashed, owner, processingTimers, queue, nextOffset, outcomeVars, bodyVars, lessonVars>>

-----------------------------------------------------------------------------
(* Experiments. Each suspends the timers of the run and resumes them at its  *)
(* end; those of two scenarios use the run meanwhile. They fail only if the  *)
(* run is cleaned up (RunCleanup, ExperimentTransaction).                    *)

Keyed(id) == id = "produce-keyed-record"

\* A lesson that needs more consumers than the run may have only simulates them.
Grows(id) == scenarioId = "partitioning" /\ id = "grow-consumer-group" /\ ConsumerLimit >= 3

\* How many messages it produces, how many consumers it needs, and what it
\* will have processed.
MessagesOf(id) == IF Keyed(id) \/ id = "produce-unkeyed-burst" THEN 3 ELSE 0
ConsumersOf(id) == IF Grows(id) THEN 3 ELSE IF Keyed(id) THEN 1 ELSE 0
ProcessedBy(id) ==
  IF Keyed(id) THEN (sent + 1)..(sent + 3) ELSE IF Grows(id) THEN Retained \intersect traced ELSE {}

\* The last two guards keep to the bounds on messages and consumers.
BeginExperiment(id) ==
  /\ Idle
  /\ experiments < MaxExperiments[scenarioId]
  /\ Catalog!scenarioExperimentPrerequisite(scenarioId, id) \in completedExperimentIds \union {Null}
  /\ sent + MessagesOf(id) <= MaxMessages
  /\ Cardinality(ConsumerIds \ crashed) >= ConsumersOf(id)
  /\ experiment' = id
  /\ experiments' = experiments + 1
  /\ suspendedTimers' = processingTimers
  /\ processingTimers' = NoTimers
  /\ toProduce' = MessagesOf(id)
  /\ toProcess' = ProcessedBy(id)
  /\ UNCHANGED <<messageVars, groupVars, processingLatencyMs, queue, nextOffset, outcomeVars>>
  /\ UNCHANGED <<scenarioId, traced, completedExperimentIds>>

\* The experiment has produced its messages.
ExperimentContinues == experiment # Null /\ toProduce = 0 /\ ~Producing

ExperimentAdds ==
  /\ ExperimentContinues
  /\ Len(active) < ConsumersOf(experiment)
  /\ Joins
  /\ UNCHANGED <<changes, bodyVars, lessonVars>>

\* The last record the keyed experiment produces stays without a commit.
CommitsInExperiment(m) == Keyed(experiment) => m # sent

ExperimentProcesses ==
  /\ ExperimentContinues
  /\ Len(active) >= ConsumersOf(experiment)
  /\ toProcess # {}
  /\ LET m == Min(toProcess)
     IN  /\ toProcess' = toProcess \ {m}
         /\ processingTimers' = TimersWithout({m})
         /\ Process(m, assignedConsumerId[m], CommitsInExperiment(m))
  /\ UNCHANGED <<first, sent, partition, offset, assignedConsumerId, groupVars, processingLatencyMs, queue>>
  /\ UNCHANGED <<nextOffset, experiment, suspendedTimers, toProduce, lessonVars>>

\* Mutant: no timer is armed again.
NothingToResume == {}

\* resumeScenarioExperimentTimers(): what a consumer still has to process.
ToResume ==
  {m \in (DOMAIN suspendedTimers \ DOMAIN processingTimers) \intersect Retained :
     assignedConsumerId[m] # NoConsumer /\ state[m] = "received"}

EndExperiment ==
  /\ ExperimentContinues
  /\ Len(active) >= ConsumersOf(experiment)
  /\ toProcess = {}
  /\ processingTimers' = Schedule({}, [m \in ToResume |-> assignedConsumerId[m]],
                                  [m \in ToResume |-> suspendedTimers[m].after])
  /\ experiment' = Null
  /\ suspendedTimers' = NoTimers
  /\ completedExperimentIds' = completedExperimentIds \union {experiment}
  /\ traced' = IF Keyed(experiment) THEN {m \in Retained : sent - m < 3} ELSE traced
  /\ UNCHANGED <<messageVars, groupVars, processingLatencyMs, queue, nextOffset, outcomeVars>>
  /\ UNCHANGED <<scenarioId, toProduce, toProcess, experiments>>

ExperimentStep ==
  \/ experiment # Null /\ Produce
  \/ ExperimentAdds
  \/ ExperimentProcesses
  \/ EndExperiment

-----------------------------------------------------------------------------

Next ==
  \/ Produce
  \/ \E p \in Partitions : Produced(p)
  \/ \E m \in Messages : TimerFires(m)
  \/ ProcessNext
  \/ AddConsumer
  \/ \E k \in ConsumerIds : StopConsumer(k) \/ CrashConsumer(k)
  \/ \E l \in Latencies : UpdateLatency(l)
  \/ \E id \in Catalog!scenarioExperimentIds(scenarioId) : BeginExperiment(id)
  \/ ExperimentAdds
  \/ ExperimentProcesses
  \/ EndExperiment

Spec == Init /\ [][Next]_vars

\* The demo broker answers, timers fire, calls that wait get their turn and an
\* experiment goes on.
FairSpec ==
  /\ Spec
  /\ WF_vars(\E p \in Partitions : Produced(p))
  /\ SF_vars(\E m \in Messages : TimerFires(m))
  /\ WF_vars(ProcessNext)
  /\ WF_vars(ExperimentStep)

-----------------------------------------------------------------------------
(* Properties *)

Settled(m) == state[m] \in {"processed", "committed", "failed"}

\* A message that waits for a consumer is one whose partition has none, and one
\* that an experiment left without a commit is with a consumer of the group,
\* whatever the order of production, rebalancing and requeueing: nothing is left
\* with a consumer that is gone.
\* (playground-experiments.partitioning.test.ts:204 expects what was left without
\* a commit to be "produced" again after the crash of its consumer.)
NothingStranded ==
  \A m \in Retained :
    /\ state[m] = "produced" => owner[partition[m]] = NoConsumer
    /\ state[m] = "processed" => assignedConsumerId[m] \in Range(active)

\* A message that a consumer has received will be processed: the consumer is
\* still in the group, and a timer is armed or a call of process() waits that
\* names this consumer, or an experiment will arm its timer again. (A requeue
\* cancels the timer but cannot take back a call that waits, whose id another
\* consumer may have by now.)
ReceivedIsPending ==
  \A m \in Retained : state[m] = "received" =>
    LET k == assignedConsumerId[m]
    IN  /\ k \in Range(active)
        /\ \/ m \in DOMAIN processingTimers /\ processingTimers[m].consumer = k
           \/ \E i \in DOMAIN queue : queue[i] = [message |-> m, consumer |-> k]
           \/ m \in DOMAIN suspendedTimers

\* A message is processed once, however often it is delivered, and also if the
\* call for its former consumer finds a consumer of the same id. Only one that
\* an experiment left without a commit is processed a second time.
\* (playground-runtime-messages.test.ts:138,
\* playground-experiments.partitioning.test.ts:152.)
ReprocessedOnlyIfUncommitted ==
  \A m \in Messages : processings[m] <= IF m \in uncommitted THEN 2 ELSE 1

\* A message is processed after those before it in its partition.
\* (packages/scenario-engine/src/index.ts:37 "Ordering is guaranteed only
\* within a partition.")
ProcessedInOrder ==
  [][\A m, n \in Retained :
       /\ processings'[n] # processings[n]
       /\ state[m] \in {"produced", "received"}
       /\ partition[m] = partition[n]
       => offset[n] <= offset[m]]_vars

\* Under FairSpec: once the group no longer changes and has a consumer, every
\* message is processed or fails for good, unless it is forgotten.
EveryMessageSettles ==
  \A m \in Messages :
    <>[](active # <<>>) /\ <>(state[m] = "producing") => <>[](Settled(m) \/ m < first)
=============================================================================
