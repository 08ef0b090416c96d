# Kafka Playground: specification, model checking and proofs

Kafka Playground is a web application that teaches Kafka. A browser session owns
one *run*: a topic, a producer, a few consumers and a stream of events. A run is
either simulated in memory (*demo*) or backed by a real broker through kafkajs
(*remote*). All run state lives in one Node.js process; there is one thread, and
all concurrency comes from `await`, promise continuations, timers and the answers
of the broker. On top of a run sit fifteen *scenarios*: their experiments change
a simulated state of their own, which the browser draws.

The specifications below model that. The unit of atomicity is **what runs between
two awaits**: an action of a module is one such piece of code with every state
change it makes, and everything that can happen while the code waits is another
action.

Contents: [inventory](#1-inventory), [modules](#2-modules),
[runs](#3-runs-and-bounds), [fairness](#4-fairness), [proofs](#5-proofs),
[what was found](#6-what-was-found), [limits](#7-what-is-not-modelled).

## 1. Inventory

`WS` is `apps/web/lib/server`, `WC` is `apps/web/lib/client`, `WP` is
`apps/web/components/playground`, `KR` is `packages/kafka-runtime/src`.

| component | state it keeps | operations | what makes it correct |
|---|---|---|---|
| Run lifecycle, `WS/playground-run-lifecycle.ts` | per run: tail of a promise chain, set of cleanup tokens, cleanup in progress | `mutate`, `cleanup`, `isCleanupRequested` | mutations never overlap and keep their order; nothing slips in during a cleanup; the run reopens only when every mutation it was closed under is over, and does reopen |
| Cleanup, `WS/playground-cleanup.ts`, `playground-cleanup-deadlines.ts` | pending disconnects per handle, pending deletion per run, deadlines | `cleanupPlaygroundRun` and its steps | the topic goes only when nothing uses it; "clean" means released; retries neither repeat nor lose what is pending; it ends by its deadlines |
| Run-scoped work, `WS/playground-run-scoped-work.ts` | abort controller and set of promises per run | `run`, `cancel`, abortable delay | no work starts once a run is closed; cleanup waits for all of it |
| Consumers, `WS/playground-runtime-consumers.ts` | `run.consumers`, `run.consumerHandles`, assignments | `add`, `stop`, `crash`, `addConfiguredRemoteConsumers` | a connected consumer always has a handle; ids are not reused while a handle lives |
| Messages, `WS/playground-runtime-messages.ts`, `playground-message-lifecycle.ts` | `run.messages`, committed offsets, processing timers | `produce`, `processConsumed`, `process`, requeue | at-least-once delivery, one processing unless a commit was withheld; what is received is processed; the group commits past nothing that waits |
| Producer, `WS/producer-scheduler.ts` | timer, generation, tick-in-flight flag, producer status | start, pause, stop, rate change, tick | one tick at a time, never a stale timer, no lost tick |
| Registry and runs, `WS/playground-run-registry.ts`, `playground-runtime.ts` | session -> run, run -> session | `createRun`, `reset`, `deleteRun`, `shutdown` | one active run per session; a topic that exists is still resettable by somebody |
| Experiments, `WS/scenario-experiment-execution.ts`, `-transaction.ts`, `-observations.ts` | checkpoint, event buffer, in-flight id | `runExperiment` | an experiment is all or nothing; it gives back what it suspended unless a cleanup superseded it |
| Builders, `WS/scenario-experiments/*` | the scenario's state | one builder per scenario | the state meets its schema and agrees with itself after any sequence of experiments |
| Event hub and SSE, `WS/runtime-event-hub.ts`, `app/api/v1/runs/[runId]/events` | bounded history, sequence, subscribers | `emit`, `subscribe` with replay | a client that was away gets a snapshot and what it can still be replayed |
| Adapters, `KR/index.ts`, `KR/consumer-handlers.ts` | demo log; kafkajs clients | create and delete topic, produce, consumer handles | the handle's lifecycle matches the client's |
| Contracts, scenario engine, broker policy | none (pure) | schemas, catalogues, key strategies, offset arithmetic, address checks | agreement with a reference definition |
| HTTP routes, process shutdown | session cookie; signal handlers | map requests to the runtime | – |
| Live client, `WP/use-*.ts`, `WC/visualization-reducer.ts` | the view of a run, the connection, refreshes, the command under way | reducer and hooks | what is shown is the run, or the user is told |
| Experience, `WC/scenario-experience/*` | none (pure) | a frame for each state: graph, tables, facts | the frame names only what its graph has |

How they meet. Routes call the runtime. Every command on a run goes through
`mutateRun` to the lifecycle's chain; its body calls consumers, messages or the
producer, which await the adapter. kafkajs calls back `handleConsumed` for each
message, *outside* the chain; that callback registers itself as run-scoped work,
waits out the processing latency and then queues `process()` on the chain. The
producer's timer also queues on the chain. A cleanup does not queue: it takes a
token (which refuses later mutations), waits, up to a deadline, for the chain's
tail, the experiment and the run-scoped work, then disconnects consumers, then
deletes the topic. `createRun` is not on the chain either: it awaits the broker
while its run can already be reset. Each of these emits events through the hub;
the browser applies them, fetches a snapshot after each, and also merges the
snapshots that answer its own commands.

The hard behaviours follow from that: checks that are stale after an await;
bodies that resume after the cleanup that gave up on them; late answers to calls
that were retried; cleanups that join, fail and retry; a callback and a command
each waiting for the other; two operations awaiting one cleanup; redeliveries;
snapshots, events and answers that overtake each other; experiments repeated in
orders nobody wrote a test for. `PROJECT.json` lists each hazard at its line with
the property that covers it.

## 2. Modules

The run and its concurrency:

| module | models | state and actions |
|---|---|---|
| `RunGate` | abstract specification | a run's mutations as phases, tickets and a set of closing cleanups; no promises, tails or tokens |
| `RunLifecycle` | `PlaygroundRunLifecycle` | `mutationTail`, `cleanupRequestTokens`, `cleanupOperation` are the maps of the same names at one run. `Call` and `RefuseCall` are `mutate()` up to `await previous` (a call without predecessor starts at once, as in the code), `Resume` what follows it with the second round of checks, `FinishMutation` the `finally`. `RequestCleanup`, `FinishCleanup` and `ReleaseToken` are `cleanup()`, its `finally` and the `allSettled` that returns the token |
| `RunCleanup` | cleanup, consumers, run-scoped work of a remote run | `INSTANCE RunLifecycle` with `unavailable` bound to the run's real status, so each mutation step is the lifecycle's step together with the body it starts or ends. Bodies are cut at their single await: `BeginAdd`/`ConsumerCreated`/..., `BeginDisconnect`/`ConsumerDisconnected`/`OtherAnswer`. `StartWork`, `DelayEnds`, `SettleWork` are `handleConsumed`. The cleanup is `RequestCleanup`, `GiveUp`, `DisconnectConsumers`, `Disconnect*`, `SkipAdapter` or `CleanAdapter`, `Adapter*`, `FinishCleanup`. `load` fixes what is asked of the run in a behaviour, which deadlines may be missed and whether the broker is healthy |
| `ProducerScheduler` | producer scheduler and producer commands, with suspension by an experiment and the cleanup's `stopRunTimers` | `producerTimer` holds the generation its callback has captured; a tick is `queued` while it waits in the chain and `producing` afterwards |
| `RunRegistry` | registry, `createRun`, `reset`, `deleteRun`, `shutdown` | both maps, a run's status, and who awaits which cleanup; a cleanup is its beginning, the moment it marks the run, and its outcome |
| `DemoMessages` | messages of a demo run and what its experiments do to them: produce, deliver, process, rebalance, requeue, forgetting | `run.messages` is the interval `first..sent` (only `produce` adds, only `boundMessages` drops); `active` and `crashed` are `run.consumers`, `owner` its assignments; `processingTimers` is the map of that name: a timer's consumer, its delay and the timers that were armed before it, which says which may fire first. `scenarioId` says which messages fail and which experiments there are. A body is one action, except that `Produce` and `Produced` are the two sides of the await of the adapter. `queue` holds the `process()` calls whose timers fired during that await. Visible message states are those a body leaves behind: a demo `process()` goes without a wait from "received" to "committed" or "failed", or to "processed" for a caller that withholds the commit (`Process(m, k, commit)`, `StaysUncommitted`); a requeue takes back what is "received" or "processed". An experiment is `BeginExperiment` (the timers become `suspendedTimers`), `Produce` and `Produced` for each of `toProduce`, `ExperimentAdds`, `ExperimentProcesses` for each of `toProcess`, and `EndExperiment`, which arms what is `ToResume`; `traced` and `completedExperimentIds` are what the next one reads. Those of scenarios that leave the run alone only suspend and resume. `uncommitted` is history: what was ever processed without a commit |
| `RemoteMessages` | messages of a remote run that stays open, with add, stop and crash | `chain` is the queue of mutations, `busy` the await of its first body; `messages` is `run.messages`, `state`, `assigned` and `consumedBy` the fields of its records; a consumer is absent, starting, running or being disconnected, and `handling`/`handler` is what its `eachMessage` does with which message. `log` and `committedOffset` are the broker's partition and group. `Deliver` is `handleConsumed` up to its delay, `DelayEnds` queues `process()`, `BeginProcess` and the commit's answers are its body |

Experiments and the live view:

| module | models | state and actions |
|---|---|---|
| `RuntimeEventHub` | `runtime-event-hub.ts`, the event stream route | `events` is the retained history, `stream` what the subscriber was given and the client has not received; `Emit`, `Subscribe` (snapshot, then replay after the last id), `Unsubscribe` |
| `ExperimentTransaction` | `runExperiment()` and the transaction around it, in a demo run | reservation, wait for the turn, second check, checkpoint, buffered events, observation, completion or failure in any step, and a cleanup that supersedes it. Producer ticks and processing timers fire and queue meanwhile |
| `LiveUpdates` | reducer and hooks of the browser, composed with the two above | `view` is the reducer's state; `refresh` the snapshot fetched after events, with its request queued and its response under way; `action` the one command a client has under way; `connection` its EventSource. Any of them may overtake another |

Scenarios, as functions from state to state:

| module | models |
|---|---|
| `ScenarioCatalog` | the two catalogues: experiments with prerequisites, topics, limits |
| `ScenarioShared`, `ScenarioRouting`, `ScenarioDelivery`, `ScenarioDataLifecycle`, `ScenarioConsistency`, `ScenarioPipelines` | `scenario-experiments/*.ts`, a file each: what each experiment of the fifteen scenarios does to the state, and the transitions it shows |
| `ScenarioObservations` | what the experiments of the first two scenarios do to the run itself: a run is a record, a command a function on it |
| `ScenarioContracts` | the schema of each state (`scenario-state.ts`) |
| `ScenarioExperiments` | the state machine: any scenario, `RunExperiment` in any order the prerequisites allow, and `AddConsumer`, `CrashConsumer`, `ProduceMessage`, `ProcessMessage` in between |
| `ScenarioGraphs` | the graph of each scenario |
| `ExperienceFrame`, `ExperienceFundamentals`, `ExperienceDelivery`, `ExperienceGates`, `ExperienceHistory`, `ExperiencePipelines` | the frames, a module for each directory of `scenario-experience/scenarios` |
| `ScenarioExperience` | extends `ScenarioExperiments` with the frame of each state it reaches |

`MCRunLifecycle`, `MCRunCleanup`, `MCRunRegistry`, `MCDemoMessages` and
`MCLiveUpdates` give constants their values for TLC; the other specifications are
run directly. `RunLifecycle_proofs`, `RunCleanup_proofs`,
`ProducerScheduler_proofs`, `RunRegistry_proofs`, `DemoMessages_proofs`,
`RemoteMessages_proofs`, `LiveUpdates_proofs` (which has those about
`ExperimentTransaction` too) and `ScenarioExperiments_proofs` hold theorems.

`RunCleanup` composes lifecycle, consumers and cleanup; `LiveUpdates` composes
experiments, hub and client; `ScenarioExperience` composes builders, observed run
and frames. `ProducerScheduler`, `RunRegistry`, `RemoteMessages` and
`ExperimentTransaction` take from the lifecycle only what `RunGate` promises
(bodies do not overlap; a closed run refuses them) so that each stays small.

Conventions. Names are those of the source. A call of the code that can be made
many times is a member of a set (`Mutations`, `Cleanups`, `Ticks`, `Works`). A
variable marked *history* is not in the code. An operator marked `Mutant:` is a
broken variant of its neighbour, of the kind a careless change of the code
would introduce. No specification uses it: `PROJECT.json` pairs it with the
property that must fail once it takes its neighbour's place, which shows that
the property can fail.

External behaviour, all assumptions about code outside this repository:

- A call to the broker settles when and how it likes, or never; in
  `RemoteMessages` it may be refused although it had its effect.
- kafkajs `consumer.disconnect()` ends only after running `eachMessage` handlers
  have returned, and delivers nothing more once it has been called
  (`HandlersReturned`, `Deliver`).
- A member that joins a group fetches from the committed offset. A member that
  lost its partition may handle and fetch on until it learns of it.
- Deleting a topic that does not exist is refused (`AdapterAnswers`).
- Kafka may accept the deletion of a topic whose deletion it already accepted and
  has not finished; `SlowDeletion` switches this on and off.
- Continuations that await one settled promise run one after the other with
  nothing in between: they are one action (`CleanupSucceeds` in `RunRegistry`).
- A stream of server-sent events arrives in order or is lost with its connection;
  an EventSource connects again with the id of the last event it received, unless
  the server refuses.

Where the code is subtler than it looks, and the models follow it:

- `CreateFails` in `RunRegistry` marks a run "error" also when it was cleaned
  meanwhile, as the catch of `createRun` does. `RunCreated` includes the
  `snapshot()` that follows, whose failure is `CreateFails`.
- The remote `produce()` disconnects its producer before it returns
  (`KR/index.ts:484`), so a consumer can be given the message while its record is
  still "producing": the callback ignores it and the record stays "produced" for
  ever. The history variable `early` names these messages.
- A record that was forgotten at the limit and is delivered again is made anew
  and processed again, as a new record.
- `crash()` requeues what its consumer had received; in a remote run there is
  never anything, since the disconnect has waited for the handler.
- `add()` puts "running" over the status a rebalance has just given the consumer
  (`playground-runtime-consumers.ts:120-125`).
- Retention advanced, recovered and advanced again answers "offset out of range"
  although the committed offset is the start of the log
  (`scenario-experiments/data-lifecycle.ts:332-353`).
- `upsertById` updates a record where it stands, so what a frame takes as the
  last of an array is not always the record of the last experiment.
- Expiring a tombstone after a new series of keys was written removes it while an
  older value of its key lives.

## 3. Runs and bounds

| run | question | bounds, and why they suffice |
|---|---|---|
| `lifecycle` | is the chain a queue, are bodies exclusive, does the run stay closed, is `RunGate` implemented; does every call settle and every token return | 3 calls (predecessor, tail, overtaker), one of each cleanup behaviour; 2 cleanups, so tokens overlap; 1 retained promise. Cleanups may recur without bound. The proofs extend the safety part to any sizes |
| `cleanup` | are topic, handles and status right when consumers are added, stopped and crashed and a message is handled around a cleanup and its retries; does a cleanup end whatever does not settle; does a retried reset finish when the broker permits | four loads: two adds; add and stop; add, crash and a message; and, with a healthy broker, add and a message. Ids 1..3 with a limit of 2, cleanups that recur, every step may miss its deadline (in the healthy load, all but the deletion, see finding 2; and no stop, see finding 1). The proofs extend the safety part to any load |
| `producer` | one tick, no stale timer, no lost tick, quiet after cleanup; does a running producer go on | 2 callbacks (a second tick needs a second callback), 12 changes of generation, more than any path to a distinct state needs; after the last one the commands stop, which is the situation the liveness is about; safety is proved for any |
| `registry` | do the maps agree, is there one active run, is no topic orphaned | 3 runs over 2 sessions with symmetry: a run overtaken by its successor and a third one beside it, while the other session interleaves; ids are never reused, as with `randomUUID` |
| `messages` | is no message stranded or lost, is one processed again only if an experiment left it without a commit; does every message settle once the group is stable, with what the experiments suspended | two scenarios: the one whose experiments use the run, with both of them (the second requires the first), and one that fails every third message and whose experiments only suspend the timers, with any one of them. 4 messages with room for 3 (one is forgotten) in 2 partitions: the keyed experiment produces 3, so one of the user's comes before it, with its timer suspended, or after it. 3 ids and a limit of 3 consumers, the limit of the scenarios, with which growth is not simulated (a crashed consumer keeps its id, a stopped one gives it back); 2 latencies; 3 changes of group or latency, beside the consumers the experiments add: enough for a call that names a consumer whose id is reused, and for the consumer of the message without a commit to leave and another to process it again |
| `remote_messages` | is a record processed once although Kafka delivers again, is none left behind, does the group commit past none that waits | 3 messages with room for 2 records (one is forgotten and may come back), 2 consumers, so that two handle one partition at once, and 3 commands: join, takeover, and a stop or crash in between |
| `scenarios` | do the states of all fifteen scenarios meet their schemas and agree with themselves, do the frames name what their graphs have | 4 experiments: each scenario has at most three, so all orders and one repetition; 2 commands in between for the scenarios that observe the run; any hash of the two keys |
| `live_experiments` | is an experiment all or nothing, is nothing stranded, does a client at rest show the run, and does it get there | three loads: experiments against timers and a cleanup; a client that loses its connection twice; a client of a run that is cleaned and goes. A history of 6 events of which 3 are replayed and 4 kept in the view, so that each limit is met |
| `stop_deadlock`, `late_deletion`, `registry_orphan`, `message_order` | the findings of section 6 | smallest instances that show them |

`CHECK_DEADLOCK FALSE` is given where calls are used up and the system really
stops (every mutation over, every run retired). `lifecycle` checks for deadlock:
a run's availability can always change.

A module's safety and liveness are checked in one run where the instance is small
enough: `FairSpec` restricts no finite behaviour (its fairness is weak or strong
fairness of parts of `Next`), so an invariant checked under it is one of `Spec`.

What the less obvious properties say: `GroupsAgree`, that a group owns each
partition once and that what a rebalance is said to move is what its assignments
show; `TimesFollowTransitions`, that virtual time advances by what the
transitions show; `LogsAgree`, that logs, cursors, projections and counts of one
state are of one history; `StaleIsTold`, that a client with nothing under way
shows the run, its events in order and any hole in them marked, or an error.

## 4. Fairness

Only what the event loop gives is fair:

- `RunLifecycle!FairSpec`: a continuation whose promise has settled runs
  (`Resume`, `ReleaseToken`). That bodies, cleanups and other work settle is an
  explicit assumption there, to show that the class itself loses nothing.
- `RunCleanup!FairSpec`: continuations and timers run (`EventLoop`). Nothing is
  assumed of the Kafka client unless the load is healthy: `CleanupTerminates`
  holds under this alone. In a healthy load, `HealthyBroker` adds that each call
  that can be answered is answered, and that a disconnect or deletion that is
  tried again and again succeeds in the end (strong: an attempt fails, is
  withdrawn and made again), and `UserRetries` a user who resets an incomplete
  run again.
- `DemoMessages!FairSpec`: the demo broker answers, timers fire, waiting calls get
  their turn, and an experiment goes on, whose awaits are of the demo broker only. `MaxChanges` makes the group stable in the end, which
  `EveryMessageSettles` needs: a user who stops consumers faster than the latency
  passes, for ever, does starve a message.
- `ProducerScheduler!FairSpec`: timers fire, a queued tick gets its turn whenever
  the chain keeps coming free (strong: other commands take turns), experiments
  and produce calls settle. Nothing is assumed of the user or the cleanup.
- `LiveUpdates!FairSpec`: calls get their turn, an experiment and a cleanup end,
  what is sent over a connection arrives or fails, the browser connects again. A
  refresh may fail (`LoseRefresh`); the client does not retry it but says so.

`RemoteMessages` and `ScenarioExperience` state no liveness: a group whose stop
waits for its own handler does not go on (finding 1), and an experiment is a
step.

## 5. Proofs

TLAPS checks these for every value of the constants. Assumptions on constants
are those the modules name (`NoOneAssumption`, `NobodyAssumption`,
`BehaviorAssumption`, `RefusalAssumption`, `MaxGenerationAssumption`,
`NullAssumption`, `NullIsNoKey`, `ScenarioAssumption` and the like), each about sentinels and types; `RefusalAssumption`
says that none of the calls `RunCleanup` has is one that a cleanup lets pass, which
is so in the code.

`RunLifecycle_proofs`. `TypeCorrect`, `ChainCorrect`, `MutualExclusion`,
`StaysClosed`, `Refinement`. The invariant `IInv` joins the properties with

- `TicketsTaken`: no ticket is ahead of the counter, so a new call is the youngest;
- `TokenPerCleanup`: a token is held exactly while its cleanup is performing or
  retaining, so a token that is released is the one that was taken;
- `OwedRetained`: while any mutation is live that a cleanup began under, the
  cleanup holds its token and retains a live promise at least as young. This is
  the heart: the code retains only the *tail*, and the tail is enough because the
  chain is a queue;
- `OwedCalled`: calls made later are not owed.

`ChainIsQueue` says what mutual exclusion rests on: a waiting call waits for the
live call right before it. `OldestLemma` (a call that runs, or whose predecessor
has settled, is the oldest) and `LeaveLemma` (the chain survives when the oldest
leaves) are the two facts about it that every step uses. `Refinement` then maps
`pc` to `phase` and the tokens to `closing`, action by action.

`RunCleanup_proofs`. `SpecTypeOK`, `SpecDeleteOnlyWhenQuiet`,
`SpecCleanMeansClean`, `SpecNoConsumerLost`, `SpecStoppedRunIsEmpty`,
`SpecNothingStartsAfterCleanup`. `LifecycleStep` shows that every step is a step
of the lifecycle or leaves it alone, so the lifecycle's invariant holds here too
and bodies exclude each other. The argument about the cleanup is then:

- `NothingNew`: while a cleanup lasts, whatever lives was there when it was
  requested;
- `MetIsQuiet`: so once its prerequisites are met the run is quiet, and a quiet
  run that is closed stays quiet and gains no handle;
- `HandlesAwaited`: the handles that are left are those whose disconnect is
  awaited, so once they are answered for nothing is connected;
- `AttemptIsClosed`: while a deletion is pending the run is closed, first by the
  token and then by its status, whatever the cleanup that began it has become.

`ProducerScheduler_proofs`. `TypeCorrect`, `SingleTick`, `TimerIsCurrent`,
`NoLostTick`, `CleanupStopsProducer`. The four properties are inductive together
with `Suspension`: while an experiment holds a checkpoint the producer is not
running, so the timer that its end arms is the only one.

`RunRegistry_proofs`. `SpecTypeOK` and `SpecRegistryAgrees` whatever the broker
does; `SpecOneActiveRun`, `SpecNoOrphanTopic` and `SpecDropsRetiredRunsOnly` for
`SlowDeletion = FALSE` (finding 3 is the other case). Their strengthening is
about the broker. `DroppedIsDeleted`: a run that its session no longer has was
deleted there. So a cleanup that succeeds is one of a run its session still has,
and what the continuations of `reset()` and `createRun()` drop is that run.

`DemoMessages_proofs`. `SpecTypeOK`, `SpecReprocessedOnlyIfUncommitted`,
`SpecNothingStranded`, `SpecReceivedIsPending`, for every scenario and any number
of experiments. None but the last depends on which timers fire or on what the calls
that wait are for. That a message is processed once, and once more only if it was
left without a commit, needs

- `ProcessingsCounted`: a message was processed once if a commit was ever withheld
  from it, and once if it is committed now. What is committed is never requeued, and
  `process()` looks at the state;
- `KeyedAreFresh`: from what the keyed experiment still has to process no commit was
  withheld before: it has just produced it.

What is processed without a commit stays with a consumer of the group
(`ProcessedIsHeld`) because whoever leaves has it taken back; no message waits in
vain because whatever waits is delivered whenever partitions are dealt out. The
last theorem needs `OwnersAreActive` (partitions are dealt out to consumers that
are active only, so what is delivered goes to one that exists) and what arming and
clearing do to the map of timers (`TimersWithoutFacts`, `ScheduleFacts`): a timer
is cleared only when its message is forgotten, is taken back, or is given to
another consumer, and the call of `process()` that a timer made stays in the queue
until it has run. Across an experiment it needs `ArmedForItsConsumer`: the armed
timer of a message that was received names the consumer that has it, so the one
that the end of an experiment finds armed, and leaves alone, is the right one.

`RemoteMessages_proofs`. `SpecTypeOK`, `SpecProcessedOnce`,
`SpecReceivedIsPending` and `SpecNothingSkipped`, from one invariant. None of the
properties is inductive, because three things that the code keeps apart speak of
one message: its record, the handler that kafkajs awaits, and the call of
`process()` in the queue of mutations. `Records` ties a record to the body whose
turn it is, `Handlers` ties it to the handler and the handler to at most one
call, so a handler returns only when its record is received no more. For what
the offsets have passed (`Passed`), the argument needs that a message is in the
log once and never before the body that produces it (`LogOnce`): otherwise a
record could begin to wait behind the group. `Retained` says that the records
are those that are not absent, each once and no more than the limit, and that a
body whose record was not forgotten finds it as it left it. The proof has a
lemma per part, over what a step may do to the queue (it makes a call, ends one,
or leaves it) and to a handler, so that each part meets only the steps that can
disturb it.

`LiveUpdates_proofs`, the server. `SpecAllOrNothing`,
`SpecNothingStrandedByExperiment`, about the specification of `LiveUpdates`, which
composes the transaction with what a client may ask; `ServerInv` is the invariant.

- `Reservation`: one experiment at most is under way or waits for its turn, and
  that is the one that is reserved.
- `Buffering`: its events are kept back as long as no cleanup was requested.
- `TimersKept`: a failure goes back to the checkpoint, so the timers an experiment
  suspended, with the calls of `process()` that wait, must be enough for what the
  checkpoint holds as well as for what there is now. Such a call may run only after
  the experiment; until then it counts for both.
- `History`: the buffer begins with the start of the experiment under way, no event
  of which is in the history, and the history is `Whole`: the events of each
  experiment are a block that ends it. `HistoryGrows` shows that a block, or events
  of the run itself, can be added behind a whole history and the oldest events
  dropped, so that only the first block may lose its beginning.

`LiveUpdates_proofs`, the client. `SpecStaleIsTold`. A client is told nothing by the absence of
messages, so the invariant has to say what is still coming, whatever overtakes
what.

- `Ended`: a run that is stopped has no experiment and no calls left, so it emits
  nothing more that a stream could miss.
- `Consistent`: two events of the same sequence are the same event, whoever has
  them (history, view, stream, a response or an answer under way), and nothing is
  newer than the server's sequence. Merging is sound because of this.
- `Reach`: an open stream leads up to the newest event.
- `SnapshotsFit`: a snapshot that has seen the newest event shows the run as it is,
  unless an experiment or a cleanup keeps something back.
- `Coming`: if the client shows something else and the user was not told, it has yet
  to receive an event, a snapshot that has seen the newest one, or the answer to a
  request it has made.

Every step of the server is `Silent`, changing nothing that is shown, or an
`Emission` of events, the newest of which is streamed; so the many handlers meet
the client's invariant in two lemmas (`SilentKeeps`, `EmissionKeeps`). Of the
reducer, `MergeFacts` shows that a merged view is in the order of sequences: it is
placed by counting, and `EveryPlaceIsTaken` shows by cardinalities that events with
distinct sequences fill every place.

`ScenarioExperiments_proofs`. `SpecIInv`, `SpecTimesFollowTransitions`,
`SpecLogsAgree`, `SpecGroupsAgree`: for any number of experiments and of commands
between them, from every choice of partitions the broker may make for the two
keys. A scenario has a state of its own kind, so `IInv` says of each scenario what
its property needs (`ScenarioOk`), and of the run what the two scenarios that
observe it need (`RunsOk`):

- `RunOk`: a record with a key is in the partition of the key, below its next
  offset, and a later record of the key has a higher one; the consumers that are
  active have the partitions in turn. Every command keeps this, and an experiment
  is a sequence of commands (`PartitioningRunKeeps`), so what it observes of the
  run is right however the user has left it (`ObservedIs`).
- `SamplesOk` and `Ordered`: the samples of the lag have times of their own, none
  after the clock, in the order of their times. A new sample is later than all of
  them, so the last one is that of the last experiment, after a sort too.
- `RetentionOk`: the cutoff is never less than the retention time behind the clock,
  and the log start follows from the cutoff; so it never moves back, although an
  experiment computes both anew.
- `TransactionsOk`: the transactions are among the three that the experiments write
  and their ids are distinct, so no sequence is accepted by two of them.
- `HistoryOk`: what the last experiment wrote says the times of its transitions,
  for a start at any time. This is no property of one state, hence the history
  variables.

`BuiltIsOk` and `BuiltFollows` join the scenarios: an experiment makes from a state
as it should be one like it. What the builders fold over arrays (sums, upserts, the
sort, the projection of a log) is handled by the sequence of its intermediate
values (`DoneInTurn`) and an induction over a bound (`Induction`, from the fact
that a set of naturals has a least element). `NullIsNoKey` says that a record
without a key has none of the two keys of the experiments. TLC has checked `IInv`
on the instance of `scenarios`.

Model-checked only: liveness, which rests on fairness and ENABLED (the calls that
settle, the retries that release a run, the client that catches up and the like);
`SchemaHolds`, which says of ids that they are strings: ids are built by
concatenation and `ToString`, and the provers know of no string, not even a
literal, that it is one; and `FrameNamesItsGraph`, which compares names that are put
together from numbers, of whose digits the provers know nothing.

## 6. What was found

1. **Stopping a remote consumer that is handling a message hangs**
   (`stop_deadlock`). `stop()` awaits `disconnect()` while it holds the chain
   (`playground-runtime-consumers.ts:153`); kafkajs waits for the handler
   (`consumer-handlers.ts:122`); the handler's `process()` waits for the chain
   (`playground-runtime-messages.ts:374`). `crash()` has the same shape (line
   188). The README's API table says of the route "Removes a consumer."
   (README.md:181). Once hung, only the deadlines of a cleanup end the wait, and
   that cleanup is incomplete. The finding rests on the kafkajs assumption above.
2. **A topic deletion that succeeds late can never be finished**
   (`late_deletion`). The attempt is forgotten
   (`playground-cleanup-deadlines.ts:142`); the retry deletes a topic that is gone
   and fails, each time. The user is told "Retry reset to finish releasing Kafka
   resources." (`use-playground-run-commands.ts:172`).
3. **A session can end up with two active runs** (`registry_orphan`). The catch of
   `createRun` drops whatever run the session has by then
   (`playground-runtime.ts:244`), where README.md:170 says "only one active run is
   supported." It takes a broker that accepts a second deletion of a topic that is
   still being deleted. Without such a broker the second cleanup fails, nothing is
   dropped, and `registry` shows `OneActiveRun` to hold.
4. **A demo run processes a partition out of order** (`message_order`). With a
   constant latency: consumer 1 receives offset 0; consumer 2 joins, takes the
   partition over and receives offset 1; consumer 1 is stopped or crashes; offset
   0 is requeued with a new timer behind that of offset 1
   (`playground-runtime-consumers.ts:165`). Offset 1 is processed first, and its
   commit of 2 is followed by a commit of 1. The lesson of the scenario is
   "Ordering is guaranteed only within a partition."
   (`packages/scenario-engine/src/index.ts:37`). A latency that is lowered has the
   same effect.


Smaller things met on the way, each as the code has it and none contradicted by
a document: a settings change emits no event, so a second tab shows it only with
the next event, and a request that is refused for its latency has already applied
its rate; a client that was away longer than the replay reaches back appends old
events behind newer ones until the refresh it triggers sorts them; a refresh that
fails is told and not retried.

## 7. What is not modelled

- `add()` of a remote consumer holds the chain until the consumer has joined its
  group, and the group waits for its members to rejoin, one of which may wait for
  the chain in `process()`. Only a timeout of the group or of the startup ends
  that. The wait goes through the group protocol of kafkajs and the broker, of
  which `RemoteMessages` keeps no more than what the runtime sees.
- The assignments kafkajs reports are copied into the view and decide nothing.
- Of a demo run: the keys that choose a partition (any partition may be chosen;
  `ScenarioObservations` has the keys), counters, and the cleanup (`RunCleanup`),
  after which alone `produce()`, and so an experiment, fails (`ExperimentTransaction`
  has the checkpoint it goes back to). `DemoMessages` does not use that the demo
  broker answers within the same turn of the event loop: it treats the adapter as
  the runtime does, as something that is awaited. What holds there holds for the
  faster broker too; the counterexample of finding 4 does not depend on it.
- `updateSettings()` beyond its effect on the producer and on the latency: the
  two settings meet in no other state.
- Of an experiment: stages of the recovery that fail themselves, and consumer
  handles, which the checkpoint does not hold. In `ExperimentTransaction` a
  message is received when it is produced and leaves the run's care when it is
  processed, committed or not; `DemoMessages` has the rest of its life.
- A start of a consumer that can be neither finished nor rolled back is in
  `RunCleanup` only; `RemoteMessages` has the starts that are rolled back.
- Events that one handler emits without a wait in between are one event in
  `LiveUpdates`; updates the client queues for a microtask are applied at once,
  since it ends before the next message of the network arrives.
- Labels, narrative, columns, layout and wording of the scenarios; the explore
  view; the user interface; the client's bootstrap and form state.
- Broker policy, request validation, configuration, diagnostics: stateless input
  checks. HTTP routes: the mapping of requests and errors. The signal handlers of
  the process. The `kafka-cleanup` script: sequential, with no concurrent state.
- In `RunCleanup`, a demo run: its calls settle at once, so no step is late. A
  callback or a `DELETE` that is refused at its first check changes nothing and
  is left out. Consumers that a run is created with are added like others.
- In `RunRegistry`, the steps inside a cleanup (`RunCleanup` has them).
- Wall-clock time: a deadline may pass whenever its step is pending.
