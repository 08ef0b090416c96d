--------------------------- MODULE RemoteMessages ---------------------------
(***************************************************************************)
(* The messages of a remote run that stays open (produce, processConsumed  *)
(* and processInRun of playground-runtime-messages.ts) while its consumers *)
(* come and go: one partition, its consumer group, and the queue of the    *)
(* run's mutations. RunCleanup has what a cleanup adds.                    *)
(*                                                                         *)
(* The broker and kafkajs are external. Of the group this module keeps     *)
(* what the code has to live with: a member that joins fetches from the    *)
(* offset the group has committed, a member that lost its partition may    *)
(* handle and fetch on until it learns of it, a call may fail although it  *)
(* had its effect, and a consumer is disconnected only when its message    *)
(* handler has returned.                                                   *)
(***************************************************************************)
EXTENDS Integers, Sequences, FiniteSets, FiniteSetsExt, SequencesExt

CONSTANTS
  MaxMessages, MaxCommands,     \* bounds: messages produced, consumer commands given
  ConsumerIds, ConsumerLimit,
  RetainedMessageLimit,
  FailedByScenario,             \* the messages evaluateScenarioProcessing() fails
  NoOne

Messages == 1..MaxMessages

ASSUME BoundsAssumption == MaxMessages \in Nat /\ MaxCommands \in Nat /\ RetainedMessageLimit \in Nat \ {0}
ASSUME ConsumersAssumption == ConsumerIds \subseteq Nat /\ ConsumerLimit \in Nat /\ NoOne \notin ConsumerIds
ASSUME FailedAssumption == FailedByScenario \subseteq Messages

VARIABLES
  chain,           \* the mutations that were called and have not ended
  busy,            \* does the body of the first one await something?
  detached,        \* was the record it holds forgotten meanwhile?
  calls, commands, \* how many messages and commands were asked for
  \* the run
  messages,        \* run.messages, the oldest first
  state, assigned, \* of a record: state, assignedConsumerId
  consumers,       \* run.consumers: their status
  handles,         \* run.consumerHandles
  \* message handlers, one a consumer
  handler, handling,
  \* the broker and the group
  log, committedOffset,
  members,         \* the clients in the group
  fetching,        \* those that think the partition theirs
  position,        \* the offset each fetches next
  \* history
  processed,       \* how often a record was processed
  early            \* the messages a handler got before produce() had returned

callVars == <<calls, commands>>
recordVars == <<messages, state, assigned, processed>>
consumerVars == <<consumers, handles>>
handlerVars == <<handler, handling>>
groupVars == <<members, fetching, position>>
brokerVars == <<log, committedOffset>>
vars == <<chain, busy, detached, callVars, recordVars, consumerVars, handlerVars, groupVars, brokerVars, early>>

\* Every variable keeps its type; the run keeps no more records than
\* boundMessages() allows, and each of them once.
TypeOK ==
  /\ chain \in Seq([op : {"produce", "process", "add", "stop", "crash"},
                    message : Messages \union {0}, consumer : ConsumerIds \union {NoOne}])
  /\ messages \in Seq(Messages)
  /\ Len(messages) <= RetainedMessageLimit
  /\ \A m \in Messages : state[m] = "absent" <=> m \notin ToSet(messages)
  /\ consumers \in [ConsumerIds -> {"absent", "starting", "running", "stopping", "crashed"}]
  /\ handles \subseteq ConsumerIds
  /\ committedOffset \in 0..Len(log)
  /\ fetching \subseteq members

Init ==
  /\ chain = <<>>
  /\ busy = FALSE
  /\ detached = FALSE
  /\ calls = 0
  /\ commands = 0
  /\ messages = <<>>
  /\ state = [m \in Messages |-> "absent"]
  /\ assigned = [m \in Messages |-> NoOne]
  /\ consumers = [c \in ConsumerIds |-> "absent"]
  /\ handles = {}
  /\ handler = [c \in ConsumerIds |-> 0]
  /\ handling = [c \in ConsumerIds |-> "none"]
  /\ log = <<>>
  /\ committedOffset = 0
  /\ members = {}
  /\ fetching = {}
  /\ position = [c \in ConsumerIds |-> 0]
  /\ processed = [m \in Messages |-> 0]
  /\ early = {}

-----------------------------------------------------------------------------
(* The queue of mutations *)

Mutation(op, m, c) == [op |-> op, message |-> m, consumer |-> c]

Called(op, m, c) == chain' = Append(chain, Mutation(op, m, c))

\* The first mutation has its turn.
Turn(ops) == chain # <<>> /\ ~busy /\ Head(chain).op \in ops

\* The body of the first mutation has its answer.
Answer(ops) == chain # <<>> /\ busy /\ Head(chain).op \in ops

Await == busy' = TRUE /\ detached' = FALSE /\ UNCHANGED chain

Finish == chain' = Tail(chain) /\ busy' = FALSE /\ detached' = FALSE

CallProduce ==
  /\ calls < MaxMessages
  /\ calls' = calls + 1
  /\ Called("produce", calls + 1, NoOne)
  /\ UNCHANGED <<busy, detached, commands, recordVars, consumerVars, handlerVars, groupVars, brokerVars, early>>

CallCommand(op, c) ==
  /\ commands < MaxCommands
  /\ commands' = commands + 1
  /\ Called(op, 0, c)
  /\ UNCHANGED <<busy, detached, calls, recordVars, consumerVars, handlerVars, groupVars, brokerVars, early>>

CallConsumer == CallCommand("add", NoOne) \/ \E c \in ConsumerIds : CallCommand("stop", c) \/ CallCommand("crash", c)

-----------------------------------------------------------------------------
(* produce() *)

\* Mutant: one record too many is kept.
ExcessTooLate(s) == Max({0, Len(s) - RetainedMessageLimit - 1})

\* How many records are too many, and which ones are forgotten.
Excess(s) == Max({0, Len(s) - RetainedMessageLimit})

Forgotten(s) == ToSet(SubSeq(s, 1, Excess(s)))

\* messages.push() and boundMessages(): the oldest records are dropped; a body
\* that holds one of them goes on with an object the run no longer has.
AddRecord(m, to, consumer) ==
  LET s == Append(messages, m) IN
  /\ messages' = SubSeq(s, 1 + Excess(s), Len(s))
  /\ state' = [n \in Messages |-> IF n = m THEN to ELSE IF n \in Forgotten(s) THEN "absent" ELSE state[n]]
  /\ assigned' = [assigned EXCEPT ![m] = consumer]
  /\ processed' = [processed EXCEPT ![m] = 0]

BeginProduce ==
  /\ Turn({"produce"})
  /\ AddRecord(Head(chain).message, "producing", NoOne)
  /\ Await
  /\ UNCHANGED <<callVars, consumerVars, handlerVars, groupVars, brokerVars, early>>

\* The broker appends the message while its producer is connected.
BrokerAppends ==
  /\ Answer({"produce"})
  /\ Head(chain).message \notin ToSet(log)
  /\ log' = Append(log, Head(chain).message)
  /\ UNCHANGED <<chain, busy, detached, callVars, recordVars, consumerVars, handlerVars, groupVars, committedOffset, early>>

\* The record the body holds, if the run still has it.
SetRecord(m, to) ==
  /\ state' = IF detached THEN state ELSE [state EXCEPT ![m] = to]
  /\ UNCHANGED <<messages, assigned>>

\* produce() returns, its producer disconnected, or fails: a message whose
\* acknowledgement was lost is in the log all the same.
ProduceReturns ==
  /\ Answer({"produce"})
  /\ \/ Head(chain).message \in ToSet(log) /\ SetRecord(Head(chain).message, "produced")
     \/ SetRecord(Head(chain).message, "failed")
  /\ Finish
  /\ UNCHANGED <<callVars, processed, consumerVars, handlerVars, groupVars, brokerVars, early>>

-----------------------------------------------------------------------------
(* handleConsumed(): kafkajs awaits it before it delivers the next message. *)

\* Mutant: whatever the record's state, the message is received.
ReceivableAgain(m) == state[m] \notin {"absent", "producing"}

Receivable(m) == state[m] = "produced"

Receives(c, m) ==
  /\ handler' = [handler EXCEPT ![c] = m]
  /\ handling' = [handling EXCEPT ![c] = "delay"]

\* A message without a record, because it was forgotten, gets one again; one
\* that is not "produced" is passed over.
Deliver(c) ==
  /\ c \in fetching
  /\ handling[c] = "none"
  /\ position[c] < Len(log)
  /\ position' = [position EXCEPT ![c] = @ + 1]
  /\ LET m == log[position[c] + 1] IN
       \/ /\ state[m] = "absent"
          /\ AddRecord(m, "received", c)
          /\ detached' = (detached \/ (busy /\ Head(chain).message \in Forgotten(Append(messages, m))))
          /\ Receives(c, m)
          /\ UNCHANGED early
       \/ /\ Receivable(m)
          /\ state' = [state EXCEPT ![m] = "received"]
          /\ assigned' = [assigned EXCEPT ![m] = c]
          /\ Receives(c, m)
          /\ UNCHANGED <<messages, processed, detached, early>>
       \/ /\ state[m] # "absent" /\ ~Receivable(m)
          /\ early' = IF state[m] = "producing" THEN early \union {m} ELSE early
          /\ UNCHANGED <<recordVars, handlerVars, detached>>
  /\ UNCHANGED <<chain, busy, callVars, consumerVars, members, fetching, brokerVars>>

\* Mutant: the handler does not await process().
DelayEndsUnawaited(c) ==
  /\ handling[c] = "delay"
  /\ Called("process", handler[c], c)
  /\ handling' = [handling EXCEPT ![c] = "none"]
  /\ handler' = [handler EXCEPT ![c] = 0]
  /\ UNCHANGED <<busy, detached, callVars, recordVars, consumerVars, groupVars, brokerVars, early>>

DelayEnds(c) ==
  /\ handling[c] = "delay"
  /\ Called("process", handler[c], c)
  /\ handling' = [handling EXCEPT ![c] = "process"]
  /\ UNCHANGED <<busy, detached, callVars, recordVars, consumerVars, handler, groupVars, brokerVars, early>>

\* process() has settled: the callback returns.
Returns(c) ==
  /\ handler' = [handler EXCEPT ![c] = 0]
  /\ handling' = [handling EXCEPT ![c] = "none"]

-----------------------------------------------------------------------------
(* processInRun() *)

Processable(m, c) == state[m] = "received" /\ assigned[m] = c /\ consumers[c] # "absent"

BeginProcess ==
  /\ Turn({"process"})
  /\ LET m == Head(chain).message
         c == Head(chain).consumer
     IN  \/ /\ ~Processable(m, c)
            /\ Finish /\ Returns(c)
            /\ UNCHANGED recordVars
         \/ /\ Processable(m, c) /\ m \in FailedByScenario
            /\ Finish /\ Returns(c)
            /\ state' = [state EXCEPT ![m] = "failed"]
            /\ UNCHANGED <<messages, assigned, processed>>
         \/ /\ Processable(m, c) /\ m \notin FailedByScenario
            /\ processed' = [processed EXCEPT ![m] = @ + 1]
            /\ UNCHANGED <<messages, assigned>>
            /\ IF c \in handles
               THEN Await /\ state' = [state EXCEPT ![m] = "commit_requested"] /\ UNCHANGED handlerVars
               ELSE Finish /\ Returns(c) /\ state' = [state EXCEPT ![m] = "committed"]
  /\ UNCHANGED <<callVars, consumerVars, groupVars, brokerVars, early>>

\* Mutant: the next message is committed too, if there is one.
PastTheNext(m) == {Min({i + 1, Len(log)}) : i \in {i \in 1..Len(log) : log[i] = m}}

\* addToKafkaOffset(message.offset, 1n)
OffsetAfter(m) == {i \in 1..Len(log) : log[i] = m}

\* handle.commit() answers; a commit that fails may have been made.
CommitReturns ==
  /\ Answer({"process"})
  /\ LET m == Head(chain).message IN
       \/ SetRecord(m, "committed") /\ committedOffset' \in OffsetAfter(m)
       \/ SetRecord(m, "failed") /\ committedOffset' \in OffsetAfter(m) \union {committedOffset}
  /\ Finish
  /\ Returns(Head(chain).consumer)
  /\ UNCHANGED <<callVars, processed, consumerVars, groupVars, log, early>>

-----------------------------------------------------------------------------
(* add(), stop() and crash() *)

ActiveConsumers == {c \in ConsumerIds : consumers[c] \notin {"absent", "crashed"}}

FreeIds == {c \in ConsumerIds : consumers[c] = "absent" /\ c \notin handles}

\* The client connects and joins in its own time; the handler may be called
\* before createConsumer() has returned. (A start that cannot be rolled back
\* closes the run: RunCleanup.)
BeginAdd ==
  /\ Turn({"add"})
  /\ IF Cardinality(ActiveConsumers) >= ConsumerLimit \/ FreeIds = {}
     THEN Finish /\ UNCHANGED <<consumers, members>>
     ELSE /\ consumers' = [consumers EXCEPT ![Min(FreeIds)] = "starting"]
          /\ members' = members \union {Min(FreeIds)}
          /\ Await
  /\ UNCHANGED <<callVars, recordVars, handles, handlerVars, fetching, position, brokerVars, early>>

LeaveGroup(c) == members' = members \ {c} /\ fetching' = fetching \ {c} /\ UNCHANGED position

AddReturns ==
  /\ Answer({"add"})
  /\ \E c \in ConsumerIds :
       /\ consumers[c] = "starting"
       /\ \/ /\ handles' = handles \union {c}
             /\ consumers' = [consumers EXCEPT ![c] = "running"]
             /\ UNCHANGED groupVars
          \/ /\ handling[c] = "none"
             /\ consumers' = [consumers EXCEPT ![c] = "absent"]
             /\ LeaveGroup(c)
             /\ UNCHANGED handles
  /\ Finish
  /\ UNCHANGED <<callVars, recordVars, handlerVars, brokerVars, early>>

BeginDisconnect ==
  /\ Turn({"stop", "crash"})
  /\ LET c == Head(chain).consumer IN
       IF consumers[c] \in {"absent", "crashed"}
       THEN Finish /\ UNCHANGED consumers
       ELSE /\ consumers' = IF Head(chain).op = "stop" THEN [consumers EXCEPT ![c] = "stopping"] ELSE consumers
            /\ Await
  /\ UNCHANGED <<callVars, recordVars, handles, handlerVars, groupVars, brokerVars, early>>

\* requeueMessagesForConsumer() of a consumer that crashed.
Requeue(c) ==
  LET taken == {m \in Messages : assigned[m] = c /\ state[m] \in {"received", "commit_requested"}} IN
  /\ state' = [m \in Messages |-> IF m \in taken THEN "produced" ELSE state[m]]
  /\ assigned' = [m \in Messages |-> IF m \in taken THEN NoOne ELSE assigned[m]]
  /\ UNCHANGED <<messages, processed>>

DisconnectReturns ==
  /\ Answer({"stop", "crash"})
  /\ LET c == Head(chain).consumer IN
       \/ /\ handling[c] = "none"
          /\ LeaveGroup(c)
          /\ handles' = handles \ {c}
          /\ \/ /\ Head(chain).op = "stop"
                /\ consumers' = [consumers EXCEPT ![c] = "absent"]
                /\ UNCHANGED recordVars
             \/ /\ Head(chain).op = "crash"
                /\ consumers' = [consumers EXCEPT ![c] = "crashed"]
                /\ Requeue(c)
       \/ UNCHANGED <<groupVars, consumerVars, recordVars>>
  /\ Finish
  /\ UNCHANGED <<callVars, handlerVars, brokerVars, early>>

-----------------------------------------------------------------------------
(* The group *)

\* A member that has no message at hand joins, and is given the partition.
GainPartition(c) ==
  /\ c \in members \ fetching
  /\ handling[c] = "none"
  /\ fetching' = fetching \union {c}
  /\ position' = [position EXCEPT ![c] = committedOffset]
  /\ UNCHANGED <<chain, busy, detached, callVars, recordVars, consumerVars, handlerVars, members, brokerVars, early>>

\* A member learns that the partition is no longer its own.
LosePartition(c) ==
  /\ c \in fetching
  /\ fetching' = fetching \ {c}
  /\ UNCHANGED <<chain, busy, detached, callVars, recordVars, consumerVars, handlerVars, members, position, brokerVars, early>>

-----------------------------------------------------------------------------

Next ==
  \/ CallProduce
  \/ CallConsumer
  \/ BeginProduce
  \/ BrokerAppends
  \/ ProduceReturns
  \/ BeginProcess
  \/ CommitReturns
  \/ BeginAdd
  \/ AddReturns
  \/ BeginDisconnect
  \/ DisconnectReturns
  \/ \E c \in ConsumerIds : Deliver(c) \/ DelayEnds(c) \/ GainPartition(c) \/ LosePartition(c)

Spec == Init /\ [][Next]_vars

-----------------------------------------------------------------------------
(* Safety *)

\* Kafka delivers at least once, after every rebalance from the committed
\* offset on, and to two members at once if one has not learned of it: a record
\* is processed once all the same.
ProcessedOnce == \A m \in Messages : processed[m] <= 1

\* A record that was received is in the hands of a message handler that will
\* process it: no rebalance, stop, crash, failed start or failed commit leaves
\* it behind.
ReceivedIsPending ==
  \A m \in Messages : state[m] = "received" =>
    LET c == assigned[m] IN handling[c] # "none" /\ handler[c] = m /\ consumers[c] # "absent"

\* The group never commits past a record that waits to be received; the one
\* exception is a message a handler got before produce() had returned.
NothingSkipped ==
  \A i \in 1..committedOffset : state[log[i]] \in {"producing", "produced"} => log[i] \in early
=============================================================================
