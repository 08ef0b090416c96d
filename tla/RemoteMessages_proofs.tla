------------------------ MODULE RemoteMessages_proofs ------------------------
(***************************************************************************)
(* Proofs about RemoteMessages, for any number of messages, commands and   *)
(* consumers, any limit on the records, and a group that rebalances as it  *)
(* likes.                                                                  *)
(*                                                                         *)
(*   - Records: a record waits to be received, or was received, only       *)
(*     before it is processed; one whose commit is requested is held by    *)
(*     the body whose turn it is.                                          *)
(*   - Handlers: what a record in "received", a message handler and a call *)
(*     of process() say of each other agrees, so a handler ends only when  *)
(*     its record is received no more.                                     *)
(*   - Passed: the offset that is committed is the position of a consumer  *)
(*     whose handler is at work, and it passed no record that waits; a     *)
(*     message that is in the log is not about to be produced (LogOnce),   *)
(*     so no record that was passed begins to wait.                        *)
(*   - Retained: the records of the run are those that are not absent, no  *)
(*     more than the limit and each of them once.                          *)
(***************************************************************************)
EXTENDS RemoteMessages, WellFoundedInduction, NaturalsInduction, TLAPS

Ops == {"produce", "process", "add", "stop", "crash"}
MutationSet == [op : Ops, message : Messages \union {0}, consumer : ConsumerIds \union {NoOne}]
RecordStates == {"absent", "producing", "produced", "received", "commit_requested", "committed", "failed"}

\* The calls of an operation in the queue.
Waiting(ops) == {i \in 1..Len(chain) : chain[i].op \in ops}

QueueTypes ==
  /\ chain \in Seq(MutationSet)
  /\ busy \in BOOLEAN /\ detached \in BOOLEAN
  /\ calls \in 0..MaxMessages

RecordTypes ==
  /\ state \in [Messages -> RecordStates]
  /\ assigned \in [Messages -> ConsumerIds \union {NoOne}]
  /\ processed \in [Messages -> Nat]
  /\ early \in SUBSET Messages

ConsumerTypes ==
  /\ consumers \in [ConsumerIds -> {"absent", "starting", "running", "stopping", "crashed"}]
  /\ handles \in SUBSET ConsumerIds
  /\ handler \in [ConsumerIds -> Messages \union {0}]
  /\ handling \in [ConsumerIds -> {"none", "delay", "process"}]

GroupTypes ==
  /\ log \in Seq(Messages)
  /\ committedOffset \in 0..Len(log)
  /\ members \in SUBSET ConsumerIds /\ fetching \in SUBSET members
  /\ position \in [ConsumerIds -> 0..Len(log)]

Types == QueueTypes /\ RecordTypes /\ ConsumerTypes /\ GroupTypes

USE DEF QueueTypes, RecordTypes, ConsumerTypes, GroupTypes

\* Each call names what its operation needs, and a body is the first one's.
Calls ==
  /\ busy => chain # <<>>
  /\ \A i \in Waiting({"process"}) : chain[i].message \in Messages /\ chain[i].consumer \in ConsumerIds
  /\ \A i \in Waiting({"stop", "crash"}) : chain[i].consumer \in ConsumerIds
  /\ \A i \in Waiting({"produce"}) : chain[i].message \in 1..calls

Unprocessed == {"producing", "produced", "received"}

\* What a record says of its past and of the body that holds it.
Records ==
  /\ \A m \in Messages : processed[m] <= 1
  /\ \A m \in Messages : state[m] \in Unprocessed => processed[m] = 0
  /\ \A m \in Messages : state[m] = "commit_requested" =>
       busy /\ ~detached /\ chain[1].op = "process" /\ chain[1].message = m
  /\ busy /\ ~detached /\ chain[1].op = "produce" => state[chain[1].message] = "producing"

\* A record that was received is in the hands of the handler of its consumer.
ReceivedHeld ==
  \A m \in Messages : state[m] = "received" =>
    /\ assigned[m] \in ConsumerIds
    /\ handling[assigned[m]] # "none" /\ handler[assigned[m]] = m
    /\ consumers[assigned[m]] # "absent"

HandlersBusy ==
  /\ \A c \in ConsumerIds : handling[c] # "none" => handler[c] \in Messages
  /\ \A c \in members : consumers[c] # "absent"

\* A handler that has called process() waits for one call.
ProcessCalls ==
  /\ \A i \in Waiting({"process"}) :
       handling[chain[i].consumer] = "process" /\ handler[chain[i].consumer] = chain[i].message
  /\ \A i, j \in Waiting({"process"}) : chain[i].consumer = chain[j].consumer => i = j

\* Once the body of process() awaits, its record is received no more.
BegunIsProcessed ==
  busy /\ chain[1].op = "process" =>
    ~(state[chain[1].message] = "received" /\ assigned[chain[1].message] = chain[1].consumer)

\* Records, message handlers and calls of process() agree.
Handlers == ReceivedHeld /\ HandlersBusy /\ ProcessCalls /\ BegunIsProcessed

\* A record that may be passed over.
Passable(m) == state[m] \in {"producing", "produced"} => m \in early

\* What the offsets have passed, and where a handler got its message from.
Passed ==
  /\ \A i \in 1..committedOffset : Passable(log[i])
  /\ \A c \in ConsumerIds : \A i \in 1..position[c] : Passable(log[i])
  /\ \A c \in ConsumerIds : handling[c] # "none" => position[c] # 0 /\ log[position[c]] = handler[c]

\* A message is in the log once, and not before the body that produces it.
LogOnce ==
  /\ \A i, j \in 1..Len(log) : log[i] = log[j] => i = j
  /\ \A i \in 1..Len(log) : log[i] <= calls
  /\ \A i, j \in Waiting({"produce"}) : chain[i].message = chain[j].message => i = j
  /\ \A i \in Waiting({"produce"}) : \A k \in 1..Len(log) : log[k] = chain[i].message => i = 1 /\ busy

\* The run has a record once, unless it is absent, and a body whose record was
\* not forgotten finds it as it left it. A message that no body has begun to
\* produce has no record.
Retained ==
  /\ messages \in Seq(Messages) /\ Len(messages) <= RetainedMessageLimit
  /\ \A i, j \in 1..Len(messages) : messages[i] = messages[j] => i = j
  /\ \A m \in Messages : state[m] = "absent" <=> \A i \in 1..Len(messages) : messages[i] # m
  /\ busy /\ ~detached /\ chain[1].op = "process" => state[chain[1].message] = "commit_requested"
  /\ \A m \in Messages : m > calls => state[m] = "absent"
  /\ \A i \in Waiting({"produce"}) : state[chain[i].message] = "absent" \/ (i = 1 /\ busy)

IInv == Types /\ Calls /\ Records /\ Handlers /\ Passed /\ LogOnce /\ Retained

-----------------------------------------------------------------------------
(* The queue *)

(* Its head is its first call. *)
LEMMA HeadFacts ==
  ASSUME Types, chain # <<>>
  PROVE  Len(chain) \in Nat \ {0} /\ Head(chain) = chain[1] /\ chain[1] \in MutationSet
BY DEF Types

(* A call that is made is the last one. *)
LEMMA CallFacts ==
  ASSUME Types, NEW op \in Ops, NEW m \in Messages \union {0}, NEW c \in ConsumerIds \union {NoOne}, Called(op, m, c)
  PROVE  /\ chain' \in Seq(MutationSet) /\ Len(chain') = Len(chain) + 1 /\ chain' # <<>>
         /\ \A i \in 1..Len(chain) : chain'[i] = chain[i]
         /\ chain'[Len(chain) + 1].op = op
         /\ chain'[Len(chain) + 1].message = m
         /\ chain'[Len(chain) + 1].consumer = c
<1>1. Mutation(op, m, c) \in MutationSet
  BY DEF Mutation, MutationSet
<1>2. /\ chain' \in Seq(MutationSet) /\ Len(chain') = Len(chain) + 1
      /\ \A i \in 1..Len(chain) : chain'[i] = chain[i]
      /\ chain'[Len(chain) + 1] = Mutation(op, m, c)
  BY <1>1 DEF Called, Types
<1>3. chain' # <<>>
  BY <1>2 DEF Types
<1> QED BY <1>2, <1>3 DEF Mutation

(* The call that ends is the first one; the others move up. *)
LEMMA FinishFacts ==
  ASSUME Types, chain # <<>>, Finish
  PROVE  /\ chain' \in Seq(MutationSet) /\ Len(chain') = Len(chain) - 1
         /\ \A i \in 1..Len(chain') : i + 1 \in 1..Len(chain) /\ chain'[i] = chain[i + 1]
         /\ busy' = FALSE /\ detached' = FALSE
BY DEF Finish, Types

(* A new member of a set of numbers is its least one. *)
LEMMA LeastId ==
  ASSUME NEW S \in SUBSET Nat, S # {}
  PROVE  Min(S) \in S
<1> DEFINE R == OpToRel(<, Nat)
<1>1. IsWellFoundedOn(R, Nat)
  BY NatLessThanWellFounded, Zenon
<1>2. \A x, y \in Nat : x < y => <<x, y>> \in R
  BY DEF OpToRel
<1> HIDE DEF R
<1>3. PICK x \in S : \A y \in S : <<y, x>> \notin R
  BY <1>1, WFMin
<1>4. ASSUME NEW y \in S PROVE x =< y
  <2>1. x \in Nat /\ y \in Nat /\ ~(y < x)
    BY <1>2, <1>3
  <2> QED BY <2>1
<1> QED BY <1>4 DEF Min

-----------------------------------------------------------------------------
(* The invariant *)

(* A run begins without calls, records, consumers and messages.             *)
LEMMA InitIInv == Init => IInv
<1> SUFFICES ASSUME Init PROVE IInv
  OBVIOUS
<1> USE BoundsAssumption, ConsumersAssumption
<1>1. Len(chain) = 0 /\ Len(log) = 0 /\ \A ops : Waiting(ops) = {}
  BY DEF Init, Waiting
<1>2. Types
  <2>1. chain \in Seq(MutationSet) /\ log \in Seq(Messages)
    BY DEF Init
  <2>2. calls \in 0..MaxMessages /\ committedOffset \in 0..Len(log) /\ position \in [ConsumerIds -> 0..Len(log)]
    BY <1>1 DEF Init
  <2> QED BY <2>1, <2>2 DEF Init, Types, RecordStates
<1>3. Calls
  BY <1>1 DEF Init, Calls
<1>4. Records
  BY DEF Init, Records, Unprocessed
<1>5. Handlers
  BY <1>1 DEF Init, Handlers, ReceivedHeld, HandlersBusy, ProcessCalls, BegunIsProcessed
<1>6. Passed /\ LogOnce
  BY <1>1 DEF Init, Passed, LogOnce
<1>7. Retained
  <2>1. messages \in Seq(Messages) /\ Len(messages) = 0 /\ Len(messages) <= RetainedMessageLimit
    BY DEF Init
  <2>2. \A m \in Messages : state[m] = "absent"
    BY DEF Init
  <2> QED BY <1>1, <2>1, <2>2 DEF Init, Retained
<1> QED BY <1>2, <1>3, <1>4, <1>5, <1>6, <1>7 DEF IInv

(* A record that is added is in one of the states of records, and whatever   *)
(* it pushes out is absent.                                                  *)
LEMMA AddRecordTypes ==
  ASSUME Types, NEW m \in Messages, NEW to \in RecordStates, NEW c \in ConsumerIds \union {NoOne}, AddRecord(m, to, c)
  PROVE  /\ state' \in [Messages -> RecordStates]
         /\ assigned' \in [Messages -> ConsumerIds \union {NoOne}]
         /\ processed' \in [Messages -> Nat]
BY DEF AddRecord, Types, RecordStates

(* A count that goes up is a count. *)
LEMMA CountedTypes ==
  ASSUME NEW S, NEW f \in [S -> Nat], NEW x
  PROVE  [f EXCEPT ![x] = @ + 1] \in [S -> Nat]
<1>1. \A n \in Nat : n + 1 \in Nat
  OBVIOUS
<1> QED BY <1>1

(* What is called for, begun and ended keeps every type. *)
LEMMA TypesStep == IInv /\ [Next]_vars => Types'
<1> SUFFICES ASSUME IInv, [Next]_vars PROVE Types'
  OBVIOUS
<1> USE BoundsAssumption, ConsumersAssumption
<1>0. Types /\ Calls
  BY DEF IInv
<1>1. CASE CallProduce
  <2>1. calls + 1 \in Messages /\ calls' = calls + 1
    BY <1>0, <1>1 DEF CallProduce, Types, Messages
  <2>2. chain' \in Seq(MutationSet)
    BY <1>0, <1>1, <2>1, CallFacts DEF CallProduce, Ops
  <2>3. consumers' = consumers /\ handles' = handles /\ handler' = handler /\ handling' = handling
    BY <1>1 DEF CallProduce, consumerVars, handlerVars
  <2>4. /\ UNCHANGED <<busy, detached, state, assigned, processed, early>>
        /\ UNCHANGED <<log, committedOffset, members, fetching, position>>
    BY <1>1 DEF CallProduce, recordVars, groupVars, brokerVars
  <2>5. calls' \in 0..MaxMessages
    BY <2>1 DEF Messages
  <2> QED BY <1>0, <2>2, <2>3, <2>4, <2>5 DEF Types
<1>2. CASE CallConsumer
  <2>1. PICK op \in {"add", "stop", "crash"}, c \in ConsumerIds \union {NoOne} : CallCommand(op, c)
    BY <1>2 DEF CallConsumer
  <2>2. chain' \in Seq(MutationSet)
    BY <1>0, <2>1, CallFacts DEF CallCommand, Ops
  <2> QED BY <1>0, <2>1, <2>2
          DEF CallCommand, Types, recordVars, consumerVars, handlerVars, groupVars, brokerVars
<1>3. CASE BeginProduce
  <2>1. chain[1].message \in Messages
    BY <1>0, <1>3, HeadFacts DEF BeginProduce, Turn, Calls, Waiting, Types, Messages
  <2>2. AddRecord(chain[1].message, "producing", NoOne)
    BY <1>0, <1>3, HeadFacts DEF BeginProduce, Turn
  <2>3. /\ state' \in [Messages -> RecordStates]
        /\ assigned' \in [Messages -> ConsumerIds \union {NoOne}]
        /\ processed' \in [Messages -> Nat]
    BY <1>0, <2>1, <2>2, AddRecordTypes DEF RecordStates
  <2>4. early' = early /\ UNCHANGED <<consumers, handles, handler, handling>>
        /\ UNCHANGED <<log, committedOffset, members, fetching, position>>
    BY <1>3 DEF BeginProduce, consumerVars, handlerVars, groupVars, brokerVars
  <2>5. QueueTypes'
    BY <1>0, <1>3 DEF BeginProduce, Await, Types, callVars
  <2> QED BY <1>0, <2>3, <2>4, <2>5 DEF Types
<1>4. CASE BrokerAppends
  <2>1. chain # <<>> /\ Head(chain).op = "produce" /\ log' = Append(log, Head(chain).message)
    BY <1>4 DEF BrokerAppends, Answer
  <2>2. chain[1].message \in Messages /\ Head(chain) = chain[1]
    <3>1. Head(chain) = chain[1] /\ 1 \in 1..Len(chain)
      BY <1>0, <2>1, HeadFacts
    <3>2. chain[1].message \in 1..calls
      BY <1>0, <2>1, <3>1 DEF Calls, Waiting
    <3>3. calls \in 0..MaxMessages
      BY <1>0 DEF Types
    <3> QED BY <3>1, <3>2, <3>3 DEF Messages
  <2>3. log' \in Seq(Messages) /\ Len(log') = Len(log) + 1
    <3>1. log \in Seq(Messages)
      BY <1>0 DEF Types
    <3> QED BY ONLY <2>1, <2>2, <3>1
  <2> QED BY <1>0, <1>4, <2>3
          DEF BrokerAppends, Types, callVars, recordVars, consumerVars, handlerVars, groupVars
<1>5. CASE ProduceReturns
  <2>1. chain' \in Seq(MutationSet) /\ busy' = FALSE /\ detached' = FALSE
    BY <1>0, <1>5, FinishFacts DEF ProduceReturns, Answer
  <2> QED BY <1>0, <1>5, <2>1
          DEF ProduceReturns, SetRecord, Types, RecordStates, callVars, consumerVars, handlerVars, groupVars, brokerVars
<1>6. CASE BeginProcess
  <2>1. /\ (Finish /\ Returns(Head(chain).consumer)) \/ (Await /\ UNCHANGED handlerVars)
        /\ state' \in [Messages -> RecordStates] /\ processed' \in [Messages -> Nat] /\ assigned' = assigned
    <3> DEFINE m == Head(chain).message
               c == Head(chain).consumer
    <3>1. CASE ~Processable(m, c)
      BY <1>0, <1>6, <3>1 DEF BeginProcess, Types, recordVars
    <3>2. CASE Processable(m, c) /\ m \in FailedByScenario
      BY <1>0, <1>6, <3>2 DEF BeginProcess, Types, RecordStates
    <3>3. CASE Processable(m, c) /\ m \notin FailedByScenario
      <4>1. processed' = [processed EXCEPT ![m] = @ + 1] /\ assigned' = assigned
        BY <1>6, <3>3 DEF BeginProcess
      <4>2. /\ (Finish /\ Returns(c)) \/ (Await /\ UNCHANGED handlerVars)
            /\ state' = [state EXCEPT ![m] = "commit_requested"] \/ state' = [state EXCEPT ![m] = "committed"]
        BY <1>6, <3>3 DEF BeginProcess
      <4> HIDE DEF m, c
      <4>3. state' \in [Messages -> RecordStates]
        BY <1>0, <4>2 DEF Types, RecordStates
      <4>4. processed' \in [Messages -> Nat]
        <5>1. processed \in [Messages -> Nat]
          BY <1>0 DEF Types
        <5> QED BY <4>1, <5>1, CountedTypes
      <4> QED BY <4>1, <4>2, <4>3, <4>4, Zenon DEF c
    <3> QED BY <3>1, <3>2, <3>3
  <2>2. chain' \in Seq(MutationSet) /\ busy' \in BOOLEAN /\ detached' \in BOOLEAN
    BY <1>0, <1>6, <2>1, FinishFacts DEF BeginProcess, Turn, Await, Types
  <2>3. handler' \in [ConsumerIds -> Messages \union {0}] /\ handling' \in [ConsumerIds -> {"none", "delay", "process"}]
    BY <1>0, <2>1 DEF Returns, handlerVars, Types
  <2> QED BY <1>0, <1>6, <2>1, <2>2, <2>3
          DEF BeginProcess, Types, callVars, consumerVars, groupVars, brokerVars
<1>7. CASE CommitReturns
  <2>1. chain' \in Seq(MutationSet) /\ busy' = FALSE /\ detached' = FALSE
    BY <1>0, <1>7, FinishFacts DEF CommitReturns, Answer
  <2>2. committedOffset' \in 0..Len(log)
    BY <1>0, <1>7 DEF CommitReturns, OffsetAfter, Types
  <2>3. state' \in [Messages -> RecordStates] /\ assigned' = assigned
    BY <1>0, <1>7 DEF CommitReturns, SetRecord, Types, RecordStates
  <2>4. handler' \in [ConsumerIds -> Messages \union {0}] /\ handling' \in [ConsumerIds -> {"none", "delay", "process"}]
    BY <1>0, <1>7 DEF CommitReturns, Returns, Types
  <2> QED BY <1>0, <1>7, <2>1, <2>2, <2>3, <2>4
          DEF CommitReturns, Types, callVars, consumerVars, groupVars
<1>8. CASE BeginAdd
  <2>1. chain' \in Seq(MutationSet) /\ busy' \in BOOLEAN /\ detached' \in BOOLEAN
    BY <1>0, <1>8, FinishFacts DEF BeginAdd, Turn, Await, Types
  <2>2. FreeIds # {} => Min(FreeIds) \in ConsumerIds
    BY LeastId DEF FreeIds
  <2> QED BY <1>0, <1>8, <2>1, <2>2
          DEF BeginAdd, Types, callVars, recordVars, handlerVars, brokerVars
<1>9. CASE AddReturns
  <2>1. chain' \in Seq(MutationSet) /\ busy' = FALSE /\ detached' = FALSE
    BY <1>0, <1>9, FinishFacts DEF AddReturns, Answer
  <2> QED BY <1>0, <1>9, <2>1
          DEF AddReturns, LeaveGroup, Types, callVars, recordVars, handlerVars, groupVars, brokerVars
<1>10. CASE BeginDisconnect
  <2>1. chain' \in Seq(MutationSet) /\ busy' \in BOOLEAN /\ detached' \in BOOLEAN
    BY <1>0, <1>10, FinishFacts DEF BeginDisconnect, Turn, Await, Types
  <2> QED BY <1>0, <1>10, <2>1
          DEF BeginDisconnect, Types, callVars, recordVars, handlerVars, groupVars, brokerVars
<1>11. CASE DisconnectReturns
  <2>1. chain' \in Seq(MutationSet) /\ busy' = FALSE /\ detached' = FALSE
    BY <1>0, <1>11, FinishFacts DEF DisconnectReturns, Answer
  <2>2. /\ state' \in [Messages -> RecordStates] /\ processed' = processed
        /\ assigned' \in [Messages -> ConsumerIds \union {NoOne}]
    BY <1>0, <1>11 DEF DisconnectReturns, Requeue, Types, RecordStates, recordVars
  <2>3. /\ consumers' \in [ConsumerIds -> {"absent", "starting", "running", "stopping", "crashed"}]
        /\ members' \in SUBSET ConsumerIds /\ fetching' \in SUBSET members' /\ position' = position
    BY <1>0, <1>11 DEF DisconnectReturns, LeaveGroup, Types, groupVars, consumerVars
  <2>4. handles' \in SUBSET ConsumerIds
    BY <1>0, <1>11 DEF DisconnectReturns, Types, consumerVars
  <2> QED BY <1>0, <1>11, <2>1, <2>2, <2>3, <2>4
          DEF DisconnectReturns, Types, callVars, handlerVars, brokerVars
<1>12. ASSUME NEW c \in ConsumerIds, Deliver(c) PROVE Types'
  <2> DEFINE m == log[position[c] + 1]
  <2>1. m \in Messages /\ position[c] + 1 \in 0..Len(log)
    BY <1>0, <1>12 DEF Deliver, Types
  <2>2. /\ state' \in [Messages -> RecordStates] /\ processed' \in [Messages -> Nat]
        /\ assigned' \in [Messages -> ConsumerIds \union {NoOne}]
        /\ detached' \in BOOLEAN /\ early' \in SUBSET Messages
        /\ Receives(c, m) \/ UNCHANGED handlerVars
    <3>1. CASE state[m] = "absent"
      <4>1. AddRecord(m, "received", c) /\ Receives(c, m) /\ early' = early
        BY <1>12, <3>1 DEF Deliver, Receivable
      <4>2. detached' = (detached \/ (busy /\ Head(chain).message \in Forgotten(Append(messages, m))))
        BY <1>12, <3>1 DEF Deliver, Receivable
      <4>3. detached' \in BOOLEAN
        BY <1>0, <4>2, Zenon DEF Types
      <4> QED BY <1>0, <2>1, <4>1, <4>3, AddRecordTypes DEF RecordStates, Types
    <3>2. CASE Receivable(m)
      <4>1. /\ state' = [state EXCEPT ![m] = "received"] /\ assigned' = [assigned EXCEPT ![m] = c]
            /\ Receives(c, m) /\ processed' = processed /\ detached' = detached /\ early' = early
        BY <1>12, <3>2 DEF Deliver, Receivable
      <4> QED BY <1>0, <2>1, <4>1 DEF Types, RecordStates
    <3>3. CASE state[m] # "absent" /\ ~Receivable(m)
      BY <1>0, <1>12, <2>1, <3>3 DEF Deliver, Types, recordVars
    <3> QED BY <3>1, <3>2, <3>3
  <2>3. handler' \in [ConsumerIds -> Messages \union {0}] /\ handling' \in [ConsumerIds -> {"none", "delay", "process"}]
    BY <1>0, <2>1, <2>2 DEF Receives, Types, handlerVars
  <2>4. position' \in [ConsumerIds -> 0..Len(log)]
    BY <1>0, <1>12, <2>1 DEF Deliver, Types
  <2> QED BY <1>0, <1>12, <2>2, <2>3, <2>4
          DEF Deliver, Types, callVars, consumerVars, brokerVars
<1>13. ASSUME NEW c \in ConsumerIds, DelayEnds(c) PROVE Types'
  <2>1. handler[c] \in Messages \union {0}
    BY <1>0 DEF Types
  <2>2. chain' \in Seq(MutationSet)
    BY <1>0, <1>13, <2>1, CallFacts DEF DelayEnds, Ops
  <2> QED BY <1>0, <1>13, <2>2
          DEF DelayEnds, Types, callVars, recordVars, consumerVars, groupVars, brokerVars
<1>14. ASSUME NEW c \in ConsumerIds, GainPartition(c) \/ LosePartition(c) PROVE Types'
  <2>1. fetching' \in SUBSET members /\ members' = members
    BY <1>0, <1>14 DEF GainPartition, LosePartition, Types
  <2>2. position' \in [ConsumerIds -> 0..Len(log)]
    BY <1>0, <1>14 DEF GainPartition, LosePartition, Types
  <2> QED BY <1>0, <1>14, <2>1, <2>2
  DEF GainPartition, LosePartition, Types, callVars, recordVars, consumerVars, handlerVars, brokerVars
<1>15. CASE UNCHANGED vars
  <2> USE <1>15 DEF vars, callVars, recordVars, consumerVars, handlerVars, groupVars, brokerVars
  <2>1. chain' = chain /\ busy' = busy /\ detached' = detached /\ calls' = calls
    OBVIOUS
  <2>2. state' = state /\ assigned' = assigned /\ processed' = processed /\ consumers' = consumers
    OBVIOUS
  <2>c. handles' = handles
    OBVIOUS
  <2>3. handler' = handler /\ handling' = handling /\ log' = log /\ committedOffset' = committedOffset
    OBVIOUS
  <2>4. members' = members /\ fetching' = fetching /\ position' = position /\ early' = early
    OBVIOUS
  <2> HIDE <1>15 DEF vars, callVars, recordVars, consumerVars, handlerVars, groupVars, brokerVars
  <2>5. QueueTypes'
    BY <1>0, <2>1 DEF Types, QueueTypes
  <2>6. RecordTypes'
    BY <1>0, <2>2, <2>4 DEF Types, RecordTypes
  <2>7. ConsumerTypes'
    BY <1>0, <2>2, <2>3, <2>c DEF Types, ConsumerTypes
  <2>8. GroupTypes'
    BY <1>0, <2>3, <2>4 DEF Types, GroupTypes
  <2> QED BY <2>5, <2>6, <2>7, <2>8 DEF Types
<1> QED BY <1>1, <1>2, <1>3, <1>4, <1>5, <1>6, <1>7, <1>8, <1>9, <1>10, <1>11, <1>12, <1>13, <1>14, <1>15 DEF Next

(* What a step may do to the queue. *)
MakesCall ==
  /\ \/ CallProduce
     \/ CallConsumer
     \/ \E c \in ConsumerIds : DelayEnds(c)
  /\ busy' = busy /\ detached' = detached
  /\ Len(chain') = Len(chain) + 1 /\ chain' # <<>>
  /\ \A i \in 1..Len(chain) : chain'[i] = chain[i]

EndsCall ==
  /\ chain # <<>> /\ busy' = FALSE /\ detached' = FALSE /\ calls' = calls
  /\ Len(chain') = Len(chain) - 1
  /\ \A i \in 1..Len(chain') : i + 1 \in 1..Len(chain) /\ chain'[i] = chain[i + 1]

LeavesQueue == chain' = chain /\ calls' = calls /\ (busy' => chain # <<>>) /\ (busy => busy')

(* Whatever calls leaves the calls before it alone. *)
LEMMA CallSteps ==
  ASSUME IInv, CallProduce \/ CallConsumer \/ (\E c \in ConsumerIds : DelayEnds(c))
  PROVE  MakesCall
<1>0. Types /\ Calls
  BY DEF IInv
<1>1. CASE CallProduce
  <2>1. calls + 1 \in Messages
    BY <1>0, <1>1, BoundsAssumption DEF CallProduce, Types, Messages
  <2> QED BY <1>0, <1>1, <2>1, CallFacts DEF CallProduce, MakesCall, Ops
<1>2. CASE CallConsumer
  <2>1. PICK op \in {"add", "stop", "crash"}, c \in ConsumerIds \union {NoOne} : CallCommand(op, c)
    BY <1>2 DEF CallConsumer
  <2> QED BY <1>0, <1>2, <2>1, CallFacts DEF CallCommand, MakesCall, Ops
<1>3. ASSUME NEW c \in ConsumerIds, DelayEnds(c) PROVE MakesCall
  <2>1. handler[c] \in Messages \union {0}
    BY <1>0 DEF Types
  <2> QED BY <1>0, <1>3, <2>1, CallFacts DEF DelayEnds, MakesCall, Ops
<1> QED BY <1>1, <1>2, <1>3

(* Every step calls, ends a call, or leaves the queue as it is. *)
LEMMA QueueSteps == IInv /\ [Next]_vars => MakesCall \/ EndsCall \/ LeavesQueue
<1> SUFFICES ASSUME IInv, [Next]_vars PROVE MakesCall \/ EndsCall \/ LeavesQueue
  OBVIOUS
<1>0. Types /\ Calls
  BY DEF IInv
<1>1. ASSUME Finish, chain # <<>>, calls' = calls PROVE EndsCall
  BY <1>0, <1>1, FinishFacts DEF EndsCall
<1>2. CASE CallProduce \/ CallConsumer \/ (\E c \in ConsumerIds : DelayEnds(c))
  BY <1>2, CallSteps
<1>5. CASE BeginProduce
  BY <1>5 DEF BeginProduce, Turn, Await, LeavesQueue, callVars
<1>6. CASE BrokerAppends
  BY <1>6 DEF BrokerAppends, Answer, LeavesQueue, callVars
<1>7. CASE ProduceReturns
  BY <1>1, <1>7 DEF ProduceReturns, Answer, callVars
<1>8. CASE BeginProcess
  <2>1. calls' = calls /\ chain # <<>> /\ (Finish \/ Await)
    BY <1>8 DEF BeginProcess, Turn, callVars
  <2> QED BY <1>1, <2>1 DEF Await, LeavesQueue
<1>9. CASE CommitReturns
  BY <1>1, <1>9 DEF CommitReturns, Answer, callVars
<1>10. CASE BeginAdd
  <2>1. calls' = calls /\ chain # <<>> /\ (Finish \/ Await)
    BY <1>10 DEF BeginAdd, Turn, callVars
  <2> QED BY <1>1, <2>1 DEF Await, LeavesQueue
<1>11. CASE AddReturns
  BY <1>1, <1>11 DEF AddReturns, Answer, callVars
<1>12. CASE BeginDisconnect
  <2>1. calls' = calls /\ chain # <<>> /\ (Finish \/ Await)
    BY <1>12 DEF BeginDisconnect, Turn, callVars
  <2> QED BY <1>1, <2>1 DEF Await, LeavesQueue
<1>13. CASE DisconnectReturns
  BY <1>1, <1>13 DEF DisconnectReturns, Answer, callVars
<1>14. ASSUME NEW c \in ConsumerIds, Deliver(c) \/ GainPartition(c) \/ LosePartition(c) PROVE LeavesQueue
  BY <1>0, <1>14 DEF Deliver, GainPartition, LosePartition, LeavesQueue, Calls, callVars
<1>15. CASE UNCHANGED vars
  BY <1>0, <1>15 DEF vars, LeavesQueue, Calls, callVars
<1> QED BY <1>2, <1>5, <1>6, <1>7, <1>8, <1>9, <1>10, <1>11, <1>12, <1>13, <1>14, <1>15 DEF Next

(* The call that is made names what its operation needs. *)
LEMMA NewCall ==
  ASSUME IInv, MakesCall
  PROVE  LET new == chain'[Len(chain) + 1] IN
         \/ new.op = "produce" /\ new.message = calls + 1 /\ calls' = calls + 1
         \/ new.op \in {"stop", "crash"} /\ new.consumer \in ConsumerIds /\ calls' = calls
         \/ new.op = "add" /\ calls' = calls
         \/ /\ new.op = "process" /\ calls' = calls
            /\ new.consumer \in ConsumerIds /\ DelayEnds(new.consumer) /\ new.message = handler[new.consumer]
<1>0. Types
  BY DEF IInv
<1>1. CASE CallProduce
  <2>1. calls + 1 \in Messages
    BY <1>0, <1>1, BoundsAssumption DEF CallProduce, Types, Messages
  <2> QED BY <1>0, <1>1, <2>1, CallFacts DEF CallProduce, Ops
<1>2. CASE CallConsumer
  <2>1. CASE CallCommand("add", NoOne)
    BY <1>0, <2>1, CallFacts DEF CallCommand, Ops
  <2>2. ASSUME NEW c \in ConsumerIds, NEW op \in {"stop", "crash"}, CallCommand(op, c)
        PROVE  chain'[Len(chain) + 1].op = op /\ chain'[Len(chain) + 1].consumer = c /\ calls' = calls
    BY <1>0, <2>2, CallFacts DEF CallCommand, Ops
  <2> QED BY <1>2, <2>1, <2>2 DEF CallConsumer
<1>3. ASSUME NEW c \in ConsumerIds, DelayEnds(c)
      PROVE  LET new == chain'[Len(chain) + 1] IN
             new.op = "process" /\ new.consumer = c /\ new.message = handler[c] /\ calls' = calls
  <2>1. handler[c] \in Messages \union {0}
    BY <1>0 DEF Types
  <2> QED BY <1>0, <1>3, <2>1, CallFacts DEF DelayEnds, Ops, callVars
<1> QED BY <1>1, <1>2, <1>3 DEF MakesCall

(* Calls stay what they are. *)
LEMMA CallsStep == IInv /\ [Next]_vars => Calls'
<1> SUFFICES ASSUME IInv, [Next]_vars PROVE Calls'
  OBVIOUS
<1>0. Types /\ Types' /\ Calls /\ Handlers
  BY TypesStep DEF IInv
<1>1. Len(chain) \in Nat /\ Len(chain') \in Nat /\ calls \in Nat /\ calls' \in Nat
  BY <1>0, BoundsAssumption DEF Types
<1>2. CASE MakesCall
  <2>1. \A i \in 1..Len(chain') : i \in 1..Len(chain) \/ i = Len(chain) + 1
    BY <1>1, <1>2 DEF MakesCall
  <2>2. calls' >= calls
    BY <1>1, <1>2, NewCall
  <2>3. ASSUME NEW c \in ConsumerIds, DelayEnds(c) PROVE handler[c] \in Messages
    BY <1>0, <2>3 DEF DelayEnds, Handlers, HandlersBusy
  <2>4. ASSUME NEW i \in 1..Len(chain')
        PROVE  /\ chain'[i].op = "process" => chain'[i].message \in Messages /\ chain'[i].consumer \in ConsumerIds
               /\ chain'[i].op \in {"stop", "crash"} => chain'[i].consumer \in ConsumerIds
               /\ chain'[i].op = "produce" => chain'[i].message \in 1..calls'
    <3>1. CASE i \in 1..Len(chain)
      BY <1>0, <1>1, <1>2, <2>2, <3>1 DEF MakesCall, Calls, Waiting
    <3>2. CASE i = Len(chain) + 1
      BY <1>1, <1>2, <2>3, <3>2, NewCall
    <3> QED BY <2>1, <3>1, <3>2
  <2> QED BY <1>2, <2>4 DEF Calls, Waiting, MakesCall
<1>3. CASE EndsCall
  BY <1>0, <1>3 DEF EndsCall, Calls, Waiting
<1>4. CASE LeavesQueue
  BY <1>0, <1>4 DEF LeavesQueue, Calls, Waiting
<1> QED BY <1>2, <1>3, <1>4, QueueSteps

(* A record is received only before it is processed, and the body that holds *)
(* one is told when it was forgotten.                                        *)
LEMMA RecordsStep == IInv /\ [Next]_vars => Records'
<1> SUFFICES ASSUME IInv, [Next]_vars PROVE Records'
  OBVIOUS
<1>0. Types /\ Types' /\ Calls /\ Records /\ Handlers
  BY TypesStep DEF IInv
<1>h. chain # <<>> => Head(chain) = chain[1] /\ 1 \in 1..Len(chain)
  BY <1>0, HeadFacts DEF Types
<1>1. CASE MakesCall
  <2>1. UNCHANGED <<state, processed, busy, detached>> /\ (busy => chain'[1] = chain[1])
    BY <1>0, <1>1, <1>h DEF MakesCall, Calls, CallProduce, CallConsumer, CallCommand, DelayEnds, recordVars
  <2> QED BY <1>0, <2>1 DEF Records
<1>2. CASE BeginProduce
  <2> DEFINE m == chain[1].message
  <2>1. AddRecord(m, "producing", NoOne) /\ busy' = TRUE /\ detached' = FALSE /\ chain' = chain
    BY <1>h, <1>2 DEF BeginProduce, Turn, Await
  <2>2. m \in Messages /\ busy = FALSE /\ chain[1].op = "produce"
    BY <1>0, <1>h, <1>2, BoundsAssumption DEF BeginProduce, Turn, Calls, Waiting, Types, Messages
  <2>3. /\ state'[m] = "producing" /\ processed'[m] = 0
        /\ \A n \in Messages \ {m} : state'[n] \in {"absent", state[n]} /\ processed'[n] = processed[n]
    BY <1>0, <2>1, <2>2 DEF AddRecord, Types
  <2> QED BY <1>0, <2>1, <2>2, <2>3 DEF Records, Unprocessed
<1>3. CASE BrokerAppends
  BY <1>0, <1>3 DEF BrokerAppends, Records, recordVars
<1>4. CASE ProduceReturns
  <2>1. /\ busy /\ busy' = FALSE /\ chain[1].op = "produce" /\ processed' = processed
        /\ detached => state' = state
        /\ ~detached => \E to \in {"produced", "failed"} : state' = [state EXCEPT ![chain[1].message] = to]
    BY <1>0, <1>h, <1>4 DEF ProduceReturns, Answer, Finish, SetRecord
  <2> QED BY <1>0, <2>1 DEF Records, Unprocessed, Types
<1>5. CASE BeginProcess
  <2> DEFINE m == chain[1].message
  <2>1. ~busy /\ chain[1].op = "process"
    BY <1>h, <1>5 DEF BeginProcess, Turn
  <2>2. \/ UNCHANGED <<state, processed>> /\ ~busy'
        \/ state[m] = "received" /\ state' = [state EXCEPT ![m] = "failed"] /\ processed' = processed /\ ~busy'
        \/ /\ state[m] = "received" /\ processed' = [processed EXCEPT ![m] = @ + 1]
           /\ \/ state' = [state EXCEPT ![m] = "committed"] /\ ~busy'
              \/ state' = [state EXCEPT ![m] = "commit_requested"] /\ Await
    BY <1>h, <1>5 DEF BeginProcess, Turn, Finish, Processable, recordVars
  <2>3. m \in Messages
    BY <1>0, <1>h, <1>5, <2>1 DEF BeginProcess, Turn, Calls, Waiting
  <2>4. \A n \in Messages : state[n] # "commit_requested"
    BY <1>0, <2>1 DEF Records
  <2> HIDE DEF m
  <2>5. /\ \A n \in Messages : processed'[n] <= 1
        /\ \A n \in Messages : state'[n] \in Unprocessed => processed'[n] = 0
    <3>1. processed \in [Messages -> Nat] /\ state \in [Messages -> RecordStates]
      BY <1>0 DEF Types
    <3>2. \A n \in Messages : processed[n] <= 1 /\ (state[n] \in Unprocessed => processed[n] = 0)
      BY <1>0 DEF Records
    <3>3. \A n \in Messages \ {m} : state'[n] = state[n] /\ processed'[n] = processed[n]
      BY <2>2, <3>1
    <3>4. UNCHANGED <<state, processed>> \/ (state'[m] \notin Unprocessed /\ processed'[m] <= 1)
      <4>1. state[m] = "received" => processed[m] = 0
        BY <2>3, <3>2 DEF Unprocessed
      <4> QED BY <2>2, <2>3, <3>1, <4>1 DEF Unprocessed
    <3> QED BY <3>2, <3>3, <3>4
  <2>6. \A n \in Messages : state'[n] = "commit_requested" => Await /\ n = m
    BY <1>0, <2>2, <2>3, <2>4 DEF Types
  <2>7. busy' => Await
    BY <2>2
  <2> QED BY <1>0, <2>1, <2>5, <2>6, <2>7 DEF Records, Await, m
<1>6. CASE CommitReturns
  <2>1. /\ busy /\ busy' = FALSE /\ chain[1].op = "process" /\ processed' = processed
        /\ detached => state' = state
        /\ ~detached => \E to \in {"committed", "failed"} : state' = [state EXCEPT ![chain[1].message] = to]
    BY <1>0, <1>h, <1>6 DEF CommitReturns, Answer, Finish, SetRecord
  <2>2. \A n \in Messages : state'[n] # "commit_requested" /\ (state'[n] \in Unprocessed => state[n] = state'[n])
    <3>1. CASE detached
      BY <1>0, <2>1, <3>1 DEF Records
    <3>2. CASE ~detached
      BY <1>0, <2>1, <3>2 DEF Records, Unprocessed, Types
    <3> QED BY <3>1, <3>2
  <2> QED BY <1>0, <2>1, <2>2 DEF Records
<1>7. CASE BeginAdd \/ BeginDisconnect
  <2>1. UNCHANGED <<state, processed>> /\ ~busy
    BY <1>7 DEF BeginAdd, BeginDisconnect, Turn, recordVars
  <2>2. ~busy' \/ (Await /\ chain[1].op \in {"add", "stop", "crash"})
    BY <1>h, <1>7 DEF BeginAdd, BeginDisconnect, Turn, Finish
  <2> QED BY <1>0, <2>1, <2>2 DEF Records, Await
<1>8. CASE AddReturns
  BY <1>0, <1>h, <1>8 DEF AddReturns, Answer, Finish, Records, recordVars
<1>9. CASE DisconnectReturns
  <2>1. busy /\ busy' = FALSE /\ chain[1].op \in {"stop", "crash"} /\ processed' = processed
    BY <1>h, <1>9 DEF DisconnectReturns, Answer, Finish, Requeue, recordVars
  <2>2. \A m \in Messages : state'[m] = state[m] \/ (state[m] = "received" /\ state'[m] = "produced")
    BY <1>0, <1>9, <2>1 DEF DisconnectReturns, Requeue, Records, recordVars, Types
  <2> QED BY <1>0, <2>1, <2>2 DEF Records, Unprocessed
<1>10. ASSUME NEW c \in ConsumerIds, Deliver(c) PROVE Records'
  <2> DEFINE m == log[position[c] + 1]
  <2>1. m \in Messages /\ chain' = chain /\ busy' = busy
    BY <1>0, <1>10 DEF Deliver, Types
  <2>2. CASE state[m] = "absent"
    <3>1. AddRecord(m, "received", c)
      BY <1>10, <2>2 DEF Deliver, Receivable
    <3>2. busy /\ ~detached' => ~detached /\ chain[1].message \notin Forgotten(Append(messages, m))
      BY <1>0, <1>h, <1>10, <2>2, Zenon DEF Deliver, Receivable, Calls
    <3>3. /\ state'[m] = "received" /\ processed'[m] = 0
          /\ \A n \in Messages \ {m} : /\ state'[n] = IF n \in Forgotten(Append(messages, m)) THEN "absent" ELSE state[n]
                                       /\ processed'[n] = processed[n]
      BY <1>0, <2>1, <3>1 DEF AddRecord, Types
    <3>4. detached => detached'
      BY <1>10, <2>2 DEF Deliver, Receivable
    <3> HIDE DEF m
    <3>5. /\ \A n \in Messages : processed'[n] <= 1
          /\ \A n \in Messages : state'[n] \in Unprocessed => processed'[n] = 0
      BY <1>0, <2>1, <3>3 DEF Records, Unprocessed
    <3>6. busy /\ ~detached' /\ chain[1].op = "produce" => state'[chain[1].message] = "producing"
      <4> SUFFICES ASSUME busy, ~detached', chain[1].op = "produce" PROVE state'[chain[1].message] = "producing"
        OBVIOUS
      <4>1. state[chain[1].message] = "producing" /\ chain[1].message \notin Forgotten(Append(messages, m))
        BY <1>0, <3>2 DEF Records
      <4>2. chain[1].message \in Messages
        BY <1>0, <1>h, BoundsAssumption DEF Calls, Waiting, Types, Messages
      <4> QED BY <2>2, <3>3, <4>1, <4>2
    <3>7. ASSUME NEW n \in Messages, state'[n] = "commit_requested"
          PROVE  busy /\ ~detached' /\ chain[1].op = "process" /\ chain[1].message = n
      <4>1. state[n] = "commit_requested" /\ n \notin Forgotten(Append(messages, m))
        BY <2>1, <3>3, <3>7
      <4>2. busy /\ ~detached /\ chain[1].op = "process" /\ chain[1].message = n
        BY <1>0, <4>1 DEF Records
      <4>3. ~detached'
        BY <1>h, <1>0, <1>10, <2>2, <4>1, <4>2, Zenon DEF Deliver, Receivable, Calls, m
      <4> QED BY <4>2, <4>3
    <3> QED BY <2>1, <3>5, <3>6, <3>7 DEF Records
  <2>3. CASE Receivable(m)
    <3>1. state' = [state EXCEPT ![m] = "received"] /\ processed' = processed /\ detached' = detached
      BY <1>10, <2>3 DEF Deliver, Receivable
    <3>2. state[m] = "produced" /\ state \in [Messages -> RecordStates]
      BY <1>0, <2>3 DEF Receivable, Types
    <3>3. state'[m] = "received" /\ \A n \in Messages \ {m} : state'[n] = state[n]
      BY <2>1, <3>1, <3>2
    <3>4. busy /\ ~detached /\ chain[1].op = "produce" => state[chain[1].message] = "producing" /\ chain[1].message \in Messages
      BY <1>0, <1>h, BoundsAssumption DEF Records, Calls, Waiting, Types, Messages
    <3> HIDE DEF m
    <3> QED BY <1>0, <2>1, <3>1, <3>2, <3>3, <3>4 DEF Records, Unprocessed
  <2>4. CASE state[m] # "absent" /\ ~Receivable(m)
    <3>1. state' = state /\ processed' = processed /\ detached' = detached
      BY <1>10, <2>4 DEF Deliver, recordVars
    <3> QED BY <1>0, <2>1, <3>1 DEF Records
  <2> QED BY <2>2, <2>3, <2>4
<1>11. ASSUME NEW c \in ConsumerIds, GainPartition(c) \/ LosePartition(c) PROVE Records'
  BY <1>0, <1>11 DEF GainPartition, LosePartition, Records, recordVars
<1>12. CASE UNCHANGED vars
  BY <1>0, <1>12 DEF vars, Records, recordVars
<1>13. CallProduce \/ CallConsumer \/ (\E c \in ConsumerIds : DelayEnds(c)) => MakesCall
  BY CallSteps
<1> QED BY <1>1, <1>2, <1>3, <1>4, <1>5, <1>6, <1>7, <1>8, <1>9, <1>10, <1>11, <1>12, <1>13 DEF Next

-----------------------------------------------------------------------------
(* Records in "received", message handlers and calls of process() *)

(* A handler receives a message when it is idle, calls process(), and returns *)
(* when that call has ended; nothing else touches it.                         *)
LEMMA HandlerSteps ==
  ASSUME IInv, [Next]_vars
  PROVE  \/ UNCHANGED handlerVars /\ (MakesCall => chain'[Len(chain) + 1].op # "process")
         \/ \E c \in ConsumerIds : Deliver(c) /\ c \in members /\ handling[c] = "none" /\ \E m \in Messages : Receives(c, m)
         \/ \E c \in ConsumerIds : DelayEnds(c) /\ MakesCall
         \/ chain # <<>> /\ chain[1].op = "process" /\ EndsCall /\ Returns(chain[1].consumer)
<1> USE DEF handlerVars
<1>0. Types /\ Calls
  BY DEF IInv
<1>h. chain # <<>> => Head(chain) = chain[1] /\ 1 \in 1..Len(chain)
  BY <1>0, HeadFacts DEF Types
<1>1. CASE CallProduce \/ CallConsumer
  <2>1. MakesCall /\ UNCHANGED handlerVars
    BY <1>1, CallSteps DEF CallProduce, CallConsumer, CallCommand
  <2>2. \A c \in ConsumerIds : ~DelayEnds(c)
    BY <1>0, <2>1 DEF DelayEnds, Types
  <2> QED BY <2>1, <2>2, NewCall
<1>2. ASSUME NEW c \in ConsumerIds, DelayEnds(c) PROVE MakesCall
  BY <1>2, CallSteps
<1>3. ASSUME NEW c \in ConsumerIds, Deliver(c)
      PROVE  c \in members /\ handling[c] = "none" /\ (UNCHANGED handlerVars \/ \E m \in Messages : Receives(c, m))
  <2>1. log[position[c] + 1] \in Messages
    BY <1>0, <1>3 DEF Deliver, Types
  <2> QED BY <1>0, <1>3, <2>1 DEF Deliver, Types
<1>4. CASE BeginProcess
  <2>1. chain # <<>> /\ chain[1].op = "process" /\ calls' = calls
    BY <1>h, <1>4 DEF BeginProcess, Turn, callVars
  <2>2. (Finish /\ Returns(chain[1].consumer)) \/ (Await /\ UNCHANGED handlerVars)
    BY <1>h, <1>4 DEF BeginProcess, Turn
  <2>3. Finish => EndsCall
    BY <1>0, <2>1, FinishFacts DEF EndsCall
  <2>4. Await => ~MakesCall
    <3>1. Len(chain) \in Nat
      BY <1>0 DEF Types
    <3>2. Len(chain) # Len(chain) + 1
      BY <3>1
    <3> QED BY <3>2 DEF Await, MakesCall
  <2> QED BY <2>1, <2>2, <2>3, <2>4
<1>5. CASE CommitReturns
  <2>1. chain # <<>> /\ chain[1].op = "process" /\ calls' = calls /\ Finish /\ Returns(chain[1].consumer)
    BY <1>h, <1>5 DEF CommitReturns, Answer, callVars
  <2> QED BY <1>0, <2>1, FinishFacts DEF EndsCall
<1>6. CASE BeginProduce \/ BrokerAppends \/ ProduceReturns \/ BeginAdd \/ AddReturns \/ BeginDisconnect
             \/ DisconnectReturns \/ (\E c \in ConsumerIds : GainPartition(c) \/ LosePartition(c)) \/ UNCHANGED vars
  <2>1. UNCHANGED handlerVars
    BY <1>6 DEF BeginProduce, BrokerAppends, ProduceReturns, BeginAdd, AddReturns, BeginDisconnect, DisconnectReturns,
                GainPartition, LosePartition, vars
  <2>2. MakesCall => CallProduce \/ CallConsumer \/ \E c \in ConsumerIds : DelayEnds(c)
    BY DEF MakesCall
  <2> QED BY <1>1, <1>2, <2>1, <2>2
<1>7. CASE \E c \in ConsumerIds : Deliver(c)
  <2>1. PICK c \in ConsumerIds : Deliver(c)
    BY <1>7
  <2>2. ~MakesCall
    BY <1>0, <2>1 DEF Deliver, MakesCall, Types
  <2> QED BY <1>3, <2>1, <2>2
<1>8. CASE \E c \in ConsumerIds : DelayEnds(c)
  BY <1>2, <1>8
<1> QED BY <1>1, <1>4, <1>5, <1>6, <1>7, <1>8 DEF Next

(* A consumer leaves the run when it handles no message.                      *)
LEMMA ConsumerSteps ==
  ASSUME IInv, [Next]_vars
  PROVE  /\ \A c \in ConsumerIds : consumers[c] # "absent" /\ consumers'[c] = "absent" =>
              handling[c] = "none" /\ c \notin members' /\ UNCHANGED handlerVars
         /\ \A c \in members' : c \in members \/ consumers'[c] # "absent"
<1>0. Types
  BY DEF IInv
<1>1. CASE BeginAdd
  <2>1. FreeIds # {} => Min(FreeIds) \in FreeIds
    BY LeastId, ConsumersAssumption DEF FreeIds
  <2>2. CASE UNCHANGED <<consumers, members>>
    BY <2>2
  <2>3. CASE FreeIds # {} /\ consumers' = [consumers EXCEPT ![Min(FreeIds)] = "starting"]
                          /\ members' = members \union {Min(FreeIds)}
    <3>1. Min(FreeIds) \in ConsumerIds /\ DOMAIN consumers = ConsumerIds
      BY <1>0, <2>1, <2>3 DEF FreeIds, Types
    <3> QED BY <2>3, <3>1
  <2> QED BY <1>1, <2>2, <2>3 DEF BeginAdd
<1>2. CASE AddReturns
  BY <1>0, <1>2 DEF AddReturns, LeaveGroup, Types, groupVars, handlerVars
<1>3. CASE BeginDisconnect
  BY <1>0, <1>3 DEF BeginDisconnect, Types, groupVars
<1>4. CASE DisconnectReturns
  BY <1>0, <1>4 DEF DisconnectReturns, LeaveGroup, Types, groupVars, consumerVars, handlerVars
<1>5. CASE CallProduce \/ CallConsumer \/ BeginProduce \/ BrokerAppends \/ ProduceReturns \/ BeginProcess \/ CommitReturns
             \/ (\E c \in ConsumerIds : Deliver(c) \/ DelayEnds(c) \/ GainPartition(c) \/ LosePartition(c)) \/ UNCHANGED vars
  <2>1. UNCHANGED <<consumers, members>>
    BY <1>5 DEF CallProduce, CallConsumer, CallCommand, BeginProduce, BrokerAppends, ProduceReturns, BeginProcess, CommitReturns,
                Deliver, DelayEnds, GainPartition, LosePartition, vars, consumerVars, groupVars
  <2> QED BY <2>1
<1> QED BY <1>1, <1>2, <1>3, <1>4, <1>5 DEF Next

(* A record in "received" was so before, with its consumer, or is received    *)
(* by this step; the handler that held it goes on.                            *)
LEMMA ReceivedSteps ==
  ASSUME IInv, [Next]_vars, NEW m \in Messages, state'[m] = "received"
  PROVE  \/ /\ state[m] = "received" /\ assigned'[m] = assigned[m]
            /\ handling'[assigned[m]] # "none" /\ handler'[assigned[m]] = m
         \/ \E c \in ConsumerIds : c \in members /\ assigned'[m] = c /\ handler'[c] = m /\ handling'[c] = "delay"
<1> DEFINE Held == state[m] = "received" /\ assigned'[m] = assigned[m]
           Keeps == state[m] = "received" => handling'[assigned[m]] # "none" /\ handler'[assigned[m]] = m
<1>0. Types /\ Calls /\ Handlers
  BY DEF IInv
<1>h. chain # <<>> => Head(chain) = chain[1] /\ 1 \in 1..Len(chain)
  BY <1>0, HeadFacts DEF Types
<1>r. state[m] = "received" => /\ assigned[m] \in ConsumerIds /\ handling[assigned[m]] # "none"
                               /\ handler[assigned[m]] = m /\ consumers[assigned[m]] # "absent"
  BY <1>0 DEF Handlers, ReceivedHeld
<1>t. /\ state \in [Messages -> RecordStates] /\ assigned \in [Messages -> ConsumerIds \union {NoOne}]
      /\ handler \in [ConsumerIds -> Messages \union {0}] /\ handling \in [ConsumerIds -> {"none", "delay", "process"}]
  BY <1>0 DEF Types
<1>u. UNCHANGED handlerVars => Keeps
  BY <1>r DEF handlerVars
<1>1. CASE BeginProduce
  <2>1. AddRecord(chain[1].message, "producing", NoOne) /\ UNCHANGED handlerVars
    BY <1>h, <1>1 DEF BeginProduce, Turn
  <2> QED BY <1>t, <1>u, <2>1 DEF AddRecord
<1>2. CASE ProduceReturns
  BY <1>t, <1>u, <1>2 DEF ProduceReturns, SetRecord
<1>3. CASE BeginProcess \/ CommitReturns
  <2> DEFINE n == chain[1].message
             c == chain[1].consumer
  <2>1. /\ chain # <<>> /\ chain[1].op = "process" /\ 1 \in Waiting({"process"})
        /\ n \in Messages /\ c \in ConsumerIds /\ handler[c] = n
    BY <1>0, <1>h, <1>3 DEF BeginProcess, CommitReturns, Turn, Answer, Waiting, Calls, Handlers, ProcessCalls
  <2>2. Held /\ (Returns(c) => assigned[m] # c)
    <3>1. CASE BeginProcess
      <4>1. \/ ~Processable(n, c) /\ state' = state /\ assigned' = assigned
            \/ (\E to \in RecordStates \ {"received"} : state' = [state EXCEPT ![n] = to]) /\ assigned' = assigned
        BY <1>h, <3>1, <2>1 DEF BeginProcess, recordVars, RecordStates
      <4>2. Held /\ (m = n => ~Processable(n, c))
        BY <1>t, <2>1, <4>1
      <4> QED BY <1>r, <2>1, <4>2 DEF Processable
    <3>2. CASE CommitReturns
      <4>1. /\ busy /\ assigned' = assigned
            /\ \/ state' = state
               \/ \E to \in RecordStates \ {"received"} : state' = [state EXCEPT ![n] = to]
        BY <1>h, <3>2 DEF CommitReturns, Answer, SetRecord, RecordStates
      <4>2. Held
        BY <1>t, <2>1, <4>1
      <4>3. assigned[m] = c => m = n
        BY <1>r, <2>1, <4>2
      <4> QED BY <1>0, <2>1, <4>1, <4>2, <4>3 DEF Handlers, BegunIsProcessed
    <3> QED BY <1>3, <3>1, <3>2
  <2>3. UNCHANGED handlerVars \/ Returns(c)
    BY <1>h, <1>3 DEF BeginProcess, CommitReturns, Turn, Answer
  <2>4. CASE Returns(c)
    BY <1>r, <1>t, <2>2, <2>4 DEF Returns
  <2> QED BY <1>u, <2>2, <2>3, <2>4
<1>4. CASE DisconnectReturns
  <2>1. UNCHANGED handlerVars
    BY <1>4 DEF DisconnectReturns
  <2>2. \/ UNCHANGED <<state, assigned>>
        \/ Requeue(chain[1].consumer)
    BY <1>h, <1>4 DEF DisconnectReturns, Answer, recordVars
  <2> QED BY <1>t, <1>u, <2>1, <2>2 DEF Requeue
<1>5. ASSUME NEW c \in ConsumerIds, Deliver(c)
      PROVE  (Held /\ Keeps) \/ (c \in members /\ assigned'[m] = c /\ handler'[c] = m /\ handling'[c] = "delay")
  <2> DEFINE n == log[position[c] + 1]
  <2>1. n \in Messages /\ c \in members /\ handling[c] = "none"
    BY <1>0, <1>5 DEF Deliver, Types
  <2>2. \/ AddRecord(n, "received", c) /\ Receives(c, n)
        \/ /\ state' = [state EXCEPT ![n] = "received"] /\ assigned' = [assigned EXCEPT ![n] = c]
           /\ Receives(c, n)
        \/ UNCHANGED <<state, assigned, handler, handling>>
    BY <1>5 DEF Deliver, recordVars, handlerVars
  <2> HIDE DEF n
  <2>3. CASE UNCHANGED <<state, assigned, handler, handling>>
    BY <1>u, <2>3 DEF handlerVars
  <2>4. CASE Receives(c, n)
    <3>1. handler'[c] = n /\ handling'[c] = "delay"
      BY <1>t, <2>4 DEF Receives
    <3>2. \A d \in ConsumerIds \ {c} : handler'[d] = handler[d] /\ handling'[d] = handling[d]
      BY <1>t, <2>4 DEF Receives
    <3>3. CASE m = n
      <4>1. assigned'[m] = c
        BY <1>t, <2>1, <2>2, <2>4, <3>1, <3>3 DEF AddRecord
      <4> QED BY <2>1, <3>1, <3>3, <4>1
    <3>4. CASE m # n
      <4>1. Held
        BY <1>t, <2>1, <2>2, <3>4 DEF AddRecord
      <4>2. assigned[m] # c
        BY <1>r, <2>1, <4>1
      <4> QED BY <1>r, <3>2, <4>1, <4>2
    <3> QED BY <3>3, <3>4
  <2> QED BY <2>2, <2>3, <2>4
<1>6. ASSUME NEW c \in ConsumerIds, DelayEnds(c) PROVE Held /\ Keeps
  <2>1. UNCHANGED <<state, assigned, handler>> /\ handling' = [handling EXCEPT ![c] = "process"]
    BY <1>6 DEF DelayEnds, recordVars
  <2> QED BY <1>r, <1>t, <2>1
<1>7. CASE CallProduce \/ CallConsumer \/ BrokerAppends \/ BeginAdd \/ AddReturns \/ BeginDisconnect
             \/ (\E c \in ConsumerIds : GainPartition(c) \/ LosePartition(c)) \/ UNCHANGED vars
  <2>1. UNCHANGED <<state, assigned, handlerVars>>
    BY <1>7 DEF CallProduce, CallConsumer, CallCommand, BrokerAppends, BeginAdd, AddReturns, BeginDisconnect,
                GainPartition, LosePartition, vars, recordVars
  <2> QED BY <1>u, <2>1
<1> QED BY <1>1, <1>2, <1>3, <1>4, <1>5, <1>6, <1>7 DEF Next

(* What a handler holds stays in its hands while the handler is at work.      *)
LEMMA ReceivedStep == IInv /\ [Next]_vars => ReceivedHeld' /\ HandlersBusy'
<1> SUFFICES ASSUME IInv, [Next]_vars PROVE ReceivedHeld' /\ HandlersBusy'
  OBVIOUS
<1>0. Types /\ Calls /\ Handlers
  BY DEF IInv
<1>1. ReceivedHeld'
  <2> SUFFICES ASSUME NEW m \in Messages, state'[m] = "received"
               PROVE  /\ assigned'[m] \in ConsumerIds
                      /\ handling'[assigned'[m]] # "none" /\ handler'[assigned'[m]] = m
                      /\ consumers'[assigned'[m]] # "absent"
    BY DEF ReceivedHeld
  <2>1. CASE /\ state[m] = "received" /\ assigned'[m] = assigned[m]
             /\ handling'[assigned[m]] # "none" /\ handler'[assigned[m]] = m
    BY <1>0, <2>1, ConsumerSteps DEF Handlers, ReceivedHeld
  <2>2. ASSUME NEW c \in ConsumerIds, c \in members, assigned'[m] = c, handler'[c] = m, handling'[c] = "delay"
        PROVE  consumers'[c] # "absent"
    BY <1>0, <2>2, ConsumerSteps DEF Handlers, HandlersBusy, handlerVars
  <2> QED BY <2>1, <2>2, ReceivedSteps
<1>2. ASSUME NEW c \in ConsumerIds, handling'[c] # "none" PROVE handler'[c] \in Messages
  <2>t. /\ handler \in [ConsumerIds -> Messages \union {0}] /\ handling \in [ConsumerIds -> {"none", "delay", "process"}]
        /\ handling[c] # "none" => handler[c] \in Messages
    BY <1>0 DEF Types, Handlers, HandlersBusy
  <2>1. CASE UNCHANGED handlerVars
    BY <1>2, <2>t, <2>1 DEF handlerVars
  <2>2. ASSUME NEW d \in ConsumerIds, NEW m \in Messages, Receives(d, m) PROVE handler'[c] \in Messages
    BY <1>2, <2>t, <2>2 DEF Receives
  <2>3. ASSUME NEW d \in ConsumerIds, DelayEnds(d) PROVE handler'[c] \in Messages
    BY <1>2, <2>t, <2>3 DEF DelayEnds
  <2>4. CASE Returns(chain[1].consumer)
    BY <1>2, <2>t, <2>4 DEF Returns
  <2> QED BY <2>1, <2>2, <2>3, <2>4, HandlerSteps
<1>3. ASSUME NEW c \in members' PROVE consumers'[c] # "absent"
  <2>1. c \in ConsumerIds
    BY TypesStep DEF Types
  <2> QED BY <1>0, <1>3, <2>1, ConsumerSteps DEF Handlers, HandlersBusy
<1> QED BY <1>1, <1>2, <1>3 DEF HandlersBusy

(* Only the handler that calls process() waits for the call.                  *)
LEMMA ProcessCallsStep == IInv /\ [Next]_vars => ProcessCalls'
<1> SUFFICES ASSUME IInv, [Next]_vars PROVE ProcessCalls'
  OBVIOUS
<1>0. Types /\ Calls /\ Handlers
  BY DEF IInv
<1>n. Len(chain) \in Nat /\ Len(chain') \in Nat
  BY <1>0, TypesStep DEF Types
<1>t. /\ handler \in [ConsumerIds -> Messages \union {0}] /\ handling \in [ConsumerIds -> {"none", "delay", "process"}]
      /\ chain # <<>> => 1 \in 1..Len(chain)
  BY <1>0, HeadFacts DEF Types
<1>p. /\ \A i \in 1..Len(chain) : chain[i].op = "process" =>
           chain[i].consumer \in ConsumerIds /\ handling[chain[i].consumer] = "process"
           /\ handler[chain[i].consumer] = chain[i].message
      /\ \A i, j \in 1..Len(chain) : chain[i].op = "process" /\ chain[j].op = "process"
           /\ chain[i].consumer = chain[j].consumer => i = j
  BY <1>0 DEF Calls, Handlers, ProcessCalls, Waiting
<1> SUFFICES
      /\ \A i \in 1..Len(chain') : chain'[i].op = "process" =>
           handling'[chain'[i].consumer] = "process" /\ handler'[chain'[i].consumer] = chain'[i].message
      /\ \A i, j \in 1..Len(chain') : chain'[i].op = "process" /\ chain'[j].op = "process"
           /\ chain'[i].consumer = chain'[j].consumer => i = j
  BY DEF ProcessCalls, Waiting
<1>e. ASSUME EndsCall
      PROVE  /\ \A i \in 1..Len(chain') : i + 1 \in 1..Len(chain) /\ chain'[i] = chain[i + 1] /\ i + 1 # 1 /\ i \in Nat
             /\ \A i, j \in 1..Len(chain') : chain'[i].op = "process" /\ chain'[j].op = "process"
                  /\ chain'[i].consumer = chain'[j].consumer => i = j
  <2>1. \A i \in 1..Len(chain') : i + 1 \in 1..Len(chain) /\ chain'[i] = chain[i + 1] /\ i + 1 # 1 /\ i \in Nat
    BY <1>n, <1>e DEF EndsCall
  <2>2. ASSUME NEW i \in 1..Len(chain'), NEW j \in 1..Len(chain'), chain'[i].op = "process", chain'[j].op = "process",
               chain'[i].consumer = chain'[j].consumer
        PROVE  i = j
    <3>1. i + 1 = j + 1
      BY <1>p, <2>1, <2>2
    <3> QED BY <2>1, <3>1
  <2> QED BY <2>1, <2>2
<1>1. CASE UNCHANGED handlerVars /\ (MakesCall => chain'[Len(chain) + 1].op # "process")
  <2>1. CASE MakesCall
    <3>1. \A i \in 1..Len(chain') : chain'[i].op = "process" => i \in 1..Len(chain) /\ chain'[i] = chain[i]
      BY <1>n, <1>1, <2>1 DEF MakesCall
    <3> QED BY <1>p, <1>1, <3>1 DEF handlerVars
  <2>2. CASE EndsCall
    <3>1. \A i \in 1..Len(chain') : chain'[i].op = "process" =>
            handling'[chain'[i].consumer] = "process" /\ handler'[chain'[i].consumer] = chain'[i].message
      BY <1>p, <1>1, <1>e, <2>2 DEF handlerVars
    <3> QED BY <1>e, <2>2, <3>1
  <2>3. CASE LeavesQueue
    BY <1>p, <1>1, <2>3 DEF LeavesQueue, handlerVars
  <2> QED BY <2>1, <2>2, <2>3, QueueSteps
<1>2. ASSUME NEW c \in ConsumerIds, NEW m \in Messages, Deliver(c), Receives(c, m), handling[c] = "none"
      PROVE  /\ chain' = chain
             /\ \A d \in ConsumerIds : handling[d] = "process" => handling'[d] = "process" /\ handler'[d] = handler[d]
  BY <1>t, <1>2 DEF Deliver, Receives
<1>3. CASE \E c \in ConsumerIds : Deliver(c) /\ c \in members /\ handling[c] = "none" /\ \E m \in Messages : Receives(c, m)
  BY <1>p, <1>2, <1>3
<1>4. ASSUME NEW c \in ConsumerIds, DelayEnds(c), MakesCall PROVE ProcessCalls'
  <2> DEFINE new == chain'[Len(chain) + 1]
  <2>1. /\ handling[c] = "delay" /\ handling' = [handling EXCEPT ![c] = "process"] /\ handler' = handler
    BY <1>4 DEF DelayEnds
  <2>2. new.op = "process" /\ new.consumer = c /\ new.message = handler[c]
    <3>1. handler[c] \in Messages \union {0} /\ "process" \in Ops
      BY <1>t DEF Ops
    <3> QED BY <1>0, <1>4, <3>1, CallFacts DEF DelayEnds
  <2>3. \A i \in 1..Len(chain') : i = Len(chain) + 1 \/ (i \in 1..Len(chain) /\ chain'[i] = chain[i])
    BY <1>n, <1>4 DEF MakesCall
  <2>4. \A i \in 1..Len(chain) : chain[i].op = "process" =>
          chain[i].consumer # c /\ handling'[chain[i].consumer] = "process"
          /\ handler'[chain[i].consumer] = chain[i].message
    BY <1>p, <1>t, <2>1
  <2>5. handling'[c] = "process" /\ handler'[c] = handler[c]
    BY <1>t, <2>1
  <2>6. ASSUME NEW i \in 1..Len(chain'), chain'[i].op = "process"
        PROVE  handling'[chain'[i].consumer] = "process" /\ handler'[chain'[i].consumer] = chain'[i].message
    <3>1. CASE i = Len(chain) + 1
      BY <2>2, <2>5, <3>1
    <3>2. CASE i \in 1..Len(chain) /\ chain'[i] = chain[i]
      BY <2>4, <2>6, <3>2
    <3> QED BY <2>3, <3>1, <3>2
  <2>7. ASSUME NEW i \in 1..Len(chain'), NEW j \in 1..Len(chain'), chain'[i].op = "process", chain'[j].op = "process",
               chain'[i].consumer = chain'[j].consumer
        PROVE  i = j
    <3>1. CASE i = Len(chain) + 1 \/ j = Len(chain) + 1
      BY <2>2, <2>3, <2>4, <2>7, <3>1
    <3>2. CASE i \in 1..Len(chain) /\ j \in 1..Len(chain) /\ chain'[i] = chain[i] /\ chain'[j] = chain[j]
      BY <1>p, <2>7, <3>2
    <3> QED BY <2>3, <3>1, <3>2
  <2> HIDE DEF new
  <2> QED BY <2>6, <2>7 DEF ProcessCalls, Waiting
<1>5. CASE chain # <<>> /\ chain[1].op = "process" /\ EndsCall /\ Returns(chain[1].consumer)
  <2>1. \A d \in ConsumerIds \ {chain[1].consumer} : handling'[d] = handling[d] /\ handler'[d] = handler[d]
    BY <1>t, <1>5 DEF Returns
  <2>2. ASSUME NEW i \in 1..Len(chain'), chain'[i].op = "process"
        PROVE  handling'[chain'[i].consumer] = "process" /\ handler'[chain'[i].consumer] = chain'[i].message
    <3>1. i + 1 \in 1..Len(chain) /\ chain'[i] = chain[i + 1] /\ i + 1 # 1
      BY <1>5, <1>e
    <3>2. chain'[i].consumer \in ConsumerIds \ {chain[1].consumer}
      BY <1>p, <1>t, <1>5, <2>2, <3>1
    <3> QED BY <1>p, <2>1, <2>2, <3>1, <3>2
  <2> QED BY <1>5, <1>e, <2>2
<1> QED BY <1>1, <1>3, <1>4, <1>5, HandlerSteps DEF ProcessCalls, Waiting

(* A body of process() that awaits its commit has taken the record over.      *)
LEMMA BegunStep == IInv /\ [Next]_vars => BegunIsProcessed'
<1> SUFFICES ASSUME IInv, [Next]_vars, busy', chain'[1].op = "process",
                    state'[chain'[1].message] = "received", assigned'[chain'[1].message] = chain'[1].consumer
             PROVE  FALSE
  BY DEF BegunIsProcessed
<1>0. Types /\ Types' /\ Calls /\ Calls' /\ Handlers /\ ProcessCalls'
  BY TypesStep, CallsStep, ProcessCallsStep DEF IInv
<1>h. /\ chain # <<>> => Head(chain) = chain[1] /\ 1 \in 1..Len(chain)
      /\ chain' # <<>> => 1 \in 1..Len(chain')
  <2>1. chain # <<>> => Head(chain) = chain[1] /\ 1 \in 1..Len(chain)
    BY <1>0, HeadFacts
  <2>2. chain' \in Seq(MutationSet)
    BY <1>0 DEF Types
  <2> QED BY ONLY <2>1, <2>2
<1> DEFINE m == chain'[1].message
           c == chain'[1].consumer
<1>1. 1 \in 1..Len(chain') /\ m \in Messages /\ c \in ConsumerIds /\ handling'[c] = "process"
  BY <1>0, <1>h DEF Calls, ProcessCalls, Waiting
<1>2. state[m] = "received" /\ assigned[m] = c
  BY <1>1, ReceivedSteps
<1>3. CASE busy
  <2>1. chain'[1] = chain[1]
    BY <1>0, <1>h, <1>3, QueueSteps DEF MakesCall, EndsCall, LeavesQueue, Calls
  <2> QED BY <1>0, <1>2, <1>3, <2>1 DEF Handlers, BegunIsProcessed
<1>4. CASE ~busy
  <2>1. BeginProduce \/ BeginProcess \/ BeginAdd \/ BeginDisconnect
    BY <1>4 DEF Next, vars, CallProduce, CallConsumer, CallCommand, BrokerAppends, ProduceReturns, CommitReturns, AddReturns,
                DisconnectReturns, Answer, Deliver, DelayEnds, GainPartition, LosePartition
  <2>2. chain' = chain /\ chain[1] = Head(chain)
    BY <1>h, <2>1 DEF BeginProduce, BeginProcess, BeginAdd, BeginDisconnect, Turn, Finish, Await
  <2>3. BeginProcess
    BY <2>1, <2>2 DEF BeginProduce, BeginAdd, BeginDisconnect, Turn
  <2>4. state' = [state EXCEPT ![m] = "commit_requested"]
    BY <2>2, <2>3 DEF BeginProcess, Finish
  <2> QED BY <1>0, <1>1, <2>4 DEF Types
<1> QED BY <1>3, <1>4

-----------------------------------------------------------------------------
(* The log and the offsets *)

(* Only the body that produces a message appends it.                          *)
LEMMA LogOnceStep == IInv /\ [Next]_vars => LogOnce'
<1> SUFFICES ASSUME IInv, [Next]_vars PROVE LogOnce'
  OBVIOUS
<1>0. Types /\ Types' /\ Calls /\ LogOnce
  BY TypesStep DEF IInv
<1>n. /\ Len(chain) \in Nat /\ Len(chain') \in Nat /\ Len(log) \in Nat /\ calls \in Nat /\ calls' \in Nat
      /\ \A i \in 1..Len(log) : log[i] \in Nat
      /\ \A i \in 1..Len(chain) : chain[i].op = "produce" => chain[i].message \in 1..calls
  <2>1. Len(chain) \in Nat /\ Len(chain') \in Nat /\ Len(log) \in Nat
    BY <1>0 DEF Types
  <2>2. calls \in Nat /\ calls' \in Nat
    BY <1>0, BoundsAssumption DEF Types
  <2>3. \A i \in 1..Len(log) : log[i] \in Messages
    BY <1>0 DEF Types
  <2>4. Messages \subseteq Nat
    BY BoundsAssumption DEF Messages
  <2>5. \A i \in 1..Len(chain) : chain[i].op = "produce" => chain[i].message \in 1..calls
    BY <1>0 DEF Calls, Waiting
  <2> QED BY <2>1, <2>2, <2>3, <2>4, <2>5
<1>p. /\ \A i, j \in 1..Len(log) : log[i] = log[j] => i = j
      /\ \A i \in 1..Len(log) : log[i] <= calls
      /\ \A i, j \in 1..Len(chain) : chain[i].op = "produce" /\ chain[j].op = "produce"
           /\ chain[i].message = chain[j].message => i = j
      /\ \A i \in 1..Len(chain), k \in 1..Len(log) : chain[i].op = "produce" /\ log[k] = chain[i].message => i = 1 /\ busy
  BY <1>0 DEF LogOnce, Waiting
<1>1. CASE BrokerAppends
  <2> DEFINE m == chain[1].message
  <2>1. chain # <<>> /\ busy /\ Head(chain) = chain[1] /\ 1 \in 1..Len(chain) /\ chain[1].op = "produce"
    BY <1>0, <1>1, <1>n, HeadFacts DEF BrokerAppends, Answer
  <2>2. m \in Messages /\ m \in 1..calls /\ chain' = chain /\ busy' = busy /\ calls' = calls
    BY <1>0, <1>1, <1>n, <2>1, BoundsAssumption DEF BrokerAppends, callVars, Types, Messages
  <2>3. log' = Append(log, m) /\ \A i \in 1..Len(log) : log[i] # m
    BY <1>1, <2>1 DEF BrokerAppends, ToSet
  <2> HIDE DEF m
  <2>4. /\ Len(log') = Len(log) + 1 /\ log'[Len(log) + 1] = m
        /\ \A i \in 1..Len(log) : log'[i] = log[i]
    BY <1>0, <2>2, <2>3 DEF Types
  <2>5. \A i \in 1..Len(log') : i = Len(log) + 1 \/ i \in 1..Len(log)
    BY <1>n, <2>4
  <2>6. \A i \in 1..Len(chain) : chain[i].op = "produce" /\ chain[i].message = m => i = 1
    BY <1>p, <2>1 DEF m
  <2>7. /\ \A i, j \in 1..Len(log') : log'[i] = log'[j] => i = j
        /\ \A i \in 1..Len(log') : log'[i] <= calls
    BY <1>n, <1>p, <2>2, <2>3, <2>4, <2>5
  <2>8. \A i \in 1..Len(chain), k \in 1..Len(log') : chain[i].op = "produce" /\ log'[k] = chain[i].message => i = 1 /\ busy
    BY <1>p, <2>1, <2>4, <2>5, <2>6
  <2> QED BY <1>p, <2>2, <2>7, <2>8 DEF LogOnce, Waiting
<1>2. CASE ~BrokerAppends
  <2>1. log' = log
    BY <1>2 DEF Next, vars, brokerVars, CallProduce, CallConsumer, CallCommand, BeginProduce, ProduceReturns, BeginProcess,
                CommitReturns, BeginAdd, AddReturns, BeginDisconnect, DisconnectReturns, Deliver, DelayEnds,
                GainPartition, LosePartition
  <2>2. CASE MakesCall
    <3>1. \A i \in 1..Len(chain') : i = Len(chain) + 1 \/ (i \in 1..Len(chain) /\ chain'[i] = chain[i])
      BY <1>n, <2>2 DEF MakesCall
    <3>2. /\ chain'[Len(chain) + 1].op = "produce" => chain'[Len(chain) + 1].message = calls + 1
          /\ calls' \in {calls, calls + 1} /\ busy' = busy
      BY <2>2, NewCall DEF MakesCall
    <3>3. \A i, j \in 1..Len(chain') : chain'[i].op = "produce" /\ chain'[j].op = "produce"
            /\ chain'[i].message = chain'[j].message => i = j
      BY <1>n, <1>p, <3>1, <3>2
    <3>4. \A i \in 1..Len(chain'), k \in 1..Len(log) : chain'[i].op = "produce" /\ log[k] = chain'[i].message => i = 1 /\ busy
      BY <1>n, <1>p, <3>1, <3>2
    <3>5. \A i \in 1..Len(log) : log[i] <= calls'
      BY <1>n, <1>p, <3>2
    <3> QED BY <1>p, <2>1, <3>2, <3>3, <3>4, <3>5 DEF LogOnce, Waiting
  <2>3. CASE EndsCall
    <3>1. \A i \in 1..Len(chain') : i + 1 \in 1..Len(chain) /\ chain'[i] = chain[i + 1] /\ i + 1 # 1 /\ i \in Nat
      BY <1>n, <2>3 DEF EndsCall
    <3>2. calls' = calls
      BY <2>3 DEF EndsCall
    <3>3. \A i, j \in 1..Len(chain') : chain'[i].op = "produce" /\ chain'[j].op = "produce"
            /\ chain'[i].message = chain'[j].message => i = j
      <4> TAKE i, j \in 1..Len(chain')
      <4>1. chain'[i] = chain[i + 1] /\ chain'[j] = chain[j + 1] /\ (i + 1 = j + 1 => i = j)
        BY <3>1
      <4> QED BY <1>p, <3>1, <4>1
    <3>4. \A i \in 1..Len(chain'), k \in 1..Len(log) : chain'[i].op = "produce" => log[k] # chain'[i].message
      BY <1>p, <3>1
    <3> QED BY <1>p, <2>1, <3>2, <3>3, <3>4 DEF LogOnce, Waiting
  <2>4. CASE LeavesQueue
    BY <1>p, <2>1, <2>4 DEF LeavesQueue, LogOnce, Waiting
  <2> QED BY <2>2, <2>3, <2>4, QueueSteps
<1> QED BY <1>1, <1>2

(* A message in the log that may be passed over stays so: none begins to wait. *)
LEMMA PassableStep ==
  ASSUME IInv, [Next]_vars, NEW i \in 1..Len(log), Passable(log[i])
  PROVE  Passable(log[i])' /\ log'[i] = log[i]
<1> DEFINE m == log[i]
<1>0. Types /\ Types' /\ Calls /\ Records /\ Handlers /\ LogOnce
  BY TypesStep DEF IInv
<1>h. chain # <<>> => Head(chain) = chain[1] /\ 1 \in 1..Len(chain)
  BY <1>0, HeadFacts DEF Types
<1>t. m \in Messages /\ state \in [Messages -> RecordStates] /\ early \in SUBSET Messages
  BY <1>0 DEF Types
<1>1. log'[i] = log[i]
  <2>1. CASE BrokerAppends
    <3>1. log' = Append(log, Head(chain).message) /\ log \in Seq(Messages)
      BY <1>0, <2>1 DEF BrokerAppends, Types
    <3> QED BY <3>1
  <2>2. CASE ~BrokerAppends
    BY <2>2 DEF Next, vars, brokerVars, CallProduce, CallConsumer, CallCommand, BeginProduce, ProduceReturns, BeginProcess,
                CommitReturns, BeginAdd, AddReturns, BeginDisconnect, DisconnectReturns, Deliver, DelayEnds,
                GainPartition, LosePartition
  <2> QED BY <2>1, <2>2
<1>2. early \subseteq early'
  BY DEF Next, vars, CallProduce, CallConsumer, CallCommand, BeginProduce, BrokerAppends, ProduceReturns, BeginProcess,
         CommitReturns, BeginAdd, AddReturns, BeginDisconnect, DisconnectReturns, Deliver, DelayEnds,
         GainPartition, LosePartition
<1>3. state'[m] \in {"producing", "produced"} => state[m] \in {"producing", "produced"}
  <2>1. CASE BeginProduce
    <3> DEFINE n == chain[1].message
    <3>1. AddRecord(n, "producing", NoOne) /\ ~busy /\ chain[1].op = "produce" /\ chain # <<>>
      BY <1>h, <2>1 DEF BeginProduce, Turn
    <3>2. m # n
      BY <1>0, <1>h, <3>1 DEF LogOnce, Waiting
    <3> QED BY <1>t, <3>1, <3>2 DEF AddRecord
  <2>2. CASE ProduceReturns
    <3> DEFINE n == chain[1].message
    <3>1. /\ busy /\ chain[1].op = "produce"
          /\ \/ state' = state
             \/ ~detached /\ \E to \in {"produced", "failed"} : state' = [state EXCEPT ![n] = to]
      BY <1>h, <2>2 DEF ProduceReturns, Answer, SetRecord
    <3>2. ~detached => state[n] = "producing"
      BY <1>0, <3>1 DEF Records
    <3> QED BY <1>t, <3>1, <3>2
  <2>3. CASE BeginProcess \/ CommitReturns
    <3>1. state' = state \/ \E n, to : to \notin {"producing", "produced"} /\ state' = [state EXCEPT ![n] = to]
      BY <2>3 DEF BeginProcess, CommitReturns, SetRecord, recordVars
    <3> QED BY <1>t, <3>1
  <2>4. CASE DisconnectReturns
    <3> DEFINE c == chain[1].consumer
    <3>1. /\ busy /\ chain[1].op \in {"stop", "crash"}
          /\ state' = state \/ (handling[c] = "none" /\ Requeue(c))
      BY <1>h, <2>4 DEF DisconnectReturns, Answer, recordVars
    <3>2. \A n \in Messages : state[n] # "commit_requested"
      BY <1>0, <3>1 DEF Records
    <3>3. \A n \in Messages : state[n] = "received" => handling[assigned[n]] # "none"
      BY <1>0 DEF Handlers, ReceivedHeld
    <3> QED BY <1>t, <3>1, <3>2, <3>3 DEF Requeue
  <2>5. ASSUME NEW c \in ConsumerIds, Deliver(c)
        PROVE  state'[m] \in {"producing", "produced"} => state[m] \in {"producing", "produced"}
    <3> DEFINE n == log[position[c] + 1]
    <3>1. \/ AddRecord(n, "received", c)
          \/ state' = [state EXCEPT ![n] = "received"]
          \/ state' = state
      BY <2>5 DEF Deliver, recordVars
    <3> QED BY <1>t, <3>1 DEF AddRecord
  <2>6. CASE CallProduce \/ CallConsumer \/ BrokerAppends \/ BeginAdd \/ AddReturns \/ BeginDisconnect
               \/ (\E c \in ConsumerIds : DelayEnds(c) \/ GainPartition(c) \/ LosePartition(c)) \/ UNCHANGED vars
    BY <2>6 DEF CallProduce, CallConsumer, CallCommand, BrokerAppends, BeginAdd, AddReturns, BeginDisconnect,
                DelayEnds, GainPartition, LosePartition, vars, recordVars
  <2> QED BY <2>1, <2>2, <2>3, <2>4, <2>5, <2>6 DEF Next
<1> QED BY <1>1, <1>2, <1>3 DEF Passable

(* A consumer passes a message by receiving it or because it is early, and    *)
(* what the group commits is what a consumer has passed.                      *)
LEMMA PassedStep == IInv /\ [Next]_vars => Passed'
<1> SUFFICES ASSUME IInv, [Next]_vars PROVE Passed'
  OBVIOUS
<1>0. Types /\ Types' /\ Calls /\ Handlers /\ Passed /\ LogOnce
  BY TypesStep DEF IInv
<1>h. chain # <<>> => Head(chain) = chain[1] /\ 1 \in 1..Len(chain)
  BY <1>0, HeadFacts DEF Types
<1>t. /\ position \in [ConsumerIds -> 0..Len(log)] /\ committedOffset \in 0..Len(log) /\ Len(log) \in Nat
      /\ handler \in [ConsumerIds -> Messages \union {0}] /\ handling \in [ConsumerIds -> {"none", "delay", "process"}]
  BY <1>0 DEF Types
<1>p. /\ \A i \in 1..committedOffset : i \in 1..Len(log) /\ Passable(log[i])' /\ log'[i] = log[i]
      /\ \A c \in ConsumerIds : \A i \in 1..position[c] : i \in 1..Len(log) /\ Passable(log[i])' /\ log'[i] = log[i]
  BY <1>0, <1>t, PassableStep DEF Passed
<1>q. \A c \in ConsumerIds : handling[c] # "none" =>
        position[c] \in 1..Len(log) /\ log[position[c]] = handler[c] /\ log'[position[c]] = handler[c]
  <2>1. \A c \in ConsumerIds : position[c] # 0 => position[c] \in 1..position[c] /\ position[c] \in 1..Len(log)
    BY <1>t
  <2> QED BY <1>0, <1>p, <2>1 DEF Passed
<1>1. CASE CommitReturns
  <2> DEFINE m == chain[1].message
             c == chain[1].consumer
  <2>1. /\ chain # <<>> /\ chain[1].op = "process" /\ Returns(c) /\ position' = position /\ log' = log
        /\ committedOffset' = committedOffset \/ committedOffset' \in OffsetAfter(m)
    BY <1>h, <1>1 DEF CommitReturns, Answer, groupVars
  <2>2. c \in ConsumerIds /\ handling[c] # "none" /\ handler[c] = m
    BY <1>0, <1>h, <2>1 DEF Calls, Handlers, ProcessCalls, Waiting
  <2>3. committedOffset' = committedOffset \/ committedOffset' = position[c]
    BY <1>0, <1>q, <2>1, <2>2 DEF OffsetAfter, LogOnce
  <2>4. \A d \in ConsumerIds : handling'[d] # "none" => handling[d] # "none" /\ handler'[d] = handler[d]
    BY <1>t, <2>1 DEF Returns
  <2>5. \A d \in ConsumerIds : handling'[d] # "none" => position'[d] # 0 /\ log'[position'[d]] = handler'[d]
    BY <1>q, <1>t, <2>1, <2>4
  <2>6. \A i \in 1..committedOffset' : Passable(log[i])'
    BY <1>p, <2>2, <2>3
  <2> QED BY <1>p, <2>1, <2>5, <2>6 DEF Passed
<1>2. ASSUME NEW c \in ConsumerIds, Deliver(c) PROVE Passed'
  <2> DEFINE m == log[position[c] + 1]
  <2>1. /\ position' = [position EXCEPT ![c] = @ + 1] /\ UNCHANGED brokerVars /\ handling[c] = "none"
        /\ position[c] + 1 \in 1..Len(log) /\ m \in Messages
    <3>1. /\ position' = [position EXCEPT ![c] = @ + 1] /\ UNCHANGED brokerVars /\ handling[c] = "none"
          /\ position[c] < Len(log)
      BY <1>2 DEF Deliver
    <3>2. position[c] + 1 \in 1..Len(log)
      BY <1>t, <3>1
    <3>3. \A i \in 1..Len(log) : log[i] \in Messages
      BY <1>0 DEF Types
    <3> QED BY <3>1, <3>2, <3>3
  <2>2. state'[m] \in {"producing", "produced"} => m \in early'
    <3>1. \/ AddRecord(m, "received", c)
          \/ state' = [state EXCEPT ![m] = "received"]
          \/ state' = state /\ state[m] # "produced" /\ early' = IF state[m] = "producing" THEN early \union {m} ELSE early
      BY <1>2 DEF Deliver, Receivable, recordVars
    <3>2. state \in [Messages -> RecordStates] /\ log' = log
      BY <1>0, <2>1 DEF Types, brokerVars
    <3> QED BY <2>1, <3>1, <3>2 DEF AddRecord
  <2>3. \A d \in ConsumerIds : \A i \in 1..position'[d] : i \in 1..position[d] \/ (d = c /\ i = position[c] + 1)
    BY <1>t, <2>1
  <2>4. UNCHANGED handlerVars \/ Receives(c, m)
    BY <1>2 DEF Deliver
  <2>5. \A d \in ConsumerIds : handling'[d] # "none" => position'[d] # 0 /\ log'[position'[d]] = handler'[d]
    <3>1. \A d \in ConsumerIds \ {c} : position'[d] = position[d] /\ handler'[d] = handler[d] /\ handling'[d] = handling[d]
      BY <1>t, <2>1, <2>4 DEF Receives, handlerVars
    <3>2. handling'[c] # "none" => handler'[c] = m /\ position'[c] = position[c] + 1
      BY <1>t, <2>1, <2>4 DEF Receives, handlerVars
    <3> QED BY <1>q, <1>t, <2>1, <3>1, <3>2 DEF brokerVars
  <2>6. UNCHANGED <<log, committedOffset>>
    BY <2>1 DEF brokerVars
  <2>7. \A d \in ConsumerIds : \A i \in 1..position'[d] : Passable(log[i])'
    BY <1>p, <2>2, <2>3, <2>6 DEF Passable
  <2> QED BY <1>p, <2>5, <2>6, <2>7 DEF Passed
<1>3. ASSUME NEW c \in ConsumerIds, GainPartition(c) PROVE Passed'
  <2>1. /\ position' = [position EXCEPT ![c] = committedOffset] /\ UNCHANGED <<brokerVars, handlerVars>> /\ handling[c] = "none"
    BY <1>3 DEF GainPartition
  <2>2. \A d \in ConsumerIds : handling'[d] # "none" => position'[d] # 0 /\ log'[position'[d]] = handler'[d]
    BY <1>q, <1>t, <2>1 DEF brokerVars, handlerVars
  <2>3. \A d \in ConsumerIds : position'[d] \in {position[d], committedOffset}
    BY <1>t, <2>1
  <2> QED BY <1>p, <2>1, <2>2, <2>3 DEF Passed, brokerVars
<1>4. CASE ~CommitReturns /\ ~\E c \in ConsumerIds : Deliver(c) \/ GainPartition(c)
  <2>1. UNCHANGED <<committedOffset, position>>
    BY <1>4 DEF Next, vars, brokerVars, groupVars, CallProduce, CallConsumer, CallCommand, BeginProduce, BrokerAppends,
                ProduceReturns, BeginProcess, BeginAdd, AddReturns, BeginDisconnect, DisconnectReturns, LeaveGroup,
                DelayEnds, LosePartition
  <2>2. \A d \in ConsumerIds : handling'[d] # "none" => handling[d] # "none" /\ handler'[d] = handler[d]
    <3>1. UNCHANGED handlerVars \/ (\E c \in ConsumerIds : DelayEnds(c)) \/ Returns(chain[1].consumer)
      BY <1>4, HandlerSteps
    <3> QED BY <1>t, <3>1 DEF handlerVars, DelayEnds, Returns
  <2> QED BY <1>p, <1>q, <1>t, <2>1, <2>2 DEF Passed
<1> QED BY <1>1, <1>2, <1>3, <1>4

-----------------------------------------------------------------------------
(* The records the run retains *)

(* What boundMessages() drops is what exceeds the limit.                      *)
LEMMA ExcessFacts ==
  ASSUME NEW s, Len(s) \in Nat
  PROVE  Excess(s) = IF Len(s) > RetainedMessageLimit THEN Len(s) - RetainedMessageLimit ELSE 0
<1> DEFINE d == Len(s) - RetainedMessageLimit
<1>1. d \in Int
  BY BoundsAssumption
<1>2. \E x \in {0, d} : \A y \in {0, d} : x >= y
  BY <1>1
<1>3. Max({0, d}) \in {0, d} /\ Max({0, d}) >= 0 /\ Max({0, d}) >= d
  BY <1>1, <1>2 DEF Max
<1> QED BY <1>1, <1>3, BoundsAssumption DEF Excess

(* A record that is added is the newest of the records, which are still no    *)
(* more than the limit.                                                       *)
LEMMA AddRecordRetains ==
  ASSUME IInv, NEW m \in Messages, NEW to \in RecordStates \ {"absent"}, NEW c, AddRecord(m, to, c), state[m] = "absent"
  PROVE  /\ messages' \in Seq(Messages) /\ Len(messages') <= RetainedMessageLimit
         /\ \A i, j \in 1..Len(messages') : messages'[i] = messages'[j] => i = j
         /\ \A n \in Messages : state'[n] = "absent" <=> \A i \in 1..Len(messages') : messages'[i] # n
         /\ state'[m] = to
         /\ \A n \in Messages \ {m} : state'[n] = IF n \in Forgotten(Append(messages, m)) THEN "absent" ELSE state[n]
<1> DEFINE s == Append(messages, m)
           e == Excess(s)
           n == Len(messages)
<1>0. Types /\ Retained
  BY DEF IInv
<1>1. s \in Seq(Messages) /\ Len(s) = n + 1 /\ n \in Nat /\ s[n + 1] = m /\ \A i \in 1..n : s[i] = messages[i]
  BY <1>0 DEF Retained
<1>2. e \in 0..n /\ n + 1 - e <= RetainedMessageLimit
  <2>1. Len(s) \in Nat /\ Len(s) = n + 1
    BY <1>1
  <2>2. n <= RetainedMessageLimit /\ n \in Nat
    BY <1>0, <1>1 DEF Retained
  <2>3. /\ Len(s) > RetainedMessageLimit => e = Len(s) - RetainedMessageLimit
        /\ ~(Len(s) > RetainedMessageLimit) => e = 0
    <3>1. Excess(s) = IF Len(s) > RetainedMessageLimit THEN Len(s) - RetainedMessageLimit ELSE 0
      BY <2>1, ExcessFacts
    <3>2. /\ Len(s) > RetainedMessageLimit => Excess(s) = Len(s) - RetainedMessageLimit
          /\ ~(Len(s) > RetainedMessageLimit) => Excess(s) = 0
      BY ONLY <3>1, Zenon
    <3> QED BY ONLY <3>2
  <2> HIDE DEF e, n, s
  <2> QED BY <2>1, <2>3, <2>2, BoundsAssumption
<1>3. \A i, j \in 1..(n + 1) : s[i] = s[j] => i = j
  <2>1. \A i \in 1..n : messages[i] # m
    BY <1>0 DEF Retained
  <2>2. \A i \in 1..(n + 1) : i \in 1..n \/ i = n + 1
    BY <1>1
  <2> QED BY <1>0, <1>1, <2>1, <2>2 DEF Retained
<1>4. messages' = SubSeq(s, 1 + e, n + 1)
  BY <1>1 DEF AddRecord
<1>5. \A k \in Messages : k \in Forgotten(s) <=> \E i \in 1..e : s[i] = k
  <2>1. Len(SubSeq(s, 1, e)) = e /\ DOMAIN SubSeq(s, 1, e) = 1..e /\ \A i \in 1..e : SubSeq(s, 1, e)[i] = s[i]
    <3> HIDE DEF s, e
    <3> QED BY <1>1, <1>2
  <2> QED BY <2>1 DEF Forgotten, ToSet
<1> HIDE DEF s, e
<1>6. /\ messages' \in Seq(Messages) /\ Len(messages') = n + 1 - e
      /\ \A i \in 1..(n + 1 - e) : messages'[i] = s[i + e]
  BY <1>1, <1>2, <1>4
<1>7. \A i \in 1..(n + 1 - e) : i + e \in (e + 1)..(n + 1) /\ i + e \in 1..(n + 1)
  BY <1>1, <1>2
<1>8. \A i, j \in 1..Len(messages') : messages'[i] = messages'[j] => i = j
  <2> SUFFICES ASSUME NEW i \in 1..Len(messages'), NEW j \in 1..Len(messages'), messages'[i] = messages'[j] PROVE i = j
    OBVIOUS
  <2>1. i + e = j + e
    BY <1>3, <1>6, <1>7
  <2> QED BY <1>1, <1>2, <1>6, <2>1
<1>9. ASSUME NEW k \in Messages
      PROVE  (\E i \in 1..Len(messages') : messages'[i] = k) <=> \E i \in (e + 1)..(n + 1) : s[i] = k
  <2>1. ASSUME NEW i \in (e + 1)..(n + 1), s[i] = k PROVE \E j \in 1..Len(messages') : messages'[j] = k
    <3>1. i - e \in 1..(n + 1 - e) /\ (i - e) + e = i
      BY <1>1, <1>2, <2>1
    <3>2. messages'[i - e] = k
      BY <1>6, <2>1, <3>1
    <3> QED BY <1>6, <3>1, <3>2
  <2>2. ASSUME NEW i \in 1..Len(messages'), messages'[i] = k PROVE \E j \in (e + 1)..(n + 1) : s[j] = k
    <3>1. s[i + e] = k
      BY <1>6, <2>2
    <3> QED BY <1>6, <1>7, <3>1
  <2> QED BY <2>1, <2>2
<1>10. /\ state'[m] = to
       /\ \A k \in Messages \ {m} : state'[k] = IF k \in Forgotten(s) THEN "absent" ELSE state[k]
  BY <1>0 DEF AddRecord, Types, s
<1>11. ASSUME NEW k \in Messages PROVE state'[k] = "absent" <=> \A i \in 1..Len(messages') : messages'[i] # k
  <2>1. CASE k = m
    <3>1. n + 1 \in (e + 1)..(n + 1) /\ s[n + 1] = k
      BY <1>1, <1>2, <2>1
    <3> QED BY <1>9, <1>10, <2>1, <3>1
  <2>2. CASE k # m
    <3>1. state[k] # "absent" <=> \E i \in 1..n : s[i] = k
      BY <1>0, <1>1 DEF Retained
    <3>2. (\E i \in (e + 1)..(n + 1) : s[i] = k) <=> \E i \in (e + 1)..n : s[i] = k
      BY <1>1, <1>2, <2>2
    <3>3. (\E i \in 1..n : s[i] = k) <=> (\E i \in 1..e : s[i] = k) \/ \E i \in (e + 1)..n : s[i] = k
      <4>1. \A i \in Int : i \in 1..n <=> i \in 1..e \/ i \in (e + 1)..n
        BY <1>1, <1>2
      <4>2. \A i : i \in 1..n \/ i \in 1..e \/ i \in (e + 1)..n => i \in Int
        BY <1>1, <1>2
      <4> QED BY <4>1, <4>2
    <3>4. \A i \in 1..e, j \in (e + 1)..n : i \in 1..(n + 1) /\ j \in 1..(n + 1) /\ i # j
      BY <1>1, <1>2
    <3>5. ~((\E i \in 1..e : s[i] = k) /\ \E i \in (e + 1)..n : s[i] = k)
      BY <1>3, <3>4
    <3> QED BY <1>5, <1>9, <1>10, <2>2, <3>1, <3>2, <3>3, <3>5
  <2> QED BY <2>1, <2>2
<1> QED BY <1>2, <1>6, <1>8, <1>10, <1>11 DEF s

(* Records come and go with messages.push() and boundMessages() only.         *)
LEMMA RecordSteps ==
  ASSUME IInv, [Next]_vars
  PROVE  \/ UNCHANGED messages /\ \A n \in Messages : state'[n] = "absent" <=> state[n] = "absent"
         \/ BeginProduce
         \/ \E c \in ConsumerIds : Deliver(c) /\ state[log[position[c] + 1]] = "absent"
<1> DEFINE Same == UNCHANGED messages /\ \A n \in Messages : state'[n] = "absent" <=> state[n] = "absent"
<1>0. Types /\ Records /\ Retained
  BY DEF IInv
<1>h. chain # <<>> => Head(chain) = chain[1]
  BY <1>0, HeadFacts
<1>t. state \in [Messages -> RecordStates]
  BY <1>0 DEF Types
<1>1. CASE ProduceReturns
  <2> DEFINE m == chain[1].message
  <2>1. /\ busy /\ chain[1].op = "produce" /\ messages' = messages
        /\ \/ state' = state
           \/ ~detached /\ \E to \in {"produced", "failed"} : state' = [state EXCEPT ![m] = to]
    BY <1>h, <1>1 DEF ProduceReturns, Answer, SetRecord
  <2>2. ~detached => state[m] = "producing"
    BY <1>0, <2>1 DEF Records
  <2> QED BY <1>t, <2>1, <2>2
<1>2. CASE BeginProcess
  <2> DEFINE m == chain[1].message
  <2>1. /\ messages' = messages
        /\ \/ state' = state
           \/ state[m] = "received" /\ \E to \in {"failed", "committed", "commit_requested"} : state' = [state EXCEPT ![m] = to]
    BY <1>h, <1>2 DEF BeginProcess, Turn, Processable, recordVars
  <2> QED BY <1>t, <2>1
<1>3. CASE CommitReturns
  <2> DEFINE m == chain[1].message
  <2>1. /\ busy /\ chain[1].op = "process" /\ messages' = messages
        /\ \/ state' = state
           \/ ~detached /\ \E to \in {"committed", "failed"} : state' = [state EXCEPT ![m] = to]
    BY <1>h, <1>3 DEF CommitReturns, Answer, SetRecord
  <2>2. ~detached => state[m] = "commit_requested"
    BY <1>0, <2>1 DEF Retained
  <2> QED BY <1>t, <2>1, <2>2
<1>4. CASE DisconnectReturns
  <2>1. messages' = messages /\ (state' = state \/ \E c : Requeue(c))
    BY <1>4 DEF DisconnectReturns, Requeue, recordVars
  <2> QED BY <1>t, <2>1 DEF Requeue
<1>5. ASSUME NEW c \in ConsumerIds, Deliver(c), state[log[position[c] + 1]] # "absent" PROVE Same
  <2> DEFINE m == log[position[c] + 1]
  <2>1. messages' = messages /\ (state' = state \/ state' = [state EXCEPT ![m] = "received"])
    BY <1>5 DEF Deliver, recordVars
  <2> QED BY <1>t, <1>5, <2>1
<1>6. CASE CallProduce \/ CallConsumer \/ BrokerAppends \/ BeginAdd \/ AddReturns \/ BeginDisconnect
             \/ (\E c \in ConsumerIds : DelayEnds(c) \/ GainPartition(c) \/ LosePartition(c)) \/ UNCHANGED vars
  <2>1. UNCHANGED <<messages, state>>
    BY <1>6 DEF CallProduce, CallConsumer, CallCommand, BrokerAppends, BeginAdd, AddReturns, BeginDisconnect,
                DelayEnds, GainPartition, LosePartition, vars, recordVars
  <2> QED BY <2>1
<1> QED BY <1>1, <1>2, <1>3, <1>4, <1>5, <1>6 DEF Next

(* The run keeps its records, each of them once, and the body in its turn     *)
(* finds the one it left.                                                     *)
LEMMA RetainedStep == IInv /\ [Next]_vars => Retained'
<1> SUFFICES ASSUME IInv, [Next]_vars PROVE Retained'
  OBVIOUS
<1>0. Types /\ Types' /\ Calls /\ Calls' /\ Records /\ LogOnce /\ Retained
  BY TypesStep, CallsStep DEF IInv
<1>n. /\ Len(chain) \in Nat /\ Len(chain') \in Nat /\ Len(log) \in Nat /\ calls \in Nat /\ calls' \in Nat
      /\ Messages \subseteq Nat
  BY <1>0, BoundsAssumption DEF Types, Messages
<1>h. chain # <<>> => Head(chain) = chain[1] /\ 1 \in 1..Len(chain)
  BY <1>0, <1>n, HeadFacts
<1>c. /\ \A i \in Waiting({"produce"}) : chain[i].message \in Messages /\ chain[i].message <= calls
      /\ \A i \in Waiting({"produce"}) : state[chain[i].message] = "absent" \/ (i = 1 /\ busy)
      /\ \A m \in Messages : m > calls => state[m] = "absent"
  <2>1. \A i \in Waiting({"produce"}) : chain[i].message \in Messages /\ chain[i].message <= calls
    <3>1. calls \in 0..MaxMessages
      BY <1>0 DEF Types
    <3>2. ASSUME NEW i \in Waiting({"produce"}) PROVE chain[i].message \in 1..calls
      BY <1>0 DEF Calls
    <3> QED BY <3>1, <3>2, BoundsAssumption DEF Messages
  <2>2. /\ \A i \in Waiting({"produce"}) : state[chain[i].message] = "absent" \/ (i = 1 /\ busy)
        /\ \A m \in Messages : m > calls => state[m] = "absent"
    BY <1>0 DEF Retained
  <2> QED BY <2>1, <2>2
<1>1. CASE BeginProduce
  <2> DEFINE m == chain[1].message
  <2>1. /\ AddRecord(m, "producing", NoOne) /\ ~busy /\ busy' = TRUE /\ chain' = chain /\ calls' = calls
        /\ chain[1].op = "produce" /\ 1 \in Waiting({"produce"})
    BY <1>h, <1>1 DEF BeginProduce, Turn, Await, Waiting, callVars
  <2>2. m \in Messages /\ state[m] = "absent" /\ m <= calls /\ "producing" \in RecordStates \ {"absent"}
    BY <1>c, <2>1 DEF RecordStates
  <2>3. /\ messages' \in Seq(Messages) /\ Len(messages') <= RetainedMessageLimit
        /\ \A i, j \in 1..Len(messages') : messages'[i] = messages'[j] => i = j
        /\ \A n \in Messages : state'[n] = "absent" <=> \A i \in 1..Len(messages') : messages'[i] # n
        /\ \A n \in Messages \ {m} : state[n] = "absent" => state'[n] = "absent"
    BY <2>1, <2>2, AddRecordRetains
  <2>4. \A n \in Messages : n > calls' => state'[n] = "absent"
    BY <1>c, <1>n, <2>1, <2>2, <2>3
  <2>5. \A i \in Waiting({"produce"}) : state'[chain[i].message] = "absent" \/ i = 1
    BY <1>0, <1>c, <2>1, <2>3 DEF LogOnce
  <2> QED BY <2>1, <2>3, <2>4, <2>5 DEF Retained, Waiting
<1>2. ASSUME NEW c \in ConsumerIds, Deliver(c), state[log[position[c] + 1]] = "absent" PROVE Retained'
  <2> DEFINE k == position[c] + 1
             m == log[k]
  <2>1. k \in 1..Len(log) /\ m \in Messages
    <3>1. position[c] < Len(log) /\ position[c] \in 0..Len(log)
      BY <1>0, <1>2 DEF Deliver, Types
    <3>2. \A i \in 1..Len(log) : log[i] \in Messages
      BY <1>0 DEF Types
    <3>3. k \in 1..Len(log)
      BY <1>n, <3>1
    <3> QED BY <3>2, <3>3
  <2>2. /\ AddRecord(m, "received", c) /\ chain' = chain /\ busy' = busy /\ calls' = calls
        /\ detached' = (detached \/ (busy /\ Head(chain).message \in Forgotten(Append(messages, m))))
    BY <1>2 DEF Deliver, Receivable, callVars
  <2>3. "received" \in RecordStates \ {"absent"} /\ m <= calls
    BY <1>0, <2>1 DEF RecordStates, LogOnce
  <2> HIDE DEF k, m
  <2>4. /\ messages' \in Seq(Messages) /\ Len(messages') <= RetainedMessageLimit
        /\ \A i, j \in 1..Len(messages') : messages'[i] = messages'[j] => i = j
        /\ \A n \in Messages : state'[n] = "absent" <=> \A i \in 1..Len(messages') : messages'[i] # n
        /\ \A n \in Messages \ {m} : state'[n] = IF n \in Forgotten(Append(messages, m)) THEN "absent" ELSE state[n]
    BY <1>2, <2>1, <2>2, <2>3, AddRecordRetains DEF m, k
  <2>5. \A n \in Messages : n > calls' => state'[n] = "absent"
    BY <1>c, <1>n, <2>1, <2>2, <2>3, <2>4
  <2>6. ASSUME NEW i \in Waiting({"produce"}) PROVE state'[chain[i].message] = "absent" \/ (i = 1 /\ busy)
    <3>1. CASE chain[i].message = m
      BY <1>0, <2>1, <3>1 DEF LogOnce, m
    <3>2. CASE chain[i].message # m
      BY <1>c, <2>4, <3>2
    <3> QED BY <3>1, <3>2
  <2>7. ASSUME busy, ~detached', chain[1].op = "process" PROVE state'[chain[1].message] = "commit_requested"
    <3>1. chain # <<>> /\ chain[1].message \in Messages
      BY <1>0, <1>h, <2>7 DEF Calls, Waiting
    <3>2. state[chain[1].message] = "commit_requested" /\ chain[1].message \notin Forgotten(Append(messages, m))
      BY <1>0, <1>h, <2>2, <2>7, <3>1 DEF Retained
    <3>3. chain[1].message # m
      BY <1>2, <3>2 DEF m, k
    <3> QED BY <2>4, <3>1, <3>2, <3>3
  <2> QED BY <2>2, <2>4, <2>5, <2>6, <2>7 DEF Retained, Waiting
<1>3. CASE /\ UNCHANGED messages /\ \A n \in Messages : state'[n] = "absent" <=> state[n] = "absent"
           /\ ~\E c \in ConsumerIds : Deliver(c) /\ state[log[position[c] + 1]] = "absent"
  <2>1. /\ messages' \in Seq(Messages) /\ Len(messages') <= RetainedMessageLimit
        /\ \A i, j \in 1..Len(messages') : messages'[i] = messages'[j] => i = j
        /\ \A n \in Messages : state'[n] = "absent" <=> \A i \in 1..Len(messages') : messages'[i] # n
    BY <1>0, <1>3 DEF Retained
  <2>2. \A n \in Messages : n > calls' => state'[n] = "absent"
    <3>1. calls' >= calls
      BY <1>n, NewCall, QueueSteps DEF EndsCall, LeavesQueue
    <3> QED BY <1>3, <1>c, <1>n, <3>1
  <2>3. ASSUME NEW i \in Waiting({"produce"})' PROVE state'[chain'[i].message] = "absent" \/ (i = 1 /\ busy')
    <3>1. CASE MakesCall
      <4>1. CASE i \in 1..Len(chain)
        <5>1. i \in Waiting({"produce"}) /\ chain'[i] = chain[i] /\ busy' = busy
          BY <2>3, <3>1, <4>1 DEF MakesCall, Waiting
        <5> QED BY <1>3, <1>c, <5>1
      <4>2. CASE i \notin 1..Len(chain)
        <5>1. i = Len(chain) + 1
          BY <1>n, <2>3, <3>1, <4>2 DEF MakesCall, Waiting
        <5>2. chain'[i].op = "produce" /\ chain'[i].message \in Messages
          BY <1>0, <2>3, BoundsAssumption DEF Waiting, Calls, Types, Messages
        <5>3. chain'[i].message = calls + 1
          BY <3>1, <5>1, <5>2, NewCall
        <5>4. calls + 1 > calls
          BY <1>n
        <5> QED BY <1>3, <1>c, <5>2, <5>3, <5>4
      <4> QED BY <4>1, <4>2
    <3>2. CASE EndsCall
      <4>1. i \in 1..Len(chain') /\ chain'[i].op = "produce"
        BY <2>3 DEF Waiting
      <4>2. i + 1 \in Waiting({"produce"}) /\ chain'[i] = chain[i + 1] /\ i + 1 # 1
        BY <1>n, <3>2, <4>1 DEF EndsCall, Waiting
      <4> QED BY <1>3, <1>c, <4>2
    <3>3. CASE LeavesQueue
      <4>1. i \in Waiting({"produce"}) /\ chain' = chain /\ (busy => busy')
        BY <2>3, <3>3 DEF LeavesQueue, Waiting
      <4> QED BY <1>3, <1>c, <4>1
    <3> QED BY <3>1, <3>2, <3>3, QueueSteps
  <2>4. ASSUME busy', ~detached', chain'[1].op = "process" PROVE state'[chain'[1].message] = "commit_requested"
    <3>1. CASE ~busy
      <4>1. BeginProduce \/ BeginProcess \/ BeginAdd \/ BeginDisconnect
        BY <2>4, <3>1 DEF Next, vars, CallProduce, CallConsumer, CallCommand, BrokerAppends, ProduceReturns, CommitReturns,
                          AddReturns, DisconnectReturns, Answer, Deliver, DelayEnds, GainPartition, LosePartition
      <4>2. chain' = chain /\ chain # <<>>
        BY <2>4, <4>1 DEF BeginProduce, BeginProcess, BeginAdd, BeginDisconnect, Turn, Finish, Await
      <4>3. BeginProcess
        BY <1>h, <2>4, <4>1, <4>2 DEF BeginProduce, BeginAdd, BeginDisconnect, Turn
      <4>4. state' = [state EXCEPT ![chain[1].message] = "commit_requested"]
        BY <1>h, <2>4, <4>2, <4>3 DEF BeginProcess, Finish
      <4>5. chain[1].message \in Messages /\ DOMAIN state = Messages
        BY <1>0, <1>h, <2>4, <4>2 DEF Calls, Waiting, Types
      <4> QED BY <4>2, <4>4, <4>5
    <3>2. CASE busy
      <4>1. ~ProduceReturns /\ ~CommitReturns /\ ~AddReturns /\ ~DisconnectReturns /\ ~BeginProduce /\ ~BeginProcess
        BY <2>4, <3>2 DEF ProduceReturns, CommitReturns, AddReturns, DisconnectReturns, BeginProduce, BeginProcess, Turn, Finish
      <4>2. /\ chain'[1] = chain[1] /\ chain # <<>>
        BY <1>0, <1>h, <2>4, <3>2, QueueSteps DEF MakesCall, EndsCall, LeavesQueue, Calls
      <4>3. /\ detached' = detached
            /\ \/ state' = state
               \/ \E c \in ConsumerIds : Deliver(c) /\ state[log[position[c] + 1]] = "produced"
                    /\ state' = [state EXCEPT ![log[position[c] + 1]] = "received"]
        <5>1. ASSUME NEW c \in ConsumerIds, Deliver(c)
              PROVE  /\ detached' = detached
                     /\ \/ state' = state
                        \/ /\ state[log[position[c] + 1]] = "produced"
                           /\ state' = [state EXCEPT ![log[position[c] + 1]] = "received"]
          <6>1. state[log[position[c] + 1]] # "absent"
            BY <1>3, <5>1
          <6> QED BY <5>1, <6>1 DEF Deliver, Receivable, recordVars
        <5>2. CASE ~\E c \in ConsumerIds : Deliver(c)
          BY <2>4, <3>2, <4>1, <5>2 DEF Next, vars, CallProduce, CallConsumer, CallCommand, BrokerAppends, BeginAdd,
                          BeginDisconnect, Turn, DelayEnds, GainPartition, LosePartition, recordVars
        <5> QED BY <5>1, <5>2
      <4>4. state[chain[1].message] = "commit_requested"
        BY <1>0, <2>4, <3>2, <4>2, <4>3 DEF Retained
      <4>5. state'[chain[1].message] = state[chain[1].message]
        <5>1. CASE state' = state
          BY <5>1
        <5>2. ASSUME NEW x, state[x] = "produced", state' = [state EXCEPT ![x] = "received"]
              PROVE  state'[chain[1].message] = state[chain[1].message]
          <6>1. chain[1].message # x
            BY <4>4, <5>2
          <6>2. chain[1].message \in DOMAIN state
            BY <1>0, <1>h, <2>4, <4>2 DEF Types, Calls, Waiting
          <6> QED BY <5>2, <6>1, <6>2
        <5> QED BY <4>3, <5>1, <5>2
      <4> QED BY <4>2, <4>4, <4>5
    <3> QED BY <3>1, <3>2
  <2> QED BY <2>1, <2>2, <2>3, <2>4 DEF Retained
<1> QED BY <1>1, <1>2, <1>3, RecordSteps

-----------------------------------------------------------------------------
(* The results *)

(* The invariant holds in every state of a run.                               *)
LEMMA Invariance == Spec => []IInv
<1>1. IInv /\ [Next]_vars => IInv'
  BY TypesStep, CallsStep, RecordsStep, ReceivedStep, ProcessCallsStep, BegunStep, PassedStep, LogOnceStep, RetainedStep
     DEF IInv, Handlers
<1> QED BY InitIInv, <1>1, PTL DEF Spec

(* Every variable keeps its type, and the run no more records than its limit. *)
THEOREM SpecTypeOK == Spec => []TypeOK
<1>1. IInv => TypeOK
  <2> SUFFICES ASSUME IInv PROVE TypeOK
    OBVIOUS
  <2>0. Types /\ Retained
    BY DEF IInv
  <2>1. chain \in Seq([op : {"produce", "process", "add", "stop", "crash"},
                       message : Messages \union {0}, consumer : ConsumerIds \union {NoOne}])
    BY <2>0 DEF Types, MutationSet, Ops
  <2>2. /\ messages \in Seq(Messages) /\ Len(messages) <= RetainedMessageLimit
        /\ \A m \in Messages : state[m] = "absent" <=> m \notin ToSet(messages)
    BY <2>0 DEF Retained, ToSet
  <2>3. /\ consumers \in [ConsumerIds -> {"absent", "starting", "running", "stopping", "crashed"}]
        /\ handles \subseteq ConsumerIds
        /\ committedOffset \in 0..Len(log) /\ fetching \subseteq members
    BY <2>0 DEF Types
  <2> QED BY <2>1, <2>2, <2>3 DEF TypeOK
<1> QED BY <1>1, Invariance, PTL

(* Whatever Kafka delivers again and to whom, a record is processed once.     *)
THEOREM SpecProcessedOnce == Spec => []ProcessedOnce
<1>1. IInv => ProcessedOnce
  BY DEF IInv, Records, ProcessedOnce
<1> QED BY <1>1, Invariance, PTL

(* A record that was received is in the hands of a handler that will process  *)
(* it, whatever the consumers and the group do.                               *)
THEOREM SpecReceivedIsPending == Spec => []ReceivedIsPending
<1>1. IInv => ReceivedIsPending
  BY DEF IInv, Handlers, ReceivedHeld, ReceivedIsPending
<1> QED BY <1>1, Invariance, PTL

(* The group commits past no record that waits to be received, except one     *)
(* that was delivered before produce() had returned.                          *)
THEOREM SpecNothingSkipped == Spec => []NothingSkipped
<1>1. IInv => NothingSkipped
  BY DEF IInv, Passed, Passable, NothingSkipped
<1> QED BY <1>1, Invariance, PTL
=============================================================================
