------------------------ MODULE DemoMessages_proofs ------------------------
(***************************************************************************)
(* Proofs about DemoMessages, for any number of messages, partitions and   *)
(* consumers and any latencies.                                            *)
(*                                                                         *)
(* That a message is processed a second time only if it was left without   *)
(* a commit, and that none is stranded, depend neither on which timers     *)
(* fire nor on what the calls that wait are for: process() looks at the    *)
(* state of a message, only what a consumer has received or left without a *)
(* commit is requeued, and what waits is delivered whenever the partitions *)
(* are dealt out. That what was received is pending needs more: partitions *)
(* belong to active consumers only, no timer is cleared but that of a      *)
(* message that is forgotten, taken back or processed, and a timer names   *)
(* the consumer that has the message, so that an experiment may leave it   *)
(* armed when it resumes those it has suspended.                           *)
(***************************************************************************)
EXTENDS DemoMessages, WellFoundedInduction, NaturalsInduction, TLAPS

(* The bounds of the window of messages that are retained. *)
Window ==
  /\ 1 <= first /\ sent <= MaxMessages
  /\ first <= sent \/ (first = 1 /\ sent = 0)

(* Nothing is known of a message before it is produced. *)
StateOfMessages == \A m \in Messages : m > sent => state[m] = "none" /\ m \notin uncommitted

(* The history of processings: one that was left without a commit, and one *)
(* that was committed.                                                     *)
One(holds) == IF holds THEN 1 ELSE 0
ProcessingsCounted ==
  \A m \in Messages : processings[m] = One(m \in uncommitted) + One(state[m] = "committed")

(* The keyed experiment processes the messages it has produced, once. *)
KeyedAreFresh == Keyed(experiment) => toProcess \intersect uncommitted = {}

(* The two halves of NothingStranded. *)
NoneWaits == \A m \in Retained : state[m] = "produced" => owner[partition[m]] = NoConsumer
ProcessedIsHeld == \A m \in Retained : state[m] = "processed" => assignedConsumerId[m] \in Range(active)

(* The partitions are dealt out to consumers that are active. *)
OwnersAreActive == \A p \in Partitions : owner[p] # NoConsumer => owner[p] \in Range(active)

(* The timer of a message that was received names the consumer that has it. *)
ArmedForItsConsumer ==
  \A m \in DOMAIN processingTimers :
    state[m] = "received" => processingTimers[m].consumer = assignedConsumerId[m]

\* What ReceivedIsPending says of a message that was received.
Pending(m, k) ==
  \/ m \in DOMAIN processingTimers /\ processingTimers[m].consumer = k
  \/ \E i \in DOMAIN queue : queue[i] = [message |-> m, consumer |-> k]
  \/ m \in DOMAIN suspendedTimers

IInv ==
  /\ TypeOK /\ Window /\ StateOfMessages /\ ProcessingsCounted /\ KeyedAreFresh
  /\ NoneWaits /\ OwnersAreActive /\ ArmedForItsConsumer
  /\ ReceivedIsPending /\ ProcessedIsHeld

\* The types, by the part of the state they are of.
WindowTypes ==
  /\ first \in Nat /\ sent \in Nat /\ Retained \subseteq Messages
  /\ sent < first + RetainedMessageLimit
RecordTypes ==
  /\ state \in [Messages -> States]
  /\ partition \in [Messages -> Partitions]
  /\ offset \in [Messages -> Nat]
  /\ assignedConsumerId \in [Messages -> ConsumerIds \union {NoConsumer}]
GroupTypes ==
  /\ active \in Seq(ConsumerIds) /\ IsInjective(active)
  /\ crashed \subseteq ConsumerIds \ Range(active)
  /\ owner \in [Partitions -> ConsumerIds \union {NoConsumer}]
  /\ changes \in 0..MaxChanges
TimerTypes ==
  /\ DOMAIN processingTimers \subseteq Retained
  /\ processingTimers \in [DOMAIN processingTimers -> Timers]
  /\ \A m \in DOMAIN processingTimers : processingTimers[m].after \subseteq DOMAIN processingTimers \ {m}
LogTypes ==
  /\ nextOffset \in [Partitions -> Nat]
  /\ latestCommittedOffsets \in [Partitions -> Nat]
  /\ processings \in [Messages -> Nat]
  /\ uncommitted \subseteq Messages
BodyTypes ==
  /\ experiment \in ExperimentIds \union {Null}
  /\ experiment = Null => DOMAIN suspendedTimers = {} /\ toProduce = 0 /\ toProcess = {}
  /\ DOMAIN suspendedTimers \subseteq Messages
  /\ suspendedTimers \in [DOMAIN suspendedTimers -> Timers]
  /\ \A m \in DOMAIN suspendedTimers : m \notin suspendedTimers[m].after
  /\ toProduce \in 0..3 /\ toProcess \subseteq Messages
LessonTypes ==
  /\ scenarioId \in ScenarioIds
  /\ traced \subseteq Messages
  /\ completedExperimentIds \subseteq ExperimentIds
  /\ experiments \in Nat /\ experiments <= MaxExperiments[scenarioId]

(* The parts are the whole, before and after a step. *)
LEMMA PartsOfTypeOK ==
  /\ TypeOK <=> /\ WindowTypes /\ RecordTypes /\ GroupTypes /\ TimerTypes /\ LogTypes /\ BodyTypes /\ LessonTypes
                /\ processingLatencyMs \in Latencies /\ queue \in Seq(Calls)
  /\ TypeOK' <=> /\ WindowTypes' /\ RecordTypes' /\ GroupTypes' /\ TimerTypes' /\ LogTypes' /\ BodyTypes' /\ LessonTypes'
                 /\ processingLatencyMs' \in Latencies /\ queue' \in Seq(Calls)
BY DEF TypeOK, WindowTypes, RecordTypes, GroupTypes, TimerTypes, LogTypes, BodyTypes, LessonTypes

-----------------------------------------------------------------------------
(* Operators of the model *)

(* A set of numbers that is not empty has a least one. *)
LEMMA LeastId ==
  ASSUME NEW S \in SUBSET Nat, S # {}
  PROVE  Min(S) \in S
<1> DEFINE R == OpToRel(<, Nat)
<1>1. IsWellFoundedOn(R, Nat)
  BY NatLessThanWellFounded, Zenon
<1>2. PICK x \in S : \A y \in S : <<y, x>> \notin R
  <2> HIDE DEF R
  <2> QED BY <1>1, WFMin
<1>3. \A y \in S : x =< y
  <2> TAKE y \in S
  <2>1. ~(y < x)
    BY <1>2 DEF OpToRel
  <2> QED BY <2>1
<1>4. \E z \in S : \A y \in S : z =< y
  BY <1>2, <1>3
<1> QED BY <1>4 DEF Min

(* boundMessages() forgets the oldest messages only, enough of them, and not *)
(* the one that is added.                                                    *)
LEMMA BoundKeepsOrder ==
  ASSUME WindowTypes, Window
  PROVE  /\ BoundMessages \in Nat /\ BoundMessages >= first /\ BoundMessages <= sent + 1
         /\ sent + 1 < BoundMessages + RetainedMessageLimit
<1> DEFINE last == sent + 2 - RetainedMessageLimit
<1>1. first \in Int /\ last \in Int
  BY CountsAssumption DEF WindowTypes
<1>2. \E x \in {first, last} : \A y \in {first, last} : x >= y
  BY <1>1
<1>3. BoundMessages \in {first, last} /\ BoundMessages >= first /\ BoundMessages >= last
  BY <1>1, <1>2 DEF BoundMessages, Oldest, Max
<1> QED BY <1>1, <1>3, CountsAssumption DEF WindowTypes, Window

(* Timers that are cleared are gone, and the others are as they were, except *)
(* that they wait for those no more.                                         *)
LEMMA TimersWithoutFacts ==
  ASSUME TimerTypes, NEW ms
  PROVE  LET timers == TimersWithout(ms) IN
         /\ DOMAIN timers = DOMAIN processingTimers \ ms
         /\ timers \in [DOMAIN timers -> Timers]
         /\ \A m \in DOMAIN timers : /\ timers[m].consumer = processingTimers[m].consumer
                                     /\ timers[m].after \subseteq DOMAIN timers \ {m}
<1> DEFINE timers == TimersWithout(ms)
<1>1. DOMAIN timers = DOMAIN processingTimers \ ms
  BY DEF TimersWithout
<1>2. ASSUME NEW m \in DOMAIN timers
      PROVE  /\ timers[m] \in Timers /\ timers[m].consumer = processingTimers[m].consumer
             /\ timers[m].after \subseteq DOMAIN timers \ {m}
  <2>1. timers[m] = [processingTimers[m] EXCEPT !.after = @ \ ms] /\ processingTimers[m] \in Timers
    BY <1>1, <1>2 DEF TimersWithout, TimerTypes
  <2>2. processingTimers[m].after \subseteq DOMAIN processingTimers \ {m}
    BY <1>1, <1>2 DEF TimerTypes
  <2>3. /\ timers[m].after = processingTimers[m].after \ ms /\ timers[m].consumer = processingTimers[m].consumer
        /\ timers[m] \in Timers
    BY <2>1 DEF Timers
  <2> QED BY <1>1, <2>2, <2>3
<1>3. timers = [m \in DOMAIN timers |-> timers[m]]
  BY DEF TimersWithout
<1> HIDE DEF timers
<1>4. timers \in [DOMAIN timers -> Timers]
  BY <1>2, <1>3
<1> QED BY <1>1, <1>2, <1>4 DEF timers

\* What can be given to consumers, in the order that before tells.
Givable(given, before) ==
  DOMAIN given \subseteq Messages /\ \A m \in DOMAIN given : given[m] \in ConsumerIds /\ m \notin before[m]

\* The timers, once those of gone are cleared and given is given to consumers.
Scheduled(timers, gone, given) ==
  /\ DOMAIN timers = (DOMAIN processingTimers \ gone) \union DOMAIN given
  /\ timers \in [DOMAIN timers -> Timers]
  /\ \A m \in DOMAIN timers : timers[m].after \subseteq DOMAIN timers \ {m}
  /\ \A m \in DOMAIN given : timers[m].consumer = given[m]
  /\ \A m \in DOMAIN timers \ DOMAIN given : timers[m].consumer = processingTimers[m].consumer

(* What is given to consumers gets a timer, after those that were armed. *)
LEMMA ScheduleFacts ==
  ASSUME TypeOK, NEW gone, NEW given, NEW before, Givable(given, before)
  PROVE  Scheduled(Schedule(gone, given, before), gone, given)
<1> DEFINE kept == TimersWithout(gone \union DOMAIN given)
           timers == Schedule(gone, given, before)
<1>t. TimerTypes /\ WindowTypes /\ processingLatencyMs \in Latencies
  BY PartsOfTypeOK
<1>g. DOMAIN given \subseteq Messages /\ \A m \in DOMAIN given : given[m] \in ConsumerIds /\ m \notin before[m]
  BY DEF Givable
<1>1. /\ DOMAIN kept = DOMAIN processingTimers \ (gone \union DOMAIN given)
      /\ \A m \in DOMAIN kept : /\ kept[m] \in Timers
                                /\ kept[m].consumer = processingTimers[m].consumer
                                /\ kept[m].after \subseteq DOMAIN kept \ {m}
  <2> DEFINE ms == gone \union DOMAIN given
  <2> HIDE DEF ms
  <2>1. LET cleared == TimersWithout(ms) IN
        /\ DOMAIN cleared = DOMAIN processingTimers \ ms
        /\ cleared \in [DOMAIN cleared -> Timers]
        /\ \A m \in DOMAIN cleared : /\ cleared[m].consumer = processingTimers[m].consumer
                                     /\ cleared[m].after \subseteq DOMAIN cleared \ {m}
    BY <1>t, TimersWithoutFacts, Zenon
  <2>2. kept = TimersWithout(ms)
    BY DEF ms
  <2> HIDE DEF kept
  <2> QED BY <2>1, <2>2 DEF ms
<1>2. DOMAIN kept \subseteq Messages
  BY <1>t, <1>1 DEF TimerTypes, WindowTypes
<1>3. DOMAIN timers = DOMAIN kept \union DOMAIN given
  BY DEF Schedule
<1>4. ASSUME NEW m \in DOMAIN given
      PROVE  /\ timers[m] \in Timers /\ timers[m].consumer = given[m]
             /\ timers[m].after \subseteq DOMAIN timers \ {m}
  <2>1. timers[m] = [consumer |-> given[m], latency |-> processingLatencyMs,
                     after |-> DOMAIN kept \union (DOMAIN given \intersect before[m])]
    BY DEF Schedule
  <2>2. m \notin DOMAIN kept /\ m \notin before[m]
    BY <1>1, <1>g
  <2>3. DOMAIN kept \union (DOMAIN given \intersect before[m]) \in SUBSET Messages
    BY <1>2, <1>g
  <2> HIDE DEF timers, kept
  <2>4. timers[m] \in Timers
    BY <1>t, <1>g, <2>1, <2>3 DEF Timers
  <2> QED BY <1>3, <2>1, <2>2, <2>4
<1>5. ASSUME NEW m \in DOMAIN kept, m \notin DOMAIN given
      PROVE  timers[m] = kept[m]
  BY <1>5 DEF Schedule
<1>6. timers = [m \in DOMAIN timers |-> timers[m]]
  BY DEF Schedule
<1> HIDE DEF timers, kept
<1>7. timers \in [DOMAIN timers -> Timers]
  BY <1>1, <1>3, <1>4, <1>5, <1>6
<1>8. Scheduled(timers, gone, given)
  BY <1>1, <1>3, <1>4, <1>5, <1>7 DEF Scheduled
<1> QED BY <1>8 DEF timers

(* No message is before itself. *)
LEMMA EarlierFacts == \A m \in Messages : m \notin Earlier[m]
BY DEF Earlier, Messages

(* A consumer that leaves is active no more, and the others are. *)
LEMMA LeavesFacts ==
  ASSUME GroupTypes, NEW k, Leaves(k)
  PROVE  /\ active' \in Seq(ConsumerIds) /\ IsInjective(active')
         /\ Range(active') = Range(active) \ {k} /\ k \in Range(active)
<1>1. PICK i \in DOMAIN active : active[i] = k /\ active' = RemoveAt(active, i)
  BY DEF Leaves
<1>2. active \in Seq(ConsumerIds) /\ i \in 1..Len(active) /\ Len(active) \in Nat
  BY <1>1 DEF GroupTypes
<1> DEFINE n == Len(active)
           left == SubSeq(active, 1, i - 1)
           right == SubSeq(active, i + 1, n)
<1>3. left \in Seq(ConsumerIds) /\ Len(left) = i - 1 /\ \A j \in 1..(i - 1) : left[j] = active[j]
  BY <1>2
<1>4. right \in Seq(ConsumerIds) /\ Len(right) = n - i /\ \A j \in 1..(n - i) : right[j] = active[j + i]
  BY <1>2
<1>5. active' = left \o right
  BY <1>1 DEF RemoveAt
<1> HIDE DEF left, right
<1>6. /\ active' \in Seq(ConsumerIds) /\ Len(active') = n - 1
      /\ \A j \in 1..(n - 1) : active'[j] = IF j < i THEN active[j] ELSE active[j + 1]
  BY <1>2, <1>3, <1>4, <1>5
<1>7. \A a, b \in 1..n : active[a] = active[b] => a = b
  BY <1>2 DEF GroupTypes, IsInjective
<1>8. IsInjective(active')
  <2> SUFFICES ASSUME NEW a \in 1..(n - 1), NEW b \in 1..(n - 1), active'[a] = active'[b] PROVE a = b
    BY <1>2, <1>6 DEF IsInjective
  <2> DEFINE at(j) == IF j < i THEN j ELSE j + 1
  <2>1. at(a) \in 1..n /\ at(b) \in 1..n /\ active[at(a)] = active[at(b)]
    BY <1>2, <1>6
  <2>2. at(a) = at(b)
    BY <1>7, <2>1
  <2> QED BY <1>2, <2>2
<1>9. ASSUME NEW c PROVE c \in Range(active') <=> c \in Range(active) \ {k}
  <2>1. ASSUME NEW j \in 1..(n - 1), active'[j] = c PROVE c \in Range(active) \ {k}
    <3>1. CASE j < i
      BY <1>1, <1>2, <1>6, <1>7, <2>1, <3>1 DEF Range
    <3>2. CASE ~(j < i)
      <4>1. j + 1 \in 1..n /\ j + 1 # i /\ active[j + 1] = c
        BY <1>2, <1>6, <2>1, <3>2
      <4> QED BY <1>1, <1>2, <1>7, <4>1 DEF Range
    <3> QED BY <3>1, <3>2
  <2>2. ASSUME NEW j \in 1..n, active[j] = c, c # k PROVE c \in Range(active')
    <3>1. j # i
      BY <1>1, <2>2
    <3>2. CASE j < i
      <4>1. j \in 1..(n - 1) /\ active'[j] = c
        BY <1>2, <1>6, <2>2, <3>2
      <4> QED BY <1>6, <4>1 DEF Range
    <3>3. CASE j > i
      <4>1. j - 1 \in 1..(n - 1) /\ ~(j - 1 < i) /\ (j - 1) + 1 = j
        BY <1>2, <3>3
      <4>2. active'[j - 1] = c
        BY <1>6, <2>2, <4>1
      <4> QED BY <1>6, <4>1, <4>2 DEF Range
    <3> QED BY <1>2, <3>1, <3>2, <3>3
  <2> QED BY <1>2, <1>6, <2>1, <2>2 DEF Range
<1> QED BY <1>1, <1>6, <1>8, <1>9 DEF Range

(* One that joins is active with the others. *)
LEMMA JoinsFacts ==
  ASSUME GroupTypes, ConsumerIds \ consumers # {}, active' = Append(active, Min(ConsumerIds \ consumers))
  PROVE  /\ active' \in Seq(ConsumerIds) /\ IsInjective(active') /\ crashed \subseteq ConsumerIds \ Range(active')
         /\ Range(active) \subseteq Range(active')
<1> DEFINE k == Min(ConsumerIds \ consumers)
           n == Len(active)
<1>1. k \in ConsumerIds \ consumers
  BY LeastId, IdsAssumption
<1> HIDE DEF k
<1>2. active \in Seq(ConsumerIds) /\ n \in Nat /\ active' = Append(active, k)
  BY DEF GroupTypes, k
<1>3. active' \in Seq(ConsumerIds) /\ Len(active') = n + 1 /\ active'[n + 1] = k /\ \A j \in 1..n : active'[j] = active[j]
  BY <1>1, <1>2
<1>4. \A j \in 1..n : active[j] # k /\ \A i \in 1..n : active[j] = active[i] => j = i
  BY <1>1, <1>2 DEF consumers, Range, GroupTypes, IsInjective
<1>5. \A j \in 1..(n + 1) : j = n + 1 \/ j \in 1..n
  BY <1>2
<1>6. IsInjective(active')
  BY <1>2, <1>3, <1>4, <1>5 DEF IsInjective
<1>7. Range(active') = Range(active) \union {k}
  <2>0. DOMAIN active' = 1..(n + 1)
    BY <1>2, <1>3
  <2>1. \A c : c \in Range(active') <=> \E j \in 1..(n + 1) : active'[j] = c
    BY <2>0, Zenon DEF Range
  <2>2. \A c : c \in Range(active) <=> \E j \in 1..n : active[j] = c
    BY <1>2 DEF Range
  <2>3. n + 1 \in 1..(n + 1) /\ 1..n \subseteq 1..(n + 1)
    BY <1>2
  <2> QED BY <1>3, <1>5, <2>1, <2>2, <2>3
<1> QED BY <1>1, <1>3, <1>6, <1>7 DEF GroupTypes, consumers

(* The partitions are dealt out to the group, if there is one. *)
LEMMA RebalanceFacts ==
  ASSUME NEW group \in Seq(ConsumerIds), NEW p \in Partitions
  PROVE  IF group = <<>> THEN Rebalance(group)[p] = NoConsumer ELSE Rebalance(group)[p] \in Range(group)
<1>1. CASE group # <<>>
  <2>1. Len(group) \in Nat \ {0}
    BY <1>1
  <2>2. p \in Nat /\ (p % Len(group)) + 1 \in 1..Len(group)
    BY <2>1, CountsAssumption DEF Partitions
  <2> HIDE DEF Partitions
  <2>3. Rebalance(group)[p] = group[(p % Len(group)) + 1]
    BY <1>1 DEF Rebalance
  <2> QED BY <1>1, <2>2, <2>3 DEF Range
<1> QED BY <1>1 DEF Rebalance

-----------------------------------------------------------------------------
(* The invariant *)

(* It holds at the start. *)
LEMMA InitIInv == Init => IInv
<1> SUFFICES ASSUME Init PROVE IInv
  OBVIOUS
<1> USE DEF Init
<1>1. WindowTypes /\ Retained = {}
  BY CountsAssumption DEF WindowTypes, Retained
<1>2. RecordTypes
  BY CountsAssumption DEF RecordTypes, Partitions, States
<1>3. GroupTypes
  BY CountsAssumption, IdsAssumption DEF GroupTypes, IsInjective, Range
<1>4. TimerTypes
  BY <1>1 DEF TimerTypes, NoTimers
<1>5. LogTypes /\ BodyTypes /\ LessonTypes
  <2>1. LogTypes /\ BodyTypes
    BY CountsAssumption DEF LogTypes, BodyTypes, NoTimers
  <2>2. LessonTypes
    BY CountsAssumption, ScenarioAssumption DEF LessonTypes
  <2> QED BY <2>1, <2>2
<1>6. TypeOK
  BY <1>1, <1>2, <1>3, <1>4, <1>5, PartsOfTypeOK
<1>7. Window /\ StateOfMessages /\ ProcessingsCounted /\ KeyedAreFresh
  BY CountsAssumption DEF Window, StateOfMessages, ProcessingsCounted, One, KeyedAreFresh
<1>8. NoneWaits /\ OwnersAreActive /\ ArmedForItsConsumer /\ ReceivedIsPending /\ ProcessedIsHeld
  BY <1>1 DEF NoneWaits, OwnersAreActive, ArmedForItsConsumer, ReceivedIsPending, ProcessedIsHeld, NoTimers
<1> QED BY <1>6, <1>7, <1>8 DEF IInv

(* Messages that are retained exist. *)
LEMMA RetainedFacts ==
  ASSUME IInv
  PROVE  Retained \subseteq Messages /\ \A m \in Retained : m \in Nat /\ first <= m /\ m <= sent
BY CountsAssumption, PartsOfTypeOK DEF IInv, WindowTypes, Retained, Messages

(* process() keeps the invariant, if what was pending still is or is the     *)
(* call, and if what it leaves without a commit never was left so.           *)
LEMMA ProcessKeeps ==
  ASSUME IInv, NEW m, NEW k, NEW commit \in BOOLEAN, Process(m, k, commit),
         UNCHANGED <<first, sent, partition, offset, assignedConsumerId, groupVars, processingLatencyMs, nextOffset>>,
         UNCHANGED <<experiment, suspendedTimers, toProduce, lessonVars>>,
         toProcess' \subseteq toProcess, ~commit => m \notin uncommitted /\ m \notin toProcess',
         DOMAIN processingTimers' \subseteq DOMAIN processingTimers, TimerTypes',
         \A n \in DOMAIN processingTimers' : processingTimers'[n].consumer = processingTimers[n].consumer,
         queue' \in Seq(Calls),
         \A n \in Retained, c \in ConsumerIds :
           c = assignedConsumerId[n] /\ Pending(n, c) => Pending(n, c)' \/ (n = m /\ c = k)
  PROVE  IInv'
<1>1. WindowTypes /\ RecordTypes /\ GroupTypes /\ TimerTypes /\ LogTypes /\ BodyTypes /\ LessonTypes
  BY PartsOfTypeOK DEF IInv
<1>2. /\ UNCHANGED <<first, sent, partition, offset, assignedConsumerId, active, crashed, owner, changes>>
      /\ UNCHANGED <<processingLatencyMs, nextOffset, experiment, suspendedTimers, toProduce>>
      /\ UNCHANGED <<scenarioId, traced, completedExperimentIds, experiments>>
  BY DEF groupVars, lessonVars
<1>3. Retained' = Retained /\ Retained \subseteq Messages /\ \A n \in Retained : n <= sent
  BY <1>2, RetainedFacts DEF Retained
<1>4. \/ UNCHANGED <<state, latestCommittedOffsets, processings, uncommitted>> /\ ~Processable(m, k)
      \/ /\ state' = [state EXCEPT ![m] = "failed"] /\ Processable(m, k)
         /\ UNCHANGED <<latestCommittedOffsets, processings, uncommitted>>
      \/ /\ state' = [state EXCEPT ![m] = "committed"] /\ Processable(m, k)
         /\ latestCommittedOffsets' = [latestCommittedOffsets EXCEPT ![partition[m]] = offset[m] + 1]
         /\ processings' = [processings EXCEPT ![m] = @ + 1] /\ uncommitted' = uncommitted
      \/ /\ state' = [state EXCEPT ![m] = "processed"] /\ Processable(m, k) /\ ~commit
         /\ uncommitted' = uncommitted \union {m}
         /\ processings' = [processings EXCEPT ![m] = @ + 1] /\ UNCHANGED latestCommittedOffsets
  BY DEF Process, Commits, StaysUncommitted, outcomeVars
<1>5. Processable(m, k) => m \in Retained /\ m \in Messages /\ state[m] = "received"
  BY <1>3 DEF Processable
<1>6. \A n \in Messages :
         /\ state'[n] # state[n] => n = m /\ Processable(m, k) /\ state'[n] \in {"failed", "processed", "committed"}
         /\ n \in uncommitted' <=> n \in uncommitted \/ (state'[n] = "processed" /\ state[n] # "processed")
         /\ state'[n] = "processed" /\ state[n] # "processed" => ~commit
         /\ processings'[n] = IF state'[n] \in {"processed", "committed"} /\ state[n] # state'[n]
                              THEN processings[n] + 1 ELSE processings[n]
  BY <1>1, <1>4, <1>5 DEF RecordTypes, LogTypes
<1>7. Processable(m, k) => state'[m] # "received"
  BY <1>1, <1>4, <1>5 DEF RecordTypes
<1>8. WindowTypes' /\ GroupTypes' /\ LessonTypes'
  BY <1>1, <1>2, <1>3 DEF WindowTypes, GroupTypes, LessonTypes
<1>9. RecordTypes'
  BY <1>1, <1>2, <1>4 DEF RecordTypes, States
<1>10. LogTypes'
  <2>1. Processable(m, k) => offset[m] + 1 \in Nat
    BY <1>1, <1>5 DEF RecordTypes
  <2>2. latestCommittedOffsets' \in [Partitions -> Nat]
    BY <1>1, <1>4, <2>1 DEF LogTypes
  <2>3. processings' \in [Messages -> Nat]
    BY <1>1, <1>4 DEF LogTypes
  <2>4. uncommitted' \subseteq Messages
    BY <1>1, <1>4, <1>5 DEF LogTypes
  <2> QED BY <1>1, <1>2, <2>2, <2>3, <2>4 DEF LogTypes
<1>11. BodyTypes'
  BY <1>1, <1>2 DEF BodyTypes
<1>12. TypeOK'
  BY <1>2, <1>8, <1>9, <1>10, <1>11, PartsOfTypeOK DEF IInv
<1>13. Window' /\ OwnersAreActive'
  BY <1>2 DEF IInv, Window, OwnersAreActive
<1>14. StateOfMessages'
  <2> SUFFICES ASSUME NEW n \in Messages, n > sent PROVE state'[n] = "none" /\ n \notin uncommitted'
    BY <1>2 DEF StateOfMessages
  <2>1. state[n] = "none" /\ n \notin uncommitted
    BY DEF IInv, StateOfMessages
  <2> QED BY <1>5, <1>6, <2>1
<1>15. ProcessingsCounted'
  <2> SUFFICES ASSUME NEW n \in Messages
               PROVE  processings'[n] = One(n \in uncommitted') + One(state'[n] = "committed")
    BY DEF ProcessingsCounted, One
  <2>1. processings[n] = One(n \in uncommitted) + One(state[n] = "committed")
    BY DEF IInv, ProcessingsCounted
  <2>2. CASE state'[n] = state[n]
    BY <1>6, <2>1, <2>2
  <2>3. CASE state'[n] # state[n]
    <3>1. n = m /\ state[n] = "received" /\ state'[n] \in {"failed", "processed", "committed"}
      BY <1>5, <1>6, <2>3
    <3>2. state'[n] = "processed" => n \notin uncommitted
      BY <1>6, <3>1
    <3> QED BY <1>6, <2>1, <2>3, <3>1, <3>2 DEF One
  <2> QED BY <2>2, <2>3
<1>16. KeyedAreFresh'
  <2> SUFFICES ASSUME Keyed(experiment), NEW n \in toProcess' PROVE n \notin uncommitted'
    BY <1>2 DEF KeyedAreFresh, Keyed
  <2>1. n \in toProcess /\ n \in Messages /\ n \notin uncommitted
    BY <1>1 DEF IInv, KeyedAreFresh, BodyTypes
  <2> QED BY <1>6, <2>1
<1>17. NoneWaits'
  BY <1>2, <1>3, <1>6 DEF IInv, NoneWaits
<1>18. ArmedForItsConsumer'
  <2> SUFFICES ASSUME NEW n \in DOMAIN processingTimers', state'[n] = "received"
               PROVE  processingTimers'[n].consumer = assignedConsumerId[n]
    BY <1>2 DEF ArmedForItsConsumer
  <2>1. n \in DOMAIN processingTimers /\ n \in Messages
    BY <1>1, <1>3 DEF TimerTypes
  <2>2. state[n] = "received"
    BY <1>6, <2>1
  <2> QED BY <2>1, <2>2 DEF IInv, ArmedForItsConsumer
<1>19. \A n \in Retained : state[n] = "received" =>
         /\ assignedConsumerId[n] \in Range(active) /\ assignedConsumerId[n] \in ConsumerIds
         /\ Pending(n, assignedConsumerId[n])
  <2>1. Range(active) \subseteq ConsumerIds
    BY <1>1 DEF GroupTypes, Range
  <2> QED BY <2>1 DEF IInv, ReceivedIsPending, Pending
<1>20. ReceivedIsPending'
  <2> SUFFICES ASSUME NEW n \in Retained, state'[n] = "received"
               PROVE  assignedConsumerId[n] \in Range(active) /\ Pending(n, assignedConsumerId[n])'
    BY <1>2, <1>3 DEF ReceivedIsPending, Pending
  <2> DEFINE c == assignedConsumerId[n]
  <2>1. state[n] = "received"
    BY <1>3, <1>6
  <2>2. c \in Range(active) /\ c \in ConsumerIds /\ Pending(n, c)
    BY <1>19, <2>1
  <2>3. ~(n = m /\ c = k)
    BY <1>7, <2>1, <2>2 DEF Processable, consumers
  <2> QED BY <1>2, <2>2, <2>3
<1>21. ProcessedIsHeld'
  <2> SUFFICES ASSUME NEW n \in Retained, state'[n] = "processed" PROVE assignedConsumerId[n] \in Range(active)
    BY <1>2, <1>3 DEF ProcessedIsHeld
  <2>1. state[n] \in {"received", "processed"}
    BY <1>3, <1>5, <1>6
  <2> QED BY <1>19, <2>1 DEF IInv, ProcessedIsHeld
<1> QED BY <1>12, <1>13, <1>14, <1>15, <1>16, <1>17, <1>18, <1>20, <1>21 DEF IInv

(* A rebalance delivers what waits and what a consumer has left behind; what *)
(* it does not take back stays with consumers that are still there.          *)
LEMMA RebalanceKeeps ==
  ASSUME IInv, NEW lost \in SUBSET {m \in Retained : state[m] \in {"received", "processed"}},
         RebalanceAndDeliver(lost), changes' \in 0..MaxChanges, UNCHANGED <<bodyVars, lessonVars>>,
         active' \in Seq(ConsumerIds), IsInjective(active'), crashed' \subseteq ConsumerIds \ Range(active'),
         \A m \in Retained : state[m] \in {"received", "processed"} /\ m \notin lost => assignedConsumerId[m] \in Range(active')
  PROVE  IInv'
<1> DEFINE given == [m \in Deliverable(lost) |-> owner'[partition[m]]]
<1>1. /\ WindowTypes /\ RecordTypes /\ GroupTypes /\ TimerTypes /\ LogTypes /\ BodyTypes /\ LessonTypes
      /\ processingLatencyMs \in Latencies
  BY PartsOfTypeOK DEF IInv
<1>2. /\ UNCHANGED <<first, sent, partition, offset, processingLatencyMs, queue, nextOffset>>
      /\ UNCHANGED <<latestCommittedOffsets, processings, uncommitted, experiment, suspendedTimers, toProduce, toProcess>>
      /\ UNCHANGED <<scenarioId, traced, completedExperimentIds, experiments>>
  BY DEF RebalanceAndDeliver, outcomeVars, bodyVars, lessonVars
<1>3. Retained' = Retained /\ Retained \subseteq Messages /\ \A m \in Retained : m <= sent
  BY <1>2, RetainedFacts DEF Retained
<1>4. Deliverable(lost) \subseteq {m \in Retained : state[m] \in {"produced", "received", "processed"}}
  BY DEF Deliverable
<1>5. owner' = Rebalance(active')
  BY DEF RebalanceAndDeliver
<1>6. /\ \A p \in Partitions : owner'[p] = NoConsumer \/ owner'[p] \in Range(active')
      /\ Range(active') \subseteq ConsumerIds
      /\ owner' \in [Partitions -> ConsumerIds \union {NoConsumer}]
  <2>1. \A p \in Partitions : owner'[p] = NoConsumer \/ owner'[p] \in Range(active')
    BY <1>5, RebalanceFacts
  <2>2. Range(active') \subseteq ConsumerIds
    BY DEF Range
  <2>3. owner' = [p \in Partitions |-> owner'[p]]
    BY <1>5 DEF Rebalance
  <2> QED BY <2>1, <2>2, <2>3
<1>7. DOMAIN given = Deliverable(lost) /\ \A m \in DOMAIN given : given[m] = owner'[partition[m]] /\ given[m] \in Range(active')
  <2>1. \A m \in Deliverable(lost) : partition[m] \in Partitions /\ owner'[partition[m]] # NoConsumer
    BY <1>1, <1>3, <1>4 DEF RecordTypes, Deliverable
  <2> QED BY <1>6, <2>1
<1>8. /\ state' = [m \in Messages |-> IF m \in DOMAIN given THEN "received"
                                      ELSE IF m \in lost THEN "produced" ELSE state[m]]
      /\ assignedConsumerId' = [m \in Messages |-> IF m \in DOMAIN given THEN given[m]
                                                   ELSE IF m \in lost THEN NoConsumer ELSE assignedConsumerId[m]]
      /\ processingTimers' = Schedule(lost, given, Earlier)
  BY DEF RebalanceAndDeliver
<1> HIDE DEF given
<1>9. DOMAIN given \subseteq Retained /\ \A m \in DOMAIN given : m \in Messages /\ given[m] \in ConsumerIds
  BY <1>3, <1>4, <1>6, <1>7
<1>10. /\ DOMAIN processingTimers' = (DOMAIN processingTimers \ lost) \union DOMAIN given
       /\ processingTimers' \in [DOMAIN processingTimers' -> Timers]
       /\ \A m \in DOMAIN processingTimers' : processingTimers'[m].after \subseteq DOMAIN processingTimers' \ {m}
       /\ \A m \in DOMAIN given : processingTimers'[m].consumer = given[m]
       /\ \A m \in DOMAIN processingTimers' \ DOMAIN given : processingTimers'[m].consumer = processingTimers[m].consumer
  <2>1. TypeOK /\ Givable(given, Earlier)
    BY <1>9, EarlierFacts DEF IInv, Givable
  <2>2. Scheduled(Schedule(lost, given, Earlier), lost, given)
    BY <2>1, ScheduleFacts
  <2>3. Scheduled(processingTimers', lost, given)
    BY <1>8, <2>2
  <2> QED BY <2>3, Zenon DEF Scheduled
<1>11. \A m \in Messages : state'[m] # state[m] =>
         m <= sent /\ state[m] \in {"produced", "received", "processed"} /\ state'[m] \in {"produced", "received"}
  <2> SUFFICES ASSUME NEW m \in Messages, state'[m] # state[m]
               PROVE  m <= sent /\ state[m] \in {"produced", "received", "processed"} /\ state'[m] \in {"produced", "received"}
    OBVIOUS
  <2>1. state'[m] = IF m \in DOMAIN given THEN "received" ELSE IF m \in lost THEN "produced" ELSE state[m]
    BY <1>8
  <2>2. m \in DOMAIN given \/ m \in lost
    BY <2>1
  <2>3. m \in Retained /\ state[m] \in {"produced", "received", "processed"}
    BY <1>4, <1>7, <2>2
  <2> QED BY <1>3, <2>1, <2>2, <2>3
<1>12. WindowTypes' /\ GroupTypes'
  <2>1. WindowTypes'
    BY <1>1, <1>2, <1>3 DEF WindowTypes
  <2> QED BY <1>6, <2>1 DEF GroupTypes
<1>13. RecordTypes'
  <2>1. ASSUME NEW m \in Messages
        PROVE  /\ state'[m] \in States
               /\ assignedConsumerId'[m] \in ConsumerIds \union {NoConsumer}
    BY <1>1, <1>8, <1>9 DEF RecordTypes, States
  <2>2. /\ state' = [m \in Messages |-> state'[m]]
        /\ assignedConsumerId' = [m \in Messages |-> assignedConsumerId'[m]]
    BY <1>8
  <2>3. state' \in [Messages -> States]
    BY <2>1, <2>2
  <2>4. assignedConsumerId' \in [Messages -> ConsumerIds \union {NoConsumer}]
    BY <2>1, <2>2
  <2> QED BY <1>1, <1>2, <2>3, <2>4 DEF RecordTypes
<1>14. TimerTypes'
  BY <1>1, <1>3, <1>9, <1>10 DEF TimerTypes
<1>15. TypeOK'
  <2>1. LogTypes' /\ BodyTypes' /\ LessonTypes'
    BY <1>1, <1>2 DEF LogTypes, BodyTypes, LessonTypes
  <2> QED BY <1>1, <1>2, <1>12, <1>13, <1>14, <2>1, PartsOfTypeOK DEF IInv
<1>16. Window' /\ StateOfMessages'
  <2>1. \A m \in Messages : m > sent => state'[m] = "none" /\ m \notin uncommitted'
    BY <1>2, <1>11 DEF IInv, StateOfMessages
  <2> QED BY <1>2, <2>1 DEF IInv, Window, StateOfMessages
<1>17. ProcessingsCounted' /\ KeyedAreFresh'
  <2>1. \A m \in Messages : state'[m] = "committed" <=> state[m] = "committed"
    BY <1>11
  <2>2. ProcessingsCounted'
    BY <1>2, <2>1 DEF IInv, ProcessingsCounted, One
  <2> QED BY <1>2, <2>2 DEF IInv, KeyedAreFresh, Keyed
<1>18. NoneWaits'
  <2> SUFFICES ASSUME NEW m \in Retained, state'[m] = "produced" PROVE owner'[partition[m]] = NoConsumer
    BY <1>2, <1>3 DEF NoneWaits
  <2>1. m \notin Deliverable(lost) /\ (m \in lost \/ state[m] = "produced")
    BY <1>3, <1>7, <1>8
  <2> QED BY <2>1 DEF Deliverable
<1>19. OwnersAreActive'
  BY <1>6 DEF OwnersAreActive
<1>20. ReceivedIsPending'
  <2> SUFFICES ASSUME NEW m \in Retained, state'[m] = "received"
               PROVE  assignedConsumerId'[m] \in Range(active') /\ Pending(m, assignedConsumerId[m])'
    BY <1>3 DEF ReceivedIsPending, Pending
  <2>1. CASE m \in DOMAIN given
    <3>1. assignedConsumerId'[m] = given[m] /\ given[m] \in Range(active')
      BY <1>7, <1>8, <1>9, <2>1
    <3>2. m \in DOMAIN processingTimers' /\ processingTimers'[m].consumer = given[m]
      BY <1>10, <2>1
    <3> QED BY <3>1, <3>2 DEF Pending
  <2>2. CASE m \notin DOMAIN given
    <3>1. m \notin lost /\ state[m] = "received" /\ assignedConsumerId'[m] = assignedConsumerId[m]
      BY <1>3, <1>8, <2>2
    <3>2. Pending(m, assignedConsumerId[m])
      BY <3>1 DEF IInv, ReceivedIsPending, Pending
    <3>3. m \in DOMAIN processingTimers => m \in DOMAIN processingTimers' /\ processingTimers'[m].consumer = processingTimers[m].consumer
      BY <1>10, <2>2, <3>1
    <3> QED BY <1>2, <3>1, <3>2, <3>3 DEF Pending
  <2> QED BY <2>1, <2>2
<1>21. ArmedForItsConsumer'
  <2> SUFFICES ASSUME NEW m \in DOMAIN processingTimers', state'[m] = "received"
               PROVE  processingTimers'[m].consumer = assignedConsumerId'[m]
    BY DEF ArmedForItsConsumer
  <2>1. m \in Messages
    BY <1>3, <1>14 DEF TimerTypes
  <2>2. CASE m \in DOMAIN given
    BY <1>8, <1>10, <2>1, <2>2
  <2>3. CASE m \notin DOMAIN given
    <3>1. m \in DOMAIN processingTimers /\ m \notin lost /\ processingTimers'[m].consumer = processingTimers[m].consumer
      BY <1>10, <2>3
    <3>2. state[m] = "received" /\ assignedConsumerId'[m] = assignedConsumerId[m]
      BY <1>8, <2>1, <2>3, <3>1
    <3> QED BY <3>1, <3>2 DEF IInv, ArmedForItsConsumer
  <2> QED BY <2>2, <2>3
<1>22. ProcessedIsHeld'
  <2> SUFFICES ASSUME NEW m \in Retained, state'[m] = "processed" PROVE assignedConsumerId'[m] \in Range(active')
    BY <1>3 DEF ProcessedIsHeld
  <2>1. m \notin DOMAIN given /\ m \notin lost /\ state[m] = "processed" /\ assignedConsumerId'[m] = assignedConsumerId[m]
    BY <1>3, <1>8
  <2> QED BY <2>1
<1> QED BY <1>15, <1>16, <1>17, <1>18, <1>19, <1>20, <1>21, <1>22 DEF IInv

(* Changes stay within their bound. *)
LEMMA RunChangesFacts == IInv /\ RunChanges => changes' \in 0..MaxChanges
<1> SUFFICES ASSUME IInv, RunChanges PROVE changes' \in 0..MaxChanges
  OBVIOUS
<1>1. changes \in 0..MaxChanges /\ changes < MaxChanges /\ changes' = changes + 1
  BY DEF IInv, TypeOK, RunChanges
<1> QED BY <1>1, CountsAssumption

(* A step that leaves all but the settings alone keeps it. *)
LEMMA SettingsKeep ==
  ASSUME IInv, processingLatencyMs' \in Latencies, changes' \in 0..MaxChanges,
         UNCHANGED <<messageVars, active, crashed, owner, processingTimers, queue, nextOffset, outcomeVars, bodyVars, lessonVars>>
  PROVE  IInv'
<1>1. /\ UNCHANGED <<first, sent, state, partition, offset, assignedConsumerId, active, crashed, owner>>
      /\ UNCHANGED <<processingTimers, queue, nextOffset, latestCommittedOffsets, processings, uncommitted>>
      /\ UNCHANGED <<experiment, suspendedTimers, toProduce, toProcess, scenarioId, traced, completedExperimentIds, experiments>>
  BY DEF messageVars, outcomeVars, bodyVars, lessonVars
<1>2. TypeOK'
  BY <1>1 DEF IInv, TypeOK, Retained
<1>3. Window' /\ StateOfMessages' /\ ProcessingsCounted' /\ KeyedAreFresh' /\ OwnersAreActive'
  BY <1>1 DEF IInv, Window, StateOfMessages, ProcessingsCounted, One, KeyedAreFresh, Keyed, OwnersAreActive
<1>4. NoneWaits' /\ ArmedForItsConsumer' /\ ReceivedIsPending' /\ ProcessedIsHeld'
  BY <1>1 DEF IInv, NoneWaits, ArmedForItsConsumer, ReceivedIsPending, ProcessedIsHeld, Retained
<1> QED BY <1>2, <1>3, <1>4 DEF IInv

(* produce() adds a message and forgets the oldest ones with their timers. *)
LEMMA ProduceKeeps == IInv /\ Produce => IInv'
<1> SUFFICES ASSUME IInv, Produce PROVE IInv'
  OBVIOUS
<1>1. WindowTypes /\ RecordTypes /\ GroupTypes /\ TimerTypes /\ LogTypes /\ BodyTypes /\ LessonTypes
  BY PartsOfTypeOK DEF IInv
<1>2. /\ sent < MaxMessages /\ sent' = sent + 1 /\ first' = BoundMessages
      /\ state' = [state EXCEPT ![sent + 1] = "producing"]
      /\ processingTimers' = TimersWithout(first..(first' - 1))
      /\ UNCHANGED <<partition, offset, assignedConsumerId, active, crashed, owner, changes>>
      /\ UNCHANGED <<processingLatencyMs, queue, nextOffset, latestCommittedOffsets, processings, uncommitted>>
      /\ UNCHANGED <<experiment, suspendedTimers, toProcess, scenarioId, traced, completedExperimentIds, experiments>>
      /\ toProduce' = (IF experiment = Null THEN 0 ELSE toProduce - 1) /\ (experiment # Null => toProduce > 0)
  BY DEF Produce, groupVars, outcomeVars, lessonVars
<1>3. first' \in Nat /\ first' >= first /\ first' <= sent' /\ sent' < first' + RetainedMessageLimit
  BY <1>1, <1>2, BoundKeepsOrder DEF IInv
<1>4. sent \in Nat /\ first \in Nat /\ first >= 1 /\ sent + 1 \in Messages
  BY <1>1, <1>2, CountsAssumption DEF IInv, Window, WindowTypes, Messages
<1>5. Retained' \subseteq Retained \union {sent + 1} /\ Retained' \subseteq Messages
  <2>1. Retained' \subseteq Retained \union {sent + 1}
    BY <1>2, <1>3, <1>4 DEF Retained
  <2> QED BY <1>4, <2>1, RetainedFacts
<1>6. DOMAIN processingTimers \subseteq Retained /\ Retained \subseteq Messages
  BY <1>1, RetainedFacts DEF TimerTypes
<1>7. /\ DOMAIN processingTimers' = DOMAIN processingTimers \ (first..(first' - 1))
      /\ processingTimers' \in [DOMAIN processingTimers' -> Timers]
      /\ \A m \in DOMAIN processingTimers' : /\ processingTimers'[m].consumer = processingTimers[m].consumer
                                              /\ processingTimers'[m].after \subseteq DOMAIN processingTimers' \ {m}
  <2> DEFINE ms == first..(first' - 1)
  <2> HIDE DEF ms
  <2>1. LET cleared == TimersWithout(ms) IN
        /\ DOMAIN cleared = DOMAIN processingTimers \ ms
        /\ cleared \in [DOMAIN cleared -> Timers]
        /\ \A m \in DOMAIN cleared : /\ cleared[m].consumer = processingTimers[m].consumer
                                     /\ cleared[m].after \subseteq DOMAIN cleared \ {m}
    BY <1>1, TimersWithoutFacts, Zenon
  <2>2. processingTimers' = TimersWithout(ms)
    BY <1>2 DEF ms
  <2>3. /\ DOMAIN processingTimers' = DOMAIN processingTimers \ ms
        /\ processingTimers' \in [DOMAIN processingTimers' -> Timers]
        /\ \A m \in DOMAIN processingTimers' : /\ processingTimers'[m].consumer = processingTimers[m].consumer
                                                /\ processingTimers'[m].after \subseteq DOMAIN processingTimers' \ {m}
    BY <2>1, <2>2
  <2> QED BY <2>3, Zenon DEF ms
<1>8. WindowTypes' /\ Window'
  <2>1. WindowTypes'
    BY <1>2, <1>3, <1>4, <1>5 DEF WindowTypes
  <2>2. 1 <= first' /\ sent' <= MaxMessages /\ first' <= sent'
    BY <1>2, <1>3, <1>4, CountsAssumption
  <2> QED BY <2>1, <2>2 DEF Window
<1>9. TimerTypes'
  <2>1. DOMAIN processingTimers' \subseteq Retained'
    BY <1>2, <1>3, <1>4, <1>6, <1>7 DEF Retained
  <2> QED BY <1>7, <2>1 DEF TimerTypes
<1>10. RecordTypes' /\ GroupTypes' /\ LogTypes' /\ BodyTypes' /\ LessonTypes'
  <2>1. toProduce' \in 0..3 /\ (experiment = Null => toProduce' = 0)
    BY <1>1, <1>2 DEF BodyTypes
  <2>2. BodyTypes'
    BY <1>1, <1>2, <2>1 DEF BodyTypes
  <2> QED BY <1>1, <1>2, <2>2 DEF RecordTypes, States, GroupTypes, LogTypes, LessonTypes
<1>11. TypeOK'
  BY <1>2, <1>8, <1>9, <1>10, PartsOfTypeOK DEF IInv
<1>12. \A m \in Messages : state'[m] = IF m = sent + 1 THEN "producing" ELSE state[m]
  BY <1>1, <1>2 DEF RecordTypes
<1>13. StateOfMessages' /\ ProcessingsCounted' /\ KeyedAreFresh'
  <2>1. state[sent + 1] = "none"
    BY <1>4 DEF IInv, StateOfMessages
  <2>2. ProcessingsCounted'
    <3>1. \A m \in Messages : state'[m] = "committed" <=> state[m] = "committed"
      BY <1>12, <2>1
    <3> QED BY <1>2, <3>1 DEF IInv, ProcessingsCounted, One
  <2>3. StateOfMessages'
    BY <1>2, <1>4, <1>12 DEF IInv, StateOfMessages, Messages
  <2> QED BY <1>2, <2>2, <2>3 DEF IInv, KeyedAreFresh, Keyed
<1>14. NoneWaits' /\ OwnersAreActive'
  <2>1. ASSUME NEW m \in Retained', state'[m] = "produced" PROVE owner[partition[m]] = NoConsumer
    <3>1. m \in Messages /\ m # sent + 1 /\ state[m] = "produced"
      BY <1>5, <1>12, <2>1
    <3> QED BY <1>5, <3>1 DEF IInv, NoneWaits
  <2> QED BY <1>2, <2>1 DEF IInv, NoneWaits, OwnersAreActive
<1>15. ReceivedIsPending'
  <2> SUFFICES ASSUME NEW m \in Retained', state'[m] = "received"
               PROVE  assignedConsumerId[m] \in Range(active) /\ Pending(m, assignedConsumerId[m])'
    BY <1>2 DEF ReceivedIsPending, Pending
  <2>1. m \in Retained /\ state[m] = "received"
    BY <1>5, <1>12
  <2>2. assignedConsumerId[m] \in Range(active) /\ Pending(m, assignedConsumerId[m])
    BY <2>1 DEF IInv, ReceivedIsPending, Pending
  <2>3. m \in DOMAIN processingTimers => m \in DOMAIN processingTimers' /\ processingTimers'[m].consumer = processingTimers[m].consumer
    BY <1>3, <1>4, <1>7 DEF Retained
  <2> QED BY <1>2, <2>2, <2>3 DEF Pending
<1>16. ArmedForItsConsumer' /\ ProcessedIsHeld'
  <2>1. ASSUME NEW m \in DOMAIN processingTimers', state'[m] = "received"
        PROVE  processingTimers'[m].consumer = assignedConsumerId[m]
    <3>1. m \in DOMAIN processingTimers /\ m \in Messages
      BY <1>6, <1>7
    <3>2. state[m] = "received"
      BY <1>12, <2>1, <3>1
    <3> QED BY <1>7, <3>1, <3>2 DEF IInv, ArmedForItsConsumer
  <2>2. ASSUME NEW m \in Retained', state'[m] = "processed" PROVE assignedConsumerId[m] \in Range(active)
    <3>1. m \in Retained /\ state[m] = "processed"
      BY <1>5, <1>12, <2>2
    <3> QED BY <3>1 DEF IInv, ProcessedIsHeld
  <2> QED BY <1>2, <2>1, <2>2 DEF ArmedForItsConsumer, ProcessedIsHeld
<1> QED BY <1>8, <1>11, <1>13, <1>14, <1>15, <1>16 DEF IInv

(* The broker's answer hands the message to the consumer of its partition. *)
LEMMA ProducedKeeps ==
  ASSUME IInv, NEW p \in Partitions, Produced(p)
  PROVE  IInv'
<1>1. WindowTypes /\ RecordTypes /\ GroupTypes /\ TimerTypes /\ LogTypes /\ BodyTypes /\ LessonTypes
  BY PartsOfTypeOK DEF IInv
<1>2. /\ sent \in Messages /\ state[sent] = "producing"
      /\ partition' = [partition EXCEPT ![sent] = p]
      /\ offset' = [offset EXCEPT ![sent] = nextOffset[p]]
      /\ nextOffset' = [nextOffset EXCEPT ![p] = @ + 1]
      /\ assignedConsumerId' = [assignedConsumerId EXCEPT ![sent] = owner[p]]
      /\ UNCHANGED <<first, sent, active, crashed, owner, changes>>
      /\ UNCHANGED <<processingLatencyMs, queue, latestCommittedOffsets, processings, uncommitted>>
      /\ UNCHANGED <<experiment, suspendedTimers, toProduce, toProcess, scenarioId, traced, completedExperimentIds, experiments>>
  BY DEF Produced, Producing, groupVars, outcomeVars, bodyVars, lessonVars
<1>3. \/ owner[p] = NoConsumer /\ state' = [state EXCEPT ![sent] = "produced"] /\ UNCHANGED processingTimers
      \/ /\ owner[p] # NoConsumer /\ state' = [state EXCEPT ![sent] = "received"]
         /\ processingTimers' = Schedule({}, [m \in {sent} |-> owner[p]], Earlier)
  BY DEF Produced
<1>4. Retained' = Retained /\ Retained \subseteq Messages /\ \A m \in Retained : m <= sent
  BY <1>2, RetainedFacts DEF Retained
<1>5. sent \in Retained /\ sent \in Nat
  BY <1>1, <1>2, CountsAssumption DEF IInv, Window, WindowTypes, Retained, Messages
<1>6. owner[p] # NoConsumer => owner[p] \in Range(active) /\ owner[p] \in ConsumerIds
  BY <1>1 DEF IInv, OwnersAreActive, GroupTypes
<1>7. owner[p] # NoConsumer =>
        /\ DOMAIN processingTimers' = DOMAIN processingTimers \union {sent}
        /\ processingTimers' \in [DOMAIN processingTimers' -> Timers]
        /\ \A m \in DOMAIN processingTimers' : processingTimers'[m].after \subseteq DOMAIN processingTimers' \ {m}
        /\ processingTimers'[sent].consumer = owner[p]
        /\ \A m \in DOMAIN processingTimers \ {sent} : processingTimers'[m].consumer = processingTimers[m].consumer
  <2> SUFFICES ASSUME owner[p] # NoConsumer
      PROVE /\ DOMAIN processingTimers' = DOMAIN processingTimers \union {sent}
            /\ processingTimers' \in [DOMAIN processingTimers' -> Timers]
            /\ \A m \in DOMAIN processingTimers' : processingTimers'[m].after \subseteq DOMAIN processingTimers' \ {m}
            /\ processingTimers'[sent].consumer = owner[p]
            /\ \A m \in DOMAIN processingTimers \ {sent} : processingTimers'[m].consumer = processingTimers[m].consumer
    OBVIOUS
  <2> DEFINE given == [m \in {sent} |-> owner[p]]
  <2>1. DOMAIN given = {sent} /\ given[sent] = owner[p]
    OBVIOUS
  <2>2. processingTimers' = Schedule({}, given, Earlier)
    BY <1>3
  <2> HIDE DEF given
  <2>3. TypeOK /\ Givable(given, Earlier)
    BY <1>2, <1>6, <2>1, EarlierFacts DEF IInv, Givable
  <2>4. Scheduled(Schedule({}, given, Earlier), {}, given)
    BY <2>3, ScheduleFacts
  <2>5. Scheduled(processingTimers', {}, given)
    BY <2>2, <2>4
  <2> QED BY <2>1, <2>5 DEF Scheduled
<1>8. /\ WindowTypes' /\ GroupTypes' /\ Window' /\ OwnersAreActive' /\ BodyTypes' /\ LessonTypes'
  BY <1>1, <1>2, <1>4 DEF IInv, WindowTypes, GroupTypes, Window, OwnersAreActive, BodyTypes, LessonTypes
<1>9. RecordTypes'
  <2>1. nextOffset[p] \in Nat /\ owner[p] \in ConsumerIds \union {NoConsumer}
    BY <1>1 DEF GroupTypes, LogTypes
  <2> QED BY <1>1, <1>2, <1>3, <2>1 DEF RecordTypes, States
<1>10. TimerTypes'
  <2>1. CASE owner[p] = NoConsumer
    BY <1>1, <1>3, <1>4, <2>1 DEF TimerTypes
  <2>2. CASE owner[p] # NoConsumer
    BY <1>1, <1>4, <1>5, <1>7, <2>2 DEF TimerTypes
  <2> QED BY <2>1, <2>2
<1>11. LogTypes'
  <2>1. nextOffset[p] + 1 \in Nat
    BY <1>1 DEF LogTypes
  <2> QED BY <1>1, <1>2, <2>1 DEF LogTypes
<1>12. TypeOK'
  BY <1>2, <1>8, <1>9, <1>10, <1>11, PartsOfTypeOK DEF IInv
<1>13. \A m \in Messages :
         /\ m # sent => state'[m] = state[m] /\ partition'[m] = partition[m] /\ assignedConsumerId'[m] = assignedConsumerId[m]
         /\ m = sent => /\ state'[m] = IF owner[p] = NoConsumer THEN "produced" ELSE "received"
                        /\ partition'[m] = p /\ assignedConsumerId'[m] = owner[p]
  BY <1>1, <1>2, <1>3 DEF RecordTypes
<1>14. StateOfMessages' /\ ProcessingsCounted' /\ KeyedAreFresh'
  <2>1. \A m \in Messages : state'[m] = "committed" <=> state[m] = "committed"
    BY <1>2, <1>13
  <2>2. ProcessingsCounted'
    BY <1>2, <2>1 DEF IInv, ProcessingsCounted, One
  <2>3. StateOfMessages'
    BY <1>2, <1>5, <1>13 DEF IInv, StateOfMessages
  <2> QED BY <1>2, <2>2, <2>3 DEF IInv, KeyedAreFresh, Keyed
<1>15. NoneWaits'
  <2> SUFFICES ASSUME NEW m \in Retained, state'[m] = "produced" PROVE owner[partition'[m]] = NoConsumer
    BY <1>2, <1>4 DEF NoneWaits
  <2>1. CASE m = sent
    BY <1>2, <1>13, <2>1
  <2>2. CASE m # sent
    BY <1>4, <1>13, <2>2 DEF IInv, NoneWaits
  <2> QED BY <2>1, <2>2
<1>16. ReceivedIsPending'
  <2> SUFFICES ASSUME NEW m \in Retained, state'[m] = "received"
               PROVE  assignedConsumerId'[m] \in Range(active) /\ Pending(m, assignedConsumerId[m])'
    BY <1>2, <1>4 DEF ReceivedIsPending, Pending
  <2>1. CASE m = sent
    <3>1. owner[p] # NoConsumer /\ assignedConsumerId'[m] = owner[p]
      BY <1>2, <1>13, <2>1
    <3> QED BY <1>6, <1>7, <2>1, <3>1 DEF Pending
  <2>2. CASE m # sent
    <3>1. state[m] = "received" /\ assignedConsumerId'[m] = assignedConsumerId[m]
      BY <1>4, <1>13, <2>2
    <3>2. assignedConsumerId[m] \in Range(active) /\ Pending(m, assignedConsumerId[m])
      BY <3>1 DEF IInv, ReceivedIsPending, Pending
    <3>3. m \in DOMAIN processingTimers => m \in DOMAIN processingTimers' /\ processingTimers'[m].consumer = processingTimers[m].consumer
      BY <1>3, <1>7, <2>2
    <3> QED BY <1>2, <3>1, <3>2, <3>3 DEF Pending
  <2> QED BY <2>1, <2>2
<1>17. ArmedForItsConsumer'
  <2> SUFFICES ASSUME NEW m \in DOMAIN processingTimers', state'[m] = "received"
               PROVE  processingTimers'[m].consumer = assignedConsumerId'[m]
    BY DEF ArmedForItsConsumer
  <2>1. m \in Messages
    BY <1>4, <1>10 DEF TimerTypes
  <2>2. CASE m = sent
    BY <1>2, <1>7, <1>13, <2>1, <2>2
  <2>3. CASE m # sent
    <3>1. m \in DOMAIN processingTimers /\ processingTimers'[m].consumer = processingTimers[m].consumer
      BY <1>3, <1>7, <2>3
    <3>2. state[m] = "received" /\ assignedConsumerId'[m] = assignedConsumerId[m]
      BY <1>13, <2>1, <2>3
    <3> QED BY <3>1, <3>2 DEF IInv, ArmedForItsConsumer
  <2> QED BY <2>2, <2>3
<1>18. ProcessedIsHeld'
  <2> SUFFICES ASSUME NEW m \in Retained, state'[m] = "processed" PROVE assignedConsumerId'[m] \in Range(active)
    BY <1>2, <1>4 DEF ProcessedIsHeld
  <2>1. state[m] = "processed" /\ assignedConsumerId'[m] = assignedConsumerId[m]
    BY <1>2, <1>4, <1>13
  <2> QED BY <2>1 DEF IInv, ProcessedIsHeld
<1> QED BY <1>8, <1>12, <1>14, <1>15, <1>16, <1>17, <1>18 DEF IInv

(* A timer that is cleared or has fired is gone, and the others are as they were. *)
LEMMA ClearedTimer ==
  ASSUME IInv, NEW m, processingTimers' = TimersWithout({m}), UNCHANGED <<first, sent>>
  PROVE  /\ DOMAIN processingTimers' = DOMAIN processingTimers \ {m}
         /\ \A n \in DOMAIN processingTimers' : processingTimers'[n].consumer = processingTimers[n].consumer
         /\ TimerTypes'
<1>1. TimerTypes
  BY PartsOfTypeOK DEF IInv
<1>2. LET cleared == TimersWithout({m}) IN
      /\ DOMAIN cleared = DOMAIN processingTimers \ {m}
      /\ cleared \in [DOMAIN cleared -> Timers]
      /\ \A n \in DOMAIN cleared : /\ cleared[n].consumer = processingTimers[n].consumer
                                   /\ cleared[n].after \subseteq DOMAIN cleared \ {n}
  BY <1>1, TimersWithoutFacts, Zenon
<1>3. /\ DOMAIN processingTimers' = DOMAIN processingTimers \ {m}
      /\ processingTimers' \in [DOMAIN processingTimers' -> Timers]
      /\ \A n \in DOMAIN processingTimers' : /\ processingTimers'[n].consumer = processingTimers[n].consumer
                                              /\ processingTimers'[n].after \subseteq DOMAIN processingTimers' \ {n}
  BY <1>2
<1>4. TimerTypes'
  BY <1>1, <1>3 DEF TimerTypes, Retained
<1> QED BY <1>3, <1>4

(* A timer that fires runs process() or has it wait. *)
LEMMA TimerFiresKeeps ==
  ASSUME IInv, NEW m \in Messages, TimerFires(m)
  PROVE  IInv'
<1> DEFINE k == processingTimers[m].consumer
<1>1. TimerTypes /\ WindowTypes /\ BodyTypes /\ queue \in Seq(Calls)
  BY PartsOfTypeOK DEF IInv
<1>2. /\ m \in DOMAIN processingTimers /\ processingTimers' = TimersWithout({m})
      /\ UNCHANGED <<first, sent, partition, offset, assignedConsumerId, groupVars, processingLatencyMs, nextOffset>>
      /\ UNCHANGED <<experiment, suspendedTimers, toProduce, toProcess, lessonVars>>
  BY DEF TimerFires, bodyVars
<1>3. /\ DOMAIN processingTimers' = DOMAIN processingTimers \ {m}
      /\ \A n \in DOMAIN processingTimers' : processingTimers'[n].consumer = processingTimers[n].consumer
      /\ TimerTypes'
  BY <1>2, ClearedTimer
<1>5. k \in ConsumerIds /\ m \in Messages
  BY <1>1, <1>2 DEF TimerTypes, Timers
<1>6. CASE Producing
  <2> DEFINE call == [message |-> m, consumer |-> k]
  <2>1. queue' = Append(queue, call) /\ UNCHANGED <<state, outcomeVars>>
    BY <1>6 DEF TimerFires
  <2>2. call \in Calls
    BY <1>5 DEF Calls
  <2> HIDE DEF call, k
  <2>3. /\ queue' \in Seq(Calls) /\ DOMAIN queue' = 1..(Len(queue) + 1) /\ DOMAIN queue = 1..Len(queue)
        /\ queue'[Len(queue) + 1] = call /\ \A i \in 1..Len(queue) : queue'[i] = queue[i]
    BY <1>1, <2>1, <2>2
  <2>4. Len(queue) \in Nat /\ Len(queue) + 1 \in 1..(Len(queue) + 1) /\ 1..Len(queue) \subseteq 1..(Len(queue) + 1)
    BY <1>1
  <2>5. ASSUME NEW n \in Retained, NEW c, Pending(n, c) PROVE Pending(n, c)'
    <3>1. CASE n # m
      BY <1>2, <1>3, <2>3, <2>4, <2>5, <3>1 DEF Pending
    <3>2. CASE n = m /\ c # k
      BY <1>2, <2>3, <2>4, <2>5, <3>2 DEF Pending, k
    <3>3. CASE n = m /\ c = k
      BY <2>3, <2>4, <3>3 DEF Pending, call
    <3> QED BY <3>1, <3>2, <3>3
  <2>6. UNCHANGED <<first, sent, state, partition, offset, assignedConsumerId, active, crashed, owner, changes,
                    processingLatencyMs, nextOffset, latestCommittedOffsets, processings, uncommitted,
                    experiment, suspendedTimers, toProduce, toProcess, scenarioId, traced, completedExperimentIds, experiments>>
    BY <1>2, <2>1 DEF groupVars, outcomeVars, lessonVars
  <2>7. TypeOK'
    BY <1>3, <2>3, <2>6 DEF IInv, TypeOK, Retained, TimerTypes
  <2>8. /\ Window' /\ StateOfMessages' /\ ProcessingsCounted' /\ KeyedAreFresh'
        /\ OwnersAreActive' /\ NoneWaits' /\ ProcessedIsHeld'
    BY <2>6 DEF IInv, Window, StateOfMessages, ProcessingsCounted, One, KeyedAreFresh, Keyed,
                OwnersAreActive, NoneWaits, ProcessedIsHeld, Retained
  <2>10. ArmedForItsConsumer'
    BY <1>3, <2>6 DEF IInv, ArmedForItsConsumer
  <2>9. ReceivedIsPending'
    <3> SUFFICES ASSUME NEW n \in Retained, state[n] = "received"
                 PROVE  assignedConsumerId[n] \in Range(active) /\ Pending(n, assignedConsumerId[n])'
      BY <2>6 DEF ReceivedIsPending, Pending, Retained
    <3>1. assignedConsumerId[n] \in Range(active) /\ Pending(n, assignedConsumerId[n])
      BY DEF IInv, ReceivedIsPending, Pending
    <3> QED BY <2>5, <2>6, <3>1
  <2> QED BY <2>7, <2>8, <2>9, <2>10 DEF IInv
<1>7. CASE ~Producing
  <2>1. Process(m, k, TRUE) /\ queue' = queue
    BY <1>7 DEF TimerFires
  <2>2. ASSUME NEW n \in Retained, NEW c, Pending(n, c) PROVE Pending(n, c)' \/ (n = m /\ c = k)
    BY <1>2, <1>3, <2>1, <2>2 DEF Pending
  <2>3. queue' \in Seq(Calls) /\ toProcess' \subseteq toProcess /\ DOMAIN processingTimers' \subseteq DOMAIN processingTimers
    BY <1>1, <1>2, <1>3, <2>1
  <2> DEFINE commit == TRUE
  <2>4. commit \in BOOLEAN /\ Process(m, k, commit) /\ (~commit => m \notin uncommitted /\ m \notin toProcess')
    BY <2>1
  <2>5. /\ UNCHANGED <<first, sent, partition, offset, assignedConsumerId, groupVars, processingLatencyMs, nextOffset>>
        /\ UNCHANGED <<experiment, suspendedTimers, toProduce, lessonVars>>
        /\ \A n \in DOMAIN processingTimers' : processingTimers'[n].consumer = processingTimers[n].consumer
        /\ TimerTypes'
    BY <1>2, <1>3
  <2> HIDE DEF k, commit
  <2> QED BY <2>2, <2>3, <2>4, <2>5, ProcessKeeps
<1> QED BY <1>6, <1>7

(* So does the next call that waits. *)
LEMMA ProcessNextKeeps == IInv /\ ProcessNext => IInv'
<1> SUFFICES ASSUME IInv, ProcessNext PROVE IInv'
  OBVIOUS
<1> DEFINE call == Head(queue)
<1>1. TimerTypes /\ BodyTypes /\ queue \in Seq(Calls)
  BY PartsOfTypeOK DEF IInv
<1>2. /\ queue # <<>> /\ queue' = Tail(queue) /\ Process(call.message, call.consumer, TRUE)
      /\ UNCHANGED <<first, sent, partition, offset, assignedConsumerId, groupVars, processingTimers, processingLatencyMs, nextOffset>>
      /\ UNCHANGED <<experiment, suspendedTimers, toProduce, toProcess, lessonVars>>
  BY DEF ProcessNext, bodyVars
<1>3. /\ Len(queue) \in Nat \ {0} /\ queue' \in Seq(Calls) /\ DOMAIN queue' = 1..(Len(queue) - 1)
      /\ \A i \in 1..(Len(queue) - 1) : queue'[i] = queue[i + 1]
      /\ call = queue[1]
  BY <1>1, <1>2
<1>4. TimerTypes'
  BY <1>1, <1>2 DEF TimerTypes, Retained
<1> HIDE DEF call
<1>5. ASSUME NEW n \in Retained, NEW c, Pending(n, c)
      PROVE  Pending(n, c)' \/ (n = call.message /\ c = call.consumer)
  <2>1. CASE (n \in DOMAIN processingTimers /\ processingTimers[n].consumer = c) \/ n \in DOMAIN suspendedTimers
    BY <1>2, <2>1 DEF Pending
  <2>2. ASSUME NEW i \in DOMAIN queue, queue[i] = [message |-> n, consumer |-> c]
        PROVE  Pending(n, c)' \/ (n = call.message /\ c = call.consumer)
    <3>1. CASE i = 1
      BY <1>3, <2>2, <3>1
    <3>2. CASE i # 1
      <4>1. i - 1 \in 1..(Len(queue) - 1) /\ (i - 1) + 1 = i
        BY <1>1, <1>3, <3>2
      <4>2. queue'[i - 1] = [message |-> n, consumer |-> c]
        BY <1>3, <2>2, <4>1
      <4> QED BY <1>3, <4>1, <4>2 DEF Pending
    <3> QED BY <3>1, <3>2
  <2> QED BY <1>5, <2>1, <2>2 DEF Pending
<1>6. \A n \in DOMAIN processingTimers' : processingTimers'[n].consumer = processingTimers[n].consumer
  BY <1>2
<1> DEFINE commit == TRUE
<1>7. /\ commit \in BOOLEAN /\ Process(call.message, call.consumer, commit)
      /\ ~commit => call.message \notin uncommitted /\ call.message \notin toProcess'
      /\ toProcess' \subseteq toProcess /\ DOMAIN processingTimers' \subseteq DOMAIN processingTimers
  BY <1>2
<1> HIDE DEF commit
<1> QED BY <1>2, <1>3, <1>4, <1>5, <1>6, <1>7, ProcessKeeps

(* And so does a consumer that joins or leaves, of itself or for an experiment. *)
LEMMA JoinsKeeps ==
  ASSUME IInv, Joins, changes' \in 0..MaxChanges, UNCHANGED <<bodyVars, lessonVars>>
  PROVE  IInv'
<1>1. GroupTypes
  BY PartsOfTypeOK DEF IInv
<1>2. \A m \in Retained : state[m] \in {"received", "processed"} => assignedConsumerId[m] \in Range(active)
  BY DEF IInv, ReceivedIsPending, ProcessedIsHeld
<1>3. /\ active' \in Seq(ConsumerIds) /\ IsInjective(active') /\ crashed \subseteq ConsumerIds \ Range(active')
      /\ Range(active) \subseteq Range(active')
  BY <1>1, JoinsFacts DEF Joins
<1>4. {} \in SUBSET {m \in Retained : state[m] \in {"received", "processed"}}
  OBVIOUS
<1>5. RebalanceAndDeliver({}) /\ crashed' = crashed
  BY DEF Joins
<1> QED BY <1>2, <1>3, <1>4, <1>5, RebalanceKeeps

LEMMA GroupChangeKeeps == IInv /\ (AddConsumer \/ \E k \in ConsumerIds : StopConsumer(k) \/ CrashConsumer(k)) => IInv'
<1> SUFFICES ASSUME IInv, AddConsumer \/ \E k \in ConsumerIds : StopConsumer(k) \/ CrashConsumer(k) PROVE IInv'
  OBVIOUS
<1>1. GroupTypes
  BY PartsOfTypeOK DEF IInv
<1>2. \A m \in Retained : state[m] \in {"received", "processed"} => assignedConsumerId[m] \in Range(active)
  BY DEF IInv, ReceivedIsPending, ProcessedIsHeld
<1>3. RunChanges
  BY DEF AddConsumer, StopConsumer, CrashConsumer
<1>4. changes' \in 0..MaxChanges /\ UNCHANGED <<bodyVars, lessonVars>>
  BY <1>3, RunChangesFacts DEF RunChanges
<1>5. CASE AddConsumer
  BY <1>4, <1>5, JoinsKeeps DEF AddConsumer
<1>6. ASSUME NEW k \in ConsumerIds, StopConsumer(k) \/ CrashConsumer(k) PROVE IInv'
  <2>1. AssignedTo(k) \in SUBSET {m \in Retained : state[m] \in {"received", "processed"}}
    BY DEF AssignedTo
  <2>2. /\ RebalanceAndDeliver(AssignedTo(k)) /\ Leaves(k)
        /\ crashed' = crashed \/ crashed' = crashed \union {k}
    BY <1>6 DEF StopConsumer, CrashConsumer
  <2>3. /\ active' \in Seq(ConsumerIds) /\ IsInjective(active')
        /\ Range(active') = Range(active) \ {k} /\ k \in Range(active)
    BY <1>1, <2>2, LeavesFacts
  <2>4. crashed' \subseteq ConsumerIds \ Range(active')
    BY <1>1, <2>2, <2>3 DEF GroupTypes
  <2>5. \A m \in Retained : state[m] \in {"received", "processed"} /\ m \notin AssignedTo(k) => assignedConsumerId[m] \in Range(active')
    BY <1>2, <2>3 DEF AssignedTo
  <2> QED BY <1>4, <2>1, <2>2, <2>3, <2>4, <2>5, RebalanceKeeps
<1> QED BY <1>5, <1>6

(* What an experiment is about to do has its types. *)
LEMMA ExperimentFacts ==
  ASSUME IInv, NEW id \in ExperimentIds, sent + MessagesOf(id) <= MaxMessages
  PROVE  /\ id # Null /\ MessagesOf(id) \in 0..3 /\ ProcessedBy(id) \subseteq Messages
         /\ Keyed(id) => ProcessedBy(id) \intersect uncommitted = {}
<1>1. WindowTypes /\ sent \in Nat
  BY PartsOfTypeOK DEF IInv, WindowTypes
<1>2. id # Null
  BY ScenarioAssumption DEF ExperimentIds
<1>3. CASE Keyed(id)
  <2>1. MessagesOf(id) = 3 /\ ProcessedBy(id) = (sent + 1)..(sent + 3)
    BY <1>3 DEF MessagesOf, ProcessedBy
  <2>2. \A m \in ProcessedBy(id) : m \in Messages /\ m > sent
    BY <1>1, <2>1, CountsAssumption DEF Messages
  <2> QED BY <1>2, <2>1, <2>2 DEF IInv, StateOfMessages
<1>4. CASE ~Keyed(id)
  BY <1>2, <1>4, RetainedFacts DEF MessagesOf, ProcessedBy
<1> QED BY <1>3, <1>4

(* The timers an experiment suspends keep what they were for pending. *)
LEMMA BeginExperimentKeeps ==
  ASSUME IInv, NEW id \in ExperimentIds, BeginExperiment(id)
  PROVE  IInv'
<1>1. /\ WindowTypes /\ RecordTypes /\ GroupTypes /\ TimerTypes /\ LogTypes /\ BodyTypes /\ LessonTypes
      /\ processingLatencyMs \in Latencies /\ queue \in Seq(Calls)
  BY PartsOfTypeOK DEF IInv
<1>2. /\ experiments < MaxExperiments[scenarioId] /\ experiments' = experiments + 1
      /\ sent + MessagesOf(id) <= MaxMessages
      /\ experiment' = id /\ toProduce' = MessagesOf(id) /\ toProcess' = ProcessedBy(id)
      /\ suspendedTimers' = processingTimers /\ processingTimers' = NoTimers
      /\ UNCHANGED <<first, sent, state, partition, offset, assignedConsumerId, active, crashed, owner, changes>>
      /\ UNCHANGED <<processingLatencyMs, queue, nextOffset, latestCommittedOffsets, processings, uncommitted>>
      /\ UNCHANGED <<scenarioId, traced, completedExperimentIds>>
      /\ experiment = Null
  BY DEF BeginExperiment, Idle, messageVars, groupVars, outcomeVars
<1>3. /\ id # Null /\ MessagesOf(id) \in 0..3 /\ ProcessedBy(id) \subseteq Messages
      /\ Keyed(id) => ProcessedBy(id) \intersect uncommitted = {}
  BY <1>2, ExperimentFacts
<1>4. Retained' = Retained /\ Retained \subseteq Messages
  BY <1>2, RetainedFacts DEF Retained
<1>5. TimerTypes' /\ DOMAIN processingTimers' = {} /\ DOMAIN suspendedTimers = {}
  BY <1>1, <1>2 DEF TimerTypes, NoTimers, BodyTypes
<1>6. BodyTypes'
  <2>1. /\ DOMAIN suspendedTimers' \subseteq Messages /\ suspendedTimers' \in [DOMAIN suspendedTimers' -> Timers]
        /\ \A m \in DOMAIN suspendedTimers' : m \notin suspendedTimers'[m].after
    BY <1>1, <1>2, <1>4 DEF TimerTypes
  <2> QED BY <1>2, <1>3, <2>1 DEF BodyTypes
<1>7. LessonTypes'
  BY <1>1, <1>2, ScenarioAssumption DEF LessonTypes
<1>8. TypeOK'
  <2>1. WindowTypes' /\ RecordTypes' /\ GroupTypes' /\ LogTypes'
    BY <1>1, <1>2, <1>4 DEF WindowTypes, RecordTypes, GroupTypes, LogTypes
  <2> QED BY <1>1, <1>2, <1>5, <1>6, <1>7, <2>1, PartsOfTypeOK
<1>9. Window' /\ StateOfMessages' /\ ProcessingsCounted' /\ KeyedAreFresh' /\ OwnersAreActive'
  BY <1>2, <1>3 DEF IInv, Window, StateOfMessages, ProcessingsCounted, One, KeyedAreFresh, Keyed, OwnersAreActive
<1>10. NoneWaits' /\ ArmedForItsConsumer' /\ ProcessedIsHeld'
  BY <1>2, <1>4, <1>5 DEF IInv, NoneWaits, ArmedForItsConsumer, ProcessedIsHeld
<1>11. ReceivedIsPending'
  <2> SUFFICES ASSUME NEW m \in Retained, state[m] = "received"
               PROVE  assignedConsumerId[m] \in Range(active) /\ Pending(m, assignedConsumerId[m])'
    BY <1>2, <1>4 DEF ReceivedIsPending, Pending
  <2>1. assignedConsumerId[m] \in Range(active) /\ Pending(m, assignedConsumerId[m])
    BY DEF IInv, ReceivedIsPending, Pending
  <2> QED BY <1>2, <1>5, <2>1 DEF Pending
<1> QED BY <1>8, <1>9, <1>10, <1>11 DEF IInv

(* A message the experiment has processed is processed as by a timer. *)
LEMMA ExperimentProcessesKeeps == IInv /\ ExperimentProcesses => IInv'
<1> SUFFICES ASSUME IInv, ExperimentProcesses PROVE IInv'
  OBVIOUS
<1> DEFINE m == Min(toProcess)
           k == assignedConsumerId[m]
           commit == CommitsInExperiment(m)
<1>1. BodyTypes /\ queue \in Seq(Calls)
  BY PartsOfTypeOK DEF IInv
<1>2. /\ toProcess # {} /\ toProcess' = toProcess \ {m} /\ processingTimers' = TimersWithout({m})
      /\ Process(m, k, commit) /\ queue' = queue
      /\ UNCHANGED <<first, sent, partition, offset, assignedConsumerId, groupVars, processingLatencyMs, nextOffset>>
      /\ UNCHANGED <<experiment, suspendedTimers, toProduce, lessonVars>>
  BY DEF ExperimentProcesses
<1>3. m \in toProcess
  <2>1. toProcess \in SUBSET Nat
    BY <1>1 DEF BodyTypes, Messages
  <2> HIDE DEF m
  <2> QED BY <1>2, <2>1, LeastId DEF m
<1>4. commit \in BOOLEAN /\ (~commit => m \notin uncommitted /\ m \notin toProcess')
  BY <1>2, <1>3 DEF CommitsInExperiment, IInv, KeyedAreFresh
<1> HIDE DEF m, commit
<1>5. /\ DOMAIN processingTimers' = DOMAIN processingTimers \ {m}
      /\ \A n \in DOMAIN processingTimers' : processingTimers'[n].consumer = processingTimers[n].consumer
      /\ TimerTypes'
  BY <1>2, ClearedTimer
<1>6. ASSUME NEW n \in Retained, NEW c \in ConsumerIds, c = assignedConsumerId[n], Pending(n, c)
      PROVE  Pending(n, c)' \/ (n = m /\ c = k)
  BY <1>2, <1>5, <1>6 DEF Pending
<1>7. /\ UNCHANGED <<first, sent, partition, offset, assignedConsumerId, groupVars, processingLatencyMs, nextOffset>>
      /\ UNCHANGED <<experiment, suspendedTimers, toProduce, lessonVars>>
      /\ toProcess' \subseteq toProcess /\ DOMAIN processingTimers' \subseteq DOMAIN processingTimers
      /\ queue' \in Seq(Calls) /\ Process(m, k, commit)
  BY <1>1, <1>2, <1>5
<1> HIDE DEF k
<1> QED BY <1>4, <1>5, <1>6, <1>7, ProcessKeeps

(* The timers that are armed again are those of what consumers still have. *)
LEMMA EndExperimentKeeps == IInv /\ EndExperiment => IInv'
<1> SUFFICES ASSUME IInv, EndExperiment PROVE IInv'
  OBVIOUS
<1> DEFINE given == [m \in ToResume |-> assignedConsumerId[m]]
           before == [m \in ToResume |-> suspendedTimers[m].after]
<1>1. /\ WindowTypes /\ RecordTypes /\ GroupTypes /\ TimerTypes /\ LogTypes /\ BodyTypes /\ LessonTypes
      /\ processingLatencyMs \in Latencies /\ queue \in Seq(Calls)
  BY PartsOfTypeOK DEF IInv
<1>2. /\ experiment # Null /\ toProduce = 0 /\ toProcess = {}
      /\ processingTimers' = Schedule({}, given, before)
      /\ experiment' = Null /\ suspendedTimers' = NoTimers
      /\ completedExperimentIds' = completedExperimentIds \union {experiment}
      /\ traced' = IF Keyed(experiment) THEN {m \in Retained : sent - m < 3} ELSE traced
      /\ UNCHANGED <<first, sent, state, partition, offset, assignedConsumerId, active, crashed, owner, changes>>
      /\ UNCHANGED <<processingLatencyMs, queue, nextOffset, latestCommittedOffsets, processings, uncommitted>>
      /\ UNCHANGED <<scenarioId, toProduce, toProcess, experiments>>
  BY DEF EndExperiment, ExperimentContinues, messageVars, groupVars, outcomeVars
<1>3. Retained' = Retained /\ Retained \subseteq Messages
  BY <1>2, RetainedFacts DEF Retained
<1>4. ToResume \subseteq Retained /\ DOMAIN given = ToResume /\ \A m \in ToResume : given[m] = assignedConsumerId[m]
  BY DEF ToResume
<1>5. TypeOK /\ Givable(given, before)
  <2>1. ASSUME NEW m \in ToResume PROVE assignedConsumerId[m] \in ConsumerIds /\ m \notin suspendedTimers[m].after
    BY <1>1, <1>3, <1>4, <2>1 DEF RecordTypes, BodyTypes, ToResume
  <2> QED BY <1>3, <1>4, <2>1 DEF IInv, Givable
<1> HIDE DEF given, before
<1>6. Scheduled(processingTimers', {}, given)
  <2>1. Scheduled(Schedule({}, given, before), {}, given)
    BY <1>5, ScheduleFacts
  <2> QED BY <1>2, <2>1
<1>7. /\ DOMAIN processingTimers' = DOMAIN processingTimers \union ToResume
      /\ processingTimers' \in [DOMAIN processingTimers' -> Timers]
      /\ \A m \in DOMAIN processingTimers' : processingTimers'[m].after \subseteq DOMAIN processingTimers' \ {m}
      /\ \A m \in ToResume : processingTimers'[m].consumer = assignedConsumerId[m]
      /\ \A m \in DOMAIN processingTimers \ ToResume : processingTimers'[m].consumer = processingTimers[m].consumer
  BY <1>4, <1>6 DEF Scheduled
<1>8. TimerTypes'
  BY <1>1, <1>3, <1>4, <1>7 DEF TimerTypes
<1>9. BodyTypes'
  BY <1>1, <1>2 DEF BodyTypes, NoTimers
<1>10. LessonTypes'
  BY <1>1, <1>2, <1>3 DEF LessonTypes, BodyTypes
<1>11. TypeOK'
  <2>1. WindowTypes' /\ RecordTypes' /\ GroupTypes' /\ LogTypes'
    BY <1>1, <1>2, <1>3 DEF WindowTypes, RecordTypes, GroupTypes, LogTypes
  <2> QED BY <1>1, <1>2, <1>8, <1>9, <1>10, <2>1, PartsOfTypeOK
<1>12. Window' /\ StateOfMessages' /\ ProcessingsCounted' /\ KeyedAreFresh' /\ OwnersAreActive'
  BY <1>2 DEF IInv, Window, StateOfMessages, ProcessingsCounted, One, KeyedAreFresh, OwnersAreActive
<1>13. NoneWaits' /\ ProcessedIsHeld'
  BY <1>2, <1>3 DEF IInv, NoneWaits, ProcessedIsHeld
<1>14. ArmedForItsConsumer'
  BY <1>2, <1>7 DEF IInv, ArmedForItsConsumer
<1>15. ReceivedIsPending'
  <2> SUFFICES ASSUME NEW m \in Retained, state[m] = "received"
               PROVE  assignedConsumerId[m] \in Range(active) /\ Pending(m, assignedConsumerId[m])'
    BY <1>2, <1>3 DEF ReceivedIsPending, Pending
  <2>1. assignedConsumerId[m] \in Range(active) /\ Pending(m, assignedConsumerId[m])
    BY DEF IInv, ReceivedIsPending, Pending
  <2>2. assignedConsumerId[m] # NoConsumer
    <3>1. Range(active) \subseteq ConsumerIds
      BY <1>1 DEF GroupTypes, Range
    <3> QED BY <2>1, <3>1, IdsAssumption
  <2>3. CASE m \in DOMAIN processingTimers \union DOMAIN suspendedTimers
    <3>1. m \in DOMAIN processingTimers \/ m \in ToResume
      BY <2>2, <2>3 DEF ToResume
    <3>2. m \in DOMAIN processingTimers => processingTimers[m].consumer = assignedConsumerId[m]
      BY DEF IInv, ArmedForItsConsumer
    <3> QED BY <1>2, <1>7, <2>1, <3>1, <3>2 DEF Pending
  <2>4. CASE m \notin DOMAIN processingTimers \union DOMAIN suspendedTimers
    BY <1>2, <2>1, <2>4 DEF Pending
  <2> QED BY <2>3, <2>4
<1> QED BY <1>11, <1>12, <1>13, <1>14, <1>15 DEF IInv

(* Every step keeps the invariant. *)
LEMMA StepIInv == IInv /\ [Next]_vars => IInv'
<1> SUFFICES ASSUME IInv, [Next]_vars PROVE IInv'
  OBVIOUS
<1>1. CASE Produce
  BY <1>1, ProduceKeeps
<1>2. CASE \E p \in Partitions : Produced(p)
  BY <1>2, ProducedKeeps
<1>3. CASE \E m \in Messages : TimerFires(m)
  BY <1>3, TimerFiresKeeps
<1>4. CASE ProcessNext
  BY <1>4, ProcessNextKeeps
<1>5. CASE AddConsumer \/ \E k \in ConsumerIds : StopConsumer(k) \/ CrashConsumer(k)
  BY <1>5, GroupChangeKeeps
<1>6. CASE \E l \in Latencies : UpdateLatency(l)
  <2>1. changes' \in 0..MaxChanges /\ UNCHANGED <<bodyVars, lessonVars>>
    BY <1>6, RunChangesFacts DEF UpdateLatency, RunChanges
  <2> QED BY <1>6, <2>1, SettingsKeep DEF UpdateLatency
<1>7. CASE \E id \in Catalog!scenarioExperimentIds(scenarioId) : BeginExperiment(id)
  <2>1. scenarioId \in ScenarioIds
    BY DEF IInv, TypeOK
  <2> QED BY <1>7, <2>1, BeginExperimentKeeps DEF ExperimentIds
<1>8. CASE ExperimentAdds
  <2>1. Joins /\ changes' \in 0..MaxChanges /\ UNCHANGED <<bodyVars, lessonVars>>
    BY <1>8, PartsOfTypeOK DEF ExperimentAdds, IInv, GroupTypes
  <2> QED BY <2>1, JoinsKeeps
<1>9. CASE ExperimentProcesses
  BY <1>9, ExperimentProcessesKeeps
<1>10. CASE EndExperiment
  BY <1>10, EndExperimentKeeps
<1>11. CASE UNCHANGED vars
  <2>1. /\ UNCHANGED <<messageVars, groupVars, processingTimers, queue, nextOffset, outcomeVars, bodyVars, lessonVars>>
        /\ processingLatencyMs' \in Latencies /\ changes' \in 0..MaxChanges
    BY <1>11 DEF vars, groupVars, IInv, TypeOK
  <2> QED BY <2>1, SettingsKeep DEF groupVars
<1> QED BY <1>1, <1>2, <1>3, <1>4, <1>5, <1>6, <1>7, <1>8, <1>9, <1>10, <1>11 DEF Next

-----------------------------------------------------------------------------

(* The types hold: whatever is retained, armed or queued names messages and *)
(* consumers there are, and consumers that crashed are active no more.      *)
THEOREM SpecTypeOK == Spec => []TypeOK
<1>1. IInv => TypeOK
  BY DEF IInv
<1> QED BY InitIInv, StepIInv, <1>1, PTL DEF Spec

(* A message is processed once, whatever is delivered again, but for the one *)
(* that an experiment processed without a commit: when its consumer leaves,  *)
(* the next one processes it once more.                                      *)
THEOREM SpecReprocessedOnlyIfUncommitted == Spec => []ReprocessedOnlyIfUncommitted
<1>1. IInv => ReprocessedOnlyIfUncommitted
  BY DEF IInv, ProcessingsCounted, One, ReprocessedOnlyIfUncommitted
<1> QED BY InitIInv, StepIInv, <1>1, PTL DEF Spec

(* A message that waits is one whose partition has no consumer, whatever the *)
(* order of production, rebalancing and requeueing. What an experiment left  *)
(* without a commit is with a consumer of the group: whoever leaves has it   *)
(* taken back.                                                               *)
THEOREM SpecNothingStranded == Spec => []NothingStranded
<1>1. IInv => NothingStranded
  BY DEF IInv, NoneWaits, ProcessedIsHeld, NothingStranded
<1> QED BY InitIInv, StepIInv, <1>1, PTL DEF Spec

(* What a consumer has received will be processed: the consumer is still in  *)
(* the group, and a timer or a call of process() that names it is pending,   *)
(* however messages were taken back, delivered again and forgotten.          *)
THEOREM SpecReceivedIsPending == Spec => []ReceivedIsPending
<1>1. IInv => ReceivedIsPending
  BY DEF IInv
<1> QED BY InitIInv, StepIInv, <1>1, PTL DEF Spec
=============================================================================
