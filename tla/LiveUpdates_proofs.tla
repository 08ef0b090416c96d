--------------------------- MODULE LiveUpdates_proofs ---------------------------
(***************************************************************************)
(* Proofs about LiveUpdates, for any experiments, messages, limits of the  *)
(* history and loads.                                                      *)
(*                                                                         *)
(* First the server, whatever the client does: the history shows an        *)
(* experiment as a whole or as a failure, and a run that lives has its     *)
(* timers between experiments. The first needs what the buffer holds while *)
(* an experiment executes; the second what its checkpoint holds, as a      *)
(* failure goes back to that. Then the client, from what is shown of the   *)
(* server.                                                                 *)
(***************************************************************************)
EXTENDS LiveUpdates, FiniteSetTheorems, TLAPS

Mutations == [does : {"start", "produce", "process", "experiment"}, message : Nat]

\* The types, by the part of the state they are of.
StatusTypes ==
  /\ status \in {"running", "cleaning", "stopped", "gone"} /\ cleanupRequested \in BOOLEAN
  /\ sent \in Nat /\ experiments \in Nat
TimerTypes ==
  /\ producerStatus \in ProducerStates /\ producerTimer \in BOOLEAN
  /\ processingTimers \in SUBSET Messages
ScenarioTypes ==
  /\ messages \in [Messages -> MessageStates]
  /\ completedExperimentIds \in SUBSET ExperimentIds /\ progress \in Progress
CallTypes ==
  /\ mutations \in Seq(Mutations)
  /\ reserved \in ExperimentIds \union {Null} /\ experiment \in Experiments \union {Null}
HubTypes ==
  /\ buffer \in Seq(Events) \union {Null}
  /\ sequence \in Nat /\ events \in Seq(Events)
ServerTypes == StatusTypes /\ TimerTypes /\ ScenarioTypes /\ CallTypes /\ HubTypes

\* Does this call wait?
Queued(what) == \E i \in DOMAIN mutations : mutations[i] = what
Waits(m) == Queued([does |-> "process", message |-> m])
ExperimentCalls == {i \in DOMAIN mutations : mutations[i].does = "experiment"}

(* One experiment is under way or waits at a time, and it is reserved. *)
Reservation ==
  /\ reserved # Null <=> (experiment # Null \/ ExperimentCalls # {})
  /\ experiment # Null => ExperimentCalls = {}
  /\ \A i, j \in ExperimentCalls : i = j

(* The events of an experiment are kept back, unless a cleanup has begun. *)
Buffering ==
  /\ buffer # Null <=> (experiment # Null /\ ~cleanupRequested)
  /\ ~cleanupRequested => status = "running"

\* A message that was received has a timer, or a call of process() waits.
HaveTimers(state, armed) == \A m \in Messages : state[m] = "received" => m \in armed \/ Waits(m)

(* Between experiments a run has its timers; during one, those it suspended *)
(* and the calls that wait are enough for what the checkpoint holds, and    *)
(* with those armed since for what there is now.                            *)
TimersKept ==
  ~cleanupRequested =>
    IF experiment = Null
    THEN /\ producerTimer <=> (producerStatus = "running")
         /\ progress # Null /\ progress.status # "running"
         /\ HaveTimers(messages, processingTimers)
    ELSE /\ HaveTimers(experiment.checkpoint.messages, experiment.checkpoint.pendingProcessingMessageIds)
         /\ HaveTimers(messages, processingTimers \union experiment.checkpoint.pendingProcessingMessageIds)

-----------------------------------------------------------------------------
(* The history *)

\* The events of number are those from a to b, and tell how it ended.
Block(s, number, a, b) ==
  /\ \A i \in DOMAIN s : s[i].of = number <=> a <= i /\ i <= b
  /\ s[b].type \in {"completed", "failed"}
  /\ s[b].type = "failed" => a = b
  /\ s[b].type = "completed" => s[a].type = "started" \/ (a = 1 /\ Len(s) = EventHistoryLimit)

Whole(s) == \A j \in DOMAIN s : s[j].of # 0 => \E a, b \in DOMAIN s : a <= b /\ Block(s, s[j].of, a, b)

\* What can be added to a history that is whole.
Addable(payloads) ==
  \/ \A i \in DOMAIN payloads : payloads[i].of = 0
  \/ /\ payloads # <<>>
     /\ \A i \in DOMAIN payloads : payloads[i].of = payloads[1].of
     /\ payloads[1].of # 0
     /\ \A j \in DOMAIN events : events[j].of # payloads[1].of
     /\ \/ Len(payloads) = 1 /\ payloads[1].type = "failed"
        \/ payloads[1].type = "started" /\ payloads[Len(payloads)].type = "completed"

(* What the history holds, and the buffer of the experiment under way. *)
History ==
  /\ Len(events) <= EventHistoryLimit /\ Whole(events)
  /\ \A j \in DOMAIN events : events[j].of <= experiments
  /\ experiment # Null => /\ experiment.number = experiments /\ experiments > 0
                          /\ \A j \in DOMAIN events : events[j].of < experiments
  /\ buffer # Null => /\ buffer # <<>> /\ buffer[1].type = "started"
                      /\ \A j \in DOMAIN buffer : buffer[j].of = experiments

ServerInv == ServerTypes /\ Reservation /\ Buffering /\ TimersKept /\ History

(* The last elements of a sequence are those from some place on. *)
LEMMA LastOfFacts ==
  ASSUME NEW S, NEW s \in Seq(S), NEW limit \in Nat \ {0}
  PROVE  LET k == IF Len(s) > limit THEN Len(s) - limit ELSE 0 IN
         /\ k \in Nat /\ Len(s) \in Nat /\ k <= Len(s)
         /\ LastOf(s, limit) \in Seq(S) /\ Len(LastOf(s, limit)) = Len(s) - k
         /\ DOMAIN LastOf(s, limit) = 1..(Len(s) - k)
         /\ \A i \in 1..(Len(s) - k) : LastOf(s, limit)[i] = s[i + k]
         /\ k > 0 => Len(s) - k = limit
<1> DEFINE k == IF Len(s) > limit THEN Len(s) - limit ELSE 0
<1>1. /\ k \in Nat /\ Len(s) \in Nat /\ k <= Len(s)
      /\ k > 0 => Len(s) - k = limit
      /\ (IF Len(s) > limit THEN Len(s) - limit + 1 ELSE 1) = k + 1
  OBVIOUS
<1> HIDE DEF k
<1>2. LastOf(s, limit) = SubSeq(s, k + 1, Len(s))
  BY <1>1 DEF LastOf
<1>3. \A i \in (k + 1)..Len(s) : i \in 1..Len(s)
  BY <1>1
<1>4. /\ LastOf(s, limit) \in Seq(S) /\ Len(LastOf(s, limit)) = Len(s) - k
      /\ \A i \in 1..(Len(s) - k) : LastOf(s, limit)[i] = s[i + k]
  BY <1>1, <1>2, <1>3
<1>5. DOMAIN LastOf(s, limit) = 1..(Len(s) - k)
  BY <1>4
<1> QED BY <1>1, <1>4, <1>5 DEF k

(* The events that are emitted are numbered and added to the history. *)
LEMMA EmitAllFacts ==
  ASSUME NEW payloads \in Seq(Events), sequence \in Nat, events \in Seq(Events), EmitAll(payloads)
  PROVE  \E numbered \in Seq(Events) :
           /\ Len(numbered) = Len(payloads)
           /\ \A i \in 1..Len(payloads) : /\ numbered[i].type = payloads[i].type /\ numbered[i].of = payloads[i].of
                                          /\ numbered[i].sequence = sequence + i
           /\ events' = LastOf(events \o numbered, EventHistoryLimit)
           /\ sequence' = sequence + Len(payloads) /\ sequence' \in Nat
           /\ stream' = IF subscribed THEN stream \o [i \in 1..Len(payloads) |-> EventItem(numbered[i])] ELSE stream
<1> DEFINE numbered == [i \in DOMAIN payloads |-> [payloads[i] EXCEPT !.sequence = sequence + i]]
<1>1. Len(payloads) \in Nat /\ DOMAIN payloads = 1..Len(payloads) /\ \A i \in 1..Len(payloads) : payloads[i] \in Events
  OBVIOUS
<1>2. ASSUME NEW i \in 1..Len(payloads)
      PROVE  /\ numbered[i] \in Events /\ numbered[i].type = payloads[i].type /\ numbered[i].of = payloads[i].of
             /\ numbered[i].sequence = sequence + i
  <2>1. numbered[i] = [payloads[i] EXCEPT !.sequence = sequence + i] /\ sequence + i \in Nat
    BY <1>1
  <2> HIDE DEF numbered
  <2> QED BY <1>1, <2>1 DEF Events
<1>3. DOMAIN numbered = 1..Len(payloads)
  BY <1>1
<1>4. /\ events' = LastOf(events \o numbered, EventHistoryLimit)
      /\ sequence' = sequence + Len(payloads)
      /\ stream' = IF subscribed THEN stream \o [i \in DOMAIN numbered |-> EventItem(numbered[i])] ELSE stream
  BY DEF EmitAll
<1>5. numbered = [i \in 1..Len(payloads) |-> numbered[i]]
  BY <1>1
<1> HIDE DEF numbered
<1>6. numbered \in Seq(Events) /\ Len(numbered) = Len(payloads)
  BY <1>1, <1>2, <1>5
<1>7. stream' = IF subscribed THEN stream \o [i \in 1..Len(payloads) |-> EventItem(numbered[i])] ELSE stream
  BY <1>3, <1>4
<1>8. sequence' \in Nat
  BY <1>1, <1>4
<1> QED BY <1>2, <1>4, <1>6, <1>7, <1>8

(* A history that is whole stays so when something addable is added, and when *)
(* its oldest events are forgotten.                                           *)
LEMMA HistoryGrows ==
  ASSUME NEW numbered \in Seq(Events), Addable(numbered), events \in Seq(Events), Whole(events),
         Len(events) <= EventHistoryLimit
  PROVE  LET history == LastOf(events \o numbered, EventHistoryLimit) IN
         /\ history \in Seq(Events) /\ Whole(history) /\ Len(history) <= EventHistoryLimit
         /\ \A j \in DOMAIN history : \/ \E i \in DOMAIN events : history[j].of = events[i].of
                                      \/ \E i \in DOMAIN numbered : history[j].of = numbered[i].of
<1> DEFINE all == events \o numbered
           n == Len(events)
           d == Len(numbered)
           limit == EventHistoryLimit
           k == IF Len(all) > limit THEN Len(all) - limit ELSE 0
           history == LastOf(all, limit)
<1>1. /\ n \in Nat /\ d \in Nat /\ limit \in Nat \ {0} /\ DOMAIN events = 1..n /\ DOMAIN numbered = 1..d
      /\ all \in Seq(Events) /\ Len(all) = n + d
      /\ \A i \in 1..n : all[i] = events[i]
      /\ \A i \in 1..d : all[n + i] = numbered[i]
  BY LimitsAssumption
<1> HIDE DEF all, n, d, limit
<1>2. /\ k \in Nat /\ k <= n + d /\ history \in Seq(Events) /\ Len(history) = n + d - k /\ DOMAIN history = 1..(n + d - k)
      /\ \A i \in 1..(n + d - k) : history[i] = all[i + k]
      /\ k > 0 => n + d - k = limit
      /\ n + d - k <= limit
  <2>1. LET kk == IF Len(all) > limit THEN Len(all) - limit ELSE 0 IN
         /\ kk \in Nat /\ Len(all) \in Nat /\ kk <= Len(all)
         /\ LastOf(all, limit) \in Seq(Events) /\ Len(LastOf(all, limit)) = Len(all) - kk
         /\ DOMAIN LastOf(all, limit) = 1..(Len(all) - kk)
         /\ \A i \in 1..(Len(all) - kk) : LastOf(all, limit)[i] = all[i + kk]
         /\ kk > 0 => Len(all) - kk = limit
    BY <1>1, LastOfFacts, Zenon
  <2> QED BY <1>1, <2>1
<1>3. n <= limit
  BY DEF n, limit
<1> HIDE DEF k, history
<1>4. ASSUME NEW i \in 1..(n + d) PROVE i \in 1..n \/ (i - n \in 1..d /\ n + (i - n) = i)
  BY <1>1
<1>5. ASSUME NEW j \in 1..(n + d - k)
      PROVE  \/ j + k \in 1..n /\ history[j] = events[j + k]
             \/ j + k - n \in 1..d /\ history[j] = numbered[j + k - n]
  <2>1. j + k \in 1..(n + d) /\ history[j] = all[j + k]
    BY <1>1, <1>2
  <2>2. CASE j + k \in 1..n
    BY <1>1, <2>1, <2>2
  <2>3. CASE j + k - n \in 1..d /\ n + (j + k - n) = j + k
    <3>1. all[n + (j + k - n)] = numbered[j + k - n]
      BY <1>1, <2>3
    <3> QED BY <2>1, <2>3, <3>1
  <2>4. j + k \in 1..n \/ (j + k - n \in 1..d /\ n + (j + k - n) = j + k)
    BY <1>1, <1>2, <2>1
  <2> QED BY <2>2, <2>3, <2>4
<1>6. ASSUME NEW number \in Nat \ {0}, NEW a \in 1..(n + d), NEW b \in 1..(n + d), a <= b,
             \A i \in 1..(n + d) : all[i].of = number <=> a <= i /\ i <= b,
             all[b].type \in {"completed", "failed"}, all[b].type = "failed" => a = b,
             all[b].type = "completed" => all[a].type = "started" \/ (a = 1 /\ (k > 0 \/ n + d = limit)),
             NEW j \in 1..(n + d - k), history[j].of = number
      PROVE  \E aa, bb \in 1..(n + d - k) : aa <= bb /\ Block(history, number, aa, bb)
  <2> DEFINE aa == IF a > k THEN a - k ELSE 1
             bb == b - k
  <2>1. j + k \in 1..(n + d) /\ a <= j + k /\ j + k <= b
    BY <1>1, <1>2, <1>6
  <2>2. aa \in 1..(n + d - k) /\ bb \in 1..(n + d - k) /\ aa <= bb /\ bb + k = b /\ (a > k => aa + k = a)
    BY <1>1, <1>2, <1>6, <2>1
  <2>3. ASSUME NEW i \in 1..(n + d - k) PROVE history[i].of = number <=> aa <= i /\ i <= bb
    <3>1. i + k \in 1..(n + d) /\ history[i] = all[i + k]
      BY <1>1, <1>2
    <3>2. history[i].of = number <=> a <= i + k /\ i + k <= b
      BY <1>6, <3>1
    <3>3. k \in Nat /\ i \in Nat \ {0} /\ a \in Nat /\ b \in Nat
      BY <1>1, <1>2
    <3>4. (a <= i + k <=> aa <= i) /\ (i + k <= b <=> i <= bb)
      BY <3>3
    <3> QED BY <3>2, <3>4
  <2>4. history[bb] = all[b] /\ (a > k => history[aa] = all[a])
    BY <1>2, <2>2
  <2>5. history[bb].type = "failed" => aa = bb
    BY <1>6, <2>1, <2>2, <2>4, <1>1, <1>2
  <2>6. history[bb].type = "completed" => history[aa].type = "started" \/ (aa = 1 /\ Len(history) = limit)
    <3>1. CASE a > k /\ all[a].type = "started"
      BY <2>4, <3>1
    <3>2. CASE ~(a > k)
      BY <1>1, <1>2, <1>6, <3>2
    <3>3. CASE a = 1 /\ a > k /\ n + d = limit
      BY <1>1, <1>2, <3>3
    <3> QED BY <1>1, <1>2, <1>6, <2>4, <3>1, <3>2, <3>3
  <2>7. Block(history, number, aa, bb)
    BY <1>2, <1>6, <2>3, <2>4, <2>5, <2>6 DEF Block, limit
  <2> QED BY <2>2, <2>7
<1>7. Whole(history)
  <2> SUFFICES ASSUME NEW j \in 1..(n + d - k), history[j].of # 0
               PROVE  \E aa, bb \in 1..(n + d - k) : aa <= bb /\ Block(history, history[j].of, aa, bb)
    BY <1>2 DEF Whole
  <2> DEFINE number == history[j].of
  <2>1. number \in Nat \ {0}
    <3>1. history[j] \in Events
      BY <1>2
    <3> QED BY <3>1 DEF Events
  <2>2. CASE j + k \in 1..n /\ history[j] = events[j + k]
    <3>1. PICK a \in 1..n, b \in 1..n : a <= b /\ Block(events, number, a, b)
      BY <1>1, <2>1, <2>2 DEF Whole
    <3>2. /\ \A i \in 1..n : events[i].of = number <=> a <= i /\ i <= b
          /\ events[b].type \in {"completed", "failed"} /\ (events[b].type = "failed" => a = b)
          /\ events[b].type = "completed" => events[a].type = "started" \/ (a = 1 /\ n = limit)
      BY <1>1, <3>1 DEF Block, n, limit
    <3>3. ASSUME NEW i \in 1..d PROVE numbered[i].of # number
      <4>1. numbered[i].of = 0 \/ (events[j + k].of # numbered[1].of /\ numbered[i].of = numbered[1].of)
        BY <1>1, <2>2 DEF Addable
      <4> QED BY <2>1, <2>2, <4>1
    <3>4. ASSUME NEW i \in 1..(n + d) PROVE all[i].of = number <=> a <= i /\ i <= b
      <4>1. CASE i \in 1..n
        BY <1>1, <3>2, <4>1
      <4>2. CASE i - n \in 1..d /\ n + (i - n) = i
        <5>1. all[i] = numbered[i - n] /\ i > n
          BY <1>1, <4>2
        <5> QED BY <1>1, <3>3, <4>2, <5>1
      <4> QED BY <1>4, <4>1, <4>2
    <3>5. a \in 1..(n + d) /\ b \in 1..(n + d) /\ all[a] = events[a] /\ all[b] = events[b]
      BY <1>1
    <3>6. n = limit => k > 0 \/ n + d = limit
      BY <1>1, <1>2
    <3> HIDE DEF number
    <3>7. history[j].of = number
      BY DEF number
    <3> QED BY <1>6, <2>1, <3>1, <3>2, <3>4, <3>5, <3>6, <3>7
  <2>3. CASE j + k - n \in 1..d /\ history[j] = numbered[j + k - n]
    <3>1. /\ d > 0 /\ 1 \in 1..d /\ d \in 1..d
          /\ \A i \in 1..d : numbered[i].of = number
          /\ \A i \in 1..n : events[i].of # number
          /\ \/ d = 1 /\ numbered[1].type = "failed"
             \/ numbered[1].type = "started" /\ numbered[d].type = "completed"
      <4>1. numbered[j + k - n].of = number
        BY <2>3
      <4>2. /\ numbered # <<>> /\ \A i \in 1..d : numbered[i].of = numbered[1].of
            /\ \A i \in 1..n : events[i].of # numbered[1].of
            /\ \/ d = 1 /\ numbered[1].type = "failed"
               \/ numbered[1].type = "started" /\ numbered[d].type = "completed"
        BY <1>1, <2>1, <2>3, <4>1 DEF Addable, d
      <4>3. numbered[1].of = number
        BY <2>3, <4>1, <4>2
      <4>4. d > 0 /\ 1 \in 1..d /\ d \in 1..d
        BY <1>1, <2>3
      <4> HIDE DEF number
      <4> QED BY <4>2, <4>3, <4>4
    <3> DEFINE a == n + 1
               b == n + d
    <3>2. a \in 1..(n + d) /\ b \in 1..(n + d) /\ a <= b /\ all[a] = numbered[1] /\ all[b] = numbered[d]
      BY <1>1, <3>1
    <3>3. ASSUME NEW i \in 1..(n + d) PROVE all[i].of = number <=> a <= i /\ i <= b
      <4>1. CASE i \in 1..n
        BY <1>1, <3>1, <4>1
      <4>2. CASE i - n \in 1..d /\ n + (i - n) = i
        <5>1. all[i] = numbered[i - n] /\ i > n
          BY <1>1, <4>2
        <5> QED BY <1>1, <3>1, <4>2, <5>1
      <4> QED BY <1>4, <4>1, <4>2
    <3>4. d = 1 => a = b
      OBVIOUS
    <3> HIDE DEF number, a, b
    <3>5. history[j].of = number
      BY DEF number
    <3> QED BY <1>6, <2>1, <3>1, <3>2, <3>3, <3>4, <3>5
  <2> QED BY <1>5, <2>2, <2>3
<1>8. \A j \in DOMAIN history : \/ \E i \in DOMAIN events : history[j].of = events[i].of
                                \/ \E i \in DOMAIN numbered : history[j].of = numbered[i].of
  BY <1>1, <1>2, <1>5
<1>9. Len(history) <= EventHistoryLimit
  BY <1>2 DEF limit
<1> QED BY <1>2, <1>7, <1>8, <1>9 DEF history, all, limit

\* The events of the run itself.
OrdinaryTypes == {"producer.started", "message.received", "offset.committed", "cleanup_started", "stopped"}

(* So does one to which events of no experiment are added, *)
LEMMA OrdinaryKeeps ==
  ASSUME HubTypes, History, experiments \in Nat, NEW type \in OrdinaryTypes, EmitAll(<<Event(type, 0)>>),
         UNCHANGED <<experiment, experiments, buffer>>
  PROVE  HubTypes' /\ History'
<1> DEFINE payloads == <<Event(type, 0)>>
<1>1. payloads \in Seq(Events) /\ Len(payloads) = 1 /\ payloads[1].of = 0
  BY DEF Event, Events, OrdinaryTypes
<1> HIDE DEF payloads
<1>2. PICK numbered \in Seq(Events) :
        /\ Len(numbered) = 1 /\ numbered[1].of = 0
        /\ events' = LastOf(events \o numbered, EventHistoryLimit)
        /\ sequence' \in Nat
  <2>1. EmitAll(payloads)
    BY DEF payloads
  <2> QED BY <1>1, <2>1, EmitAllFacts DEF HubTypes
<1>3. DOMAIN numbered = {1}
  BY <1>2
<1>4. Addable(numbered)
  BY <1>2, <1>3 DEF Addable
<1>5. /\ events' \in Seq(Events) /\ Whole(events') /\ Len(events') <= EventHistoryLimit
      /\ \A j \in DOMAIN events' : \/ \E i \in DOMAIN events : events'[j].of = events[i].of
                                   \/ \E i \in DOMAIN numbered : events'[j].of = numbered[i].of
  BY <1>2, <1>4, HistoryGrows DEF HubTypes, History
<1>6. HubTypes'
  BY <1>2, <1>5 DEF HubTypes
<1>7. History'
  BY <1>2, <1>3, <1>5 DEF History
<1> QED BY <1>6, <1>7

(* or to the buffer. *)
LEMMA EmitKeeps ==
  ASSUME HubTypes, History, experiments \in Nat, CallTypes, Buffering, NEW type \in OrdinaryTypes, Emit(type),
         UNCHANGED <<experiment, experiments>>
  PROVE  HubTypes' /\ History' /\ (buffer' # Null <=> buffer # Null)
<1>1. CASE cleanupRequested
  BY <1>1 DEF Emit, hubVars, HubTypes, History, Whole, Block
<1>2. CASE ~cleanupRequested /\ buffer # Null
  <2> DEFINE event == Event(type, experiment.number)
  <2>1. experiment # Null /\ experiment.number = experiments
    BY <1>2 DEF Buffering, History
  <2>2. event \in Events /\ event.of = experiments
    BY <2>1 DEF Event, Events, OrdinaryTypes
  <2> HIDE DEF event
  <2>3. buffer \in Seq(Events) /\ buffer' = Append(buffer, event) /\ UNCHANGED <<sequence, events>>
    BY <1>2 DEF Emit, HubTypes, hubVars, event
  <2>4. /\ buffer' \in Seq(Events) /\ Len(buffer') = Len(buffer) + 1 /\ buffer' # <<>>
        /\ Len(buffer) \in Nat /\ DOMAIN buffer' = 1..(Len(buffer) + 1)
        /\ \A j \in 1..Len(buffer) : buffer'[j] = buffer[j]
        /\ buffer'[Len(buffer) + 1] = event
    BY <2>2, <2>3
  <2>5. buffer # <<>> /\ buffer[1].type = "started" /\ \A j \in 1..Len(buffer) : buffer[j].of = experiments
    BY <1>2, <2>3 DEF History
  <2>6. buffer'[1] = buffer[1] /\ \A j \in 1..(Len(buffer) + 1) : buffer'[j].of = experiments
    BY <2>2, <2>3, <2>4, <2>5
  <2>7. History'
    BY <2>3, <2>4, <2>5, <2>6 DEF History, Whole, Block
  <2> QED BY <1>2, <2>3, <2>4, <2>7, NullAssumption DEF HubTypes
<1>3. CASE ~cleanupRequested /\ buffer = Null
  <2>1. EmitAll(<<Event(type, 0)>>) /\ buffer' = buffer
    BY <1>3 DEF Emit, EmitNow
  <2> QED BY <2>1, OrdinaryKeeps
<1> QED BY <1>1, <1>2, <1>3

-----------------------------------------------------------------------------
(* Calls *)

(* A call that is made waits after the others. *)
LEMMA CallFacts ==
  ASSUME mutations \in Seq(Mutations), NEW what \in Mutations, Call(what)
  PROVE  /\ mutations' \in Seq(Mutations)
         /\ \A other : Queued(other) => Queued(other)'
         /\ Queued(what)'
         /\ ExperimentCalls' = IF what.does = "experiment" THEN ExperimentCalls \union {Len(mutations) + 1} ELSE ExperimentCalls
<1> DEFINE n == Len(mutations)
<1>1. /\ n \in Nat /\ mutations' \in Seq(Mutations) /\ DOMAIN mutations' = 1..(n + 1) /\ DOMAIN mutations = 1..n
      /\ mutations'[n + 1] = what /\ \A i \in 1..n : mutations'[i] = mutations[i]
  BY DEF Call
<1>2. 1..(n + 1) = (1..n) \union {n + 1} /\ n + 1 \notin 1..n
  BY <1>1
<1> HIDE DEF n
<1>3. \A other : Queued(other) => Queued(other)'
  BY <1>1, <1>2 DEF Queued
<1>4. Queued(what)'
  BY <1>1, <1>2 DEF Queued
<1>5. ExperimentCalls' = IF what.does = "experiment" THEN ExperimentCalls \union {n + 1} ELSE ExperimentCalls
  BY <1>1, <1>2 DEF ExperimentCalls
<1> QED BY <1>1, <1>3, <1>4, <1>5 DEF n

(* A call whose turn it is waits no more, and the others do. *)
LEMMA TurnFacts ==
  ASSUME mutations \in Seq(Mutations), NEW what, Turn(what)
  PROVE  /\ mutations' \in Seq(Mutations) /\ experiment = Null /\ Queued(what)
         /\ \A other : Queued(other) => Queued(other)' \/ other = what
         /\ what.does # "experiment" => (ExperimentCalls' # {} <=> ExperimentCalls # {})
         /\ what.does = "experiment" => ExperimentCalls # {}
         /\ (\A i, j \in ExperimentCalls : i = j) =>
              /\ \A i, j \in ExperimentCalls' : i = j
              /\ what.does = "experiment" => ExperimentCalls' = {}
<1> DEFINE n == Len(mutations)
<1>1. /\ n \in Nat \ {0} /\ mutations' \in Seq(Mutations) /\ DOMAIN mutations' = 1..(n - 1) /\ DOMAIN mutations = 1..n
      /\ mutations[1] = what /\ \A i \in 1..(n - 1) : mutations'[i] = mutations[i + 1]
      /\ experiment = Null
  BY DEF Turn
<1> HIDE DEF n
<1>2. /\ \A i \in 1..n : i = 1 \/ (i - 1 \in 1..(n - 1) /\ (i - 1) + 1 = i /\ i # 1)
      /\ \A i \in 1..(n - 1) : i + 1 \in 1..n /\ i + 1 # 1
      /\ 1 \in 1..n
  BY <1>1
<1>3. \A i \in 1..n : i = 1 \/ (i - 1 \in 1..(n - 1) /\ mutations'[i - 1] = mutations[i])
  <2> TAKE i \in 1..n
  <2>1. CASE i # 1
    <3>1. i - 1 \in 1..(n - 1) /\ (i - 1) + 1 = i
      BY <1>2, <2>1
    <3> QED BY <1>1, <3>1
  <2> QED BY <2>1
<1>4. Queued(what) /\ \A other : Queued(other) => Queued(other)' \/ other = what
  BY <1>1, <1>2, <1>3 DEF Queued
<1>5. /\ \A i \in ExperimentCalls : i = 1 \/ i - 1 \in ExperimentCalls'
      /\ \A i \in ExperimentCalls' : i \in 1..(n - 1) /\ i + 1 \in ExperimentCalls
      /\ 1 \in ExperimentCalls <=> what.does = "experiment"
  BY <1>1, <1>2, <1>3 DEF ExperimentCalls
<1>6. what.does # "experiment" => (ExperimentCalls' # {} <=> ExperimentCalls # {})
  BY <1>5
<1>7. ASSUME \A i, j \in ExperimentCalls : i = j
      PROVE  /\ \A i, j \in ExperimentCalls' : i = j
             /\ what.does = "experiment" => ExperimentCalls' = {}
  <2>1. ASSUME NEW i \in ExperimentCalls', NEW j \in ExperimentCalls' PROVE i = j
    <3>1. i \in Int /\ j \in Int /\ i + 1 = j + 1
      BY <1>5, <1>7
    <3> QED BY <3>1
  <2>2. ASSUME what.does = "experiment", NEW i \in ExperimentCalls' PROVE FALSE
    <3>1. i \in 1..(n - 1) /\ i + 1 = 1
      BY <1>5, <1>7, <2>2
    <3> QED BY <1>1, <3>1
  <2> QED BY <2>1, <2>2
<1> QED BY <1>1, <1>4, <1>5, <1>6, <1>7

(* What concerns no experiment leaves the reservation alone. *)
LEMMA ReservationKept ==
  ASSUME Reservation, mutations \in Seq(Mutations), UNCHANGED <<reserved, experiment>>,
         \/ UNCHANGED mutations
         \/ \E what \in Mutations : what.does # "experiment" /\ (Call(what) \/ Turn(what))
  PROVE  Reservation'
<1>1. CASE UNCHANGED mutations
  BY <1>1 DEF Reservation, ExperimentCalls
<1>2. ASSUME NEW what \in Mutations, what.does # "experiment", Call(what) PROVE Reservation'
  BY <1>2, CallFacts DEF Reservation
<1>3. ASSUME NEW what \in Mutations, what.does # "experiment", Turn(what) PROVE Reservation'
  <2>1. /\ ExperimentCalls' # {} <=> ExperimentCalls # {}
        /\ \A i, j \in ExperimentCalls' : i = j
        /\ experiment = Null
    BY <1>3, TurnFacts DEF Reservation
  <2> QED BY <2>1 DEF Reservation
<1> QED BY <1>1, <1>2, <1>3

(* Timers that are armed and messages that wait stay, as do the calls. *)
LEMMA TimersUndisturbed ==
  ASSUME TimersKept, \A m \in Messages : Waits(m) => Waits(m)',
         UNCHANGED <<cleanupRequested, messages, timerVars, experiment, progress>>
  PROVE  TimersKept'
BY DEF TimersKept, HaveTimers, timerVars

-----------------------------------------------------------------------------
(* Steps that leave the experiments alone *)

(* A step that leaves the server's run alone keeps the invariant. *)
LEMMA OthersKeep ==
  ASSUME ServerInv, UNCHANGED <<runVars, sequence, events>>
  PROVE  ServerInv'
<1>1. /\ UNCHANGED <<status, cleanupRequested, messages, sent, producerStatus, producerTimer, processingTimers>>
      /\ UNCHANGED <<completedExperimentIds, progress, reserved, experiment, buffer, experiments, mutations, sequence, events>>
  BY DEF runVars, timerVars, scenarioVars
<1>2. ServerTypes'
  BY <1>1 DEF ServerInv, ServerTypes, StatusTypes, TimerTypes, ScenarioTypes, CallTypes, HubTypes
<1>3. Reservation' /\ Buffering'
  BY <1>1 DEF ServerInv, Reservation, Buffering, ExperimentCalls
<1>4. TimersKept'
  BY <1>1 DEF ServerInv, TimersKept, HaveTimers, Waits, Queued
<1>5. History'
  BY <1>1 DEF ServerInv, History, Whole, Block
<1> QED BY <1>2, <1>3, <1>4, <1>5 DEF ServerInv

(* So does one that makes a call, other than of an experiment. *)
LEMMA CallKeeps ==
  ASSUME ServerInv, UNCHANGED mutations \/ \E what \in Mutations : what.does # "experiment" /\ Call(what),
         UNCHANGED <<hubVars, status, cleanupRequested, messages, sent, timerVars, scenarioVars>>
  PROVE  ServerInv'
<1>1. /\ UNCHANGED <<status, cleanupRequested, messages, sent, producerStatus, producerTimer, processingTimers>>
      /\ UNCHANGED <<completedExperimentIds, progress, reserved, experiment, buffer, experiments, sequence, events>>
  BY DEF timerVars, scenarioVars, hubVars
<1>2. mutations \in Seq(Mutations)
  BY DEF ServerInv, ServerTypes, CallTypes
<1>3. mutations' \in Seq(Mutations) /\ \A m \in Messages : Waits(m) => Waits(m)'
  BY <1>2, CallFacts DEF Waits, Queued
<1>4. ServerTypes'
  BY <1>1, <1>3 DEF ServerInv, ServerTypes, StatusTypes, TimerTypes, ScenarioTypes, CallTypes, HubTypes
<1>5. Reservation'
  BY <1>1, <1>2, ReservationKept DEF ServerInv
<1>6. TimersKept'
  BY <1>1, <1>3, TimersUndisturbed DEF ServerInv, timerVars
<1>7. Buffering' /\ History'
  BY <1>1 DEF ServerInv, Buffering, History, Whole, Block
<1> QED BY <1>4, <1>5, <1>6, <1>7 DEF ServerInv

LEMMA AskStartProducerKeeps == ServerInv /\ AskStartProducer => ServerInv'
<1> SUFFICES ASSUME ServerInv, AskStartProducer PROVE ServerInv'
  OBVIOUS
<1>1. [does |-> "start", message |-> 0] \in Mutations
  BY DEF Mutations
<1> QED BY <1>1, CallKeeps DEF AskStartProducer

LEMMA ProducerTickKeeps == ServerInv /\ ProducerTick => ServerInv'
<1> SUFFICES ASSUME ServerInv, ProducerTick PROVE ServerInv'
  OBVIOUS
<1>1. [does |-> "produce", message |-> 0] \in Mutations
  BY DEF Mutations
<1> QED BY <1>1, CallKeeps DEF ProducerTick

(* A timer that fires leaves a call of process(), unless the run is about to end. *)
LEMMA ProcessingTimerFiresKeeps ==
  ASSUME ServerInv, NEW m \in Messages, ProcessingTimerFires(m)
  PROVE  ServerInv'
<1> DEFINE what == [does |-> "process", message |-> m]
<1>1. /\ processingTimers' = processingTimers \ {m}
      /\ UNCHANGED <<status, cleanupRequested, messages, sent, producerStatus, producerTimer>>
      /\ UNCHANGED <<completedExperimentIds, progress, reserved, experiment, buffer, experiments, sequence, events>>
      /\ IF Refused THEN UNCHANGED mutations ELSE Call(what)
  BY DEF ProcessingTimerFires, scenarioVars, hubVars
<1>2. what \in Mutations /\ what.does # "experiment" /\ mutations \in Seq(Mutations)
  BY MessagesAssumption DEF Mutations, Messages, ServerInv, ServerTypes, CallTypes
<1>3. /\ mutations' \in Seq(Mutations) /\ (~Refused => Queued(what)')
      /\ \A n \in Messages : Waits(n) => Waits(n)'
  <2> HIDE DEF what
  <2>1. CASE Refused
    BY <1>1, <1>2, <2>1 DEF Waits, Queued
  <2>2. CASE ~Refused
    BY <1>1, <1>2, <2>2, CallFacts DEF Waits
  <2> QED BY <2>1, <2>2
<1>4. ServerTypes'
  BY <1>1, <1>3 DEF ServerInv, ServerTypes, StatusTypes, TimerTypes, ScenarioTypes, CallTypes, HubTypes
<1>5. Reservation'
  <2> HIDE DEF what
  <2> QED BY <1>1, <1>2, ReservationKept DEF ServerInv
<1>6. TimersKept'
  <2> SUFFICES ASSUME ~cleanupRequested PROVE TimersKept'
    BY <1>1 DEF TimersKept
  <2>1. ~Refused
    BY DEF ServerInv, Buffering, Refused
  <2>2. Waits(m)'
    BY <1>3, <2>1 DEF Waits
  <2>3. TimersKept
    BY DEF ServerInv
  <2>4. CASE experiment = Null
    BY <1>1, <1>3, <2>2, <2>3, <2>4 DEF TimersKept, HaveTimers
  <2>5. CASE experiment # Null
    BY <1>1, <1>3, <2>2, <2>3, <2>5 DEF TimersKept, HaveTimers
  <2> QED BY <2>4, <2>5
<1>7. Buffering' /\ History'
  BY <1>1 DEF ServerInv, Buffering, History, Whole, Block
<1> QED BY <1>4, <1>5, <1>6, <1>7 DEF ServerInv

LEMMA StartProducerKeeps == ServerInv /\ StartProducer => ServerInv'
<1> SUFFICES ASSUME ServerInv, StartProducer PROVE ServerInv'
  OBVIOUS
<1> DEFINE what == [does |-> "start", message |-> 0]
<1>1. /\ UNCHANGED <<status, cleanupRequested, messages, sent, processingTimers>>
      /\ UNCHANGED <<completedExperimentIds, progress, reserved, experiment, experiments>>
      /\ Turn(what)
      /\ \/ UNCHANGED <<producerStatus, producerTimer, buffer, hubVars>>
         \/ producerStatus' = "running" /\ producerTimer' = TRUE /\ Emit("producer.started")
  BY DEF StartProducer
<1>2. what \in Mutations /\ what.does # "experiment" /\ mutations \in Seq(Mutations)
  BY DEF Mutations, ServerInv, ServerTypes, CallTypes
<1>3. mutations' \in Seq(Mutations) /\ experiment = Null /\ \A n \in Messages : Waits(n) => Waits(n)'
  BY <1>1, <1>2, TurnFacts DEF Waits
<1> HIDE DEF what
<1>4. HubTypes' /\ History' /\ (buffer' # Null <=> buffer # Null)
  <2>1. CASE UNCHANGED <<buffer, hubVars>>
    BY <1>1, <2>1 DEF ServerInv, ServerTypes, HubTypes, History, Whole, Block, hubVars
  <2>2. CASE Emit("producer.started")
    BY <1>1, <2>2, EmitKeeps DEF ServerInv, ServerTypes, StatusTypes, OrdinaryTypes
  <2> QED BY <1>1, <2>1, <2>2
<1>5. ServerTypes'
  BY <1>1, <1>3, <1>4 DEF ServerInv, ServerTypes, StatusTypes, TimerTypes, ScenarioTypes, CallTypes, ProducerStates
<1>6. Reservation'
  BY <1>1, <1>2, ReservationKept DEF ServerInv
<1>7. TimersKept'
  BY <1>1, <1>3 DEF ServerInv, TimersKept, HaveTimers
<1>8. Buffering'
  BY <1>1, <1>4 DEF ServerInv, Buffering
<1> QED BY <1>4, <1>5, <1>6, <1>7, <1>8 DEF ServerInv

(* A message that is received gets its timer. *)
LEMMA ReceivedFacts ==
  ASSUME ScenarioTypes, TimerTypes, StatusTypes, Received
  PROVE  /\ messages' \in [Messages -> MessageStates] /\ processingTimers' \in SUBSET Messages /\ sent' \in Nat
         /\ processingTimers \subseteq processingTimers'
         /\ \A m \in Messages : messages'[m] = "received" => messages[m] = "received" \/ m \in processingTimers'
BY DEF ScenarioTypes, TimerTypes, StatusTypes, Received, MessageStates

LEMMA ProduceKeeps == ServerInv /\ Produce => ServerInv'
<1> SUFFICES ASSUME ServerInv, Produce PROVE ServerInv'
  OBVIOUS
<1> DEFINE what == [does |-> "produce", message |-> 0]
<1>1. /\ UNCHANGED <<status, cleanupRequested, producerStatus, producerTimer>>
      /\ UNCHANGED <<completedExperimentIds, progress, reserved, experiment, experiments>>
      /\ Turn(what)
      /\ \/ UNCHANGED <<messages, sent, processingTimers, buffer, hubVars>>
         \/ Received /\ Emit("message.received")
  BY DEF Produce
<1>2. what \in Mutations /\ what.does # "experiment" /\ mutations \in Seq(Mutations)
  BY DEF Mutations, ServerInv, ServerTypes, CallTypes
<1>3. mutations' \in Seq(Mutations) /\ experiment = Null /\ \A n \in Messages : Waits(n) => Waits(n)'
  BY <1>1, <1>2, TurnFacts DEF Waits
<1> HIDE DEF what
<1>4. HubTypes' /\ History' /\ (buffer' # Null <=> buffer # Null)
  <2>1. CASE UNCHANGED <<buffer, hubVars>>
    BY <1>1, <2>1 DEF ServerInv, ServerTypes, HubTypes, History, Whole, Block, hubVars
  <2>2. CASE Emit("message.received")
    BY <1>1, <2>2, EmitKeeps DEF ServerInv, ServerTypes, StatusTypes, OrdinaryTypes
  <2> QED BY <1>1, <2>1, <2>2
<1>5. /\ messages' \in [Messages -> MessageStates] /\ processingTimers' \in SUBSET Messages /\ sent' \in Nat
      /\ processingTimers \subseteq processingTimers'
      /\ \A m \in Messages : messages'[m] = "received" => messages[m] = "received" \/ m \in processingTimers'
  <2>1. CASE UNCHANGED <<messages, sent, processingTimers>>
    BY <2>1 DEF ServerInv, ServerTypes, StatusTypes, TimerTypes, ScenarioTypes
  <2>2. CASE Received
    BY <2>2, ReceivedFacts DEF ServerInv, ServerTypes
  <2> QED BY <1>1, <2>1, <2>2
<1>6. ServerTypes'
  BY <1>1, <1>3, <1>4, <1>5 DEF ServerInv, ServerTypes, StatusTypes, TimerTypes, ScenarioTypes, CallTypes
<1>7. Reservation'
  BY <1>1, <1>2, ReservationKept DEF ServerInv
<1>8. TimersKept'
  BY <1>1, <1>3, <1>5 DEF ServerInv, TimersKept, HaveTimers
<1>9. Buffering'
  BY <1>1, <1>4 DEF ServerInv, Buffering
<1> QED BY <1>4, <1>6, <1>7, <1>8, <1>9 DEF ServerInv

(* What is processed waits no more. *)
LEMMA ProcessInRunFacts ==
  ASSUME ServerInv, NEW m \in Messages, ProcessInRun(m), UNCHANGED <<experiment, experiments>>
  PROVE  /\ HubTypes' /\ History' /\ (buffer' # Null <=> buffer # Null)
         /\ messages' \in [Messages -> MessageStates] /\ messages'[m] # "received"
         /\ \A n \in Messages : messages'[n] = "received" => messages[n] = "received"
<1>1. CASE UNCHANGED <<messages, buffer, hubVars>> /\ messages[m] # "received"
  BY <1>1 DEF ServerInv, ServerTypes, ScenarioTypes, HubTypes, History, Whole, Block, hubVars
<1>2. CASE /\ messages' = [messages EXCEPT ![m] = IF cleanupRequested THEN "commit_requested" ELSE "committed"]
           /\ Emit("offset.committed")
  <2>1. HubTypes' /\ History' /\ (buffer' # Null <=> buffer # Null)
    BY <1>2, EmitKeeps DEF ServerInv, ServerTypes, StatusTypes, OrdinaryTypes
  <2>2. /\ messages' \in [Messages -> MessageStates] /\ messages'[m] # "received"
        /\ \A n \in Messages : messages'[n] = "received" => messages[n] = "received"
    BY <1>2 DEF ServerInv, ServerTypes, ScenarioTypes, MessageStates
  <2> QED BY <2>1, <2>2
<1> QED BY <1>1, <1>2 DEF ProcessInRun

LEMMA ProcessKeeps ==
  ASSUME ServerInv, NEW m \in Messages, Process(m)
  PROVE  ServerInv'
<1> DEFINE what == [does |-> "process", message |-> m]
<1>1. /\ UNCHANGED <<status, cleanupRequested, sent, producerStatus, producerTimer, processingTimers>>
      /\ UNCHANGED <<completedExperimentIds, progress, reserved, experiment, experiments>>
      /\ Turn(what)
      /\ IF Refused THEN UNCHANGED <<messages, buffer, hubVars>> ELSE ProcessInRun(m)
  BY DEF Process, timerVars
<1>2. what \in Mutations /\ what.does # "experiment" /\ mutations \in Seq(Mutations)
  BY MessagesAssumption DEF Mutations, Messages, ServerInv, ServerTypes, CallTypes
<1>3. mutations' \in Seq(Mutations) /\ experiment = Null /\ \A n \in Messages : n # m /\ Waits(n) => Waits(n)'
  BY <1>1, <1>2, TurnFacts DEF Waits
<1> HIDE DEF what
<1>4. /\ HubTypes' /\ History' /\ (buffer' # Null <=> buffer # Null)
      /\ messages' \in [Messages -> MessageStates]
      /\ \A n \in Messages : messages'[n] = "received" => messages[n] = "received"
      /\ ~Refused => messages'[m] # "received"
  <2>1. CASE Refused
    BY <1>1, <2>1 DEF ServerInv, ServerTypes, ScenarioTypes, HubTypes, History, Whole, Block, hubVars
  <2>2. CASE ~Refused
    BY <1>1, <2>2, ProcessInRunFacts
  <2> QED BY <2>1, <2>2
<1>5. ServerTypes'
  BY <1>1, <1>3, <1>4 DEF ServerInv, ServerTypes, StatusTypes, TimerTypes, ScenarioTypes, CallTypes
<1>6. Reservation'
  BY <1>1, <1>2, ReservationKept DEF ServerInv
<1>7. TimersKept'
  <2> SUFFICES ASSUME ~cleanupRequested PROVE TimersKept'
    BY <1>1 DEF TimersKept
  <2>1. ~Refused
    BY DEF ServerInv, Buffering, Refused
  <2> QED BY <1>1, <1>3, <1>4, <2>1 DEF ServerInv, TimersKept, HaveTimers
<1>8. Buffering'
  BY <1>1, <1>4 DEF ServerInv, Buffering
<1> QED BY <1>4, <1>5, <1>6, <1>7, <1>8 DEF ServerInv

-----------------------------------------------------------------------------
(* Experiments *)

LEMMA AskExperimentKeeps ==
  ASSUME ServerInv, NEW id \in ExperimentIds, AskExperiment(id)
  PROVE  ServerInv'
<1> DEFINE what == [does |-> "experiment", message |-> 0]
<1>1. /\ UNCHANGED <<status, cleanupRequested, messages, sent, producerStatus, producerTimer, processingTimers>>
      /\ UNCHANGED <<completedExperimentIds, progress, experiment, buffer, experiments, sequence, events>>
      /\ \/ UNCHANGED <<mutations, reserved>>
         \/ reserved = Null /\ experiment = Null /\ reserved' = id /\ Call(what)
  BY DEF AskExperiment, timerVars, hubVars
<1>2. what \in Mutations /\ what.does = "experiment" /\ mutations \in Seq(Mutations)
  BY DEF Mutations, ServerInv, ServerTypes, CallTypes
<1> HIDE DEF what
<1>3. CASE UNCHANGED <<mutations, reserved>>
  <2>1. UNCHANGED <<runVars, sequence, events>>
    BY <1>1, <1>3 DEF runVars, timerVars, scenarioVars
  <2> QED BY <2>1, OthersKeep
<1>4. CASE reserved = Null /\ experiment = Null /\ reserved' = id /\ Call(what)
  <2>1. /\ mutations' \in Seq(Mutations) /\ \A n \in Messages : Waits(n) => Waits(n)'
        /\ ExperimentCalls' = ExperimentCalls \union {Len(mutations) + 1}
    BY <1>2, <1>4, CallFacts DEF Waits
  <2>2. ServerTypes'
    BY <1>1, <1>4, <2>1 DEF ServerInv, ServerTypes, StatusTypes, TimerTypes, ScenarioTypes, CallTypes, HubTypes
  <2>3. Reservation'
    <3>1. ExperimentCalls = {} /\ id # Null
      BY <1>4, ExperimentsAssumption DEF ServerInv, Reservation
    <3> QED BY <1>1, <1>4, <2>1, <3>1 DEF Reservation
  <2>4. TimersKept'
    BY <1>1, <2>1, TimersUndisturbed DEF ServerInv, timerVars
  <2>5. Buffering' /\ History'
    BY <1>1 DEF ServerInv, Buffering, History, Whole, Block
  <2> QED BY <2>2, <2>3, <2>4, <2>5 DEF ServerInv
<1> QED BY <1>1, <1>3, <1>4

(* The checkpoint has what the run had. *)
LEMMA CheckpointFacts ==
  ASSUME ServerTypes
  PROVE  /\ Checkpoint \in Checkpoints
         /\ Checkpoint.messages = messages /\ Checkpoint.pendingProcessingMessageIds = processingTimers
BY DEF ServerTypes, TimerTypes, ScenarioTypes, Checkpoint, Checkpoints

LEMMA BeginExperimentKeeps == ServerInv /\ BeginExperiment => ServerInv'
<1> SUFFICES ASSUME ServerInv, BeginExperiment PROVE ServerInv'
  OBVIOUS
<1> DEFINE what == [does |-> "experiment", message |-> 0]
<1>1. /\ UNCHANGED <<status, cleanupRequested, messages, sent, completedExperimentIds>>
      /\ Turn(what)
  BY DEF BeginExperiment
<1>2. what \in Mutations /\ what.does = "experiment" /\ mutations \in Seq(Mutations)
  BY DEF Mutations, ServerInv, ServerTypes, CallTypes
<1>3. /\ mutations' \in Seq(Mutations) /\ experiment = Null /\ \A n \in Messages : Waits(n) => Waits(n)'
      /\ reserved # Null /\ ExperimentCalls' = {}
  BY <1>1, <1>2, TurnFacts DEF Waits, ServerInv, Reservation
<1> HIDE DEF what
<1>4. CASE ~Available(reserved)
  <2>1. reserved' = Null /\ UNCHANGED <<timerVars, progress, experiment, buffer, experiments, hubVars>>
    BY <1>4 DEF BeginExperiment
  <2>2. ServerTypes'
    BY <1>1, <1>3, <2>1 DEF ServerInv, ServerTypes, StatusTypes, TimerTypes, ScenarioTypes, CallTypes, HubTypes, timerVars, hubVars
  <2>3. Reservation'
    BY <1>3, <2>1 DEF Reservation
  <2>4. TimersKept'
    BY <1>1, <1>3, <2>1, TimersUndisturbed DEF ServerInv
  <2>5. Buffering' /\ History'
    BY <1>1, <2>1 DEF ServerInv, Buffering, History, Whole, Block, hubVars
  <2> QED BY <2>2, <2>3, <2>4, <2>5 DEF ServerInv
<1>5. CASE Available(reserved)
  <2>1. /\ experiments' = experiments + 1
        /\ experiment' = [id |-> reserved, number |-> experiments + 1, checkpoint |-> Checkpoint]
        /\ processingTimers' = {} /\ producerTimer' = FALSE
        /\ producerStatus' = IF producerStatus = "running" THEN "paused" ELSE producerStatus
        /\ progress' = [status |-> "running", of |-> reserved]
        /\ buffer' = <<Event("started", experiments + 1)>>
        /\ UNCHANGED <<reserved, sequence, events>>
    BY <1>5 DEF BeginExperiment, StartBuffered, hubVars
  <2>2. experiments \in Nat /\ experiments + 1 \in Nat /\ reserved \in ExperimentIds
    BY <1>3 DEF ServerInv, ServerTypes, StatusTypes, CallTypes
  <2>3. /\ experiment' \in Experiments /\ experiment' # Null /\ experiment'.number = experiments + 1
        /\ experiment'.checkpoint.messages = messages
        /\ experiment'.checkpoint.pendingProcessingMessageIds = processingTimers
    <3>1. Checkpoint \in Checkpoints /\ Checkpoint.messages = messages /\ Checkpoint.pendingProcessingMessageIds = processingTimers
      BY CheckpointFacts DEF ServerInv
    <3> QED BY <2>1, <2>2, <3>1, NullAssumption DEF Experiments
  <2>4. /\ buffer' \in Seq(Events) /\ buffer' # <<>> /\ buffer'[1].type = "started" /\ buffer' # Null
        /\ DOMAIN buffer' = {1} /\ buffer'[1].of = experiments + 1
    <3>1. Event("started", experiments + 1) \in Events
      BY <2>2 DEF Event, Events
    <3>2. Event("started", experiments + 1).type = "started" /\ Event("started", experiments + 1).of = experiments + 1
      BY DEF Event
    <3>3. buffer' \in Seq(Events) /\ buffer' # <<>> /\ DOMAIN buffer' = {1} /\ buffer'[1] = Event("started", experiments + 1)
      BY <2>1, <3>1
    <3> QED BY <3>2, <3>3, NullAssumption
  <2>5. ServerTypes'
    <3>1. StatusTypes' /\ TimerTypes' /\ HubTypes'
      BY <1>1, <2>1, <2>2, <2>4 DEF ServerInv, ServerTypes, StatusTypes, TimerTypes, HubTypes, ProducerStates
    <3>2. progress' \in Progress
      BY <2>1, <2>2 DEF Progress, ProgressRecords
    <3>3. ScenarioTypes' /\ CallTypes'
      BY <1>1, <1>3, <2>1, <2>3, <3>2 DEF ServerInv, ServerTypes, ScenarioTypes, CallTypes
    <3> QED BY <3>1, <3>3 DEF ServerTypes
  <2>6. Reservation'
    BY <1>3, <2>1, <2>3 DEF Reservation
  <2>7. Buffering'
    BY <1>1, <1>5, <2>3, <2>4 DEF ServerInv, Buffering, Available
  <2>8. TimersKept'
    BY <1>1, <1>3, <2>3 DEF ServerInv, TimersKept, HaveTimers
  <2>9. History'
    <3>0. \A j \in DOMAIN events : events[j] \in Events
      BY DEF ServerInv, ServerTypes, HubTypes
    <3>1. \A j \in DOMAIN events : events[j].of <= experiments /\ events[j].of \in Nat
      BY <3>0 DEF ServerInv, History, Events
    <3>2. \A j \in DOMAIN events : events[j].of < experiments + 1 /\ events[j].of <= experiments + 1
      BY <2>2, <3>1
    <3>3. Len(events') <= EventHistoryLimit /\ Whole(events')
      BY <2>1 DEF ServerInv, History
    <3> QED BY <2>1, <2>2, <2>3, <2>4, <3>2, <3>3 DEF History
  <2> QED BY <2>5, <2>6, <2>7, <2>8, <2>9 DEF ServerInv
<1> QED BY <1>4, <1>5

LEMMA PrepareProduceKeeps == ServerInv /\ PrepareProduce => ServerInv'
<1> SUFFICES ASSUME ServerInv, PrepareProduce PROVE ServerInv'
  OBVIOUS
<1>1. /\ UNCHANGED <<status, cleanupRequested, producerStatus, producerTimer, mutations>>
      /\ UNCHANGED <<completedExperimentIds, progress, reserved, experiment, experiments>>
      /\ experiment # Null /\ Received /\ Emit("message.received")
  BY DEF PrepareProduce
<1>2. HubTypes' /\ History' /\ (buffer' # Null <=> buffer # Null)
  BY <1>1, EmitKeeps DEF ServerInv, ServerTypes, StatusTypes, OrdinaryTypes
<1>3. /\ messages' \in [Messages -> MessageStates] /\ processingTimers' \in SUBSET Messages /\ sent' \in Nat
      /\ processingTimers \subseteq processingTimers'
      /\ \A m \in Messages : messages'[m] = "received" => messages[m] = "received" \/ m \in processingTimers'
  BY <1>1, ReceivedFacts DEF ServerInv, ServerTypes
<1>4. ServerTypes'
  BY <1>1, <1>2, <1>3 DEF ServerInv, ServerTypes, StatusTypes, TimerTypes, ScenarioTypes, CallTypes
<1>5. Reservation' /\ Buffering'
  BY <1>1, <1>2 DEF ServerInv, Reservation, Buffering, ExperimentCalls
<1>6. TimersKept'
  BY <1>1, <1>3 DEF ServerInv, TimersKept, HaveTimers, Waits, Queued
<1> QED BY <1>2, <1>4, <1>5, <1>6 DEF ServerInv

LEMMA PrepareProcessKeeps ==
  ASSUME ServerInv, NEW m \in Messages, PrepareProcess(m)
  PROVE  ServerInv'
<1>1. /\ UNCHANGED <<status, cleanupRequested, sent, producerStatus, producerTimer, mutations>>
      /\ UNCHANGED <<completedExperimentIds, progress, reserved, experiment, experiments>>
      /\ experiment # Null /\ ProcessInRun(m) /\ processingTimers' = processingTimers \ {m}
  BY DEF PrepareProcess
<1>2. /\ HubTypes' /\ History' /\ (buffer' # Null <=> buffer # Null)
      /\ messages' \in [Messages -> MessageStates] /\ messages'[m] # "received"
      /\ \A n \in Messages : messages'[n] = "received" => messages[n] = "received"
  BY <1>1, ProcessInRunFacts
<1>3. ServerTypes'
  BY <1>1, <1>2 DEF ServerInv, ServerTypes, StatusTypes, TimerTypes, ScenarioTypes, CallTypes
<1>4. Reservation' /\ Buffering'
  BY <1>1, <1>2 DEF ServerInv, Reservation, Buffering, ExperimentCalls
<1>5. TimersKept'
  BY <1>1, <1>2 DEF ServerInv, TimersKept, HaveTimers, Waits, Queued
<1> QED BY <1>2, <1>3, <1>4, <1>5 DEF ServerInv

(* What an experiment under way was begun with. *)
LEMMA ExperimentFacts ==
  ASSUME ServerInv, experiment # Null
  PROVE  /\ experiment.id \in ExperimentIds /\ experiment.number = experiments /\ experiments \in Nat \ {0}
         /\ experiment.checkpoint.producerStatus \in ProducerStates
         /\ experiment.checkpoint.pendingProcessingMessageIds \in SUBSET Messages
         /\ experiment.checkpoint.messages \in [Messages -> MessageStates]
         /\ experiment.checkpoint.completedExperimentIds \in SUBSET ExperimentIds
         /\ ExperimentCalls = {}
         /\ \A j \in DOMAIN events : events[j].of # experiments
<1>1. experiment \in Experiments /\ experiments \in Nat /\ events \in Seq(Events)
  BY DEF ServerInv, ServerTypes, StatusTypes, CallTypes, HubTypes
<1>2. experiment.number = experiments /\ experiments > 0 /\ \A j \in DOMAIN events : events[j].of < experiments
  BY DEF ServerInv, History
<1>3. \A j \in DOMAIN events : events[j].of \in Nat
  <2>1. \A j \in DOMAIN events : events[j] \in Events
    BY <1>1
  <2> QED BY <2>1 DEF Events
<1>4. ExperimentCalls = {}
  BY DEF ServerInv, Reservation
<1>5. experiment.id \in ExperimentIds /\ experiment.checkpoint \in Checkpoints
  BY <1>1 DEF Experiments
<1> QED BY <1>1, <1>2, <1>3, <1>4, <1>5 DEF Checkpoints

(* Its events are added to the history once it has ended. *)
LEMMA ExperimentEnds ==
  ASSUME ServerInv, experiment # Null, NEW payloads \in Seq(Events), EmitAll(payloads), Finished, UNCHANGED experiments,
         payloads # <<>>, \A i \in DOMAIN payloads : payloads[i].of = experiments,
         \/ Len(payloads) = 1 /\ payloads[1].type = "failed"
         \/ payloads[1].type = "started" /\ payloads[Len(payloads)].type = "completed"
  PROVE  HubTypes' /\ History'
<1>1. HubTypes /\ History /\ experiments \in Nat \ {0} /\ \A j \in DOMAIN events : events[j].of # experiments
  BY ExperimentFacts DEF ServerInv, ServerTypes
<1>2. PICK numbered \in Seq(Events) :
        /\ Len(numbered) = Len(payloads)
        /\ \A i \in 1..Len(payloads) : numbered[i].type = payloads[i].type /\ numbered[i].of = payloads[i].of
        /\ events' = LastOf(events \o numbered, EventHistoryLimit)
        /\ sequence' \in Nat
  BY <1>1, EmitAllFacts DEF HubTypes
<1>3. /\ DOMAIN payloads = 1..Len(payloads) /\ DOMAIN numbered = 1..Len(payloads) /\ Len(payloads) \in Nat \ {0}
      /\ 1 \in 1..Len(payloads) /\ Len(payloads) \in 1..Len(payloads) /\ numbered # <<>>
  BY <1>2
<1>4. \A i \in DOMAIN numbered : numbered[i].of = experiments
  BY <1>2, <1>3
<1>5. /\ numbered[1].type = payloads[1].type
      /\ numbered[Len(numbered)].type = payloads[Len(payloads)].type
  BY <1>2, <1>3
<1>6. Addable(numbered)
  BY <1>1, <1>2, <1>3, <1>4, <1>5 DEF Addable
<1>7. /\ events' \in Seq(Events) /\ Whole(events') /\ Len(events') <= EventHistoryLimit
      /\ \A j \in DOMAIN events' : \/ \E i \in DOMAIN events : events'[j].of = events[i].of
                                   \/ \E i \in DOMAIN numbered : events'[j].of = numbered[i].of
  BY <1>1, <1>2, <1>6, HistoryGrows DEF HubTypes, History
<1>8. buffer' = Null /\ experiment' = Null
  BY DEF Finished
<1>9. HubTypes'
  BY <1>2, <1>7, <1>8 DEF HubTypes
<1>10. \A j \in DOMAIN events' : events'[j].of <= experiments
  BY <1>1, <1>4, <1>7 DEF History
<1>11. History'
  BY <1>7, <1>8, <1>10 DEF History
<1> QED BY <1>9, <1>11

(* Without an emission, they are not. *)
LEMMA ExperimentSuperseded ==
  ASSUME ServerInv, UNCHANGED hubVars, Finished, UNCHANGED experiments
  PROVE  HubTypes' /\ History'
BY DEF ServerInv, ServerTypes, HubTypes, History, Whole, Block, hubVars, Finished

(* The events that an experiment which completes adds. *)
LEMMA ConclusionFacts ==
  ASSUME ServerInv, experiment # Null, ~cleanupRequested
  PROVE  LET payloads == buffer \o Conclusion IN
         /\ payloads \in Seq(Events) /\ payloads # <<>>
         /\ \A i \in DOMAIN payloads : payloads[i].of = experiments
         /\ payloads[1].type = "started" /\ payloads[Len(payloads)].type = "completed"
<1>1. /\ experiment.id \in ExperimentIds /\ experiment.number = experiments /\ experiments \in Nat \ {0}
  BY ExperimentFacts
<1>2. /\ buffer \in Seq(Events) /\ buffer # <<>> /\ buffer[1].type = "started"
      /\ \A j \in DOMAIN buffer : buffer[j].of = experiments
  BY DEF ServerInv, ServerTypes, HubTypes, Buffering, History
<1> DEFINE n == Transitions[experiment.id]
           shown == [i \in 1..n |-> Event("transition", experiment.number)]
           end == Event("completed", experiment.number)
<1>3. n \in Nat
  BY <1>1, ExperimentsAssumption
<1>4. Event("transition", experiment.number) \in Events /\ end \in Events
  BY <1>1 DEF Event, Events
<1>5. Event("transition", experiment.number).of = experiments /\ end.of = experiments /\ end.type = "completed"
  BY <1>1 DEF Event
<1>6. Conclusion = shown \o <<end>>
  BY DEF Conclusion
<1> HIDE DEF end
<1>7. shown \in Seq(Events) /\ Len(shown) = n /\ \A i \in 1..n : shown[i].of = experiments
  BY <1>3, <1>4, <1>5
<1> HIDE DEF shown, n
<1>8. /\ Conclusion \in Seq(Events) /\ Len(Conclusion) = n + 1 /\ Conclusion[n + 1] = end
      /\ \A i \in 1..n : Conclusion[i] = shown[i]
  BY <1>3, <1>4, <1>6, <1>7
<1>9. \A i \in 1..(n + 1) : Conclusion[i].of = experiments
  BY <1>3, <1>5, <1>7, <1>8
<1> DEFINE payloads == buffer \o Conclusion
           d == Len(buffer)
<1>10. /\ payloads \in Seq(Events) /\ d \in Nat \ {0} /\ Len(payloads) = d + (n + 1)
       /\ \A i \in 1..d : payloads[i] = buffer[i]
       /\ \A i \in 1..(n + 1) : payloads[d + i] = Conclusion[i]
  BY <1>2, <1>8
<1> HIDE DEF payloads, d
<1>11. payloads # <<>> /\ payloads[1].type = "started" /\ payloads[Len(payloads)].type = "completed"
  <2>1. 1 \in 1..d /\ n + 1 \in 1..(n + 1) /\ Len(payloads) # 0
    BY <1>3, <1>10
  <2>2. payloads[1] = buffer[1] /\ payloads[d + (n + 1)] = Conclusion[n + 1]
    BY <1>10, <2>1
  <2> QED BY <1>2, <1>5, <1>8, <1>10, <2>1, <2>2
<1>12. \A i \in DOMAIN payloads : payloads[i].of = experiments
  <2> SUFFICES ASSUME NEW i \in 1..(d + (n + 1)) PROVE payloads[i].of = experiments
    BY <1>10
  <2>1. CASE i \in 1..d
    <3>1. i \in DOMAIN buffer
      BY <1>2, <2>1 DEF d
    <3> QED BY <1>2, <1>10, <2>1, <3>1
  <2>2. CASE i - d \in 1..(n + 1) /\ d + (i - d) = i
    BY <1>9, <1>10, <2>2
  <2>3. i \in 1..d \/ (i - d \in 1..(n + 1) /\ d + (i - d) = i)
    BY <1>3, <1>10
  <2> QED BY <2>1, <2>2, <2>3
<1> QED BY <1>10, <1>11, <1>12 DEF payloads

LEMMA CompleteExperimentKeeps == ServerInv /\ CompleteExperiment => ServerInv'
<1> SUFFICES ASSUME ServerInv, CompleteExperiment PROVE ServerInv'
  OBVIOUS
<1>1. /\ UNCHANGED <<status, cleanupRequested, messages, sent, experiments, mutations>>
      /\ experiment # Null /\ Finished /\ reserved' = Null /\ experiment' = Null /\ buffer' = Null
      /\ completedExperimentIds' = completedExperimentIds \union {experiment.id}
      /\ progress' = [status |-> "completed", of |-> experiment.id]
  BY DEF CompleteExperiment, Finished
<1>2. /\ experiment.id \in ExperimentIds /\ experiment.number = experiments /\ experiments \in Nat \ {0}
      /\ experiment.checkpoint.producerStatus \in ProducerStates
      /\ experiment.checkpoint.pendingProcessingMessageIds \in SUBSET Messages
      /\ ExperimentCalls = {}
  BY <1>1, ExperimentFacts
<1>3. progress' \in Progress /\ progress' # Null /\ progress'.status = "completed" /\ completedExperimentIds' \in SUBSET ExperimentIds
  <2>1. [status |-> "completed", of |-> experiment.id] # Null
    <3>1. [status |-> "completed", of |-> experiment.id] \in ProgressRecords
      BY <1>2 DEF ProgressRecords
    <3> QED BY <3>1, NullAssumption
  <2>2. progress' \in Progress
    BY <1>1, <1>2 DEF Progress, ProgressRecords
  <2>3. completedExperimentIds' \in SUBSET ExperimentIds
    BY <1>1, <1>2 DEF ServerInv, ServerTypes, ScenarioTypes
  <2> QED BY <1>1, <2>1, <2>2, <2>3
<1>4. CASE cleanupRequested
  <2>1. UNCHANGED <<timerVars, hubVars>>
    BY <1>4 DEF CompleteExperiment
  <2>2. HubTypes' /\ History'
    BY <1>1, <2>1, ExperimentSuperseded
  <2>3. ServerTypes'
    BY <1>1, <1>3, <2>1, <2>2 DEF ServerInv, ServerTypes, StatusTypes, TimerTypes, ScenarioTypes, CallTypes, timerVars
  <2>4. Reservation' /\ Buffering' /\ TimersKept'
    BY <1>1, <1>2, <1>4 DEF ServerInv, Reservation, Buffering, TimersKept, ExperimentCalls
  <2> QED BY <2>2, <2>3, <2>4 DEF ServerInv
<1>5. CASE ~cleanupRequested
  <2>1. /\ producerStatus' = experiment.checkpoint.producerStatus
        /\ producerTimer' = (producerStatus' = "running")
        /\ processingTimers' = processingTimers \union
              {m \in experiment.checkpoint.pendingProcessingMessageIds : messages[m] = "received"}
        /\ EmitAll(buffer \o Conclusion)
    BY <1>5 DEF CompleteExperiment, ResumedTimers, EmitNow
  <2>2. LET payloads == buffer \o Conclusion IN
         /\ payloads \in Seq(Events) /\ payloads # <<>>
         /\ \A i \in DOMAIN payloads : payloads[i].of = experiments
         /\ payloads[1].type = "started" /\ payloads[Len(payloads)].type = "completed"
    BY <1>1, <1>5, ConclusionFacts
  <2> DEFINE payloads == buffer \o Conclusion
  <2>3. HubTypes' /\ History'
    <3>1. EmitAll(payloads)
      BY <2>1 DEF payloads
    <3> QED BY <1>1, <2>2, <3>1, ExperimentEnds
  <2>4. ServerTypes'
    <3>1. processingTimers' \in SUBSET Messages /\ producerStatus' \in ProducerStates /\ producerTimer' \in BOOLEAN
      BY <1>2, <2>1 DEF ServerInv, ServerTypes, TimerTypes
    <3> QED BY <1>1, <1>3, <2>3, <3>1 DEF ServerInv, ServerTypes, StatusTypes, TimerTypes, ScenarioTypes, CallTypes
  <2>5. Reservation' /\ Buffering'
    BY <1>1, <1>2 DEF ServerInv, Reservation, Buffering, ExperimentCalls
  <2>6. TimersKept'
    BY <1>1, <1>3, <1>5, <2>1 DEF ServerInv, TimersKept, HaveTimers, Waits, Queued
  <2> QED BY <2>3, <2>4, <2>5, <2>6 DEF ServerInv
<1> QED BY <1>4, <1>5

LEMMA FailExperimentKeeps == ServerInv /\ FailExperiment => ServerInv'
<1> SUFFICES ASSUME ServerInv, FailExperiment PROVE ServerInv'
  OBVIOUS
<1> DEFINE checkpoint == experiment.checkpoint
<1>1. /\ UNCHANGED <<status, cleanupRequested, experiments, mutations>>
      /\ experiment # Null /\ Finished /\ reserved' = Null /\ experiment' = Null /\ buffer' = Null
  BY DEF FailExperiment, Finished
<1>2. /\ experiment.id \in ExperimentIds /\ experiment.number = experiments /\ experiments \in Nat \ {0}
      /\ checkpoint.producerStatus \in ProducerStates
      /\ checkpoint.pendingProcessingMessageIds \in SUBSET Messages
      /\ checkpoint.messages \in [Messages -> MessageStates]
      /\ checkpoint.completedExperimentIds \in SUBSET ExperimentIds
      /\ ExperimentCalls = {}
  BY <1>1, ExperimentFacts
<1>3. Reservation' /\ Buffering'
  BY <1>1, <1>2 DEF ServerInv, Reservation, Buffering, ExperimentCalls
<1>4. CASE cleanupRequested
  <2>1. /\ ProductionSuperseded \/ UNCHANGED <<messages, sent>>
        /\ UNCHANGED <<completedExperimentIds, progress, timerVars, hubVars>>
    BY <1>4 DEF FailExperiment
  <2>2. HubTypes' /\ History'
    BY <1>1, <2>1, ExperimentSuperseded
  <2>3. messages' \in [Messages -> MessageStates] /\ sent' \in Nat
    BY <2>1 DEF ServerInv, ServerTypes, StatusTypes, ScenarioTypes, ProductionSuperseded, MessageStates
  <2>4. ServerTypes'
    BY <1>1, <2>1, <2>2, <2>3 DEF ServerInv, ServerTypes, StatusTypes, TimerTypes, ScenarioTypes, CallTypes, timerVars
  <2>5. TimersKept'
    BY <1>1, <1>4 DEF TimersKept
  <2> QED BY <1>3, <2>2, <2>4, <2>5 DEF ServerInv
<1>5. CASE ~cleanupRequested
  <2>1. /\ completedExperimentIds' = checkpoint.completedExperimentIds
        /\ progress' = [status |-> "failed", of |-> experiment.id]
        /\ messages' = checkpoint.messages
        /\ producerStatus' = checkpoint.producerStatus
        /\ producerTimer' = (producerStatus' = "running")
        /\ processingTimers' = {m \in checkpoint.pendingProcessingMessageIds : messages'[m] = "received"}
        /\ EmitAll(<<Event("failed", experiment.number)>>)
        /\ UNCHANGED sent
    BY <1>5 DEF FailExperiment, ResumedTimers, EmitNow
  <2> DEFINE event == Event("failed", experiment.number)
             payloads == <<event>>
  <2>2. event \in Events /\ event.type = "failed" /\ event.of = experiments
    BY <1>2 DEF Event, Events
  <2>3. HubTypes' /\ History'
    <3>1. EmitAll(payloads)
      BY <2>1
    <3> HIDE DEF event
    <3>2. /\ payloads \in Seq(Events) /\ payloads # <<>> /\ Len(payloads) = 1 /\ payloads[1].type = "failed"
          /\ \A i \in DOMAIN payloads : payloads[i].of = experiments
      BY <2>2
    <3> HIDE DEF payloads
    <3> QED BY <1>1, <3>1, <3>2, ExperimentEnds
  <2>4. progress' \in Progress /\ progress' # Null /\ progress'.status = "failed"
    <3>1. progress' \in ProgressRecords
      BY <1>2, <2>1 DEF ProgressRecords
    <3> QED BY <2>1, <3>1, NullAssumption DEF Progress
  <2>5. ServerTypes'
    <3>1. processingTimers' \in SUBSET Messages
      BY <1>2, <2>1
    <3> HIDE DEF checkpoint
    <3> QED BY <1>1, <1>2, <2>1, <2>3, <2>4, <3>1 DEF ServerInv, ServerTypes, StatusTypes, TimerTypes, ScenarioTypes, CallTypes
  <2>6. TimersKept'
    BY <1>1, <1>5, <2>1, <2>4 DEF ServerInv, TimersKept, HaveTimers, Waits, Queued
  <2> QED BY <1>3, <2>3, <2>5, <2>6 DEF ServerInv
<1> QED BY <1>4, <1>5

-----------------------------------------------------------------------------
(* The cleanup, and all steps *)

LEMMA RequestCleanupKeeps == ServerInv /\ RequestCleanup => ServerInv'
<1> SUFFICES ASSUME ServerInv, RequestCleanup PROVE ServerInv'
  OBVIOUS
<1>1. /\ cleanupRequested' = TRUE /\ buffer' = Null
      /\ producerStatus' = "stopped" /\ producerTimer' = FALSE /\ processingTimers' = {}
      /\ UNCHANGED <<status, messages, sent, mutations, sequence, events>>
      /\ UNCHANGED <<completedExperimentIds, progress, reserved, experiment, experiments>>
  BY DEF RequestCleanup, StopRunTimers, hubVars
<1>2. ServerTypes'
  BY <1>1 DEF ServerInv, ServerTypes, StatusTypes, TimerTypes, ScenarioTypes, CallTypes, HubTypes, ProducerStates
<1>3. Reservation' /\ Buffering' /\ TimersKept'
  BY <1>1 DEF ServerInv, Reservation, Buffering, TimersKept, ExperimentCalls
<1>4. History'
  BY <1>1 DEF ServerInv, History, Whole, Block
<1> QED BY <1>2, <1>3, <1>4 DEF ServerInv

LEMMA StartCleanupKeeps == ServerInv /\ StartCleanup => ServerInv'
<1> SUFFICES ASSUME ServerInv, StartCleanup PROVE ServerInv'
  OBVIOUS
<1>1. /\ cleanupRequested /\ status' = "cleaning" /\ progress' = Null /\ completedExperimentIds' = {}
      /\ producerStatus' = "stopped" /\ producerTimer' = FALSE /\ processingTimers' = {}
      /\ UNCHANGED <<cleanupRequested, messages, sent, mutations, reserved, experiment, buffer, experiments>>
      /\ EmitAll(<<Event("cleanup_started", 0)>>)
  BY DEF StartCleanup, StopRunTimers, EmitNow
<1>2. HubTypes' /\ History'
  BY <1>1, OrdinaryKeeps DEF ServerInv, ServerTypes, StatusTypes, OrdinaryTypes
<1>3. ServerTypes'
  BY <1>1, <1>2 DEF ServerInv, ServerTypes, StatusTypes, TimerTypes, ScenarioTypes, CallTypes, ProducerStates, Progress
<1>4. Reservation' /\ Buffering' /\ TimersKept'
  BY <1>1 DEF ServerInv, Reservation, Buffering, TimersKept, ExperimentCalls
<1> QED BY <1>2, <1>3, <1>4 DEF ServerInv

LEMMA CleanupEndsKeeps == ServerInv /\ (FinishCleanup \/ DeleteSessionRun) => ServerInv'
<1> SUFFICES ASSUME ServerInv, FinishCleanup \/ DeleteSessionRun PROVE ServerInv'
  OBVIOUS
<1>1. /\ status # "running" /\ status' \in {"stopped", "gone"}
      /\ UNCHANGED <<cleanupRequested, messages, sent, producerStatus, producerTimer, processingTimers>>
      /\ UNCHANGED <<completedExperimentIds, progress, reserved, experiment, buffer, experiments, mutations>>
      /\ EmitAll(<<Event("stopped", 0)>>) \/ UNCHANGED <<sequence, events>>
  BY DEF FinishCleanup, DeleteSessionRun, timerVars, scenarioVars, hubVars
<1>2. HubTypes' /\ History'
  <2>1. CASE EmitAll(<<Event("stopped", 0)>>)
    BY <1>1, <2>1, OrdinaryKeeps DEF ServerInv, ServerTypes, StatusTypes, OrdinaryTypes
  <2>2. CASE UNCHANGED <<sequence, events>>
    BY <1>1, <2>2 DEF ServerInv, ServerTypes, HubTypes, History, Whole, Block
  <2> QED BY <1>1, <2>1, <2>2
<1>3. ServerTypes'
  BY <1>1, <1>2 DEF ServerInv, ServerTypes, StatusTypes, TimerTypes, ScenarioTypes, CallTypes
<1>4. Reservation' /\ Buffering' /\ TimersKept'
  BY <1>1 DEF ServerInv, Reservation, Buffering, TimersKept, ExperimentCalls
<1> QED BY <1>2, <1>3, <1>4 DEF ServerInv

(* A run begins with an empty history and no call that waits. *)
LEMMA InitServerInv == InitRun => ServerInv
<1> SUFFICES ASSUME InitRun PROVE ServerInv
  OBVIOUS
<1>1. /\ status = "running" /\ cleanupRequested = FALSE
      /\ producerStatus = "stopped" /\ producerTimer = FALSE
      /\ messages = [m \in Messages |-> "none"] /\ sent = 0 /\ processingTimers = {}
      /\ completedExperimentIds = {} /\ progress = Idle
      /\ mutations = <<>> /\ reserved = Null /\ experiment = Null /\ buffer = Null /\ experiments = 0
      /\ sequence = 0 /\ events = <<>>
  BY DEF InitRun, InitHub
<1>2. Idle \in ProgressRecords
  BY DEF Idle, ProgressRecords
<1>3. ServerTypes
  <2>1. StatusTypes /\ TimerTypes
    BY <1>1 DEF StatusTypes, TimerTypes, ProducerStates
  <2>2. messages \in [Messages -> MessageStates]
    BY <1>1 DEF MessageStates
  <2>3. ScenarioTypes /\ CallTypes /\ HubTypes
    BY <1>1, <1>2, <2>2 DEF ScenarioTypes, CallTypes, HubTypes, Progress
  <2> QED BY <2>1, <2>3 DEF ServerTypes
<1>4. Reservation /\ Buffering
  BY <1>1 DEF Reservation, Buffering, ExperimentCalls
<1>5. TimersKept
  BY <1>1, <1>2, NullAssumption DEF TimersKept, HaveTimers, Idle
<1>6. History
  BY <1>1, LimitsAssumption DEF History, Whole
<1> QED BY <1>3, <1>4, <1>5, <1>6 DEF ServerInv

(* Every step of the client and the server keeps the invariant. *)
LEMMA StepServerInv == ServerInv /\ [Next]_vars => ServerInv'
<1> SUFFICES ASSUME ServerInv, [Next]_vars PROVE ServerInv'
  OBVIOUS
<1>1. CASE StartProducer
  BY <1>1, StartProducerKeeps
<1>2. CASE ProducerTick
  BY <1>2, ProducerTickKeeps
<1>3. CASE Produce
  BY <1>3, ProduceKeeps
<1>4. CASE \E m \in Messages : ProcessingTimerFires(m)
  BY <1>4, ProcessingTimerFiresKeeps
<1>5. CASE \E m \in Messages : Process(m)
  BY <1>5, ProcessKeeps
<1>6. CASE BeginExperiment
  BY <1>6, BeginExperimentKeeps
<1>7. CASE PrepareProduce
  BY <1>7, PrepareProduceKeeps
<1>8. CASE \E m \in Messages : PrepareProcess(m)
  BY <1>8, PrepareProcessKeeps
<1>9. CASE CompleteExperiment
  BY <1>9, CompleteExperimentKeeps
<1>10. CASE FailExperiment
  BY <1>10, FailExperimentKeeps
<1>11. CASE RequestCleanup
  BY <1>11, RequestCleanupKeeps
<1>12. CASE StartCleanup
  BY <1>12, StartCleanupKeeps
<1>13. CASE FinishCleanup \/ DeleteSessionRun
  BY <1>13, CleanupEndsKeeps
<1>14. CASE Command
  BY <1>14, AskStartProducerKeeps, AskExperimentKeeps DEF Command
<1>15. CASE ServeRefresh \/ LoseRefresh \/ ReceiveRefresh \/ Connect \/ Disconnect \/ ReceiveFromStream \/ ReceiveAnswer
  <2>1. UNCHANGED <<runVars, sequence, events>>
    BY <1>15 DEF ServeRefresh, LoseRefresh, ReceiveRefresh, Connect, Disconnect, ReceiveFromStream, ReceiveAnswer,
                 serverVars, hubVars, Subscribe, Unsubscribe
  <2> QED BY <2>1, OthersKeep
<1>16. CASE UNCHANGED vars
  BY <1>16, OthersKeep DEF vars, serverVars, hubVars
<1> QED BY <1>1, <1>2, <1>3, <1>4, <1>5, <1>6, <1>7, <1>8, <1>9, <1>10, <1>11, <1>12, <1>13, <1>14, <1>15, <1>16 DEF Next

-----------------------------------------------------------------------------

(* In a history that is whole, an experiment is all there or a failure. *)
LEMMA WholeIsAllOrNothing == HubTypes /\ Whole(events) => AllOrNothing
<1> SUFFICES ASSUME HubTypes, Whole(events), NEW j \in DOMAIN events, events[j].of # 0
    PROVE  LET number == events[j].of
               mine == {i \in DOMAIN events : events[i].of = number}
               first == CHOOSE i \in mine : \A k \in mine : i <= k
               last == CHOOSE i \in mine : \A k \in mine : k <= i
           IN  /\ mine = first..last
               /\ events[last].type \in {"completed", "failed"}
               /\ IF events[last].type = "failed" THEN first = last
                  ELSE events[first].type = "started" \/ (first = 1 /\ Trimmed)
  BY DEF AllOrNothing
<1> DEFINE number == events[j].of
           mine == {i \in DOMAIN events : events[i].of = number}
           first == CHOOSE i \in mine : \A k \in mine : i <= k
           last == CHOOSE i \in mine : \A k \in mine : k <= i
<1>1. PICK a \in DOMAIN events, b \in DOMAIN events : a <= b /\ Block(events, number, a, b)
  BY DEF Whole
<1>2. DOMAIN events = 1..Len(events) /\ Len(events) \in Nat
  BY DEF HubTypes
<1>3. mine = a..b /\ a \in Nat /\ b \in Nat
  BY <1>1, <1>2 DEF Block
<1> HIDE DEF mine
<1>4. first = a
  BY <1>1, <1>3
<1>5. last = b
  BY <1>1, <1>3
<1> HIDE DEF first, last, number
<1>6. /\ mine = first..last
      /\ events[last].type \in {"completed", "failed"}
      /\ IF events[last].type = "failed" THEN first = last
         ELSE events[first].type = "started" \/ (first = 1 /\ Trimmed)
  BY <1>1, <1>3, <1>4, <1>5 DEF Block, Trimmed
<1> QED BY <1>6 DEF first, last, mine, number

(* The history shows an experiment from its start to its end with nothing of *)
(* another between, or as nothing but its failure, whatever fires, fails or  *)
(* cleans up meanwhile.                                                      *)
THEOREM SpecAllOrNothing == Spec => []AllOrNothing
<1>1. ServerInv => AllOrNothing
  BY WholeIsAllOrNothing DEF ServerInv, ServerTypes, History
<1>2. Init => ServerInv
  BY InitServerInv DEF Init
<1> QED BY <1>1, <1>2, StepServerInv, PTL DEF Spec

(* Between experiments a run that lives has its timers, its messages are     *)
(* waited for and nothing of an experiment is left, however the last ended.  *)
THEOREM SpecNothingStrandedByExperiment == Spec => []NothingStrandedByExperiment
<1>1. ServerInv => NothingStrandedByExperiment
  <2> SUFFICES ASSUME ServerInv, experiment = Null, ~cleanupRequested
      PROVE  /\ buffer = Null /\ progress.status # "running"
             /\ producerTimer <=> (producerStatus = "running")
             /\ (reserved # Null) <=> (\E i \in DOMAIN mutations : mutations[i].does = "experiment")
             /\ \A m \in Messages : messages[m] = "received" =>
                  \/ m \in processingTimers
                  \/ \E i \in DOMAIN mutations : mutations[i] = [does |-> "process", message |-> m]
    BY DEF NothingStrandedByExperiment
  <2>1. buffer = Null
    BY DEF ServerInv, Buffering
  <2>2. (reserved # Null) <=> (\E i \in DOMAIN mutations : mutations[i].does = "experiment")
    BY DEF ServerInv, Reservation, ExperimentCalls
  <2> QED BY <2>1, <2>2 DEF ServerInv, TimersKept, HaveTimers, Waits, Queued
<1>2. Init => ServerInv
  BY InitServerInv DEF Init
<1> QED BY <1>1, <1>2, StepServerInv, PTL DEF Spec

-----------------------------------------------------------------------------
(* The client *)

\* What the client shows of a run.
Views == [shown : Runs, events : Seq(Events), lastSequence : Nat, hasSequenceGap : BOOLEAN]

\* Events of the same sequence are the same.
Distinct(es) == \A d, e \in es : d.sequence = e.sequence => d = e

-----------------------------------------------------------------------------
(* visualization-reducer.ts *)

(* A sequence has finitely many elements. *)
LEMMA RangeIsFinite ==
  ASSUME NEW S, NEW s \in Seq(S)
  PROVE  IsFiniteSet(Range(s)) /\ Range(s) \subseteq S
<1>1. Len(s) \in Nat /\ s \in [1..Len(s) -> Range(s)] /\ \A e \in Range(s) : \E i \in 1..Len(s) : s[i] = e
  BY DEF Range
<1>2. s \in Surjection(1..Len(s), Range(s))
  BY <1>1 DEF Surjection
<1>3. IsFiniteSet(Range(s))
  BY <1>1, <1>2, FS_NatSurjection DEF ExistsSurjection
<1> QED BY <1>3 DEF Range

(* The last elements of a sequence are among its elements. *)
LEMMA LastOfRange ==
  ASSUME NEW S, NEW s \in Seq(S), NEW limit \in Nat \ {0}
  PROVE  LastOf(s, limit) \in Seq(S) /\ Range(LastOf(s, limit)) \subseteq Range(s)
<1> DEFINE k == IF Len(s) > limit THEN Len(s) - limit ELSE 0
<1>1. /\ k \in Nat /\ Len(s) \in Nat /\ k <= Len(s)
      /\ LastOf(s, limit) \in Seq(S)
      /\ DOMAIN LastOf(s, limit) = 1..(Len(s) - k)
      /\ \A i \in 1..(Len(s) - k) : LastOf(s, limit)[i] = s[i + k]
  <2>1. LET kk == IF Len(s) > limit THEN Len(s) - limit ELSE 0 IN
         /\ kk \in Nat /\ Len(s) \in Nat /\ kk <= Len(s)
         /\ LastOf(s, limit) \in Seq(S) /\ Len(LastOf(s, limit)) = Len(s) - kk
         /\ DOMAIN LastOf(s, limit) = 1..(Len(s) - kk)
         /\ \A i \in 1..(Len(s) - kk) : LastOf(s, limit)[i] = s[i + kk]
         /\ kk > 0 => Len(s) - kk = limit
    BY LastOfFacts, Zenon
  <2> QED BY <2>1, Zenon
<1> HIDE DEF k
<1>2. ASSUME NEW i \in 1..(Len(s) - k) PROVE i + k \in DOMAIN s
  BY <1>1
<1> QED BY <1>1, <1>2 DEF Range

(* A sequence followed by another has the elements of both. *)
LEMMA RangeOfConcat ==
  ASSUME NEW S, NEW s \in Seq(S), NEW t \in Seq(S)
  PROVE  s \o t \in Seq(S) /\ Range(s \o t) = Range(s) \union Range(t)
<1> DEFINE both == s \o t
           m == Len(s)
           n == Len(t)
<1>0. /\ m \in Nat /\ n \in Nat /\ DOMAIN s = 1..m /\ DOMAIN t = 1..n
      /\ both \in Seq(S) /\ Len(both) = m + n
      /\ \A i \in 1..m : both[i] = s[i]
      /\ \A i \in 1..n : both[m + i] = t[i]
  OBVIOUS
<1>1. /\ m \in Nat /\ n \in Nat /\ DOMAIN s = 1..m /\ DOMAIN t = 1..n
      /\ both \in Seq(S) /\ DOMAIN both = 1..(m + n)
      /\ \A i \in 1..m : both[i] = s[i]
      /\ \A i \in 1..n : both[m + i] = t[i]
  BY <1>0
<1> HIDE DEF both, m, n
<1>2. ASSUME NEW i \in 1..(m + n) PROVE i \in 1..m \/ (i - m \in 1..n /\ m + (i - m) = i)
  BY <1>1
<1>3. \A i \in 1..m : i \in 1..(m + n)
  BY <1>1
<1>4. \A i \in 1..n : m + i \in 1..(m + n)
  BY <1>1
<1>5. ASSUME NEW e \in Range(both) PROVE e \in Range(s) \union Range(t)
  <2>1. PICK i \in 1..(m + n) : both[i] = e
    BY <1>1, <1>5 DEF Range
  <2>2. CASE i \in 1..m
    BY <1>1, <2>1, <2>2 DEF Range
  <2>3. CASE i - m \in 1..n /\ m + (i - m) = i
    BY <1>1, <2>1, <2>3 DEF Range
  <2> QED BY <1>2, <2>2, <2>3
<1>6. Range(s) \subseteq Range(both) /\ Range(t) \subseteq Range(both)
  <2>1. ASSUME NEW e \in Range(s) PROVE e \in Range(both)
    <3>1. PICK i \in 1..m : s[i] = e
      BY <1>1, <2>1 DEF Range
    <3> QED BY <1>1, <1>3, <3>1 DEF Range
  <2>2. ASSUME NEW e \in Range(t) PROVE e \in Range(both)
    <3>1. PICK i \in 1..n : t[i] = e
      BY <1>1, <2>2 DEF Range
    <3>2. both[m + i] = e /\ m + i \in DOMAIN both
      BY <1>1, <1>4, <3>1
    <3> QED BY <3>2 DEF Range
  <2> QED BY <2>1, <2>2
<1> QED BY <1>1, <1>5, <1>6 DEF both

(* A sequence by its elements. *)
LEMMA SequenceOf ==
  ASSUME NEW S, NEW n \in Nat, NEW s, s = [i \in 1..n |-> s[i]], \A i \in 1..n : s[i] \in S
  PROVE  s \in Seq(S) /\ DOMAIN s = 1..n
  OBVIOUS


(* If no two events share a sequence, each of them has a place of its own in *)
(* the order of sequences, and every place is taken.                         *)
LEMMA EveryPlaceIsTaken ==
  ASSUME NEW S \in SUBSET Events, IsFiniteSet(S), Distinct(S)
  PROVE  \A i \in 1..Cardinality(S) : \E e \in S : Cardinality({d \in S : d.sequence < e.sequence}) = i - 1
<1> DEFINE n == Cardinality(S)
           earlier(e) == {d \in S : d.sequence < e.sequence}
           place == [e \in S |-> Cardinality(earlier(e)) + 1]
<1>1. n \in Nat
  BY FS_CardinalityType
<1>2. \A e \in S : e.sequence \in Nat
  BY DEF Events
<1>3. ASSUME NEW e \in S PROVE IsFiniteSet(earlier(e)) /\ Cardinality(earlier(e)) \in Nat /\ Cardinality(earlier(e)) + 1 <= n
  <2>1. earlier(e) \in SUBSET S /\ e \notin earlier(e)
    BY <1>2
  <2>2. IsFiniteSet(earlier(e)) /\ Cardinality(earlier(e)) <= n /\ (n = Cardinality(earlier(e)) => S = earlier(e))
    BY <2>1, FS_Subset
  <2>3. Cardinality(earlier(e)) \in Nat
    BY <2>2, FS_CardinalityType
  <2>4. n # Cardinality(earlier(e))
    BY <2>1, <2>2
  <2> HIDE DEF n, earlier
  <2> QED BY <1>1, <2>2, <2>3, <2>4
<1>4. ASSUME NEW d \in S, NEW e \in S, d.sequence < e.sequence PROVE Cardinality(earlier(d)) < Cardinality(earlier(e))
  <2>1. earlier(d) \in SUBSET earlier(e) /\ d \in earlier(e) /\ d \notin earlier(d)
    BY <1>2, <1>4
  <2>2. Cardinality(earlier(d)) <= Cardinality(earlier(e)) /\ Cardinality(earlier(d)) # Cardinality(earlier(e))
    BY <1>3, <2>1, FS_Subset
  <2> HIDE DEF earlier
  <2> QED BY <1>3, <2>2
<1>5. place \in Injection(S, 1..n)
  <2>1. place \in [S -> 1..n]
    <3> SUFFICES ASSUME NEW e \in S PROVE Cardinality(earlier(e)) + 1 \in 1..n
      OBVIOUS
    <3> HIDE DEF n, earlier
    <3> QED BY <1>1, <1>3
  <2>2. ASSUME NEW d \in S, NEW e \in S, place[d] = place[e] PROVE d = e
    <3>1. Cardinality(earlier(d)) = Cardinality(earlier(e))
      <4> HIDE DEF earlier
      <4> QED BY <1>3, <2>2
    <3>2. ~(d.sequence < e.sequence) /\ ~(e.sequence < d.sequence)
      <4> HIDE DEF earlier
      <4> QED BY <1>3, <1>4, <3>1
    <3> QED BY <1>2, <3>2 DEF Distinct
  <2> QED BY <2>1, <2>2 DEF Injection, IsInjective
<1>6. IsFiniteSet(1..n) /\ Cardinality(1..n) = n
  BY <1>1, FS_Interval
<1>7. place \in Surjection(S, 1..n)
  BY <1>5, <1>6, FS_Injection
<1>8. ASSUME NEW i \in 1..n PROVE \E e \in S : Cardinality(earlier(e)) = i - 1
  <2>1. PICK e \in S : place[e] = i
    BY <1>7 DEF Surjection
  <2>2. Cardinality(earlier(e)) + 1 = i /\ Cardinality(earlier(e)) \in Nat
    BY <1>3, <2>1
  <2> HIDE DEF earlier
  <2> QED BY <2>2
<1> QED BY <1>8

\* The events that are shown are in the order of their sequences.
InOrder(shownEvents) == \A i, j \in DOMAIN shownEvents : i < j => shownEvents[i].sequence < shownEvents[j].sequence

(* The last of what is in order is in order. *)
LEMMA LastOfInOrder ==
  ASSUME NEW s \in Seq(Events), NEW limit \in Nat \ {0}, InOrder(s)
  PROVE  InOrder(LastOf(s, limit))
<1> DEFINE k == IF Len(s) > limit THEN Len(s) - limit ELSE 0
<1>1. /\ k \in Nat /\ Len(s) \in Nat /\ k <= Len(s)
      /\ DOMAIN LastOf(s, limit) = 1..(Len(s) - k)
      /\ \A i \in 1..(Len(s) - k) : LastOf(s, limit)[i] = s[i + k]
  <2>1. LET kk == IF Len(s) > limit THEN Len(s) - limit ELSE 0 IN
         /\ kk \in Nat /\ Len(s) \in Nat /\ kk <= Len(s)
         /\ LastOf(s, limit) \in Seq(Events) /\ Len(LastOf(s, limit)) = Len(s) - kk
         /\ DOMAIN LastOf(s, limit) = 1..(Len(s) - kk)
         /\ \A i \in 1..(Len(s) - kk) : LastOf(s, limit)[i] = s[i + kk]
         /\ kk > 0 => Len(s) - kk = limit
    BY LastOfFacts, Zenon
  <2> QED BY <2>1, Zenon
<1> HIDE DEF k
<1> SUFFICES ASSUME NEW i \in 1..(Len(s) - k), NEW j \in 1..(Len(s) - k), i < j
    PROVE  LastOf(s, limit)[i].sequence < LastOf(s, limit)[j].sequence
  BY <1>1 DEF InOrder
<1>2. i + k \in 1..Len(s) /\ j + k \in 1..Len(s) /\ i + k < j + k
  BY <1>1
<1>3. s[i + k].sequence < s[j + k].sequence
  BY <1>2 DEF InOrder
<1> QED BY <1>1, <1>3

(* The greater of two numbers. *)
LEMMA MaxOfTwo ==
  ASSUME NEW m \in Nat, NEW n \in Nat
  PROVE  Max({m, n}) = IF m < n THEN n ELSE m
<1>1. \E x \in {m, n} : \A y \in {m, n} : x >= y
  OBVIOUS
<1>2. Max({m, n}) \in {m, n} /\ Max({m, n}) >= m /\ Max({m, n}) >= n
  BY <1>1 DEF Max
<1> QED BY <1>2

(* A snapshot is dropped if the client has seen a later event; otherwise the *)
(* client shows its run, with the events of both in order and any hole in    *)
(* them marked.                                                              *)
LEMMA MergeFacts ==
  ASSUME NEW v \in Views, NEW x \in Snapshots, Distinct(Range(v.events) \union Range(x.recentEvents))
  PROVE  LET w == mergeSnapshot(v, x) IN
         /\ w \in Views
         /\ x.sequence < v.lastSequence => w = v
         /\ ~(x.sequence < v.lastSequence) =>
              /\ w.shown = x.shown /\ w.lastSequence = x.sequence
              /\ w.hasSequenceGap <=> eventsHaveSequenceGap(w.events)
              /\ InOrder(w.events)
         /\ Range(w.events) \subseteq Range(v.events) \union Range(x.recentEvents)
<1> DEFINE merged == Range(v.events) \union Range(x.recentEvents)
           earlier(e) == {d \in merged : d.sequence < e.sequence}
           n == Cardinality(merged)
           at(i) == CHOOSE e \in merged : Cardinality(earlier(e)) = i - 1
           sorted == [i \in 1..n |-> at(i)]
           shownEvents == LastOf(sorted, EventWindow)
           w == mergeSnapshot(v, x)
<1>1. /\ v.events \in Seq(Events) /\ v.lastSequence \in Nat /\ x.recentEvents \in Seq(Events) /\ x.sequence \in Nat
      /\ x.shown \in Runs /\ v.shown \in Runs
  BY DEF Views, Snapshots
<1>2. merged \in SUBSET Events /\ IsFiniteSet(merged)
  BY <1>1, RangeIsFinite, FS_Union
<1>3. n \in Nat
  BY <1>2, FS_CardinalityType
<1>4. \A i \in 1..n : \E e \in merged : Cardinality({d \in merged : d.sequence < e.sequence}) = i - 1
  <2> HIDE DEF merged
  <2>1. Distinct(merged)
    BY DEF merged
  <2> QED BY <1>2, <2>1, EveryPlaceIsTaken
<1>5. w = IF x.sequence < v.lastSequence THEN v
          ELSE [shown |-> x.shown, events |-> shownEvents,
                lastSequence |-> Max({v.lastSequence, x.sequence}),
                hasSequenceGap |-> eventsHaveSequenceGap(shownEvents)]
  BY DEF mergeSnapshot
<1> HIDE DEF merged, w
<1>6. \A i \in 1..n : sorted[i] \in merged /\ Cardinality(earlier(sorted[i])) = i - 1
  BY <1>4
<1> HIDE DEF n, at
<1>7. sorted \in Seq(Events) /\ DOMAIN sorted = 1..n /\ Range(sorted) \subseteq merged
  <2>1. DOMAIN sorted = 1..n /\ \A i \in 1..n : sorted[i] \in Events
    BY <1>2, <1>6
  <2>2. sorted = [i \in 1..n |-> sorted[i]]
    BY <2>1
  <2> HIDE DEF sorted
  <2>3. sorted \in Seq(Events)
    BY <1>3, <2>1, <2>2
  <2> QED BY <1>6, <2>1, <2>3 DEF Range
<1>8. InOrder(sorted)
  <2> SUFFICES ASSUME NEW i \in 1..n, NEW j \in 1..n, i < j PROVE sorted[i].sequence < sorted[j].sequence
    BY <1>7 DEF InOrder
  <2>1. sorted[i] \in merged /\ sorted[j] \in merged
    BY <1>6
  <2>2. sorted[i].sequence \in Nat /\ sorted[j].sequence \in Nat
    <3>1. sorted[i] \in Events /\ sorted[j] \in Events
      BY <1>2, <2>1
    <3> QED BY <3>1 DEF Events
  <2> HIDE DEF sorted
  <2>3. SUFFICES ASSUME sorted[j].sequence <= sorted[i].sequence PROVE FALSE
    BY <2>2
  <2>4. earlier(sorted[j]) \in SUBSET earlier(sorted[i]) /\ earlier(sorted[i]) \in SUBSET merged
    <3>1. ASSUME NEW d \in merged, d.sequence < sorted[j].sequence PROVE d.sequence < sorted[i].sequence
      <4>1. d \in Events
        BY <1>2
      <4>2. d.sequence \in Nat
        BY <4>1 DEF Events
      <4> QED BY <2>2, <2>3, <3>1, <4>2
    <3> QED BY <3>1
  <2>5. Cardinality(earlier(sorted[j])) <= Cardinality(earlier(sorted[i]))
    BY <1>2, <2>4, FS_Subset
  <2> HIDE DEF earlier
  <2>6. j - 1 <= i - 1
    BY <1>6, <2>5
  <2> QED BY <1>3, <2>6
<1> HIDE DEF sorted
<1>9. shownEvents \in Seq(Events) /\ Range(shownEvents) \subseteq merged /\ InOrder(shownEvents)
  BY <1>7, <1>8, LastOfRange, LastOfInOrder, WindowAssumption
<1> HIDE DEF shownEvents
<1>10. CASE x.sequence < v.lastSequence
  BY <1>5, <1>10 DEF merged, w
<1>11. CASE ~(x.sequence < v.lastSequence)
  <2>1. Max({v.lastSequence, x.sequence}) = x.sequence
    BY <1>1, <1>11, MaxOfTwo
  <2>2. w = [shown |-> x.shown, events |-> shownEvents, lastSequence |-> x.sequence,
             hasSequenceGap |-> eventsHaveSequenceGap(shownEvents)]
    BY <1>5, <1>11, <2>1
  <2>3. eventsHaveSequenceGap(shownEvents) \in BOOLEAN
    BY DEF eventsHaveSequenceGap
  <2>4. /\ w.shown = x.shown /\ w.lastSequence = x.sequence /\ w.events = shownEvents
        /\ w.hasSequenceGap = eventsHaveSequenceGap(shownEvents)
    BY <2>2
  <2>5. w \in Views
    BY <1>1, <1>9, <2>2, <2>3 DEF Views
  <2>6. Range(w.events) \subseteq Range(v.events) \union Range(x.recentEvents)
    BY <1>9, <2>4 DEF merged
  <2> HIDE DEF w
  <2>7. InOrder(w.events) /\ (w.hasSequenceGap <=> eventsHaveSequenceGap(w.events))
    BY <1>9, <2>4
  <2> QED BY <1>11, <2>4, <2>5, <2>6, <2>7 DEF w
<1> QED BY <1>10, <1>11

(* An event that arrives is shown with those before it. *)
LEMMA ApplyFacts ==
  ASSUME NEW v \in Views, NEW e \in Events
  PROVE  LET w == applyRuntimeEvent(v, e) IN
         /\ w \in Views /\ w.shown = v.shown
         /\ w.lastSequence >= v.lastSequence /\ w.lastSequence >= e.sequence
         /\ w.lastSequence = v.lastSequence \/ w.lastSequence = e.sequence
         /\ Range(w.events) \subseteq Range(v.events) \union {e}
<1> DEFINE w == applyRuntimeEvent(v, e)
           shownEvents == LastOf(Append(v.events, e), EventWindow)
           gap == v.hasSequenceGap \/ (v.lastSequence > 0 /\ e.sequence > v.lastSequence + 1)
<1>1. v.events \in Seq(Events) /\ v.lastSequence \in Nat /\ e.sequence \in Nat /\ v.shown \in Runs
  BY DEF Views, Events
<1>2. CASE e.sequence <= v.lastSequence /\ \E d \in Range(v.events) : d.sequence = e.sequence
  <2>1. w = v
    BY <1>2 DEF applyRuntimeEvent
  <2> HIDE DEF w
  <2>2. /\ w \in Views /\ w.shown = v.shown
        /\ w.lastSequence >= v.lastSequence /\ w.lastSequence >= e.sequence
        /\ w.lastSequence = v.lastSequence \/ w.lastSequence = e.sequence
        /\ Range(w.events) \subseteq Range(v.events) \union {e}
    BY <1>1, <1>2, <2>1
  <2> QED BY <2>2 DEF w
<1>3. CASE ~(e.sequence <= v.lastSequence /\ \E d \in Range(v.events) : d.sequence = e.sequence)
  <2>1. w = [v EXCEPT !.hasSequenceGap = gap, !.events = shownEvents, !.lastSequence = Max({v.lastSequence, e.sequence})]
    BY <1>3 DEF applyRuntimeEvent
  <2>2. Max({v.lastSequence, e.sequence}) = IF v.lastSequence < e.sequence THEN e.sequence ELSE v.lastSequence
    BY <1>1, MaxOfTwo
  <2>3. Append(v.events, e) \in Seq(Events) /\ Range(Append(v.events, e)) \subseteq Range(v.events) \union {e}
    <3> DEFINE longer == Append(v.events, e)
               n == Len(v.events)
    <3>1. /\ longer \in Seq(Events) /\ DOMAIN longer = 1..(n + 1) /\ DOMAIN v.events = 1..n /\ n \in Nat
          /\ longer[n + 1] = e /\ \A i \in 1..n : longer[i] = v.events[i]
      BY <1>1
    <3>2. \A i \in 1..(n + 1) : i = n + 1 \/ i \in 1..n
      BY <3>1
    <3> HIDE DEF longer, n
    <3>3. Range(longer) \subseteq Range(v.events) \union {e}
      BY <3>1, <3>2 DEF Range
    <3> QED BY <3>1, <3>3 DEF longer
  <2>4. shownEvents \in Seq(Events) /\ Range(shownEvents) \subseteq Range(v.events) \union {e}
    BY <2>3, LastOfRange, WindowAssumption
  <2>5. gap \in BOOLEAN
    OBVIOUS
  <2> HIDE DEF shownEvents, gap, w
  <2>6. /\ w.shown = v.shown /\ w.events = shownEvents /\ w.hasSequenceGap = gap
        /\ w.lastSequence = Max({v.lastSequence, e.sequence}) /\ w \in Views
    BY <1>1, <2>1, <2>2, <2>4, <2>5 DEF Views
  <2>7. /\ w \in Views /\ w.shown = v.shown
        /\ w.lastSequence >= v.lastSequence /\ w.lastSequence >= e.sequence
        /\ w.lastSequence = v.lastSequence \/ w.lastSequence = e.sequence
        /\ Range(w.events) \subseteq Range(v.events) \union {e}
    BY <1>1, <2>2, <2>4, <2>6
  <2> QED BY <2>7 DEF w
<1> QED BY <1>2, <1>3
-----------------------------------------------------------------------------
(* What is on its way *)

Items == {EventItem(e) : e \in Events} \union {SnapshotItem(x) : x \in Snapshots}

ClientTypes ==
  /\ subscribed \in BOOLEAN /\ stream \in Seq(Items)
  /\ action \in [status : {"none", "pending", "answered"}, answer : Snapshots \union {Null}]
  /\ view \in Views
  /\ connection \in {"connecting", "open", "closed"} /\ lastEventId \in Nat
  /\ refresh \in [status : {"idle", "asked", "answered"}, queued : BOOLEAN, response : Snapshots \union {Null}]
  /\ told \in BOOLEAN

Streamed(item) == item \in Range(stream)

\* Is this snapshot on its way to the client?
InFlight(x) == Streamed(SnapshotItem(x)) \/ refresh.response = x \/ action.answer = x

\* Does the server, the client or anything on its way to it have this event?
Known(e) ==
  \/ e \in Range(events) \/ e \in Range(view.events) \/ Streamed(EventItem(e))
  \/ \E x \in Snapshots : InFlight(x) /\ e \in Range(x.recentEvents)

\* Does the newest event wait in the stream, or a snapshot that has it?
LatestStreamed ==
  \/ \E e \in Events : Streamed(EventItem(e)) /\ e.sequence = sequence
  \/ \E x \in Snapshots : Streamed(SnapshotItem(x)) /\ x.sequence = sequence

\* No change of the run is kept back from its events.
Calm == experiment = Null /\ (cleanupRequested => status # "running")

\* Is this the run as it is?
Fits(shown) == IF status = "gone" THEN shown.status = "stopped" ELSE shown = Shown

(* A run that ends has no calls left. *)
Ended == status # "running" => cleanupRequested /\ experiment = Null /\ mutations = <<>>

(* A stream that is open is served until the run has stopped. *)
Channel ==
  /\ connection # "open" => stream = <<>> /\ ~subscribed
  /\ connection = "open" /\ ~subscribed => status \in {"stopped", "gone"}

(* Nothing is newer than the server's last event, and the events that anyone *)
(* has are the server's: those of the same sequence are the same.            *)
Consistent ==
  /\ \A e \in Events : Known(e) => e.sequence <= sequence
  /\ \A d, e \in Events : Known(d) /\ Known(e) /\ d.sequence = e.sequence => d = e
  /\ view.lastSequence <= sequence
  /\ \A x \in Snapshots : InFlight(x) => x.sequence <= sequence

(* An open stream leads up to the newest event. *)
Reach == connection = "open" => view.lastSequence = sequence \/ LatestStreamed

(* A snapshot that has seen every event shows the run as it is. *)
SnapshotsFit == Calm => \A x \in Snapshots : InFlight(x) /\ x.sequence = sequence => Fits(x.shown)

Requests ==
  /\ action.status # "answered" => action.answer = Null
  /\ refresh.status # "answered" => refresh.response = Null
  /\ refresh.status = "idle" => ~refresh.queued

(* A client that shows something else has yet to receive what tells it. *)
Coming ==
  Calm /\ connection = "open" /\ ~told /\ ~ShowsTheRun =>
    \/ \E e \in Events : Streamed(EventItem(e))
    \/ \E x \in Snapshots : Streamed(SnapshotItem(x)) /\ x.sequence = sequence
    \/ refresh.status = "asked" \/ refresh.queued
    \/ refresh.status = "answered" /\ (refresh.response = Null \/ refresh.response.sequence = sequence)
    \/ action.status = "pending"
    \/ action.status = "answered" /\ (action.answer = Null \/ action.answer.sequence = sequence)

ClientInv == ClientTypes /\ Channel /\ Consistent /\ Reach /\ SnapshotsFit /\ Requests /\ Coming

\* A snapshot shows the run and its last events.
SnapshotIsTheRun ==
  /\ Snapshot \in Snapshots /\ Snapshot.sequence = sequence /\ Snapshot.shown = Shown
  /\ Range(Snapshot.recentEvents) \subseteq Range(events) /\ Shown \in Runs /\ Shown.status = status

LEMMA SnapshotFacts == ServerTypes => SnapshotIsTheRun
<1> SUFFICES ASSUME ServerTypes PROVE SnapshotIsTheRun
  OBVIOUS
<1>1. /\ LastOf(events, TimelineDisplayLimit) \in Seq(Events)
      /\ Range(LastOf(events, TimelineDisplayLimit)) \subseteq Range(events)
  BY LastOfRange, LimitsAssumption DEF ServerTypes, HubTypes
<1>2. Shown \in Runs /\ Shown.status = status
  BY DEF Shown, Runs, ServerTypes, StatusTypes, TimerTypes, ScenarioTypes
<1>3. sequence \in Nat
  BY DEF ServerTypes, HubTypes
<1>4. Snapshot = [sequence |-> sequence, recentEvents |-> LastOf(events, TimelineDisplayLimit), shown |-> Shown]
  BY DEF Snapshot
<1>5. Snapshot \in Snapshots /\ Snapshot.sequence = sequence /\ Snapshot.shown = Shown
      /\ Snapshot.recentEvents = LastOf(events, TimelineDisplayLimit)
  BY <1>1, <1>2, <1>3, <1>4 DEF Snapshots
<1> QED BY <1>1, <1>2, <1>5 DEF SnapshotIsTheRun

LEMMA NextSnapshotFacts == ServerTypes' => SnapshotIsTheRun'
  BY SnapshotFacts, PTL

(* Items of a stream are told apart. *)
LEMMA ItemFacts ==
  /\ \A d, e : EventItem(d) = EventItem(e) => d = e
  /\ \A x, y : SnapshotItem(x) = SnapshotItem(y) => x = y
  /\ \A e, x : EventItem(e) # SnapshotItem(x)
  BY DEF EventItem, SnapshotItem

(* What is known stays consistent if all that is new are newer events. *)
LEMMA ConsistentKept ==
  ASSUME sequence \in Nat, sequence' \in Nat, sequence <= sequence', Consistent,
         NEW F \in SUBSET Events, Distinct(F), \A e \in F : sequence < e.sequence /\ e.sequence <= sequence',
         \A e \in Events : Known(e)' => Known(e) \/ e \in F,
         view'.lastSequence <= sequence',
         \A x \in Snapshots : InFlight(x)' => InFlight(x) \/ x.sequence <= sequence'
  PROVE  Consistent'
<1>1. \A e \in Events : e.sequence \in Nat
  BY DEF Events
<1>2. \A x \in Snapshots : x.sequence \in Nat
  BY DEF Snapshots
<1>3. ASSUME NEW e \in Events, Known(e)' PROVE e.sequence <= sequence'
  <2>1. Known(e) => e.sequence <= sequence
    BY DEF Consistent
  <2>2. Known(e) \/ e \in F
    BY <1>3
  <2> QED BY <1>1, <2>1, <2>2
<1>4. ASSUME NEW d \in Events, NEW e \in Events, Known(d)', Known(e)', d.sequence = e.sequence PROVE d = e
  <2>1. (Known(d) \/ d \in F) /\ (Known(e) \/ e \in F)
    BY <1>4
  <2>2. (Known(d) => d.sequence <= sequence) /\ (Known(e) => e.sequence <= sequence)
    BY DEF Consistent
  <2>3. CASE Known(d) /\ Known(e)
    BY <1>4, <2>3 DEF Consistent
  <2>4. CASE d \in F /\ e \in F
    BY <1>4, <2>4 DEF Distinct
  <2> QED BY <1>1, <1>4, <2>1, <2>2, <2>3, <2>4
<1>5. ASSUME NEW x \in Snapshots, InFlight(x)' PROVE x.sequence <= sequence'
  <2>1. InFlight(x) => x.sequence <= sequence
    BY DEF Consistent
  <2> QED BY <1>2, <1>5, <2>1
<1> QED BY <1>3, <1>4, <1>5 DEF Consistent

-----------------------------------------------------------------------------
(* Steps of the server *)

\* What the client's command is told at a step.
AnswerStep ==
  \/ action' = action
  \/ action' = [status |-> "answered", answer |-> Null]
  \/ action' = [status |-> "answered", answer |-> Snapshot'] /\ status' # "gone"

\* A step that emits nothing changes nothing that is shown, unless an
\* experiment or a cleanup keeps it back; the run may be forgotten.
Silent ==
  /\ UNCHANGED <<clientVars, hubVars>> /\ AnswerStep
  /\ status \in {"stopped", "gone"} => status' \in {"stopped", "gone"}
  /\ Calm' => Calm /\ (UNCHANGED <<status, Shown>> \/ (status = "stopped" /\ status' = "gone"))

Emission(payloads) ==
  /\ UNCHANGED clientVars /\ AnswerStep
  /\ payloads # <<>> /\ EmitAll(payloads)
  /\ status \in {"running", "cleaning"}
  /\ UNCHANGED subscribed \/ (subscribed' = FALSE /\ status' = "stopped")

LEMMA AnswerFacts ==
  ASSUME ClientInv, ServerTypes', AnswerStep, UNCHANGED refresh
  PROVE  /\ action' \in [status : {"none", "pending", "answered"}, answer : Snapshots \union {Null}]
         /\ Requests'
         /\ \A x \in Snapshots : action'.answer = x =>
              action.answer = x \/ (x = Snapshot' /\ status' # "gone")
         /\ action' # action => action'.status = "answered" /\ (action'.answer = Null \/ action'.answer.sequence = sequence')
<1>1. Snapshot' \in Snapshots /\ Snapshot'.sequence = sequence'
  BY NextSnapshotFacts DEF SnapshotIsTheRun
<1>2. Null \notin Snapshots
  BY NullAssumption
<1> QED BY <1>1, <1>2 DEF AnswerStep, ClientInv, ClientTypes, Requests

LEMMA SilentKeeps == ServerTypes /\ ServerTypes' /\ ClientInv /\ Silent => ClientInv'
<1> SUFFICES ASSUME ServerTypes, ServerTypes', ClientInv, Silent PROVE ClientInv'
  OBVIOUS
<1>1. /\ Snapshot' \in Snapshots /\ Snapshot'.sequence = sequence' /\ Snapshot'.shown = Shown'
      /\ Range(Snapshot'.recentEvents) \subseteq Range(events')
  BY NextSnapshotFacts DEF SnapshotIsTheRun
<1>2. UNCHANGED <<view, connection, lastEventId, refresh, told, sequence, events, subscribed, stream>> /\ AnswerStep
  BY DEF Silent, clientVars, hubVars
<1>3. /\ action' \in [status : {"none", "pending", "answered"}, answer : Snapshots \union {Null}]
      /\ Requests'
      /\ \A x \in Snapshots : action'.answer = x =>
           action.answer = x \/ (x = Snapshot' /\ status' # "gone")
      /\ action' # action => action'.status = "answered" /\ (action'.answer = Null \/ action'.answer.sequence = sequence')
  BY <1>2, AnswerFacts
<1>4. ClientTypes'
  BY <1>2, <1>3 DEF ClientInv, ClientTypes
<1>5. Channel'
  BY <1>2 DEF ClientInv, Channel, Silent
<1>6. \A item : Streamed(item)' <=> Streamed(item)
  BY <1>2 DEF Streamed
<1>7. \A x \in Snapshots : InFlight(x)' => InFlight(x) \/ (x = Snapshot' /\ status' # "gone")
  BY <1>2, <1>3, <1>6 DEF InFlight
<1>8. ASSUME NEW e \in Events, Known(e)' PROVE Known(e)
  BY <1>1, <1>2, <1>6, <1>7, <1>8 DEF Known
<1>9. Consistent'
  <2>1. sequence \in Nat /\ Distinct({})
    BY DEF ServerTypes, HubTypes, Distinct
  <2>2. view'.lastSequence <= sequence' /\ Consistent
    BY <1>2 DEF ClientInv, Consistent
  <2>3. ASSUME NEW x \in Snapshots, InFlight(x)' PROVE InFlight(x) \/ x.sequence <= sequence'
    BY <1>1, <1>2, <1>7, <2>1, <2>3
  <2> QED BY <1>2, <1>8, <2>1, <2>2, <2>3, ConsistentKept
<1>10. Reach'
  BY <1>2, <1>6 DEF ClientInv, Reach, LatestStreamed
<1>11. SnapshotsFit'
  <2> SUFFICES ASSUME Calm', NEW x \in Snapshots, InFlight(x)', x.sequence = sequence' PROVE Fits(x.shown)'
    BY DEF SnapshotsFit
  <2>1. Calm /\ (UNCHANGED <<status, Shown>> \/ (status = "stopped" /\ status' = "gone"))
    BY DEF Silent
  <2>2. CASE InFlight(x)
    <3>1. Fits(x.shown)
      BY <1>2, <2>1, <2>2 DEF ClientInv, SnapshotsFit
    <3>2. Shown.status = status
      BY SnapshotFacts DEF SnapshotIsTheRun
    <3> QED BY <2>1, <3>1, <3>2 DEF Fits
  <2>3. CASE x = Snapshot' /\ status' # "gone"
    BY <1>1, <2>3 DEF Fits
  <2> QED BY <1>7, <2>2, <2>3
<1>12. Coming'
  <2>1. ASSUME Calm', ~ShowsTheRun' PROVE Calm /\ ~ShowsTheRun
    <3>1. Calm /\ (UNCHANGED <<status, Shown>> \/ (status = "stopped" /\ status' = "gone"))
      BY <2>1 DEF Silent
    <3>2. Shown.status = status
      BY SnapshotFacts DEF SnapshotIsTheRun
    <3>3. CASE UNCHANGED <<status, Shown>>
      BY <1>2, <2>1, <3>1, <3>3 DEF ShowsTheRun
    <3>4. CASE status = "stopped" /\ status' = "gone"
      BY <1>2, <2>1, <3>1, <3>2, <3>4 DEF ShowsTheRun
    <3> QED BY <3>1, <3>3, <3>4
  <2>2. CASE action' = action
    BY <1>2, <1>6, <2>1, <2>2 DEF ClientInv, Coming
  <2>3. CASE action' # action
    BY <1>3, <2>3 DEF Coming
  <2> QED BY <2>2, <2>3
<1> QED BY <1>3, <1>4, <1>5, <1>9, <1>10, <1>11, <1>12 DEF ClientInv

LEMMA EmissionKeeps ==
  ASSUME ServerTypes, ServerTypes', ClientInv, NEW payloads \in Seq(Events), Emission(payloads)
  PROVE  ClientInv'
<1>1. /\ Snapshot' \in Snapshots /\ Snapshot'.sequence = sequence' /\ Snapshot'.shown = Shown'
      /\ Range(Snapshot'.recentEvents) \subseteq Range(events')
  BY NextSnapshotFacts DEF SnapshotIsTheRun
<1>2. /\ UNCHANGED <<view, connection, lastEventId, refresh, told>> /\ AnswerStep
      /\ payloads # <<>> /\ EmitAll(payloads)
      /\ status \in {"running", "cleaning"}
      /\ subscribed' = subscribed \/ (subscribed' = FALSE /\ status' = "stopped")
  BY DEF Emission, clientVars
<1>3. /\ action' \in [status : {"none", "pending", "answered"}, answer : Snapshots \union {Null}]
      /\ Requests'
      /\ \A x \in Snapshots : action'.answer = x =>
           action.answer = x \/ (x = Snapshot' /\ status' # "gone")
      /\ action' # action => action'.status = "answered" /\ (action'.answer = Null \/ action'.answer.sequence = sequence')
  BY <1>2, AnswerFacts
<1>4. sequence \in Nat /\ events \in Seq(Events) /\ stream \in Seq(Items) /\ Len(payloads) \in Nat \ {0}
  BY <1>2 DEF ServerTypes, HubTypes, ClientInv, ClientTypes
<1>5. PICK numbered \in Seq(Events) :
           /\ Len(numbered) = Len(payloads)
           /\ \A i \in 1..Len(payloads) : /\ numbered[i].type = payloads[i].type /\ numbered[i].of = payloads[i].of
                                          /\ numbered[i].sequence = sequence + i
           /\ events' = LastOf(events \o numbered, EventHistoryLimit)
           /\ sequence' = sequence + Len(payloads) /\ sequence' \in Nat
           /\ stream' = IF subscribed THEN stream \o [i \in 1..Len(payloads) |-> EventItem(numbered[i])] ELSE stream
  BY <1>2, <1>4, EmitAllFacts
<1> DEFINE n == Len(payloads)
           F == {numbered[i] : i \in 1..n}
<1>6. /\ n \in Nat \ {0} /\ Len(numbered) = n /\ DOMAIN numbered = 1..n /\ sequence' = sequence + n /\ sequence' \in Nat
      /\ \A i \in 1..n : numbered[i] \in Events /\ numbered[i].sequence = sequence + i
      /\ events' = LastOf(events \o numbered, EventHistoryLimit)
      /\ stream' = IF subscribed THEN stream \o [i \in 1..n |-> EventItem(numbered[i])] ELSE stream
  BY <1>4, <1>5
<1> HIDE DEF n
<1>7. F \in SUBSET Events /\ Distinct(F) /\ \A e \in F : sequence < e.sequence /\ e.sequence <= sequence'
  BY <1>4, <1>6 DEF Distinct
<1>8. Range(events') \subseteq Range(events) \union F
  <2>1. events \o numbered \in Seq(Events) /\ Range(events \o numbered) = Range(events) \union Range(numbered)
    BY <1>4, RangeOfConcat
  <2>2. Range(numbered) = F
    BY <1>6 DEF Range
  <2>3. Range(LastOf(events \o numbered, EventHistoryLimit)) \subseteq Range(events \o numbered)
    BY <2>1, LastOfRange, LimitsAssumption
  <2> QED BY <1>6, <2>1, <2>2, <2>3
<1>9. /\ stream' \in Seq(Items)
      /\ \A item : Streamed(item) => Streamed(item)'
      /\ \A item : Streamed(item)' => Streamed(item) \/ \E e \in F : item = EventItem(e)
      /\ subscribed => \E e \in F : e.sequence = sequence' /\ Streamed(EventItem(e))'
  <2>1. CASE ~subscribed
    <3>1. stream' = stream
      BY <1>6, <2>1
    <3> QED BY <1>4, <2>1, <3>1 DEF Streamed
  <2>2. CASE subscribed
    <3> DEFINE new == [i \in 1..n |-> EventItem(numbered[i])]
    <3>1. /\ DOMAIN new = 1..n /\ \A i \in 1..n : new[i] = EventItem(numbered[i]) /\ new[i] \in Items
      BY <1>6 DEF Items
    <3>2. stream' = stream \o new /\ new = [i \in 1..n |-> new[i]]
      BY <1>6, <2>2
    <3> HIDE DEF new
    <3>3. new \in Seq(Items)
      <4>1. \A i \in 1..n : new[i] \in Items
        BY <3>1
      <4>2. n \in Nat
        BY <1>6
      <4> QED BY <3>2, <4>1, <4>2, SequenceOf
    <3>4. stream' \in Seq(Items) /\ Range(stream') = Range(stream) \union Range(new)
      <4>1. stream \in Seq(Items)
        BY <1>4
      <4>2. stream \o new \in Seq(Items) /\ Range(stream \o new) = Range(stream) \union Range(new)
        BY <3>3, <4>1, RangeOfConcat
      <4> QED BY <3>2, <4>2
    <3>5. Range(new) = {EventItem(e) : e \in F}
      BY <3>1 DEF Range
    <3>6. numbered[n] \in F /\ numbered[n].sequence = sequence'
      BY <1>6
    <3> QED BY <3>4, <3>5, <3>6 DEF Streamed
  <2> QED BY <2>1, <2>2
<1> HIDE DEF F
<1>10. ClientTypes'
  BY <1>2, <1>3, <1>9 DEF ClientInv, ClientTypes
<1>11. Channel'
  <2>1. connection' # "open" => stream' = <<>> /\ ~subscribed'
    BY <1>2, <1>6 DEF ClientInv, Channel
  <2>2. connection' = "open" /\ ~subscribed' => status' \in {"stopped", "gone"}
    BY <1>2 DEF ClientInv, Channel
  <2> QED BY <2>1, <2>2 DEF Channel
<1>12. \A x \in Snapshots : InFlight(x)' => InFlight(x) \/ (x = Snapshot' /\ status' # "gone")
  BY <1>2, <1>3, <1>9, ItemFacts DEF InFlight
<1>13. ASSUME NEW e \in Events, Known(e)' PROVE Known(e) \/ e \in F
  <2>1. Streamed(EventItem(e))' => Streamed(EventItem(e)) \/ e \in F
    BY <1>9, ItemFacts
  <2> QED BY <1>1, <1>2, <1>8, <1>12, <1>13, <2>1 DEF Known
<1>14. Consistent'
  <2>1. view'.lastSequence <= sequence' /\ Consistent /\ sequence <= sequence'
    <3>1. view.lastSequence \in Nat /\ view.lastSequence <= sequence
      BY DEF ClientInv, ClientTypes, Consistent, Views
    <3> QED BY <1>2, <1>4, <1>6, <3>1 DEF ClientInv
  <2>2. ASSUME NEW x \in Snapshots, InFlight(x)' PROVE InFlight(x) \/ x.sequence <= sequence'
    BY <1>1, <1>6, <1>12, <2>2
  <2> QED BY <1>4, <1>6, <1>7, <1>13, <2>1, <2>2, ConsistentKept
<1>15. connection' = "open" => \E e \in F : e.sequence = sequence' /\ Streamed(EventItem(e))'
  BY <1>2, <1>9 DEF ClientInv, Channel
<1>16. Reach'
  BY <1>7, <1>15 DEF Reach, LatestStreamed
<1>17. SnapshotsFit'
  <2> SUFFICES ASSUME NEW x \in Snapshots, InFlight(x)', x.sequence = sequence' PROVE Fits(x.shown)'
    BY DEF SnapshotsFit
  <2>1. InFlight(x) => x.sequence <= sequence
    BY DEF ClientInv, Consistent
  <2>2. x = Snapshot' /\ status' # "gone"
    BY <1>4, <1>6, <1>12, <2>1
  <2> QED BY <1>1, <2>2 DEF Fits
<1>18. Coming'
  BY <1>7, <1>15 DEF Coming
<1> QED BY <1>3, <1>10, <1>11, <1>14, <1>16, <1>17, <1>18 DEF ClientInv
-----------------------------------------------------------------------------
(* Steps of the client *)

\* What the server would answer now.
Current == IF status = "gone" THEN Null ELSE Snapshot

\* A step of the client, or of the connection, that the run does not notice.
Unnoticed == UNCHANGED <<sequence, events, status, cleanupRequested, experiment, Shown>>

(* If all that is new is the run as it is, everything stays consistent. *)
LEMMA NothingNew ==
  ASSUME ServerTypes, ClientInv, Unnoticed,
         \A e \in Events : Streamed(EventItem(e))' => Streamed(EventItem(e)) \/ e \in Range(events),
         \A x \in Snapshots : InFlight(x)' => InFlight(x) \/ x = Current,
         \A e \in Events : e \in Range(view'.events) => Known(e),
         view'.lastSequence <= sequence
  PROVE  Consistent' /\ SnapshotsFit'
<1>1. /\ Snapshot \in Snapshots /\ Snapshot.sequence = sequence /\ Snapshot.shown = Shown
      /\ Range(Snapshot.recentEvents) \subseteq Range(events)
  BY SnapshotFacts DEF SnapshotIsTheRun
<1>2. UNCHANGED <<sequence, events, status, cleanupRequested, experiment, Shown>> /\ sequence \in Nat
  BY DEF Unnoticed, ServerTypes, HubTypes
<1>3. \A x \in Snapshots : x = Current => x = Snapshot /\ status # "gone"
  BY NullAssumption DEF Current
<1>4. ASSUME NEW e \in Events, Known(e)' PROVE Known(e)
  <2>1. CASE e \in Range(events') \/ Streamed(EventItem(e))'
    BY <1>2, <2>1 DEF Known
  <2>2. CASE e \in Range(view'.events)
    BY <2>2
  <2>3. CASE \E x \in Snapshots : InFlight(x)' /\ e \in Range(x.recentEvents)
    <3>1. PICK x \in Snapshots : InFlight(x)' /\ e \in Range(x.recentEvents)
      BY <2>3
    <3>2. InFlight(x) \/ e \in Range(events)
      BY <1>1, <1>3, <3>1
    <3> QED BY <3>1, <3>2 DEF Known
  <2> QED BY <1>4, <2>1, <2>2, <2>3 DEF Known
<1>5. Consistent'
  <2>1. Distinct({}) /\ sequence <= sequence' /\ sequence' \in Nat /\ view'.lastSequence <= sequence' /\ Consistent
    BY <1>2 DEF Distinct, ClientInv
  <2>2. ASSUME NEW x \in Snapshots, InFlight(x)' PROVE InFlight(x) \/ x.sequence <= sequence'
    BY <1>1, <1>2, <1>3, <2>2
  <2> QED BY <1>2, <1>4, <2>1, <2>2, ConsistentKept
<1>6. SnapshotsFit'
  <2> SUFFICES ASSUME Calm', NEW x \in Snapshots, InFlight(x)', x.sequence = sequence' PROVE Fits(x.shown)'
    BY DEF SnapshotsFit
  <2>1. Calm
    BY <1>2 DEF Calm
  <2>2. Fits(x.shown)
    <3>1. CASE InFlight(x)
      BY <1>2, <2>1, <3>1 DEF ClientInv, SnapshotsFit
    <3>2. CASE x = Snapshot /\ status # "gone"
      BY <1>1, <3>2 DEF Fits
    <3> QED BY <1>3, <3>1, <3>2
  <2> QED BY <1>2, <2>2 DEF Fits
<1> QED BY <1>5, <1>6

(* A snapshot that arrives is dropped if it is older than what is shown; one *)
(* that has seen every event makes the client show the run.                  *)
LEMMA MergeKeeps ==
  ASSUME ServerTypes, ClientInv, Unnoticed, NEW x \in Snapshots, InFlight(x), view' = mergeSnapshot(view, x)
  PROVE  /\ view' \in Views
         /\ \A e \in Events : e \in Range(view'.events) => Known(e)
         /\ view'.lastSequence <= sequence /\ view.lastSequence <= view'.lastSequence /\ x.sequence <= view'.lastSequence
         /\ x.sequence < view.lastSequence => view' = view
         /\ Calm /\ x.sequence = sequence => ShowsTheRun'
         /\ x.sequence \in Nat /\ x.sequence <= sequence
<1>1. view \in Views /\ view.lastSequence \in Nat /\ view.lastSequence <= sequence /\ sequence \in Nat
      /\ x.sequence \in Nat /\ x.sequence <= sequence
      /\ view.events \in Seq(Events) /\ x.recentEvents \in Seq(Events)
  BY DEF ClientInv, ClientTypes, Consistent, Views, Snapshots, ServerTypes, HubTypes
<1>2. \A e \in Range(view.events) \union Range(x.recentEvents) : e \in Events /\ Known(e)
  BY <1>1, RangeIsFinite DEF Known
<1>3. Distinct(Range(view.events) \union Range(x.recentEvents))
  BY <1>2 DEF Distinct, ClientInv, Consistent
<1>4. /\ view' \in Views
      /\ x.sequence < view.lastSequence => view' = view
      /\ ~(x.sequence < view.lastSequence) =>
           /\ view'.shown = x.shown /\ view'.lastSequence = x.sequence
           /\ view'.hasSequenceGap <=> eventsHaveSequenceGap(view'.events)
           /\ InOrder(view'.events)
      /\ Range(view'.events) \subseteq Range(view.events) \union Range(x.recentEvents)
  BY <1>1, <1>3, MergeFacts
<1>5. ASSUME Calm, x.sequence = sequence PROVE ShowsTheRun'
  <2>1. Fits(x.shown)
    BY <1>5 DEF ClientInv, SnapshotsFit
  <2>2. /\ view'.shown = x.shown
        /\ view'.hasSequenceGap <=> eventsHaveSequenceGap(view'.events)
        /\ InOrder(view'.events)
    BY <1>1, <1>4, <1>5
  <2>3. status' = status /\ Shown' = Shown
    BY DEF Unnoticed
  <2> QED BY <2>1, <2>2, <2>3 DEF ShowsTheRun, Fits, InOrder
<1>6. view'.lastSequence <= sequence /\ view.lastSequence <= view'.lastSequence /\ x.sequence <= view'.lastSequence
  BY <1>1, <1>4
<1> QED BY <1>1, <1>2, <1>4, <1>5, <1>6

(* What the client shows stays right while the run and the view do. *)
LEMMA ShownKept ==
  ASSUME Unnoticed, view' = view
  PROVE  (Calm' <=> Calm) /\ (ShowsTheRun' <=> ShowsTheRun)
<1>1. UNCHANGED <<status, cleanupRequested, experiment, Shown>>
  BY DEF Unnoticed
<1>2. Calm' <=> Calm
  BY <1>1 DEF Calm
<1>3. ShowsTheRun' <=> ShowsTheRun
  BY <1>1 DEF ShowsTheRun
<1> QED BY <1>2, <1>3

LEMMA RefreshFacts ==
  ASSUME ClientInv, RefreshActiveSnapshot
  PROVE  /\ refresh' \in [status : {"idle", "asked", "answered"}, queued : BOOLEAN, response : Snapshots \union {Null}]
         /\ refresh'.status = "asked" \/ refresh'.queued
         /\ refresh'.response = refresh.response
         /\ refresh'.status # "answered" => refresh'.response = Null
         /\ refresh'.status = "idle" => ~refresh'.queued
<1>1. /\ refresh \in [status : {"idle", "asked", "answered"}, queued : BOOLEAN, response : Snapshots \union {Null}]
      /\ refresh.status # "answered" => refresh.response = Null
      /\ refresh.status = "idle" => ~refresh.queued
  BY DEF ClientInv, ClientTypes, Requests
<1>2. CASE refresh.status = "idle"
  BY <1>1, <1>2 DEF RefreshActiveSnapshot, NoRefresh
<1>3. CASE refresh.status # "idle"
  <2>1. refresh' = [refresh EXCEPT !.queued = TRUE]
    BY <1>3 DEF RefreshActiveSnapshot
  <2> QED BY <1>1, <1>3, <2>1
<1> QED BY <1>2, <1>3

(* Neither the connection nor a request of the client changes the run. *)
LEMMA RunUnchanged ==
  ASSUME UNCHANGED runVars, UNCHANGED <<sequence, events>>
  PROVE  Unnoticed
BY DEF Unnoticed, runVars, timerVars, scenarioVars, Shown

\* The answer to a refresh comes, whatever it is.
LEMMA AnswerRefreshKeeps ==
  ASSUME ServerTypes, ClientInv, UNCHANGED <<runVars, hubVars, action>>,
         NEW answer \in {Null, Current}, AnswerRefresh(answer)
  PROVE  ClientInv'
<1>1. /\ UNCHANGED <<view, connection, lastEventId, told, sequence, events, subscribed, stream, action>> /\ Unnoticed
      /\ refresh.status = "asked" /\ refresh' = [refresh EXCEPT !.status = "answered", !.response = answer]
  BY RunUnchanged DEF AnswerRefresh, hubVars
<1>2. Snapshot \in Snapshots /\ Snapshot.sequence = sequence
  BY SnapshotFacts DEF SnapshotIsTheRun
<1>3. /\ refresh' \in [status : {"idle", "asked", "answered"}, queued : BOOLEAN, response : Snapshots \union {Null}]
      /\ refresh'.status = "answered" /\ refresh'.response = answer
      /\ answer = Null \/ answer.sequence = sequence
  BY <1>1, <1>2 DEF ClientInv, ClientTypes, Current
<1>4. ClientTypes' /\ Requests'
  BY <1>1, <1>3 DEF ClientInv, ClientTypes, Requests
<1>5. Channel'
  <2>1. status' = status
    BY <1>1 DEF Unnoticed
  <2> QED BY <1>1, <2>1 DEF ClientInv, Channel
<1>6. \A item : Streamed(item)' <=> Streamed(item)
  BY <1>1 DEF Streamed
<1>7. Consistent' /\ SnapshotsFit'
  <2>1. \A x \in Snapshots : InFlight(x)' => InFlight(x) \/ x = Current
    BY <1>1, <1>3, <1>6, NullAssumption DEF InFlight
  <2>2. /\ \A e \in Events : e \in Range(view'.events) => Known(e)
        /\ view'.lastSequence <= sequence
    BY <1>1 DEF ClientInv, Consistent, Known
  <2> QED BY <1>1, <1>6, <2>1, <2>2, NothingNew
<1>8. Reach'
  BY <1>1, <1>6 DEF ClientInv, Reach, LatestStreamed
<1>9. Coming'
  BY <1>1, <1>3 DEF Coming
<1> QED BY <1>4, <1>5, <1>7, <1>8, <1>9 DEF ClientInv

LEMMA ServeRefreshKeeps == ServerTypes /\ ClientInv /\ ServeRefresh => ClientInv'
<1> SUFFICES ASSUME ServerTypes, ClientInv, ServeRefresh PROVE ClientInv'
  OBVIOUS
<1>1. UNCHANGED <<runVars, hubVars, action>> /\ AnswerRefresh(Current) /\ Current \in {Null, Current}
  BY DEF ServeRefresh, serverVars, Current
<1> QED BY <1>1, AnswerRefreshKeeps

LEMMA LoseRefreshKeeps == ServerTypes /\ ClientInv /\ LoseRefresh => ClientInv'
<1> SUFFICES ASSUME ServerTypes, ClientInv, LoseRefresh PROVE ClientInv'
  OBVIOUS
<1>1. UNCHANGED <<runVars, hubVars, action>> /\ AnswerRefresh(Null) /\ Null \in {Null, Current}
  BY DEF LoseRefresh
<1> QED BY <1>1, AnswerRefreshKeeps

LEMMA ReceiveRefreshKeeps == ServerTypes /\ ClientInv /\ ReceiveRefresh => ClientInv'
<1> SUFFICES ASSUME ServerTypes, ClientInv, ReceiveRefresh PROVE ClientInv'
  OBVIOUS
<1>1. /\ UNCHANGED <<connection, lastEventId, sequence, events, subscribed, stream, action>> /\ Unnoticed
      /\ refresh.status = "answered"
      /\ refresh' = IF refresh.queued THEN [NoRefresh EXCEPT !.status = "asked"] ELSE NoRefresh
      /\ \/ refresh.queued /\ UNCHANGED <<view, told>>
         \/ ~refresh.queued /\ refresh.response = Null /\ told' = TRUE /\ UNCHANGED view
         \/ ~refresh.queued /\ refresh.response # Null /\ view' = mergeSnapshot(view, refresh.response) /\ UNCHANGED told
  BY RunUnchanged DEF ReceiveRefresh, FinishRefresh, serverVars, hubVars
<1>2. /\ refresh' \in [status : {"idle", "asked", "answered"}, queued : BOOLEAN, response : Snapshots \union {Null}]
      /\ refresh'.response = Null /\ ~refresh'.queued
      /\ refresh.queued => refresh'.status = "asked"
      /\ refresh.response \in Snapshots \union {Null}
  BY <1>1 DEF NoRefresh, ClientInv, ClientTypes
<1>3. refresh.response # Null => refresh.response \in Snapshots /\ InFlight(refresh.response)
  BY <1>2 DEF InFlight
<1>4. /\ view' \in Views
      /\ \A e \in Events : e \in Range(view'.events) => Known(e)
      /\ view'.lastSequence <= sequence /\ view.lastSequence <= view'.lastSequence
  <2>1. CASE view' = view
    <3>1. view \in Views /\ view.lastSequence <= sequence /\ view.lastSequence \in Nat
      BY DEF ClientInv, ClientTypes, Views, Consistent
    <3> QED BY <2>1, <3>1 DEF Known
  <2>2. CASE refresh.response # Null /\ view' = mergeSnapshot(view, refresh.response)
    BY <1>1, <1>3, <2>2, MergeKeeps
  <2> QED BY <1>1, <2>1, <2>2
<1>5. ClientTypes' /\ Requests'
  BY <1>1, <1>2, <1>4 DEF ClientInv, ClientTypes, Requests
<1>6. Channel'
  <2>1. status' = status
    BY <1>1 DEF Unnoticed
  <2> QED BY <1>1, <2>1 DEF ClientInv, Channel
<1>7. \A item : Streamed(item)' <=> Streamed(item)
  BY <1>1 DEF Streamed
<1>8. Consistent' /\ SnapshotsFit'
  <2>1. \A x \in Snapshots : InFlight(x)' => InFlight(x) \/ x = Current
    BY <1>1, <1>2, <1>7, NullAssumption DEF InFlight
  <2> QED BY <1>1, <1>4, <1>7, <2>1, NothingNew
<1>9. LatestStreamed' <=> LatestStreamed
  BY <1>1, <1>7 DEF LatestStreamed
<1>10. Reach'
  <2>1. view.lastSequence = sequence => view'.lastSequence = sequence
    BY <1>4 DEF ServerTypes, HubTypes, Views
  <2> QED BY <1>1, <1>9, <2>1 DEF ClientInv, Reach
<1>11. Coming'
  <2>1. CASE refresh.queued \/ told'
    BY <1>2, <2>1 DEF Coming
  <2>2. CASE ~refresh.queued /\ ~told'
    <3> DEFINE x == refresh.response
    <3>1. x \in Snapshots /\ InFlight(x) /\ view' = mergeSnapshot(view, x) /\ told' = told
      BY <1>1, <1>2, <1>3, <2>2
    <3> HIDE DEF x
    <3>2. /\ x.sequence <= view'.lastSequence
          /\ x.sequence < view.lastSequence => view' = view
          /\ Calm /\ x.sequence = sequence => ShowsTheRun'
          /\ x.sequence \in Nat /\ x.sequence <= sequence
      BY <1>1, <3>1, MergeKeeps
    <3>3. Calm' <=> Calm
      BY <1>1 DEF Unnoticed, Calm
    <3> SUFFICES ASSUME Calm, connection = "open", ~told, ~ShowsTheRun', x.sequence # sequence
        PROVE Coming'
      BY <1>1, <2>2, <3>2, <3>3 DEF Coming
    <3>4. CASE x.sequence < view.lastSequence
      <4>1. ~ShowsTheRun
        BY <1>1, <3>2, <3>4, ShownKept
      <4>2. \/ \E e \in Events : Streamed(EventItem(e))
            \/ \E y \in Snapshots : Streamed(SnapshotItem(y)) /\ y.sequence = sequence
            \/ action.status = "pending"
            \/ action.status = "answered" /\ (action.answer = Null \/ action.answer.sequence = sequence)
        BY <1>1, <2>2, <3>1, <4>1, NullAssumption DEF ClientInv, Coming, x
      <4> QED BY <1>1, <1>7, <4>2 DEF Coming
    <3>5. CASE ~(x.sequence < view.lastSequence)
      <4>1. view.lastSequence # sequence
        BY <3>2, <3>5 DEF ServerTypes, HubTypes, ClientInv, ClientTypes, Views
      <4>2. LatestStreamed
        BY <4>1 DEF ClientInv, Reach
      <4> QED BY <1>1, <1>7, <4>2 DEF Coming, LatestStreamed
    <3> QED BY <3>4, <3>5
  <2> QED BY <2>1, <2>2
<1> QED BY <1>5, <1>6, <1>8, <1>10, <1>11 DEF ClientInv

LEMMA ReceiveAnswerKeeps == ServerTypes /\ ClientInv /\ ReceiveAnswer => ClientInv'
<1> SUFFICES ASSUME ServerTypes, ClientInv, ReceiveAnswer PROVE ClientInv'
  OBVIOUS
<1>1. /\ UNCHANGED <<connection, lastEventId, sequence, events, subscribed, stream, refresh>> /\ Unnoticed
      /\ action.status = "answered" /\ action' = NoAction
      /\ \/ action.answer = Null /\ told' = TRUE /\ UNCHANGED view
         \/ action.answer # Null /\ view' = mergeSnapshot(view, action.answer) /\ UNCHANGED told
  BY RunUnchanged DEF ReceiveAnswer, hubVars
<1>2. /\ action' \in [status : {"none", "pending", "answered"}, answer : Snapshots \union {Null}]
      /\ action'.answer = Null /\ action.answer \in Snapshots \union {Null}
  BY <1>1 DEF NoAction, ClientInv, ClientTypes
<1>3. action.answer # Null => action.answer \in Snapshots /\ InFlight(action.answer)
  BY <1>2 DEF InFlight
<1>4. /\ view' \in Views
      /\ \A e \in Events : e \in Range(view'.events) => Known(e)
      /\ view'.lastSequence <= sequence /\ view.lastSequence <= view'.lastSequence
  <2>1. CASE view' = view
    <3>1. view \in Views /\ view.lastSequence <= sequence /\ view.lastSequence \in Nat
      BY DEF ClientInv, ClientTypes, Views, Consistent
    <3> QED BY <2>1, <3>1 DEF Known
  <2>2. CASE action.answer # Null /\ view' = mergeSnapshot(view, action.answer)
    BY <1>1, <1>3, <2>2, MergeKeeps
  <2> QED BY <1>1, <2>1, <2>2
<1>5. ClientTypes' /\ Requests'
  <2>1. told' \in BOOLEAN
    BY <1>1 DEF ClientInv, ClientTypes
  <2> QED BY <1>1, <1>2, <1>4, <2>1 DEF ClientInv, ClientTypes, Requests
<1>6. Channel'
  <2>1. status' = status
    BY <1>1 DEF Unnoticed
  <2> QED BY <1>1, <2>1 DEF ClientInv, Channel
<1>7. \A item : Streamed(item)' <=> Streamed(item)
  BY <1>1 DEF Streamed
<1>8. Consistent' /\ SnapshotsFit'
  <2>1. \A x \in Snapshots : InFlight(x)' => InFlight(x) \/ x = Current
    BY <1>1, <1>2, <1>7, NullAssumption DEF InFlight
  <2> QED BY <1>1, <1>4, <1>7, <2>1, NothingNew
<1>9. LatestStreamed' <=> LatestStreamed
  BY <1>1, <1>7 DEF LatestStreamed
<1>10. Reach'
  <2>1. view.lastSequence = sequence => view'.lastSequence = sequence
    BY <1>4 DEF ServerTypes, HubTypes, Views
  <2> QED BY <1>1, <1>9, <2>1 DEF ClientInv, Reach
<1>11. Coming'
  <2>1. CASE told'
    BY <2>1 DEF Coming
  <2>2. CASE ~told'
    <3> DEFINE x == action.answer
    <3>1. x \in Snapshots /\ InFlight(x) /\ view' = mergeSnapshot(view, x) /\ told' = told
      BY <1>1, <1>2, <1>3, <2>2
    <3> HIDE DEF x
    <3>2. /\ x.sequence <= view'.lastSequence
          /\ x.sequence < view.lastSequence => view' = view
          /\ Calm /\ x.sequence = sequence => ShowsTheRun'
          /\ x.sequence \in Nat /\ x.sequence <= sequence
      BY <1>1, <3>1, MergeKeeps
    <3>3. Calm' <=> Calm
      BY <1>1 DEF Unnoticed, Calm
    <3> SUFFICES ASSUME Calm, connection = "open", ~told, ~ShowsTheRun', x.sequence # sequence
        PROVE Coming'
      BY <1>1, <2>2, <3>2, <3>3 DEF Coming
    <3>4. CASE x.sequence < view.lastSequence
      <4>1. ~ShowsTheRun
        BY <1>1, <3>2, <3>4, ShownKept
      <4>2. \/ \E e \in Events : Streamed(EventItem(e))
            \/ \E y \in Snapshots : Streamed(SnapshotItem(y)) /\ y.sequence = sequence
            \/ refresh.status = "asked" \/ refresh.queued
            \/ refresh.status = "answered" /\ (refresh.response = Null \/ refresh.response.sequence = sequence)
        BY <1>1, <2>2, <3>1, <4>1, NullAssumption DEF ClientInv, Coming, x
      <4> QED BY <1>1, <1>7, <4>2 DEF Coming
    <3>5. CASE ~(x.sequence < view.lastSequence)
      <4>1. view.lastSequence # sequence
        BY <3>2, <3>5 DEF ServerTypes, HubTypes, ClientInv, ClientTypes, Views
      <4>2. LatestStreamed
        BY <4>1 DEF ClientInv, Reach
      <4> QED BY <1>1, <1>7, <4>2 DEF Coming, LatestStreamed
    <3> QED BY <3>4, <3>5
  <2> QED BY <2>1, <2>2
<1> QED BY <1>5, <1>6, <1>8, <1>10, <1>11 DEF ClientInv

LEMMA CommandKeeps == ServerTypes /\ ClientInv /\ Command => ClientInv'
<1> SUFFICES ASSUME ServerTypes, ClientInv, Command PROVE ClientInv'
  OBVIOUS
<1>1. UNCHANGED <<view, connection, lastEventId, refresh, sequence, events, subscribed, stream>> /\ told' = FALSE
  BY DEF Command, AskStartProducer, AskExperiment, hubVars
<1>2. Unnoticed
  BY <1>1 DEF Command, AskStartProducer, AskExperiment, Unnoticed, timerVars, scenarioVars, Shown
<1>3. action' \in {[status |-> "answered", answer |-> Null], [status |-> "pending", answer |-> Null]}
  BY DEF Command, AskStartProducer, AskExperiment, Answered, NoAction
<1>4. /\ action' \in [status : {"none", "pending", "answered"}, answer : Snapshots \union {Null}]
      /\ action'.answer = Null /\ action'.status \in {"answered", "pending"}
  BY <1>3
<1>5. ClientTypes' /\ Requests'
  BY <1>1, <1>4 DEF ClientInv, ClientTypes, Requests
<1>6. Channel'
  <2>1. status' = status
    BY <1>2 DEF Unnoticed
  <2> QED BY <1>1, <2>1 DEF ClientInv, Channel
<1>7. \A item : Streamed(item)' <=> Streamed(item)
  BY <1>1 DEF Streamed
<1>8. Consistent' /\ SnapshotsFit'
  <2>1. \A x \in Snapshots : InFlight(x)' => InFlight(x) \/ x = Current
    BY <1>1, <1>4, <1>7, NullAssumption DEF InFlight
  <2>2. /\ \A e \in Events : e \in Range(view'.events) => Known(e)
        /\ view'.lastSequence <= sequence
    BY <1>1 DEF ClientInv, Consistent, Known
  <2> QED BY <1>2, <1>7, <2>1, <2>2, NothingNew
<1>9. Reach'
  BY <1>1, <1>7 DEF ClientInv, Reach, LatestStreamed
<1>10. Coming'
  BY <1>4 DEF Coming
<1> QED BY <1>5, <1>6, <1>8, <1>9, <1>10 DEF ClientInv

(* What a client that comes back is given. *)
LEMMA MissedFacts ==
  ASSUME ServerTypes, NEW n \in Nat
  PROVE  Missed(n) \in Seq(Events) /\ Range(Missed(n)) \subseteq Range(events)
<1> DEFINE newer == {i \in DOMAIN events : events[i].sequence > n}
<1>1. events \in Seq(Events)
  BY DEF ServerTypes, HubTypes
<1>2. IsFiniteSet(DOMAIN events)
  <2>1. DOMAIN events = 1..Len(events) /\ Len(events) \in Nat
    BY <1>1
  <2> QED BY <2>1, FS_Interval
<1>3. Cardinality(newer) \in Nat
  <2>1. newer \in SUBSET (DOMAIN events)
    OBVIOUS
  <2>2. IsFiniteSet(newer)
    BY <1>2, <2>1, FS_Subset
  <2> QED BY <2>2, FS_CardinalityType
<1>4. Missed(n) = IF n = 0 THEN <<>> ELSE LastOf(events, Cardinality(newer))
  BY DEF Missed
<1> HIDE DEF newer
<1>5. <<>> \in Seq(Events) /\ Range(<<>>) = {}
  BY DEF Range
<1>6. CASE n = 0
  BY <1>4, <1>5, <1>6
<1>7. CASE n # 0 /\ Cardinality(newer) = 0
  <2> DEFINE k == Len(events)
  <2>1. k \in Nat /\ (IF k > 0 THEN k - 0 + 1 ELSE 1) = k + 1 /\ \A i \in (k + 1)..k : i \in 1..k
    BY <1>1
  <2>2. Missed(n) = SubSeq(events, IF k > 0 THEN k - 0 + 1 ELSE 1, k)
    BY <1>4, <1>7 DEF LastOf
  <2>3. Missed(n) = SubSeq(events, k + 1, k)
    BY <2>1, <2>2
  <2>4. Missed(n) \in Seq(Events) /\ Len(Missed(n)) = 0
    BY <1>1, <2>1, <2>3
  <2>5. Missed(n) = <<>>
    BY <2>4
  <2> QED BY <1>5, <2>5
<1>8. CASE n # 0 /\ Cardinality(newer) # 0
  BY <1>1, <1>3, <1>4, <1>8, LastOfRange
<1> QED BY <1>6, <1>7, <1>8

LEMMA ConnectKeeps == ServerTypes /\ ClientInv /\ Connect => ClientInv'
<1> SUFFICES ASSUME ServerTypes, ClientInv, Connect PROVE ClientInv'
  OBVIOUS
<1>1. UNCHANGED <<view, lastEventId, told, action, sequence, events>> /\ Unnoticed /\ status' = status
  <2>1. UNCHANGED <<sequence, events>>
    BY DEF Connect, Subscribe, hubVars
  <2>2. Unnoticed
    BY <2>1, RunUnchanged DEF Connect
  <2> QED BY <2>1, <2>2 DEF Connect, Unnoticed
<1>2. /\ view \in Views /\ \A e \in Events : e \in Range(view'.events) => Known(e)
      /\ view'.lastSequence <= sequence
  BY <1>1 DEF ClientInv, ClientTypes, Consistent, Known
<1>3. CASE status = "gone"
  <2>1. /\ connection = "connecting" /\ connection' = "closed" /\ RefreshActiveSnapshot /\ UNCHANGED <<subscribed, stream>>
    BY <1>3 DEF Connect, hubVars
  <2>2. /\ refresh' \in [status : {"idle", "asked", "answered"}, queued : BOOLEAN, response : Snapshots \union {Null}]
        /\ refresh'.status = "asked" \/ refresh'.queued
        /\ refresh'.response = refresh.response
        /\ refresh'.status # "answered" => refresh'.response = Null
        /\ refresh'.status = "idle" => ~refresh'.queued
    BY <2>1, RefreshFacts
  <2>3. ClientTypes' /\ Requests'
    BY <1>1, <2>1, <2>2 DEF ClientInv, ClientTypes, Requests
  <2>4. Channel'
    BY <1>1, <2>1 DEF ClientInv, Channel
  <2>5. \A item : Streamed(item)' <=> Streamed(item)
    BY <2>1 DEF Streamed
  <2>6. Consistent' /\ SnapshotsFit'
    <3>1. \A x \in Snapshots : InFlight(x)' => InFlight(x) \/ x = Current
      BY <1>1, <2>2, <2>5 DEF InFlight
    <3> QED BY <1>1, <1>2, <2>5, <3>1, NothingNew
  <2>7. Reach' /\ Coming'
    BY <2>1 DEF Reach, Coming
  <2> QED BY <2>3, <2>4, <2>6, <2>7 DEF ClientInv
<1>4. CASE status # "gone"
  <2> DEFINE missed == Missed(lastEventId)
             replayed == [i \in DOMAIN missed |-> EventItem(missed[i])]
  <2>1. connection' = "open" /\ Subscribe(Snapshot, lastEventId) /\ UNCHANGED refresh
    BY <1>4 DEF Connect
  <2>2. /\ subscribed' = TRUE
        /\ stream' = <<SnapshotItem(Snapshot)>> \o replayed
    BY <2>1 DEF Subscribe
  <2>3. missed \in Seq(Events) /\ Range(missed) \subseteq Range(events)
    BY MissedFacts DEF ClientInv, ClientTypes
  <2> HIDE DEF missed
  <2>4. /\ Snapshot \in Snapshots /\ Snapshot.sequence = sequence
    BY SnapshotFacts DEF SnapshotIsTheRun
  <2>5. /\ stream' \in Seq(Items)
        /\ Range(stream') = {SnapshotItem(Snapshot)} \union {EventItem(e) : e \in Range(missed)}
    <3>1. DOMAIN missed = 1..Len(missed) /\ Len(missed) \in Nat /\ \A i \in 1..Len(missed) : missed[i] \in Events
      BY <2>3
    <3>2. DOMAIN replayed = 1..Len(missed) /\ \A i \in 1..Len(missed) : replayed[i] = EventItem(missed[i]) /\ replayed[i] \in Items
      BY <3>1 DEF Items
    <3>3. replayed = [i \in 1..Len(missed) |-> replayed[i]]
      BY <3>1
    <3>4. Range(replayed) = {EventItem(e) : e \in Range(missed)}
      BY <3>1, <3>2 DEF Range
    <3> HIDE DEF replayed
    <3>5. \A i \in 1..Len(missed) : replayed[i] \in Items
      BY <3>2
    <3>6. replayed \in Seq(Items)
      BY <3>1, <3>3, <3>5, SequenceOf
    <3>7. SnapshotItem(Snapshot) \in Items
      BY <2>4 DEF Items
    <3> DEFINE one == <<SnapshotItem(Snapshot)>>
    <3>8. one \in Seq(Items) /\ Range(one) = {SnapshotItem(Snapshot)} /\ stream' = one \o replayed
      BY <2>2, <3>7 DEF Range
    <3> HIDE DEF one
    <3>9. one \o replayed \in Seq(Items) /\ Range(one \o replayed) = Range(one) \union Range(replayed)
      BY <3>6, <3>8, RangeOfConcat
    <3> QED BY <3>4, <3>8, <3>9
  <2> HIDE DEF replayed
  <2>6. ClientTypes' /\ Requests'
    BY <1>1, <2>1, <2>2, <2>5 DEF ClientInv, ClientTypes, Requests
  <2>7. Channel'
    BY <2>1, <2>2 DEF Channel
  <2>8. /\ Streamed(SnapshotItem(Snapshot))'
        /\ \A e \in Events : Streamed(EventItem(e))' => e \in Range(events)
        /\ \A x \in Snapshots : Streamed(SnapshotItem(x))' => x = Snapshot
    <3>1. SnapshotItem(Snapshot) \in Range(stream')
      BY <2>5
    <3>2. Snapshot' = Snapshot
      BY <1>1 DEF Snapshot, Unnoticed
    <3>3. \A e \in Events : EventItem(e) \in Range(stream') => e \in Range(events)
      BY <2>3, <2>5, ItemFacts
    <3>4. \A x \in Snapshots : SnapshotItem(x) \in Range(stream') => x = Snapshot
      BY <2>5, ItemFacts
    <3> QED BY <3>1, <3>2, <3>3, <3>4 DEF Streamed
  <2>9. Consistent' /\ SnapshotsFit'
    <3>1. \A x \in Snapshots : InFlight(x)' => InFlight(x) \/ x = Current
      BY <1>1, <1>4, <2>1, <2>8 DEF InFlight, Current
    <3> QED BY <1>1, <1>2, <2>8, <3>1, NothingNew
  <2>10. \E x \in Snapshots : Streamed(SnapshotItem(x))' /\ x.sequence = sequence'
    <3>1. Snapshot' = Snapshot
      BY <1>1 DEF Snapshot, Unnoticed
    <3> QED BY <1>1, <2>4, <2>8, <3>1
  <2>11. Reach' /\ Coming'
    BY <2>10 DEF Reach, Coming, LatestStreamed
  <2> QED BY <2>6, <2>7, <2>9, <2>11 DEF ClientInv
<1> QED BY <1>3, <1>4

LEMMA DisconnectKeeps == ServerTypes /\ ClientInv /\ Disconnect => ClientInv'
<1> SUFFICES ASSUME ServerTypes, ClientInv, Disconnect PROVE ClientInv'
  OBVIOUS
<1>1. /\ UNCHANGED <<view, lastEventId, told, action, sequence, events>> /\ Unnoticed
      /\ connection' = "connecting" /\ subscribed' = FALSE /\ stream' = <<>> /\ RefreshActiveSnapshot
  BY RunUnchanged DEF Disconnect, Unsubscribe
<1>2. /\ refresh' \in [status : {"idle", "asked", "answered"}, queued : BOOLEAN, response : Snapshots \union {Null}]
      /\ refresh'.status = "asked" \/ refresh'.queued
      /\ refresh'.response = refresh.response
      /\ refresh'.status # "answered" => refresh'.response = Null
      /\ refresh'.status = "idle" => ~refresh'.queued
  BY <1>1, RefreshFacts
<1>3. ClientTypes' /\ Requests'
  <2>1. <<>> \in Seq(Items)
    OBVIOUS
  <2> QED BY <1>1, <1>2, <2>1 DEF ClientInv, ClientTypes, Requests
<1>4. Channel' /\ Reach' /\ Coming'
  BY <1>1 DEF Channel, Reach, Coming
<1>5. \A item : ~Streamed(item)'
  BY <1>1 DEF Streamed, Range
<1>6. Consistent' /\ SnapshotsFit'
  <2>1. \A x \in Snapshots : InFlight(x)' => InFlight(x) \/ x = Current
    BY <1>1, <1>2, <1>5 DEF InFlight
  <2>2. /\ \A e \in Events : e \in Range(view'.events) => Known(e)
        /\ view'.lastSequence <= sequence
    BY <1>1 DEF ClientInv, Consistent, Known
  <2> QED BY <1>1, <1>5, <2>1, <2>2, NothingNew
<1> QED BY <1>3, <1>4, <1>6 DEF ClientInv

LEMMA ReceiveFromStreamKeeps == ServerTypes /\ ClientInv /\ ReceiveFromStream => ClientInv'
<1> SUFFICES ASSUME ServerTypes, ClientInv, ReceiveFromStream PROVE ClientInv'
  OBVIOUS
<1> DEFINE item == Head(stream)
<1>1. /\ UNCHANGED <<sequence, events, subscribed, action, connection, told>> /\ Unnoticed /\ status' = status
      /\ connection = "open" /\ stream # <<>> /\ stream' = Tail(stream)
  <2>1. Unnoticed
    BY RunUnchanged DEF ReceiveFromStream
  <2> QED BY <2>1 DEF ReceiveFromStream, Unnoticed
<1>2. /\ stream' \in Seq(Items) /\ item \in Items /\ Streamed(item)
      /\ \A i : Streamed(i)' => Streamed(i)
      /\ \A i : Streamed(i) => i = item \/ Streamed(i)'
  <2>1. stream \in Seq(Items)
    BY DEF ClientInv, ClientTypes
  <2>2. stream = <<item>> \o Tail(stream) /\ Tail(stream) \in Seq(Items) /\ item \in Items
    BY <1>1, <2>1
  <2> DEFINE one == <<item>>
  <2>3. one \in Seq(Items) /\ Range(one) = {item} /\ stream = one \o stream' /\ stream' \in Seq(Items)
    BY <1>1, <2>2 DEF Range
  <2> HIDE DEF item, one
  <2>4. Range(one \o stream') = Range(one) \union Range(stream')
    BY <2>3, RangeOfConcat
  <2> QED BY <2>2, <2>3, <2>4 DEF Streamed
<1>3. sequence \in Nat /\ view \in Views /\ view.lastSequence \in Nat /\ view.lastSequence <= sequence
  BY DEF ServerTypes, HubTypes, ClientInv, ClientTypes, Consistent, Views
<1>4. CASE item.kind = "snapshot"
  <2>1. PICK x \in Snapshots : item = SnapshotItem(x)
    BY <1>2, <1>4 DEF Items, EventItem
  <2>2. view' = mergeSnapshot(view, item.snapshot) /\ UNCHANGED <<lastEventId, refresh>>
    BY <1>4 DEF ReceiveFromStream
  <2>3. view' = mergeSnapshot(view, x) /\ InFlight(x)
    BY <1>2, <2>1, <2>2 DEF SnapshotItem, InFlight
  <2> HIDE DEF item
  <2>4. /\ view' \in Views
        /\ \A e \in Events : e \in Range(view'.events) => Known(e)
        /\ view'.lastSequence <= sequence /\ view.lastSequence <= view'.lastSequence /\ x.sequence <= view'.lastSequence
        /\ x.sequence < view.lastSequence => view' = view
        /\ Calm /\ x.sequence = sequence => ShowsTheRun'
        /\ x.sequence \in Nat /\ x.sequence <= sequence
    BY <1>1, <2>3, MergeKeeps
  <2>5. ClientTypes' /\ Requests'
    BY <1>1, <1>2, <2>2, <2>4 DEF ClientInv, ClientTypes, Requests
  <2>6. Channel'
    BY <1>1 DEF ClientInv, Channel
  <2>7. Consistent' /\ SnapshotsFit'
    <3>1. \A y \in Snapshots : InFlight(y)' => InFlight(y) \/ y = Current
      BY <1>1, <1>2, <2>2 DEF InFlight
    <3> QED BY <1>1, <1>2, <2>4, <3>1, NothingNew
  <2>8. ASSUME view'.lastSequence # sequence, LatestStreamed PROVE LatestStreamed'
    <3>1. x.sequence # sequence
      BY <1>3, <2>4, <2>8 DEF Views
    <3>2. CASE \E e \in Events : Streamed(EventItem(e)) /\ e.sequence = sequence
      BY <1>1, <1>2, <2>1, <3>2, ItemFacts DEF LatestStreamed
    <3>3. CASE \E y \in Snapshots : Streamed(SnapshotItem(y)) /\ y.sequence = sequence
      BY <1>1, <1>2, <2>1, <3>1, <3>3, ItemFacts DEF LatestStreamed
    <3> QED BY <2>8, <3>2, <3>3 DEF LatestStreamed
  <2>9. Reach'
    <3>1. view.lastSequence = sequence => view'.lastSequence = sequence
      BY <1>3, <2>4 DEF Views
    <3> QED BY <1>1, <2>8, <3>1 DEF ClientInv, Reach
  <2>10. Coming'
    <3>1. Calm' <=> Calm
      BY <1>1 DEF Unnoticed, Calm
    <3> SUFFICES ASSUME Calm, ~told, ~ShowsTheRun', x.sequence # sequence PROVE Coming'
      BY <1>1, <2>4, <3>1 DEF Coming
    <3>2. CASE x.sequence < view.lastSequence
      <4>1. ~ShowsTheRun
        BY <1>1, <2>4, <3>2, ShownKept
      <4>2. \/ \E e \in Events : Streamed(EventItem(e))
            \/ \E y \in Snapshots : Streamed(SnapshotItem(y)) /\ y.sequence = sequence
            \/ refresh.status = "asked" \/ refresh.queued
            \/ refresh.status = "answered" /\ (refresh.response = Null \/ refresh.response.sequence = sequence)
            \/ action.status = "pending"
            \/ action.status = "answered" /\ (action.answer = Null \/ action.answer.sequence = sequence)
        BY <1>1, <4>1 DEF ClientInv, Coming
      <4>3. /\ (\E e \in Events : Streamed(EventItem(e))) => \E e \in Events : Streamed(EventItem(e))'
            /\ (\E y \in Snapshots : Streamed(SnapshotItem(y)) /\ y.sequence = sequence)
                 => \E y \in Snapshots : Streamed(SnapshotItem(y))' /\ y.sequence = sequence
        BY <1>2, <2>1, ItemFacts
      <4> QED BY <1>1, <2>2, <4>2, <4>3 DEF Coming
    <3>3. CASE ~(x.sequence < view.lastSequence)
      <4>1. view.lastSequence # sequence /\ view'.lastSequence # sequence
        <5>1. x.sequence <= sequence /\ x.sequence \in Nat
          BY <2>4
        <5>2. view'.lastSequence = x.sequence
          <6>1. Distinct(Range(view.events) \union Range(x.recentEvents))
            <7>1. view.events \in Seq(Events) /\ x.recentEvents \in Seq(Events)
              BY <1>3 DEF Views, Snapshots
            <7>2. \A e \in Range(view.events) \union Range(x.recentEvents) : e \in Events /\ Known(e)
              BY <2>3, <7>1, RangeIsFinite DEF Known
            <7> QED BY <7>2 DEF Distinct, ClientInv, Consistent
          <6> QED BY <1>3, <2>3, <3>3, <6>1, MergeFacts
        <5> QED BY <1>3, <3>3, <5>1, <5>2
      <4>2. LatestStreamed'
        BY <1>1, <2>8, <4>1 DEF ClientInv, Reach
      <4> QED BY <4>2 DEF Coming, LatestStreamed
    <3> QED BY <3>2, <3>3
  <2> QED BY <2>5, <2>6, <2>7, <2>9, <2>10 DEF ClientInv
<1>5. CASE item.kind # "snapshot"
  <2>1. PICK e \in Events : item = EventItem(e)
    BY <1>2, <1>5 DEF Items, SnapshotItem
  <2>2. view' = applyRuntimeEvent(view, item.event) /\ lastEventId' = item.event.sequence /\ RefreshActiveSnapshot
    BY <1>5 DEF ReceiveFromStream
  <2>3. view' = applyRuntimeEvent(view, e) /\ lastEventId' = e.sequence /\ Known(e) /\ e.sequence \in Nat /\ e.sequence <= sequence
    BY <1>2, <2>1, <2>2 DEF EventItem, Known, Events, ClientInv, Consistent
  <2> HIDE DEF item
  <2>4. /\ view' \in Views
        /\ view'.lastSequence >= view.lastSequence /\ view'.lastSequence >= e.sequence
        /\ view'.lastSequence = view.lastSequence \/ view'.lastSequence = e.sequence
        /\ Range(view'.events) \subseteq Range(view.events) \union {e}
    BY <1>3, <2>3, ApplyFacts
  <2>5. /\ refresh' \in [status : {"idle", "asked", "answered"}, queued : BOOLEAN, response : Snapshots \union {Null}]
        /\ refresh'.status = "asked" \/ refresh'.queued
        /\ refresh'.response = refresh.response
        /\ refresh'.status # "answered" => refresh'.response = Null
        /\ refresh'.status = "idle" => ~refresh'.queued
    BY <2>2, RefreshFacts
  <2>6. ClientTypes' /\ Requests'
    BY <1>1, <1>2, <2>3, <2>4, <2>5 DEF ClientInv, ClientTypes, Requests
  <2>7. Channel'
    BY <1>1 DEF ClientInv, Channel
  <2>8. Consistent' /\ SnapshotsFit'
    <3>1. \A y \in Snapshots : InFlight(y)' => InFlight(y) \/ y = Current
      BY <1>1, <1>2, <2>5 DEF InFlight
    <3>2. \A d \in Events : d \in Range(view'.events) => Known(d)
      BY <2>3, <2>4 DEF Known
    <3>3. view'.lastSequence <= sequence
      BY <1>3, <2>3, <2>4
    <3> QED BY <1>1, <1>2, <3>1, <3>2, <3>3, NothingNew
  <2>9. Reach'
    <3>1. CASE view'.lastSequence = sequence
      BY <1>1, <3>1 DEF Reach
    <3>2. CASE view'.lastSequence # sequence
      <4>1. view.lastSequence # sequence /\ e.sequence # sequence
        <5>1. view'.lastSequence \in Nat /\ view'.lastSequence <= sequence
          BY <1>3, <2>3, <2>4
        <5> QED BY <1>3, <2>3, <2>4, <3>2, <5>1
      <4>2. LatestStreamed
        BY <1>1, <4>1 DEF ClientInv, Reach
      <4>3. CASE \E d \in Events : Streamed(EventItem(d)) /\ d.sequence = sequence
        BY <1>1, <1>2, <2>1, <4>1, <4>3, ItemFacts DEF Reach, LatestStreamed
      <4>4. CASE \E y \in Snapshots : Streamed(SnapshotItem(y)) /\ y.sequence = sequence
        BY <1>1, <1>2, <2>1, <4>4, ItemFacts DEF Reach, LatestStreamed
      <4> QED BY <4>2, <4>3, <4>4 DEF LatestStreamed
    <3> QED BY <3>1, <3>2
  <2>10. Coming'
    BY <2>5 DEF Coming
  <2> QED BY <2>6, <2>7, <2>8, <2>9, <2>10 DEF ClientInv
<1> QED BY <1>4, <1>5
-----------------------------------------------------------------------------
(* Which steps of the server emit *)

\* What a step of the server is to the client.
ServerStep == Silent \/ \E payloads \in Seq(Events) : Emission(payloads)

LEMMA OneEvent ==
  ASSUME NEW type \in OrdinaryTypes \union {"failed"}, NEW number \in Nat
  PROVE  <<Event(type, number)>> \in Seq(Events) /\ <<Event(type, number)>> # <<>>
<1>1. Event(type, number) \in Events
  BY DEF Event, Events, OrdinaryTypes
<1> QED BY <1>1

(* An event of the run itself is emitted, or kept back with what it is about. *)
LEMMA EmitSteps ==
  ASSUME ServerInv, Ended, NEW type \in OrdinaryTypes, Emit(type), status = "running",
         UNCHANGED <<status, cleanupRequested, experiment, clientVars>>, AnswerStep
  PROVE  ServerStep
<1>1. CASE cleanupRequested \/ buffer # Null
  <2>1. UNCHANGED hubVars
    BY <1>1 DEF Emit
  <2>2. ~Calm'
    BY <1>1 DEF Calm, ServerInv, Buffering
  <2> QED BY <2>1, <2>2 DEF ServerStep, Silent
<1>2. CASE ~cleanupRequested /\ buffer = Null
  <2>1. EmitAll(<<Event(type, 0)>>) /\ UNCHANGED subscribed
    BY <1>2 DEF Emit, EmitNow
  <2>2. <<Event(type, 0)>> \in Seq(Events) /\ <<Event(type, 0)>> # <<>>
    BY OneEvent
  <2>3. Emission(<<Event(type, 0)>>)
    BY <2>1, <2>2 DEF Emission
  <2> QED BY <2>2, <2>3 DEF ServerStep
<1> QED BY <1>1, <1>2

(* What is not shown changes at a step that leaves the rest alone. *)
LEMMA UnshownSteps ==
  ASSUME UNCHANGED <<clientVars, hubVars, status, cleanupRequested, experiment, Shown>>, AnswerStep
  PROVE  ServerStep
BY DEF ServerStep, Silent, Calm

LEMMA StartProducerSteps == ServerInv /\ Ended /\ StartProducer /\ UNCHANGED clientVars => ServerStep
<1> SUFFICES ASSUME ServerInv, Ended, StartProducer, UNCHANGED clientVars PROVE ServerStep
  OBVIOUS
<1>1. /\ UNCHANGED <<status, cleanupRequested, messages, completedExperimentIds, progress, experiment>>
      /\ action' = [status |-> "answered", answer |-> IF Refused THEN Null ELSE Snapshot']
  BY DEF StartProducer, Answered
<1>2. AnswerStep
  BY <1>1 DEF AnswerStep, Refused
<1>3. CASE Refused \/ producerStatus = "running"
  <2>1. UNCHANGED <<producerStatus, hubVars>>
    BY <1>3 DEF StartProducer
  <2>2. UNCHANGED Shown
    BY <1>1, <2>1 DEF Shown
  <2> QED BY <1>1, <1>2, <2>1, <2>2, UnshownSteps
<1>4. CASE ~(Refused \/ producerStatus = "running")
  <2>1. Emit("producer.started") /\ status = "running"
    BY <1>4 DEF StartProducer, Refused
  <2> QED BY <1>1, <1>2, <2>1, EmitSteps DEF OrdinaryTypes
<1> QED BY <1>3, <1>4

LEMMA ProducerTickSteps ==
  UNCHANGED clientVars /\ (ProducerTick \/ \E m \in Messages : ProcessingTimerFires(m)) => ServerStep
<1> SUFFICES ASSUME UNCHANGED clientVars, ProducerTick \/ \E m \in Messages : ProcessingTimerFires(m) PROVE ServerStep
  OBVIOUS
<1>1. UNCHANGED <<hubVars, action, status, cleanupRequested, messages, producerStatus, scenarioVars>>
  BY DEF ProducerTick, ProcessingTimerFires, timerVars
<1>2. UNCHANGED <<experiment, Shown>> /\ AnswerStep
  BY <1>1 DEF scenarioVars, Shown, AnswerStep
<1> QED BY <1>1, <1>2, UnshownSteps

LEMMA ProduceSteps == ServerInv /\ Ended /\ Produce /\ UNCHANGED clientVars => ServerStep
<1> SUFFICES ASSUME ServerInv, Ended, Produce, UNCHANGED clientVars PROVE ServerStep
  OBVIOUS
<1>1. UNCHANGED <<status, cleanupRequested, completedExperimentIds, progress, experiment, producerStatus>> /\ AnswerStep
  BY DEF Produce, AnswerStep
<1>2. CASE Refused
  <2>1. UNCHANGED <<messages, hubVars>>
    BY <1>2 DEF Produce
  <2>2. UNCHANGED Shown
    BY <1>1, <2>1 DEF Shown
  <2> QED BY <1>1, <2>1, <2>2, UnshownSteps
<1>3. CASE ~Refused
  <2>1. Emit("message.received") /\ status = "running"
    BY <1>3 DEF Produce, Refused
  <2> QED BY <1>1, <2>1, EmitSteps DEF OrdinaryTypes
<1> QED BY <1>2, <1>3

(* processInRun(), of a call or of an experiment. *)
LEMMA ProcessInRunSteps ==
  ASSUME ServerInv, Ended, NEW m \in Messages, ProcessInRun(m), status = "running", UNCHANGED clientVars,
         UNCHANGED <<action, status, cleanupRequested, completedExperimentIds, progress, experiment, producerStatus>>
  PROVE  ServerStep
<1>1. AnswerStep
  BY DEF AnswerStep
<1>2. CASE messages[m] # "received"
  <2>1. UNCHANGED <<messages, hubVars>>
    BY <1>2 DEF ProcessInRun
  <2>2. UNCHANGED Shown
    BY <2>1 DEF Shown
  <2> QED BY <1>1, <2>1, <2>2, UnshownSteps
<1>3. CASE messages[m] = "received"
  <2>1. Emit("offset.committed")
    BY <1>3 DEF ProcessInRun
  <2> QED BY <1>1, <2>1, EmitSteps DEF OrdinaryTypes
<1> QED BY <1>2, <1>3

LEMMA ProcessSteps ==
  ASSUME ServerInv, Ended, NEW m \in Messages, Process(m) \/ PrepareProcess(m), UNCHANGED clientVars
  PROVE  ServerStep
<1>1. UNCHANGED <<action, status, cleanupRequested, completedExperimentIds, progress, experiment, producerStatus>>
  BY DEF Process, PrepareProcess, timerVars
<1>2. CASE Process(m) /\ Refused
  <2>1. UNCHANGED <<messages, hubVars>>
    BY <1>2 DEF Process
  <2>2. UNCHANGED Shown /\ AnswerStep
    BY <1>1, <2>1 DEF Shown, AnswerStep
  <2> QED BY <1>1, <2>1, <2>2, UnshownSteps
<1>3. CASE Process(m) /\ ~Refused
  <2>1. ProcessInRun(m) /\ status = "running"
    BY <1>3 DEF Process, Refused
  <2> QED BY <1>1, <2>1, ProcessInRunSteps
<1>4. CASE PrepareProcess(m)
  <2>1. ProcessInRun(m) /\ experiment # Null
    BY <1>4 DEF PrepareProcess
  <2>2. status = "running"
    BY <2>1 DEF Ended
  <2> QED BY <1>1, <2>1, <2>2, ProcessInRunSteps
<1> QED BY <1>2, <1>3, <1>4

LEMMA BeginExperimentSteps == BeginExperiment /\ UNCHANGED clientVars /\ ServerInv => ServerStep
<1> SUFFICES ASSUME BeginExperiment, UNCHANGED clientVars, ServerInv PROVE ServerStep
  OBVIOUS
<1>1. UNCHANGED <<status, cleanupRequested, messages, completedExperimentIds>>
  BY DEF BeginExperiment
<1>2. CASE ~Available(reserved)
  <2>1. UNCHANGED <<timerVars, progress, experiment, hubVars>> /\ AnswerStep
    BY <1>2 DEF BeginExperiment, AnswerStep, Answered
  <2>2. UNCHANGED Shown
    BY <1>1, <2>1 DEF Shown, timerVars
  <2> QED BY <1>1, <2>1, <2>2, UnshownSteps
<1>3. CASE Available(reserved)
  <2>1. /\ experiment' = [id |-> reserved, number |-> experiments + 1, checkpoint |-> Checkpoint]
        /\ UNCHANGED <<hubVars, action>>
    BY <1>3 DEF BeginExperiment, StartBuffered
  <2>2. experiment' # Null
    <3>1. ServerInv'
      BY BeginExperimentKeeps
    <3>2. buffer' # Null
      <4>1. buffer' = <<Event("started", experiments + 1)>>
        BY <1>3 DEF BeginExperiment, StartBuffered
      <4>2. Event("started", experiments + 1) \in Events
        BY DEF Event, Events, ServerInv, ServerTypes, StatusTypes
      <4>3. buffer' \in Seq(Events)
        BY <4>1, <4>2
      <4> QED BY <4>3, NullAssumption
    <3> QED BY <3>1, <3>2 DEF ServerInv, Buffering
  <2> QED BY <1>1, <2>1, <2>2 DEF ServerStep, Silent, Calm, AnswerStep
<1> QED BY <1>2, <1>3

LEMMA PrepareProduceSteps == ServerInv /\ Ended /\ PrepareProduce /\ UNCHANGED clientVars => ServerStep
<1> SUFFICES ASSUME ServerInv, Ended, PrepareProduce, UNCHANGED clientVars PROVE ServerStep
  OBVIOUS
<1>1. /\ Emit("message.received") /\ UNCHANGED <<action, status, cleanupRequested, experiment>>
      /\ experiment # Null
  BY DEF PrepareProduce
<1>2. status = "running"
  BY <1>1 DEF Ended
<1> QED BY <1>1, <1>2, EmitSteps DEF OrdinaryTypes, AnswerStep

LEMMA CompleteExperimentSteps == ServerInv /\ Ended /\ CompleteExperiment /\ UNCHANGED clientVars => ServerStep
<1> SUFFICES ASSUME ServerInv, Ended, CompleteExperiment, UNCHANGED clientVars PROVE ServerStep
  OBVIOUS
<1>1. UNCHANGED <<status, cleanupRequested>> /\ experiment # Null /\ Answered(Snapshot')
  BY DEF CompleteExperiment
<1>2. status = "running"
  BY <1>1 DEF Ended
<1>3. AnswerStep
  BY <1>1, <1>2 DEF AnswerStep, Answered
<1>4. CASE cleanupRequested
  <2>1. UNCHANGED hubVars
    BY <1>4 DEF CompleteExperiment
  <2> QED BY <1>1, <1>2, <1>3, <1>4, <2>1 DEF ServerStep, Silent, Calm
<1>5. CASE ~cleanupRequested
  <2>1. EmitAll(buffer \o Conclusion) /\ UNCHANGED subscribed
    BY <1>5 DEF CompleteExperiment, EmitNow
  <2>2. buffer \o Conclusion \in Seq(Events) /\ buffer \o Conclusion # <<>>
    BY <1>1, <1>5, ConclusionFacts
  <2>3. Emission(buffer \o Conclusion)
    BY <1>2, <1>3, <2>1, <2>2 DEF Emission
  <2> QED BY <2>2, <2>3 DEF ServerStep
<1> QED BY <1>4, <1>5

LEMMA FailExperimentSteps == ServerInv /\ Ended /\ FailExperiment /\ UNCHANGED clientVars => ServerStep
<1> SUFFICES ASSUME ServerInv, Ended, FailExperiment, UNCHANGED clientVars PROVE ServerStep
  OBVIOUS
<1>1. UNCHANGED <<status, cleanupRequested>> /\ experiment # Null /\ Answered(Null)
  BY DEF FailExperiment
<1>2. status = "running"
  BY <1>1 DEF Ended
<1>3. AnswerStep
  BY <1>1 DEF AnswerStep, Answered
<1>4. CASE cleanupRequested
  <2>1. UNCHANGED hubVars
    BY <1>4 DEF FailExperiment
  <2> QED BY <1>1, <1>2, <1>3, <1>4, <2>1 DEF ServerStep, Silent, Calm
<1>5. CASE ~cleanupRequested
  <2> DEFINE number == experiment.number
  <2>1. EmitAll(<<Event("failed", number)>>) /\ UNCHANGED subscribed
    BY <1>5 DEF FailExperiment, EmitNow
  <2>2. number \in Nat
    BY <1>1, ExperimentFacts
  <2> HIDE DEF number
  <2>3. <<Event("failed", number)>> \in Seq(Events) /\ <<Event("failed", number)>> # <<>>
    BY <2>2, OneEvent
  <2>4. Emission(<<Event("failed", number)>>)
    BY <1>2, <1>3, <2>1, <2>3 DEF Emission
  <2> QED BY <2>3, <2>4 DEF ServerStep
<1> QED BY <1>4, <1>5

LEMMA RequestCleanupSteps == RequestCleanup /\ UNCHANGED clientVars => ServerStep
  BY DEF RequestCleanup, ServerStep, Silent, AnswerStep, Calm

LEMMA CleanupSteps ==
  UNCHANGED clientVars /\ (StartCleanup \/ FinishCleanup) => ServerStep
<1> SUFFICES ASSUME UNCHANGED clientVars, StartCleanup \/ FinishCleanup PROVE ServerStep
  OBVIOUS
<1>1. AnswerStep
  BY DEF StartCleanup, FinishCleanup, AnswerStep
<1>2. CASE StartCleanup
  <2>1. EmitAll(<<Event("cleanup_started", 0)>>) /\ UNCHANGED subscribed /\ status = "running"
    BY <1>2 DEF StartCleanup, EmitNow
  <2>2. <<Event("cleanup_started", 0)>> \in Seq(Events) /\ <<Event("cleanup_started", 0)>> # <<>>
    BY OneEvent DEF OrdinaryTypes
  <2>3. Emission(<<Event("cleanup_started", 0)>>)
    BY <1>1, <2>1, <2>2 DEF Emission
  <2> QED BY <2>2, <2>3 DEF ServerStep
<1>3. CASE FinishCleanup
  <2>1. EmitAll(<<Event("stopped", 0)>>) /\ subscribed' = FALSE /\ status = "cleaning" /\ status' = "stopped"
    BY <1>3 DEF FinishCleanup
  <2>2. <<Event("stopped", 0)>> \in Seq(Events) /\ <<Event("stopped", 0)>> # <<>>
    BY OneEvent DEF OrdinaryTypes
  <2>3. Emission(<<Event("stopped", 0)>>)
    BY <1>1, <2>1, <2>2 DEF Emission
  <2> QED BY <2>2, <2>3 DEF ServerStep
<1> QED BY <1>2, <1>3

LEMMA DeleteSessionRunSteps == DeleteSessionRun /\ UNCHANGED clientVars => ServerStep
<1> SUFFICES ASSUME DeleteSessionRun, UNCHANGED clientVars PROVE ServerStep
  OBVIOUS
<1>1. /\ status = "stopped" /\ status' = "gone" /\ UNCHANGED <<hubVars, action, cleanupRequested, experiment>>
  BY DEF DeleteSessionRun, scenarioVars
<1>2. Calm' => Calm
  BY <1>1 DEF Calm
<1> QED BY <1>1, <1>2 DEF ServerStep, Silent, AnswerStep

LEMMA EndedKept == ServerInv /\ Ended /\ [Next]_vars => Ended'
<1> SUFFICES ASSUME ServerInv, Ended, [Next]_vars PROVE Ended'
  OBVIOUS
<1>1. CASE StartProducer \/ Produce \/ BeginExperiment \/ \E m \in Messages : Process(m)
  <2>1. mutations # <<>> /\ UNCHANGED status
    BY <1>1 DEF StartProducer, Produce, BeginExperiment, Process, Turn
  <2> QED BY <2>1 DEF Ended
<1>2. CASE ProducerTick \/ (\E m \in Messages : ProcessingTimerFires(m)) \/ Command
  <2>1. UNCHANGED <<status, cleanupRequested, experiment>> /\ (status = "running" \/ UNCHANGED mutations)
    BY <1>2 DEF ProducerTick, ProcessingTimerFires, Command, AskStartProducer, AskExperiment, scenarioVars, Refused, Available
  <2> QED BY <2>1 DEF Ended
<1>3. CASE PrepareProduce \/ (\E m \in Messages : PrepareProcess(m)) \/ CompleteExperiment \/ FailExperiment
  <2>1. experiment # Null /\ UNCHANGED status
    BY <1>3 DEF PrepareProduce, PrepareProcess, CompleteExperiment, FailExperiment
  <2> QED BY <2>1 DEF Ended
<1>4. CASE RequestCleanup
  BY <1>4 DEF RequestCleanup, Ended
<1>5. CASE StartCleanup
  BY <1>5 DEF StartCleanup, Ended
<1>6. CASE FinishCleanup \/ DeleteSessionRun
  BY <1>6 DEF FinishCleanup, DeleteSessionRun, Ended, scenarioVars
<1>7. CASE ServeRefresh \/ LoseRefresh \/ ReceiveRefresh \/ Connect \/ Disconnect \/ ReceiveFromStream \/ ReceiveAnswer \/ UNCHANGED vars
  <2>1. UNCHANGED <<status, cleanupRequested, experiment, mutations>>
    BY <1>7 DEF ServeRefresh, LoseRefresh, ReceiveRefresh, Connect, Disconnect, ReceiveFromStream, ReceiveAnswer,
                vars, serverVars, runVars, scenarioVars
  <2> QED BY <2>1 DEF Ended
<1> QED BY <1>1, <1>2, <1>3, <1>4, <1>5, <1>6, <1>7 DEF Next

LEMMA StepClientInv == ServerInv /\ ServerInv' /\ Ended /\ ClientInv /\ [Next]_vars => ClientInv'
<1> SUFFICES ASSUME ServerInv, ServerInv', Ended, ClientInv, [Next]_vars PROVE ClientInv'
  OBVIOUS
<1>1. ServerTypes /\ ServerTypes'
  BY DEF ServerInv
<1>2. ServerStep => ClientInv'
  BY <1>1, SilentKeeps, EmissionKeeps DEF ServerStep
<1>3. CASE StartProducer /\ UNCHANGED clientVars
  BY <1>2, <1>3, StartProducerSteps
<1>4. CASE (ProducerTick \/ \E m \in Messages : ProcessingTimerFires(m)) /\ UNCHANGED clientVars
  BY <1>2, <1>4, ProducerTickSteps
<1>5. CASE Produce /\ UNCHANGED clientVars
  BY <1>2, <1>5, ProduceSteps
<1>6. CASE (\E m \in Messages : Process(m) \/ PrepareProcess(m)) /\ UNCHANGED clientVars
  BY <1>2, <1>6, ProcessSteps
<1>7. CASE BeginExperiment /\ UNCHANGED clientVars
  BY <1>2, <1>7, BeginExperimentSteps
<1>8. CASE PrepareProduce /\ UNCHANGED clientVars
  BY <1>2, <1>8, PrepareProduceSteps
<1>9. CASE CompleteExperiment /\ UNCHANGED clientVars
  BY <1>2, <1>9, CompleteExperimentSteps
<1>10. CASE FailExperiment /\ UNCHANGED clientVars
  BY <1>2, <1>10, FailExperimentSteps
<1>11. CASE RequestCleanup /\ UNCHANGED clientVars
  BY <1>2, <1>11, RequestCleanupSteps
<1>12. CASE (StartCleanup \/ FinishCleanup) /\ UNCHANGED clientVars
  BY <1>2, <1>12, CleanupSteps
<1>13. CASE DeleteSessionRun /\ UNCHANGED clientVars
  BY <1>2, <1>13, DeleteSessionRunSteps
<1>14. CASE ServeRefresh \/ LoseRefresh \/ ReceiveRefresh
  BY <1>1, <1>14, ServeRefreshKeeps, LoseRefreshKeeps, ReceiveRefreshKeeps
<1>15. CASE Connect \/ Disconnect \/ ReceiveFromStream
  BY <1>1, <1>15, ConnectKeeps, DisconnectKeeps, ReceiveFromStreamKeeps
<1>16. CASE Command \/ ReceiveAnswer
  BY <1>1, <1>16, CommandKeeps, ReceiveAnswerKeeps
<1>17. CASE UNCHANGED vars
  <2>1. UNCHANGED <<clientVars, hubVars, status, cleanupRequested, experiment>> /\ UNCHANGED Shown /\ AnswerStep
    BY <1>17 DEF vars, serverVars, runVars, timerVars, scenarioVars, Shown, AnswerStep
  <2> QED BY <1>2, <2>1, UnshownSteps
<1> QED BY <1>3, <1>4, <1>5, <1>6, <1>7, <1>8, <1>9, <1>10, <1>11, <1>12, <1>13, <1>14, <1>15, <1>16, <1>17 DEF Next

LEMMA InitClientInv == Init => Ended /\ ClientInv
<1> SUFFICES ASSUME Init PROVE Ended /\ ClientInv
  OBVIOUS
<1>1. ServerTypes
  BY InitServerInv DEF Init, ServerInv
<1>2. /\ status = "running" /\ sequence = 0 /\ events = <<>> /\ subscribed = FALSE /\ stream = <<>>
      /\ action = [status |-> "none", answer |-> Null]
      /\ connection = "connecting" /\ lastEventId = 0 /\ told = FALSE
      /\ refresh = [status |-> "idle", queued |-> FALSE, response |-> Null]
      /\ view = [shown |-> Snapshot.shown, events |-> Snapshot.recentEvents, lastSequence |-> Snapshot.sequence,
                 hasSequenceGap |-> FALSE]
  BY DEF Init, InitRun, InitHub, NoAction, NoRefresh, initializeFromSnapshot
<1>3. /\ Snapshot \in Snapshots /\ Snapshot.sequence = 0 /\ Range(Snapshot.recentEvents) = {} /\ Snapshot.shown \in Runs
      /\ Snapshot.recentEvents \in Seq(Events)
  <2>1. Range(events) = {}
    BY <1>2 DEF Range
  <2>2. Snapshot \in Snapshots /\ Snapshot.sequence = 0 /\ Range(Snapshot.recentEvents) = {}
    BY <1>1, <1>2, <2>1, SnapshotFacts DEF SnapshotIsTheRun
  <2> QED BY <2>2 DEF Snapshots
<1>4. Ended
  BY <1>2 DEF Ended
<1>5. ClientTypes
  <2>1. view \in Views
    BY <1>2, <1>3 DEF Views
  <2>2. <<>> \in Seq(Items)
    OBVIOUS
  <2> QED BY <1>2, <2>1, <2>2 DEF ClientTypes
<1>6. Channel /\ Reach /\ Requests /\ Coming
  BY <1>2 DEF Channel, Reach, Requests, Coming
<1>7. (\A item : ~Streamed(item)) /\ \A x \in Snapshots : ~InFlight(x)
  <2>1. \A item : ~Streamed(item)
    BY <1>2 DEF Streamed, Range
  <2> QED BY <1>2, <2>1, NullAssumption DEF InFlight
<1>8. \A e \in Events : ~Known(e)
  <2>1. Range(events) = {}
    BY <1>2 DEF Range
  <2>2. view.events = Snapshot.recentEvents
    BY <1>2
  <2>3. Range(view.events) = {}
    BY <1>3, <2>2
  <2> QED BY <1>7, <2>1, <2>3 DEF Known
<1>9. Consistent /\ SnapshotsFit
  BY <1>2, <1>3, <1>7, <1>8 DEF Consistent, SnapshotsFit
<1> QED BY <1>4, <1>5, <1>6, <1>9 DEF ClientInv

(* A client at rest shows the run as it is, its events in order and any hole  *)
(* in them marked, or the user sees an error: for any experiments, messages,  *)
(* limits and loads, whatever overtook what, and however often the connection *)
(* was lost.                                                                  *)
THEOREM SpecStaleIsTold == Spec => []StaleIsTold
<1>1. ClientInv => StaleIsTold
  <2> SUFFICES ASSUME ClientInv, Quiet, ~told, ~ShowsTheRun PROVE FALSE
    BY DEF StaleIsTold
  <2>1. /\ connection = "open" /\ refresh.status = "idle" /\ action.status = "none" /\ Calm
        /\ \A item : ~Streamed(item)
    BY DEF Quiet, Calm, Streamed, Range
  <2>2. ~refresh.queued
    BY <2>1 DEF ClientInv, Requests
  <2> QED BY <2>1, <2>2 DEF ClientInv, Coming
<1>2. Init => ServerInv
  BY InitServerInv DEF Init
<1> QED BY <1>1, <1>2, InitClientInv, StepServerInv, EndedKept, StepClientInv, PTL DEF Spec
=============================================================================
