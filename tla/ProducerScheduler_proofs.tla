---------------------- MODULE ProducerScheduler_proofs ----------------------
(***************************************************************************)
(* Proofs about ProducerScheduler, for any number of callbacks and any     *)
(* bound on the generation.                                                *)
(*                                                                         *)
(* The safety properties need each other: that an armed timer finds no     *)
(* tick in flight is what makes a second tick impossible, and the tick     *)
(* that ends arms a timer only because no other tick is in flight. What    *)
(* they lack to be inductive is Suspension: the experiment that will       *)
(* restore the status holds the producer off until then, so the timer it   *)
(* arms is the only one.                                                   *)
(***************************************************************************)
EXTENDS ProducerScheduler, TLAPS

Suspension == suspended # "none" => producerStatus # "running"

IInv ==
  /\ TypeOK
  /\ OneTick
  /\ NoStaleTimer
  /\ RunningIsArmed
  /\ QuietAfterCleanup
  /\ Suspension

\* Every run starts with a producer that is stopped and has nothing armed.
LEMMA InitIInv == Init => IInv
<1> SUFFICES ASSUME Init PROVE IInv
  OBVIOUS
<1>1. TypeOK
  BY DEF Init, TypeOK, Status
<1>2. InFlight = {} /\ producerTickInFlight = FALSE
  BY DEF Init, InFlight
<1>3. OneTick
  BY <1>2 DEF Init, OneTick
<1> QED
  BY <1>1, <1>3 DEF Init, IInv, NoStaleTimer, RunningIsArmed, QuietAfterCleanup, Suspension

\* Every step of the scheduler, of a command, of an experiment and of the
\* cleanup keeps the invariant.
LEMMA StepIInv == IInv /\ [Next]_vars => IInv'
<1> SUFFICES ASSUME IInv, [Next]_vars PROVE IInv'
  OBVIOUS
<1> USE NoTimerAssumption, MaxGenerationAssumption
<1> USE DEF IInv, TypeOK, Status, OneTick, InFlight, NoStaleTimer, RunningIsArmed,
            QuietAfterCleanup, Suspension, tickVars, timerVars
<1>1. ASSUME NEW t \in Ticks, TimerFires(t) PROVE IInv'
  <2>1. tick[t] = "none" /\ producerTimer # NoTimer /\ InFlight = {}
    BY <1>1 DEF TimerFires
  <2>2. CASE producerStatus = "running" /\ producerTimer = producerTimerGeneration
    <3>1. tick' = [tick EXCEPT ![t] = "queued"] /\ producerTickInFlight' = TRUE
      BY <1>1, <2>2 DEF TimerFires
    <3>2. \A s \in Ticks : tick'[s] # "none" <=> s = t
      BY <2>1, <3>1
    <3> QED BY <1>1, <2>1, <3>1, <3>2 DEF TimerFires
  <2>3. CASE ~(producerStatus = "running" /\ producerTimer = producerTimerGeneration)
    BY <1>1, <2>1, <2>3 DEF TimerFires
  <2> QED BY <2>2, <2>3
<1>2. ASSUME NEW t \in Ticks, ProduceStarts(t) PROVE IInv'
  <2>1. \A s \in Ticks : tick'[s] # "none" <=> tick[s] # "none"
    BY <1>2 DEF ProduceStarts
  <2> QED BY <1>2, <2>1 DEF ProduceStarts
<1>3. ASSUME NEW t \in Ticks, TickEnds(t) PROVE IInv'
  <2>1. \A s \in Ticks : tick'[s] = "none"
    BY <1>3 DEF TickEnds
  <2>2. producerTimer = NoTimer
    BY <1>3 DEF TickEnds
  <2> QED BY <1>3, <2>1, <2>2 DEF TickEnds, ScheduleProducerTick
<1>4. CASE StartProducer
  BY <1>4 DEF StartProducer, Command, QueueIsFree, RestartProducerTimer, NextGeneration
<1>5. CASE PauseProducer
  BY <1>5 DEF PauseProducer, Command, QueueIsFree, ClearProducerTimer, NextGeneration
<1>6. CASE StopProducer
  BY <1>6 DEF StopProducer, Command, QueueIsFree, ClearProducerTimer, NextGeneration
<1>7. CASE UpdateRate
  BY <1>7 DEF UpdateRate, Command, QueueIsFree, RestartProducerTimer, NextGeneration
<1>8. CASE BeginExperiment
  BY <1>8 DEF BeginExperiment, QueueIsFree, ClearProducerTimer, NextGeneration
<1>9. CASE EndExperiment
  BY <1>9 DEF EndExperiment, RestartProducerTimer, NextGeneration
<1>10. CASE StopRunTimers
  BY <1>10 DEF StopRunTimers, ClearProducerTimer, NextGeneration
<1>11. CASE UNCHANGED vars
  BY <1>11 DEF vars
<1> QED
  BY <1>1, <1>2, <1>3, <1>4, <1>5, <1>6, <1>7, <1>8, <1>9, <1>10, <1>11 DEF Next

\* The invariant holds for ever.
LEMMA Invariance == Spec => []IInv
BY InitIInv, StepIInv, PTL DEF Spec

\* Every variable of the scheduler keeps its type, whatever the bounds are.
THEOREM TypeCorrect == Spec => []TypeOK
<1>1. IInv => TypeOK
  BY DEF IInv
<1> QED BY Invariance, <1>1, PTL

\* Two ticks are never in flight and none is armed beside the one in flight,
\* whatever the order of commands, experiments, ticks and cleanups.
THEOREM SingleTick == Spec => []OneTick
<1>1. IInv => OneTick
  BY DEF IInv
<1> QED BY <1>1, Invariance, PTL

\* A timer that fires is never one that a later command should have cancelled.
THEOREM TimerIsCurrent == Spec => []NoStaleTimer
<1>1. IInv => NoStaleTimer
  BY DEF IInv
<1> QED BY <1>1, Invariance, PTL

\* A running producer is never left with nothing armed and nothing in flight.
THEOREM NoLostTick == Spec => []RunningIsArmed
<1>1. IInv => RunningIsArmed
  BY DEF IInv
<1> QED BY <1>1, Invariance, PTL

\* Once the cleanup has stopped the timers, the producer stays stopped.
THEOREM CleanupStopsProducer == Spec => []QuietAfterCleanup
<1>1. IInv => QuietAfterCleanup
  BY DEF IInv
<1> QED BY <1>1, Invariance, PTL
=============================================================================
