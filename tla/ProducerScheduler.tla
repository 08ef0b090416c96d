-------------------------- MODULE ProducerScheduler --------------------------
(***************************************************************************)
(* Automatic production of one run (producer-scheduler.ts) against what    *)
(* changes it: the producer commands, an experiment that suspends and      *)
(* resumes it, and the cleanup that stops it.                              *)
(*                                                                         *)
(* The bodies of the commands, of produceOne() and of an experiment are    *)
(* mutations and never overlap (RunLifecycle); that of a command awaits    *)
(* nothing and is one step. The cleanup is not a mutation: it stops the    *)
(* timers at once, whatever runs, and again when it has waited.            *)
(***************************************************************************)
EXTENDS Naturals

CONSTANTS
  Ticks,          \* the invocations of the timer's callback
  NoTimer,
  MaxGeneration   \* bound on producerTimerGeneration

ASSUME NoTimerAssumption == NoTimer \notin Nat
ASSUME MaxGenerationAssumption == MaxGeneration \in Nat

VARIABLES
  producerStatus,
  producerTimer,            \* the generation its callback has captured, or NoTimer
  producerTimerGeneration,
  producerTickInFlight,
  tick,                     \* the produceOne() of a callback: "none", "queued" or "producing"
  suspended,                \* producerStatus in the checkpoint of a running experiment
  closed                    \* a cleanup was requested

timerVars == <<producerTimer, producerTimerGeneration>>
tickVars == <<producerTickInFlight, tick>>
vars == <<producerStatus, timerVars, tickVars, suspended, closed>>

Status == {"stopped", "running", "paused"}

TypeOK ==
  /\ producerStatus \in Status
  /\ producerTimer \in Nat \union {NoTimer}
  /\ producerTimerGeneration \in Nat
  /\ producerTickInFlight \in BOOLEAN
  /\ tick \in [Ticks -> {"none", "queued", "producing"}]
  /\ suspended \in Status \union {"none"}
  /\ closed \in BOOLEAN

Init ==
  /\ producerStatus = "stopped"
  /\ producerTimer = NoTimer
  /\ producerTimerGeneration = 0
  /\ producerTickInFlight = FALSE
  /\ tick = [t \in Ticks |-> "none"]
  /\ suspended = "none"
  /\ closed = FALSE

-----------------------------------------------------------------------------
(* The scheduler. These operators say what becomes of the timer. *)

NextGeneration ==
  /\ producerTimerGeneration < MaxGeneration
  /\ producerTimerGeneration' = producerTimerGeneration + 1

ClearProducerTimer == NextGeneration /\ producerTimer' = NoTimer

\* Mutant: a tick in flight is not looked at.
RestartBesideTick ==
  /\ NextGeneration
  /\ producerTimer' = producerTimerGeneration + 1

\* scheduleProducerTick() of a producer that is running, after a clear.
RestartProducerTimer ==
  /\ NextGeneration
  /\ producerTimer' = IF producerTickInFlight THEN NoTimer ELSE producerTimerGeneration + 1

\* scheduleProducerTick() at the end of a tick: no timer is armed twice.
ScheduleProducerTick ==
  producerTimer' = IF producerStatus = "running" /\ producerTimer = NoTimer
                   THEN producerTimerGeneration ELSE producerTimer

\* The callback. Its produceOne() takes its place in the queue of mutations.
TimerFires(t) ==
  /\ producerTimer # NoTimer
  /\ tick[t] = "none"
  /\ producerTimer' = NoTimer
  /\ IF producerStatus = "running" /\ producerTimer = producerTimerGeneration
     THEN /\ producerTickInFlight' = TRUE
          /\ tick' = [tick EXCEPT ![t] = "queued"]
     ELSE UNCHANGED tickVars
  /\ UNCHANGED <<producerStatus, producerTimerGeneration, suspended, closed>>

QueueIsFree == suspended = "none" /\ \A t \in Ticks : tick[t] # "producing"

ProduceStarts(t) ==
  /\ tick[t] = "queued"
  /\ QueueIsFree
  /\ ~closed
  /\ tick' = [tick EXCEPT ![t] = "producing"]
  /\ UNCHANGED <<producerStatus, timerVars, producerTickInFlight>>
  /\ UNCHANGED <<suspended, closed>>

\* Mutant: nothing follows a tick.
TickEndsForGood(t) ==
  /\ \/ tick[t] = "producing"
     \/ tick[t] = "queued" /\ QueueIsFree /\ closed
  /\ tick' = [tick EXCEPT ![t] = "none"]
  /\ producerTickInFlight' = FALSE
  /\ UNCHANGED <<producerStatus, timerVars, suspended, closed>>

\* produceOne() settles, refused in the queue or not: a failure is logged or,
\* if the producer changed meanwhile, is not; then finally { }.
TickEnds(t) ==
  /\ \/ tick[t] = "producing"
     \/ tick[t] = "queued" /\ QueueIsFree /\ closed
  /\ tick' = [tick EXCEPT ![t] = "none"]
  /\ producerTickInFlight' = FALSE
  /\ ScheduleProducerTick
  /\ UNCHANGED <<producerStatus, producerTimerGeneration>>
  /\ UNCHANGED <<suspended, closed>>

-----------------------------------------------------------------------------
(* Commands: mutations, refused once the run is closed. *)

Command ==
  /\ QueueIsFree
  /\ ~closed
  /\ UNCHANGED <<tickVars, suspended, closed>>

StartProducer ==
  /\ Command
  /\ producerStatus # "running"
  /\ producerStatus' = "running"
  /\ RestartProducerTimer

\* Mutant: the timer is left armed.
PauseOnly == Command /\ UNCHANGED timerVars /\ producerStatus' = "paused"

PauseProducer == Command /\ ClearProducerTimer /\ producerStatus' = "paused"

StopProducer == Command /\ ClearProducerTimer /\ producerStatus' = "stopped"

\* updateSettings() with a productionRate.
UpdateRate ==
  /\ Command
  /\ producerStatus = "running"
  /\ RestartProducerTimer
  /\ UNCHANGED producerStatus

-----------------------------------------------------------------------------
(* An experiment *)

\* captureCheckpoint() and suspendTimers()
BeginExperiment ==
  /\ QueueIsFree
  /\ ~closed
  /\ suspended' = producerStatus
  /\ ClearProducerTimer
  /\ producerStatus' = IF producerStatus = "running" THEN "paused" ELSE producerStatus
  /\ UNCHANGED <<tickVars, closed>>

\* Mutant: an experiment that a cleanup superseded restores its checkpoint.
EndSupersededToo ==
  /\ suspended # "none"
  /\ suspended' = "none"
  /\ producerStatus' = suspended
  /\ IF suspended = "running" THEN RestartProducerTimer ELSE UNCHANGED timerVars
  /\ UNCHANGED <<tickVars, closed>>

\* finalizeExperiment(): one that a cleanup superseded restores nothing.
EndExperiment ==
  /\ suspended # "none"
  /\ suspended' = "none"
  /\ IF closed
     THEN UNCHANGED <<producerStatus, timerVars>>
     ELSE /\ producerStatus' = suspended
          /\ IF suspended = "running" THEN RestartProducerTimer ELSE UNCHANGED timerVars
  /\ UNCHANGED <<tickVars, closed>>

-----------------------------------------------------------------------------
(* The cleanup *)

\* A cleanup begins with stopRunTimers(), and repeats it once it has waited
\* for the mutations and the experiment.
StopRunTimers ==
  /\ closed' = TRUE
  /\ ClearProducerTimer
  /\ producerStatus' = "stopped"
  /\ UNCHANGED <<tickVars, suspended>>

-----------------------------------------------------------------------------

Next ==
  \/ \E t \in Ticks : TimerFires(t) \/ ProduceStarts(t) \/ TickEnds(t)
  \/ StartProducer
  \/ PauseProducer
  \/ StopProducer
  \/ UpdateRate
  \/ BeginExperiment
  \/ EndExperiment
  \/ StopRunTimers

Spec == Init /\ [][Next]_vars

\* Timers fire, queued mutations get their turn, and a call of produce() and
\* an experiment settle. Nothing is assumed of the user or of the cleanup.
FairSpec ==
  /\ Spec
  /\ WF_vars(\E t \in Ticks : TimerFires(t))
  /\ \A t \in Ticks : SF_vars(ProduceStarts(t)) /\ SF_vars(TickEnds(t))
  /\ WF_vars(EndExperiment)

-----------------------------------------------------------------------------
(* Properties *)

InFlight == {t \in Ticks : tick[t] # "none"}

\* However the producer is paused, resumed and re-timed while a tick is in
\* flight, a second tick is neither in flight nor armed.
OneTick ==
  /\ \A s, t \in InFlight : s = t
  /\ InFlight # {} <=> producerTickInFlight
  /\ InFlight # {} => producerTimer = NoTimer

\* A timer that is armed belongs to a running producer and to the present
\* generation.
NoStaleTimer ==
  producerTimer # NoTimer => producerStatus = "running" /\ producerTimer = producerTimerGeneration

\* A running producer has its next tick armed or in flight: the restart that
\* leaves a tick alone counts on the tick to arm the next one.
RunningIsArmed == producerStatus = "running" => producerTimer # NoTimer \/ InFlight # {}

\* Once a cleanup was requested nothing revives the producer: not the tick in
\* flight, not a command that was queued, not the end of the experiment.
QuietAfterCleanup == closed => producerStatus = "stopped" /\ producerTimer = NoTimer

\* Under FairSpec: a producer that is left running in an open run goes on
\* producing.
KeepsProducing ==
  <>[](producerStatus = "running" /\ ~closed) => []<>(\E t \in Ticks : tick[t] = "producing")
=============================================================================
