------------------------------ MODULE LiveUpdates ------------------------------
(***************************************************************************)
(* One client of a run and the run's server: the client shows a run from   *)
(* its events, from snapshots it fetches after each event and from the     *)
(* answers to its commands (visualization-reducer.ts, use-run-live-        *)
(* updates.ts, use-run-action.ts and use-teaching-experiment.ts), over a   *)
(* connection that may be lost. The browser is external: an EventSource    *)
(* connects again with the id of the last event it received, unless the    *)
(* server refuses.                                                         *)
(*                                                                         *)
(* An update is queued for a microtask, which ends before the next message *)
(* of the stream or response arrives: it is applied at once here.          *)
(***************************************************************************)
EXTENDS ExperimentTransaction, FiniteSetsExt

CONSTANT EventWindow     \* the 1000 of visualization-reducer.ts

ASSUME WindowAssumption == EventWindow \in Nat \ {0}

VARIABLES
  view,           \* what the client shows of the run
  connection,     \* of its EventSource: "connecting", "open", "closed"
  lastEventId,
  refresh,        \* refreshInFlight, refreshQueued and the response under way
  told            \* does the user see an error?

clientVars == <<view, connection, lastEventId, refresh, told>>
vars == <<serverVars, clientVars>>

-----------------------------------------------------------------------------
(* visualization-reducer.ts *)

initializeFromSnapshot(snapshot) ==
  [shown |-> snapshot.shown, events |-> snapshot.recentEvents, lastSequence |-> snapshot.sequence,
   hasSequenceGap |-> FALSE]

eventsHaveSequenceGap(shownEvents) ==
  \E i \in 2..Len(shownEvents) : shownEvents[i].sequence # shownEvents[i - 1].sequence + 1

applyRuntimeEvent(state, event) ==
  IF event.sequence <= state.lastSequence /\ \E e \in Range(state.events) : e.sequence = event.sequence
  THEN state
  ELSE [state EXCEPT
          !.hasSequenceGap = @ \/ (state.lastSequence > 0 /\ event.sequence > state.lastSequence + 1),
          !.events = LastOf(Append(@, event), EventWindow),
          !.lastSequence = Max({@, event.sequence})]

mergeSnapshot(state, snapshot) ==
  LET merged == Range(state.events) \union Range(snapshot.recentEvents)
      earlier(e) == {d \in merged : d.sequence < e.sequence}
      sorted == [i \in 1..Cardinality(merged) |-> CHOOSE e \in merged : Cardinality(earlier(e)) = i - 1]
      shownEvents == LastOf(sorted, EventWindow)
  IN  IF snapshot.sequence < state.lastSequence THEN state
      ELSE [shown |-> snapshot.shown, events |-> shownEvents,
            lastSequence |-> Max({state.lastSequence, snapshot.sequence}),
            hasSequenceGap |-> eventsHaveSequenceGap(shownEvents)]

-----------------------------------------------------------------------------
(* use-run-live-updates.ts *)

NoRefresh == [status |-> "idle", queued |-> FALSE, response |-> Null]

\* Mutant: the refresh that is under way is enough.
OneRefreshIsEnough ==
  refresh' = IF refresh.status = "idle" THEN [NoRefresh EXCEPT !.status = "asked"] ELSE refresh

\* refreshActiveSnapshot()
RefreshActiveSnapshot ==
  refresh' = IF refresh.status = "idle" THEN [NoRefresh EXCEPT !.status = "asked"]
             ELSE [refresh EXCEPT !.queued = TRUE]

\* The server answers GET /runs/{runId}, or the answer is an error.
AnswerRefresh(response) ==
  /\ refresh.status = "asked"
  /\ refresh' = [refresh EXCEPT !.status = "answered", !.response = response]
  /\ UNCHANGED <<view, connection, lastEventId, told>>

ServeRefresh == AnswerRefresh(IF status = "gone" THEN Null ELSE Snapshot) /\ UNCHANGED serverVars

LoseRefresh ==
  /\ load.disconnects > 0
  /\ load' = [load EXCEPT !.disconnects = @ - 1]
  /\ AnswerRefresh(Null)
  /\ UNCHANGED <<runVars, hubVars, action>>

\* Mutant: what was queued meanwhile is forgotten.
FinishWithoutQueued == refresh' = NoRefresh

\* A response that something has overtaken is dropped, and asked for again.
FinishRefresh == refresh' = IF refresh.queued THEN [NoRefresh EXCEPT !.status = "asked"] ELSE NoRefresh

ReceiveRefresh ==
  /\ refresh.status = "answered"
  /\ FinishRefresh
  /\ IF refresh.queued THEN UNCHANGED <<view, told>>
     ELSE IF refresh.response = Null THEN told' = TRUE /\ UNCHANGED view
     ELSE view' = mergeSnapshot(view, refresh.response) /\ UNCHANGED told
  /\ UNCHANGED <<serverVars, connection, lastEventId>>

\* GET /runs/{runId}/events
Connect ==
  /\ load.live
  /\ connection = "connecting"
  /\ IF status = "gone"
     THEN connection' = "closed" /\ RefreshActiveSnapshot /\ UNCHANGED hubVars
     ELSE connection' = "open" /\ Subscribe(Snapshot, lastEventId) /\ UNCHANGED refresh
  /\ UNCHANGED <<load, runVars, action, view, lastEventId, told>>

Disconnect ==
  /\ connection = "open"
  /\ load.disconnects > 0
  /\ load' = [load EXCEPT !.disconnects = @ - 1]
  /\ connection' = "connecting"
  /\ Unsubscribe
  /\ RefreshActiveSnapshot
  /\ UNCHANGED <<runVars, action, view, lastEventId, told>>

ReceiveFromStream ==
  /\ connection = "open" /\ stream # <<>>
  /\ stream' = Tail(stream)
  /\ LET item == Head(stream) IN
     IF item.kind = "snapshot"
     THEN view' = mergeSnapshot(view, item.snapshot) /\ UNCHANGED <<lastEventId, refresh>>
     ELSE /\ view' = applyRuntimeEvent(view, item.event)
          /\ lastEventId' = item.event.sequence
          /\ RefreshActiveSnapshot
  /\ UNCHANGED <<load, runVars, sequence, events, subscribed, action, connection, told>>

-----------------------------------------------------------------------------
(* Commands: use-run-action.ts allows one at a time. *)

Command ==
  /\ action.status = "none"
  /\ load.commands > 0
  /\ status # "gone"
  /\ load' = [load EXCEPT !.commands = @ - 1]
  /\ told' = FALSE
  /\ AskStartProducer \/ \E id \in ExperimentIds : AskExperiment(id)
  /\ UNCHANGED <<view, connection, lastEventId, refresh>>

ReceiveAnswer ==
  /\ action.status = "answered"
  /\ action' = NoAction
  /\ IF action.answer = Null THEN told' = TRUE /\ UNCHANGED view
     ELSE view' = mergeSnapshot(view, action.answer) /\ UNCHANGED told
  /\ UNCHANGED <<load, runVars, hubVars, connection, lastEventId, refresh>>

-----------------------------------------------------------------------------

Init ==
  /\ InitRun
  /\ view = initializeFromSnapshot(Snapshot)
  /\ connection = "connecting" /\ lastEventId = 0 /\ refresh = NoRefresh /\ told = FALSE

Next ==
  \/ StartProducer /\ UNCHANGED clientVars
  \/ ProducerTick /\ UNCHANGED clientVars
  \/ Produce /\ UNCHANGED clientVars
  \/ (\E m \in Messages : ProcessingTimerFires(m)) /\ UNCHANGED clientVars
  \/ (\E m \in Messages : Process(m)) /\ UNCHANGED clientVars
  \/ BeginExperiment /\ UNCHANGED clientVars
  \/ PrepareProduce /\ UNCHANGED clientVars
  \/ (\E m \in Messages : PrepareProcess(m)) /\ UNCHANGED clientVars
  \/ CompleteExperiment /\ UNCHANGED clientVars
  \/ FailExperiment /\ UNCHANGED clientVars
  \/ RequestCleanup /\ UNCHANGED clientVars
  \/ StartCleanup /\ UNCHANGED clientVars
  \/ FinishCleanup /\ UNCHANGED clientVars
  \/ DeleteSessionRun /\ UNCHANGED clientVars
  \/ ServeRefresh \/ LoseRefresh \/ ReceiveRefresh
  \/ Connect \/ Disconnect \/ ReceiveFromStream
  \/ Command \/ ReceiveAnswer

Spec == Init /\ [][Next]_vars

TakeTurn == (StartProducer \/ Produce \/ \E m \in Messages : Process(m)) /\ UNCHANGED clientVars
Experiment == (BeginExperiment \/ CompleteExperiment \/ FailExperiment) /\ UNCHANGED clientVars
Cleanup == (StartCleanup \/ FinishCleanup) /\ UNCHANGED clientVars

\* Calls get their turn, an experiment and a cleanup end, what is sent over a
\* connection arrives or fails, and the browser connects again.
FairSpec ==
  /\ Spec
  /\ WF_vars(TakeTurn) /\ WF_vars(Experiment) /\ WF_vars(Cleanup)
  /\ WF_vars(ServeRefresh) /\ WF_vars(ReceiveRefresh)
  /\ WF_vars(Connect) /\ WF_vars(ReceiveFromStream) /\ WF_vars(ReceiveAnswer)

-----------------------------------------------------------------------------
(* Properties *)

ShowsTheRun ==
  IF status = "gone" THEN view.shown.status = "stopped"
  ELSE /\ view.shown = Shown
       /\ view.hasSequenceGap <=> eventsHaveSequenceGap(view.events)
       /\ \A i, j \in DOMAIN view.events : i < j => view.events[i].sequence < view.events[j].sequence

\* Nothing is on its way to the client and nothing is under way at the server.
Quiet ==
  /\ connection = "open" /\ stream = <<>>
  /\ refresh.status = "idle" /\ action.status = "none"
  /\ experiment = Null
  /\ cleanupRequested => status # "running"

\* A client at rest shows the run as it is, with its events in order and any
\* hole in them marked, or the user sees an error: whatever snapshots, events
\* and answers overtook each other, and however often the connection was lost.
StaleIsTold == Quiet => told \/ ShowsTheRun

\* Once nothing more is asked of the run, a client that opened its stream shows
\* the run or an error.
ClientCatchesUp == load.live => <>[](told \/ ShowsTheRun)
================================================================================
