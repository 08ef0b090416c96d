---------------------------- MODULE RuntimeEventHub ----------------------------
(***************************************************************************)
(* The events of a run on their way to one client: the retained history,   *)
(* the subscriber, and the stream of server-sent events it writes to       *)
(* (runtime-event-hub.ts and events/route.ts). The network is external:    *)
(* what is in the stream arrives in order, or is lost with the connection. *)
(***************************************************************************)
EXTENDS Integers, Sequences, SequencesExt, FiniteSets

CONSTANTS
  Null,
  EventHistoryLimit,      \* EVENT_HISTORY_LIMIT
  TimelineDisplayLimit    \* TIMELINE_DISPLAY_LIMIT

ASSUME LimitsAssumption == EventHistoryLimit \in Nat \ {0} /\ TimelineDisplayLimit \in Nat \ {0}

VARIABLES
  sequence,       \* run.sequence
  events,         \* run.events
  subscribed,     \* does run.subscribers hold the client's subscriber?
  stream          \* what it was given and the client has not received

hubVars == <<sequence, events, subscribed, stream>>

InitHub == sequence = 0 /\ events = <<>> /\ subscribed = FALSE /\ stream = <<>>

\* The last n elements, as slice(-n).
LastOf(s, n) == SubSeq(s, IF Len(s) > n THEN Len(s) - n + 1 ELSE 1, Len(s))

EventItem(event) == [kind |-> "event", event |-> event]
SnapshotItem(snapshot) == [kind |-> "snapshot", snapshot |-> snapshot]

\* emitRuntimeEvent() for each of the payloads. A subscriber whose stream is
\* closed is never told so: safeEnqueue() swallows the error.
EmitAll(payloads) ==
  LET numbered == [i \in DOMAIN payloads |-> [payloads[i] EXCEPT !.sequence = sequence + i]]
  IN  /\ sequence' = sequence + Len(payloads)
      /\ events' = LastOf(events \o numbered, EventHistoryLimit)
      /\ stream' = IF subscribed THEN stream \o [i \in DOMAIN numbered |-> EventItem(numbered[i])] ELSE stream

\* What subscribeToRun() replays, the last of the retained events as they are
\* in order: parseLastEventId() takes no id and the id 0 for null.
Missed(lastEventId) ==
  IF lastEventId = 0 THEN <<>>
  ELSE LastOf(events, Cardinality({i \in DOMAIN events : events[i].sequence > lastEventId}))

\* subscribeToRun(): the snapshot comes first and carries no id.
Subscribe(snapshot, lastEventId) ==
  LET missed == Missed(lastEventId)
  IN  /\ subscribed' = TRUE
      /\ stream' = <<SnapshotItem(snapshot)>> \o [i \in DOMAIN missed |-> EventItem(missed[i])]
      /\ UNCHANGED <<sequence, events>>

\* The stream is cancelled or its request aborted.
Unsubscribe == subscribed' = FALSE /\ stream' = <<>> /\ UNCHANGED <<sequence, events>>
================================================================================
