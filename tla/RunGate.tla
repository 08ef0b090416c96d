------------------------------- MODULE RunGate -------------------------------
(***************************************************************************)
(* What the runtime promises about the mutations of one run: they run one  *)
(* at a time and in the order of the calls, none that minds a cleanup      *)
(* starts while a cleanup is requested, and the run is not reopened before *)
(* every mutation that was live when the cleanup was requested is over.    *)
(*                                                                         *)
(* Nothing here says how: there is no promise, no queue tail and no token. *)
(* RunLifecycle implements this specification.                             *)
(***************************************************************************)
EXTENDS Naturals

CONSTANTS Mutations, Cleanups, Tolerant  \* Tolerant: the mutations a cleanup does not refuse

VARIABLES
  phase,    \* [Mutations -> {"idle", "queued", "running", "over"}]
  ticket,   \* the place of a mutation in the order of the calls; 0: none
  lastTicket,
  closing,  \* the cleanups that keep the run closed
  owed      \* the mutations a cleanup has to outlive

vars == <<phase, ticket, lastTicket, closing, owed>>

Live == {m \in Mutations : phase[m] \in {"queued", "running"}}

Init ==
  /\ phase = [m \in Mutations |-> "idle"]
  /\ ticket = [m \in Mutations |-> 0]
  /\ lastTicket = 0
  /\ closing = {}
  /\ owed = [c \in Cleanups |-> {}]

TakeTicket(m) ==
  /\ phase[m] = "idle"
  /\ lastTicket' = lastTicket + 1
  /\ ticket' = [ticket EXCEPT ![m] = lastTicket + 1]

MayRun(m) == m \in Tolerant \/ closing = {}

Arrive(m) ==
  /\ TakeTicket(m)
  /\ phase' = [phase EXCEPT ![m] = "queued"]
  /\ UNCHANGED <<closing, owed>>

ArriveAndStart(m) ==
  /\ Live = {}
  /\ MayRun(m)
  /\ TakeTicket(m)
  /\ phase' = [phase EXCEPT ![m] = "running"]
  /\ UNCHANGED <<closing, owed>>

Start(m) ==
  /\ phase[m] = "queued"
  /\ MayRun(m)
  /\ \A n \in Live \ {m} : phase[n] = "queued" /\ ticket[m] < ticket[n]
  /\ phase' = [phase EXCEPT ![m] = "running"]
  /\ UNCHANGED <<ticket, lastTicket, closing, owed>>

Refuse(m) ==
  /\ phase[m] \in {"idle", "queued"}
  /\ m \notin Tolerant
  /\ phase' = [phase EXCEPT ![m] = "over"]
  /\ UNCHANGED <<ticket, lastTicket, closing, owed>>

Finish(m) ==
  /\ phase[m] = "running"
  /\ phase' = [phase EXCEPT ![m] = "over"]
  /\ UNCHANGED <<ticket, lastTicket, closing, owed>>

Close(c) ==
  /\ c \notin closing
  /\ closing' = closing \union {c}
  /\ owed' = [owed EXCEPT ![c] = Live]
  /\ UNCHANGED <<phase, ticket, lastTicket>>

Reopen(c) ==
  /\ c \in closing
  /\ owed[c] \intersect Live = {}
  /\ closing' = closing \ {c}
  /\ UNCHANGED <<phase, ticket, lastTicket, owed>>

Next ==
  \/ \E m \in Mutations : \/ Arrive(m)
                          \/ ArriveAndStart(m)
                          \/ Start(m)
                          \/ Refuse(m)
                          \/ Finish(m)
  \/ \E c \in Cleanups : Close(c) \/ Reopen(c)

Spec == Init /\ [][Next]_vars
=============================================================================
