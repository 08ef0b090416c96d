---------------------------- MODULE RunLifecycle ----------------------------
(***************************************************************************)
(* PlaygroundRunLifecycle (playground-run-lifecycle.ts) for one run: the   *)
(* promise chain that serialises the run's mutations, and the tokens that  *)
(* close the run while a cleanup is under way.                             *)
(*                                                                         *)
(* Each element of Mutations is one call of mutate() and stands for the    *)
(* promise `current` of that call; each element of Cleanups is one call of *)
(* cleanup() that finds no cleanup in progress (a call that finds one      *)
(* returns its promise and changes nothing). Works are the promises other  *)
(* than the chain that a cleanup retains: the in-flight experiment and the *)
(* run-scoped work. An action is what runs between two awaits.             *)
(***************************************************************************)
EXTENDS Naturals

CONSTANTS Mutations, Cleanups, Works, NoOne, Behavior

ASSUME NoOneAssumption == NoOne \notin Mutations \union Cleanups
ASSUME BehaviorAssumption == Behavior \in [Mutations -> {"allow", "reject", "skip"}]

VARIABLES
  pc,                    \* where the call of mutate() is
  previous,              \* the promise the call waits for
  mutationTail,          \* mutationTails.get(runId)
  cleanupRequestTokens,  \* cleanupRequestTokens.get(runId)
  cleanupOperation,      \* cleanupOperations.get(runId)
  cleanupPc,             \* where the call of cleanup() is
  retainedWork,          \* the promises a cleanup keeps its token for
  workPc,                \* the promises other than the chain
  unavailable,           \* mutationUnavailableError() # null
  ticket, lastTicket,    \* history: the order of the calls
  owed                   \* history: the calls that were live when a cleanup began

mutationVars == <<pc, previous, mutationTail, ticket, lastTicket>>
cleanupVars == <<cleanupRequestTokens, cleanupOperation, cleanupPc, retainedWork, owed>>
vars == <<mutationVars, cleanupVars, workPc, unavailable>>

TypeOK ==
  /\ pc \in [Mutations -> {"idle", "queued", "running", "done", "skipped", "rejected"}]
  /\ previous \in [Mutations -> Mutations \union {NoOne}]
  /\ mutationTail \in Mutations \union {NoOne}
  /\ cleanupRequestTokens \subseteq Cleanups
  /\ cleanupOperation \in Cleanups \union {NoOne}
  /\ cleanupPc \in [Cleanups -> {"idle", "performing", "retaining"}]
  /\ retainedWork \in [Cleanups -> SUBSET (Mutations \union Works)]
  /\ workPc \in [Works -> {"idle", "pending", "settled"}]
  /\ unavailable \in BOOLEAN
  /\ ticket \in [Mutations -> Nat]
  /\ lastTicket \in Nat
  /\ owed \in [Cleanups -> SUBSET Mutations]

Init ==
  /\ pc = [m \in Mutations |-> "idle"]
  /\ previous = [m \in Mutations |-> NoOne]
  /\ mutationTail = NoOne
  /\ cleanupRequestTokens = {}
  /\ cleanupOperation = NoOne
  /\ cleanupPc = [c \in Cleanups |-> "idle"]
  /\ retainedWork = [c \in Cleanups |-> {}]
  /\ workPc = [w \in Works |-> "idle"]
  /\ unavailable = FALSE
  /\ ticket = [m \in Mutations |-> 0]
  /\ lastTicket = 0
  /\ owed = [c \in Cleanups |-> {}]

IsCleanupRequested == cleanupRequestTokens # {}

\* The calls whose promise is not settled.
Live == {m \in Mutations : pc[m] \in {"queued", "running"}}

Pending(p) == p \in Live \/ (p \in Works /\ workPc[p] = "pending")

-----------------------------------------------------------------------------
(* mutate() *)

Refused(m) == Behavior[m] # "allow" /\ (IsCleanupRequested \/ unavailable)

Refusal(m) == IF Behavior[m] = "skip" THEN "skipped" ELSE "rejected"

\* Mutant: a later call may have taken the tail.
ReleaseAnyTail(m) == mutationTail' = NoOne

\* finally: release(), and drop the tail if no later call has taken it.
Release(m) == mutationTail' = IF mutationTail = m THEN NoOne ELSE mutationTail

RefuseCall(m) ==
  /\ pc[m] = "idle"
  /\ Refused(m)
  /\ pc' = [pc EXCEPT ![m] = Refusal(m)]
  /\ UNCHANGED <<previous, mutationTail, ticket, lastTicket>>
  /\ UNCHANGED <<cleanupVars, workPc, unavailable>>

\* Mutant: the tail is read after it is set.
CallBehindItself(m) ==
  /\ pc[m] = "idle"
  /\ ~Refused(m)
  /\ previous' = [previous EXCEPT ![m] = m]
  /\ mutationTail' = m
  /\ pc' = [pc EXCEPT ![m] = "queued"]
  /\ lastTicket' = lastTicket + 1
  /\ ticket' = [ticket EXCEPT ![m] = lastTicket + 1]
  /\ UNCHANGED <<cleanupVars, workPc, unavailable>>

\* With no previous promise execute() does not await: the body starts at once.
Call(m) ==
  /\ pc[m] = "idle"
  /\ ~Refused(m)
  /\ previous' = [previous EXCEPT ![m] = mutationTail]
  /\ mutationTail' = m
  /\ pc' = [pc EXCEPT ![m] = IF mutationTail = NoOne THEN "running" ELSE "queued"]
  /\ lastTicket' = lastTicket + 1
  /\ ticket' = [ticket EXCEPT ![m] = lastTicket + 1]
  /\ UNCHANGED <<cleanupVars, workPc, unavailable>>

\* Mutant: the previous call is not awaited.
ResumeAtOnce(m) ==
  /\ pc[m] = "queued"
  /\ pc' = [pc EXCEPT ![m] = "running"]
  /\ UNCHANGED <<previous, mutationTail, ticket, lastTicket, cleanupVars, workPc, unavailable>>

\* Mutant: the checks are not made again.
ResumeUnchecked(m) ==
  /\ pc[m] = "queued"
  /\ previous[m] \notin Live
  /\ pc' = [pc EXCEPT ![m] = "running"]
  /\ UNCHANGED <<previous, mutationTail, ticket, lastTicket, cleanupVars, workPc, unavailable>>

\* After `await previous`: the checks are made again, and a call they refuse
\* releases its promise without running its body.
Resume(m) ==
  /\ pc[m] = "queued"
  /\ previous[m] \notin Live
  /\ IF Refused(m)
     THEN pc' = [pc EXCEPT ![m] = Refusal(m)] /\ Release(m)
     ELSE pc' = [pc EXCEPT ![m] = "running"] /\ UNCHANGED mutationTail
  /\ UNCHANGED <<previous, ticket, lastTicket, cleanupVars, workPc, unavailable>>

FinishMutation(m) ==
  /\ pc[m] = "running"
  /\ pc' = [pc EXCEPT ![m] = "done"]
  /\ Release(m)
  /\ UNCHANGED <<previous, ticket, lastTicket, cleanupVars, workPc, unavailable>>

-----------------------------------------------------------------------------
(* cleanup() *)

\* What perform() hands to retainRequestUntil: the tail and the other work
\* that has not settled.
WorkToRetain == ({mutationTail} \ {NoOne}) \union {w \in Works : workPc[w] = "pending"}

RequestCleanup(c) ==
  /\ cleanupPc[c] = "idle"
  /\ cleanupOperation = NoOne
  /\ cleanupRequestTokens' = cleanupRequestTokens \union {c}
  /\ cleanupOperation' = c
  /\ cleanupPc' = [cleanupPc EXCEPT ![c] = "performing"]
  /\ retainedWork' = [retainedWork EXCEPT ![c] = WorkToRetain]
  /\ owed' = [owed EXCEPT ![c] = Live]
  /\ UNCHANGED <<mutationVars, workPc, unavailable>>

\* cleanup.finally(...): the operation is over, its token is not.
FinishCleanup(c) ==
  /\ cleanupPc[c] = "performing"
  /\ cleanupPc' = [cleanupPc EXCEPT ![c] = "retaining"]
  /\ cleanupOperation' = NoOne
  /\ UNCHANGED <<cleanupRequestTokens, retainedWork, owed>>
  /\ UNCHANGED <<mutationVars, workPc, unavailable>>

\* Mutant: the token does not wait for the retained work.
ReleaseTokenEarly(c) ==
  /\ cleanupPc[c] = "retaining"
  /\ cleanupPc' = [cleanupPc EXCEPT ![c] = "idle"]
  /\ cleanupRequestTokens' = cleanupRequestTokens \ {c}
  /\ UNCHANGED <<cleanupOperation, retainedWork, owed>>
  /\ UNCHANGED <<mutationVars, workPc, unavailable>>

\* Mutant: a token is dropped only with the whole set.
ReleaseLastTokenOnly(c) ==
  /\ cleanupPc[c] = "retaining"
  /\ \A p \in retainedWork[c] : ~Pending(p)
  /\ cleanupPc' = [cleanupPc EXCEPT ![c] = "idle"]
  /\ cleanupRequestTokens' = IF cleanupRequestTokens = {c} THEN {} ELSE cleanupRequestTokens
  /\ UNCHANGED <<cleanupOperation, retainedWork, owed>>
  /\ UNCHANGED <<mutationVars, workPc, unavailable>>

\* Promise.allSettled(retainedWork).then(...)
ReleaseToken(c) ==
  /\ cleanupPc[c] = "retaining"
  /\ \A p \in retainedWork[c] : ~Pending(p)
  /\ cleanupPc' = [cleanupPc EXCEPT ![c] = "idle"]
  /\ cleanupRequestTokens' = cleanupRequestTokens \ {c}
  /\ UNCHANGED <<cleanupOperation, retainedWork, owed>>
  /\ UNCHANGED <<mutationVars, workPc, unavailable>>

-----------------------------------------------------------------------------
(* The promises outside the chain, and the run's status. *)

StartWork(w) ==
  /\ workPc[w] = "idle"
  /\ workPc' = [workPc EXCEPT ![w] = "pending"]
  /\ UNCHANGED <<mutationVars, cleanupVars, unavailable>>

SettleWork(w) ==
  /\ workPc[w] = "pending"
  /\ workPc' = [workPc EXCEPT ![w] = "settled"]
  /\ UNCHANGED <<mutationVars, cleanupVars, unavailable>>

\* mutationUnavailableError() reads the run's status, which bodies and
\* cleanups change: RunCleanup says when.
ChangeAvailability ==
  /\ unavailable' = ~unavailable
  /\ UNCHANGED <<mutationVars, cleanupVars, workPc>>

Next ==
  \/ \E m \in Mutations : \/ RefuseCall(m)
                          \/ Call(m)
                          \/ Resume(m)
                          \/ FinishMutation(m)
  \/ \E c \in Cleanups : \/ RequestCleanup(c)
                         \/ FinishCleanup(c)
                         \/ ReleaseToken(c)
  \/ \E w \in Works : StartWork(w) \/ SettleWork(w)
  \/ ChangeAvailability

Spec == Init /\ [][Next]_vars

(***************************************************************************)
(* Fairness. The microtask queue runs every continuation whose promise has *)
(* settled (Resume, ReleaseToken). That the bodies, the other work and the *)
(* body of the cleanup settle is not this class's doing: FairSpec assumes  *)
(* it, to show that the class itself loses no call and keeps no token.     *)
(***************************************************************************)
FairSpec ==
  /\ Spec
  /\ \A m \in Mutations : WF_vars(Resume(m)) /\ WF_vars(FinishMutation(m))
  /\ \A c \in Cleanups : WF_vars(FinishCleanup(c)) /\ WF_vars(ReleaseToken(c))
  /\ \A w \in Works : WF_vars(SettleWork(w))

-----------------------------------------------------------------------------
(* Safety *)

\* The chain is a queue: whoever waits, waits for the live call right before
\* it, so a call whose predecessor has settled is the oldest one that lives.
\* (The interleaving at stake: a call that is refused when its turn comes, or
\* that ends while it is the tail, must not let a later call overtake.)
ChainIsQueue ==
  /\ mutationTail = NoOne => Live = {}
  /\ mutationTail # NoOne =>
       /\ mutationTail \in Live
       /\ \A n \in Live : ticket[n] <= ticket[mutationTail]
  /\ \A m, n \in Live :
       /\ ticket[m] = ticket[n] => m = n
       /\ ticket[n] < ticket[m] =>
            /\ previous[m] \in Live
            /\ ticket[previous[m]] < ticket[m]
            /\ ticket[n] <= ticket[previous[m]]

\* Mutations of a run never overlap, and they start in the order of the calls.
OneMutationAtATime ==
  \A m, n \in Live : pc[m] = "running" /\ m # n => pc[n] = "queued" /\ ticket[m] < ticket[n]

\* As long as a mutation lives that was live when a cleanup was requested, the
\* run stays closed: the token keeps the tail, and the tail outlives them all.
\* A body that resumes after its cleanup gave up on it can thus tell that it
\* was superseded.
ClosedWhileOwed ==
  \A c \in Cleanups : owed[c] \intersect Live # {} => c \in cleanupRequestTokens

\* A cleanup in progress holds its token, and is the only one in progress.
TokenPerCleanup ==
  /\ \A c \in Cleanups : c \in cleanupRequestTokens <=> cleanupPc[c] \in {"performing", "retaining"}
  /\ \A c \in Cleanups : cleanupPc[c] = "performing" <=> cleanupOperation = c

\* How a call ended is no concern of RunGate.
PhaseOf(m) == IF pc[m] \in {"done", "skipped", "rejected"} THEN "over" ELSE pc[m]

\* Refinement: the class keeps the promise of RunGate.
Gate == INSTANCE RunGate WITH
          Tolerant <- {m \in Mutations : Behavior[m] = "allow"},
          phase <- [m \in Mutations |-> PhaseOf(m)],
          closing <- cleanupRequestTokens

\* The chain and the tokens keep what RunGate promises: one body at a time, in
\* the order of the calls, none that minds a cleanup started under one, and no
\* reopening before the calls that were live are over.
ImplementsGate == Gate!Spec

-----------------------------------------------------------------------------
(* Liveness, under FairSpec *)

\* Every queued mutation runs or is refused, also across cleanups.
EveryMutationSettles == \A m \in Mutations : pc[m] = "queued" ~> m \notin Live

\* A requested cleanup does not keep the run closed for ever.
RunReopens == \A c \in Cleanups : c \in cleanupRequestTokens ~> c \notin cleanupRequestTokens

=============================================================================
