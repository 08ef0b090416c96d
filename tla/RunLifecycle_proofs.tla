------------------------- MODULE RunLifecycle_proofs -------------------------
(***************************************************************************)
(* Proofs about RunLifecycle, for any set of calls, cleanups and other     *)
(* work: the safety properties the runs check on a small instance, and     *)
(* that RunLifecycle implements RunGate.                                   *)
(***************************************************************************)
EXTENDS RunLifecycle, TLAPS

\* No ticket is ahead of the counter.
TicketsTaken == \A m \in Mutations : ticket[m] <= lastTicket

\* The tail a cleanup retains is the youngest of the calls it has to outlive.
OwedRetained ==
  \A c \in Cleanups : owed[c] \intersect Live # {} =>
    /\ c \in cleanupRequestTokens
    /\ \E p \in retainedWork[c] : /\ p \in Live
                                  /\ \A m \in owed[c] \intersect Live : ticket[m] <= ticket[p]

\* A cleanup owes only calls that were made.
OwedCalled == \A c \in Cleanups : \A m \in owed[c] : pc[m] # "idle"

\* The inductive invariant.
IInv ==
  /\ TypeOK
  /\ TicketsTaken
  /\ ChainIsQueue
  /\ OneMutationAtATime
  /\ TokenPerCleanup
  /\ OwedRetained
  /\ OwedCalled

-----------------------------------------------------------------------------

\* A call that runs, or whose previous promise has settled, is the oldest
\* live call.
LEMMA OldestLemma ==
  ASSUME IInv, NEW m \in Live, pc[m] = "running" \/ previous[m] \notin Live
  PROVE  \A n \in Live : n # m => ticket[m] < ticket[n]
<1> SUFFICES ASSUME NEW n \in Live, n # m PROVE ticket[m] < ticket[n]
  OBVIOUS
<1>0. m \in Mutations /\ n \in Mutations /\ ticket[m] \in Nat /\ ticket[n] \in Nat
  BY DEF IInv, TypeOK, Live
<1>1. CASE pc[m] = "running"
  BY <1>1 DEF IInv, OneMutationAtATime
<1>2. CASE previous[m] \notin Live
  <2>1. ~(ticket[n] < ticket[m])
    BY <1>2 DEF IInv, ChainIsQueue
  <2>2. ticket[m] # ticket[n]
    BY DEF IInv, ChainIsQueue
  <2> QED BY <2>1, <2>2, <1>0
<1> QED BY <1>1, <1>2

\* When the oldest live call leaves the chain, the chain is still a queue.
LEMMA LeaveLemma ==
  ASSUME IInv, NEW m \in Live, \A n \in Live : n # m => ticket[m] < ticket[n],
         Live' = Live \ {m}, Release(m), UNCHANGED <<previous, ticket>>
  PROVE  ChainIsQueue'
<1>0. \A n \in Live : n \in Mutations /\ ticket[n] \in Nat
  BY DEF IInv, TypeOK, Live
<1>1. mutationTail' = NoOne => Live' = {}
  <2>1. CASE mutationTail = m
    BY <2>1, <1>0 DEF IInv, ChainIsQueue, Release
  <2>2. CASE mutationTail # m
    BY <2>2 DEF IInv, ChainIsQueue, Release
  <2> QED BY <2>1, <2>2
<1>2. mutationTail' # NoOne =>
        mutationTail' \in Live' /\ \A n \in Live' : ticket'[n] <= ticket'[mutationTail']
  BY DEF IInv, ChainIsQueue, Release
<1>3. ASSUME NEW a \in Live', NEW b \in Live'
      PROVE  /\ ticket'[a] = ticket'[b] => a = b
             /\ ticket'[b] < ticket'[a] =>
                  /\ previous'[a] \in Live'
                  /\ ticket'[previous'[a]] < ticket'[a]
                  /\ ticket'[b] <= ticket'[previous'[a]]
  <2>1. a \in Live /\ b \in Live /\ b # m
    BY <1>3
  <2>2. ticket[m] < ticket[b]
    BY <2>1
  <2>3. ticket[b] < ticket[a] => previous[a] # m
    BY <2>1, <2>2, <1>0 DEF IInv, ChainIsQueue
  <2> QED BY <2>1, <2>3 DEF IInv, ChainIsQueue
<1> QED BY <1>1, <1>2, <1>3 DEF ChainIsQueue

\* A step that leaves the calls as they are leaves the chain as it is.
LEMMA UntouchedChain ==
  ASSUME IInv, UNCHANGED mutationVars
  PROVE  TicketsTaken' /\ ChainIsQueue' /\ OneMutationAtATime' /\ Live' = Live
<1>1. Live' = Live
  BY DEF mutationVars, Live
<1> QED BY <1>1 DEF IInv, mutationVars, TicketsTaken, ChainIsQueue, OneMutationAtATime

\* When calls only leave, no cleanup owes more than before, and each still
\* retains the youngest call it owes.
LEMMA OwedLemma ==
  ASSUME IInv, NEW m \in Live, \A n \in Live : n # m => ticket[m] < ticket[n],
         Live' = Live \ {m}, UNCHANGED <<ticket, owed, retainedWork, cleanupRequestTokens>>
  PROVE  OwedRetained'
<1> SUFFICES ASSUME NEW c \in Cleanups, owed[c] \intersect Live' # {}
             PROVE  /\ c \in cleanupRequestTokens
                    /\ \E p \in retainedWork[c] :
                         p \in Live' /\ \A n \in owed[c] \intersect Live' : ticket[n] <= ticket[p]
  BY DEF OwedRetained
<1>1. PICK q \in owed[c] : q \in Live /\ q # m
  OBVIOUS
<1>2. PICK p \in retainedWork[c] : p \in Live /\ \A n \in owed[c] \intersect Live : ticket[n] <= ticket[p]
  BY <1>1 DEF IInv, OwedRetained
<1>3. ticket[m] \in Nat /\ ticket[q] \in Nat
  BY <1>1 DEF IInv, TypeOK, Live
<1>4. p # m
  BY <1>1, <1>2, <1>3
<1> QED BY <1>1, <1>2, <1>4 DEF IInv, OwedRetained

-----------------------------------------------------------------------------

\* Every variable keeps its type.
LEMMA TypeStep ==
  TypeOK /\ [Next]_vars => TypeOK'
<1> SUFFICES ASSUME TypeOK, [Next]_vars PROVE TypeOK'
  OBVIOUS
<1> USE DEF TypeOK, mutationVars, cleanupVars
<1>1. ASSUME NEW m \in Mutations, RefuseCall(m) PROVE TypeOK'
  BY <1>1 DEF RefuseCall, Refusal
<1>2. ASSUME NEW m \in Mutations, Call(m) PROVE TypeOK'
  BY <1>2 DEF Call
<1>3. ASSUME NEW m \in Mutations, Resume(m) PROVE TypeOK'
  BY <1>3 DEF Resume, Refusal, Release
<1>4. ASSUME NEW m \in Mutations, FinishMutation(m) PROVE TypeOK'
  BY <1>4 DEF FinishMutation, Release
<1>5. ASSUME NEW c \in Cleanups, RequestCleanup(c) PROVE TypeOK'
  <2>1. WorkToRetain \in SUBSET (Mutations \union Works)
    BY DEF WorkToRetain
  <2>2. Live \in SUBSET Mutations
    BY DEF Live
  <2> QED BY <1>5, <2>1, <2>2 DEF RequestCleanup
<1>6. ASSUME NEW c \in Cleanups, FinishCleanup(c) PROVE TypeOK'
  BY <1>6 DEF FinishCleanup
<1>7. ASSUME NEW c \in Cleanups, ReleaseToken(c) PROVE TypeOK'
  BY <1>7 DEF ReleaseToken
<1>8. ASSUME NEW w \in Works, StartWork(w) \/ SettleWork(w) PROVE TypeOK'
  BY <1>8 DEF StartWork, SettleWork
<1>9. ASSUME ChangeAvailability PROVE TypeOK'
  BY <1>9 DEF ChangeAvailability
<1>10. ASSUME UNCHANGED vars PROVE TypeOK'
  BY <1>10 DEF vars
<1> QED BY <1>1, <1>2, <1>3, <1>4, <1>5, <1>6, <1>7, <1>8, <1>9, <1>10 DEF Next

\* A new run has no call and no cleanup: the invariant holds.
LEMMA InitIInv == Init => IInv
<1> SUFFICES ASSUME Init PROVE IInv
  OBVIOUS
<1>1. Live = {}
  BY DEF Init, Live
<1>2. TypeOK
  BY DEF Init, TypeOK
<1>3. TicketsTaken /\ ChainIsQueue /\ OneMutationAtATime
  BY <1>1 DEF Init, TicketsTaken, ChainIsQueue, OneMutationAtATime
<1>4. TokenPerCleanup /\ OwedRetained
  BY <1>1, NoOneAssumption DEF Init, TokenPerCleanup, OwedRetained
<1>5. OwedCalled
  BY DEF Init, OwedCalled
<1> QED BY <1>2, <1>3, <1>4, <1>5 DEF IInv

\* A new call takes the youngest ticket and waits for the tail it replaces.
LEMMA CallStep ==
  ASSUME IInv, NEW m \in Mutations, Call(m)
  PROVE  TicketsTaken' /\ ChainIsQueue' /\ OneMutationAtATime' /\ OwedRetained'
<1> USE DEF mutationVars, cleanupVars
<1>0. /\ TypeOK
      /\ \A n \in Mutations : ticket[n] \in Nat /\ ticket[n] <= lastTicket
      /\ lastTicket \in Nat
      /\ m \notin Live
  BY DEF IInv, TypeOK, TicketsTaken, Call, Live
<1>1. Live' = Live \union {m} /\ m \in Live'
  BY <1>0 DEF Call, Live, TypeOK
<1>2. /\ ticket'[m] = lastTicket + 1
      /\ \A n \in Live : n \in Mutations /\ ticket'[n] = ticket[n] /\ previous'[n] = previous[n] /\ pc'[n] = pc[n]
      /\ previous'[m] = mutationTail
      /\ mutationTail' = m
  BY <1>0 DEF Call, Live, TypeOK
<1>3. \A n \in Live : ticket'[n] < ticket'[m]
  BY <1>0, <1>2
<1>4. TicketsTaken'
  BY <1>0 DEF Call, TicketsTaken, TypeOK
<1>5. ChainIsQueue'
  <2>1. mutationTail' # NoOne /\ mutationTail' \in Live' /\ \A n \in Live' : ticket'[n] <= ticket'[mutationTail']
    BY <1>0, <1>1, <1>2, <1>3, NoOneAssumption
  <2>2. ASSUME NEW a \in Live', NEW b \in Live'
        PROVE  /\ ticket'[a] = ticket'[b] => a = b
               /\ ticket'[b] < ticket'[a] =>
                    /\ previous'[a] \in Live'
                    /\ ticket'[previous'[a]] < ticket'[a]
                    /\ ticket'[b] <= ticket'[previous'[a]]
    <3>1. CASE a \in Live /\ b \in Live
      BY <3>1, <1>1, <1>2 DEF IInv, ChainIsQueue
    <3>2. CASE a = m /\ b \in Live
      <4>1. mutationTail \in Live /\ ticket[b] <= ticket[mutationTail]
        BY <3>2 DEF IInv, ChainIsQueue
      <4> QED BY <3>2, <4>1, <1>0, <1>1, <1>2, <1>3
    <3>3. CASE b = m
      BY <3>3, <1>0, <1>1, <1>2, <1>3
    <3> QED BY <3>1, <3>2, <3>3, <1>1
  <2> QED BY <2>1, <2>2 DEF ChainIsQueue
<1>6. OneMutationAtATime'
  <2>1. pc'[m] = "running" => Live = {}
    BY <1>0 DEF Call, IInv, ChainIsQueue, TypeOK
  <2>2. pc'[m] \in {"running", "queued"}
    BY <1>0 DEF Call, TypeOK
  <2> QED BY <2>1, <2>2, <1>1, <1>2, <1>3 DEF OneMutationAtATime, IInv
<1>7. OwedRetained'
  <2> SUFFICES ASSUME NEW c \in Cleanups, owed[c] \intersect Live' # {}, pc[m] = "idle"
               PROVE  /\ c \in cleanupRequestTokens
                      /\ \E p \in retainedWork[c] :
                           p \in Live' /\ \A n \in owed[c] \intersect Live' : ticket'[n] <= ticket'[p]
    BY DEF OwedRetained, Call
  <2>1. m \notin owed[c]
    BY DEF IInv, OwedCalled
  <2> QED BY <2>1, <1>1, <1>2 DEF IInv, OwedRetained
<1> QED BY <1>4, <1>5, <1>6, <1>7

\* A call that leaves the chain, done or refused when its turn came.
LEMMA LeaveStep ==
  ASSUME IInv, NEW m \in Live, pc[m] = "running" \/ previous[m] \notin Live,
         NEW outcome \in {"done", "skipped", "rejected"},
         pc' = [pc EXCEPT ![m] = outcome], Release(m),
         UNCHANGED <<previous, ticket, lastTicket, cleanupVars>>
  PROVE  TicketsTaken' /\ ChainIsQueue' /\ OneMutationAtATime' /\ OwedRetained'
<1>1. Live' = Live \ {m}
  BY DEF IInv, TypeOK, Live
<1>2. \A n \in Live : n # m => ticket[m] < ticket[n]
  BY OldestLemma
<1>3. ChainIsQueue'
  BY <1>1, <1>2, LeaveLemma
<1>4. OwedRetained'
  BY <1>1, <1>2, OwedLemma DEF cleanupVars
<1>5. OneMutationAtATime'
  BY <1>1 DEF OneMutationAtATime, IInv, TypeOK, Live
<1>6. TicketsTaken'
  BY DEF TicketsTaken, IInv
<1> QED BY <1>3, <1>4, <1>5, <1>6

\* A call whose turn has come runs alone.
LEMMA StartStep ==
  ASSUME IInv, NEW m \in Mutations, pc[m] = "queued", previous[m] \notin Live,
         pc' = [pc EXCEPT ![m] = "running"],
         UNCHANGED <<previous, mutationTail, ticket, lastTicket, cleanupVars>>
  PROVE  /\ TicketsTaken' /\ ChainIsQueue' /\ OneMutationAtATime' /\ OwedRetained'
         /\ \A n \in Live : n # m => pc[n] = "queued"
<1>1. Live' = Live /\ m \in Live
  BY DEF IInv, TypeOK, Live
<1>2. \A n \in Live : n # m => ticket[m] < ticket[n]
  BY <1>1, OldestLemma
<1>3. \A n \in Live : n # m => pc[n] = "queued"
  <2> SUFFICES ASSUME NEW n \in Live, n # m, pc[n] # "queued" PROVE FALSE
    OBVIOUS
  <2>1. pc[n] = "running"
    BY DEF Live
  <2>2. ticket[n] < ticket[m] /\ ticket[m] < ticket[n]
    BY <2>1, <1>1, <1>2 DEF IInv, OneMutationAtATime
  <2> QED BY <2>2 DEF IInv, TypeOK, Live
<1>4. OneMutationAtATime'
  BY <1>1, <1>2, <1>3 DEF OneMutationAtATime, IInv, TypeOK, Live
<1>5. TicketsTaken' /\ ChainIsQueue' /\ OwedRetained'
  BY <1>1 DEF IInv, TicketsTaken, ChainIsQueue, OwedRetained, cleanupVars
<1> QED BY <1>3, <1>4, <1>5

-----------------------------------------------------------------------------

\* Every step of the chain and of the cleanups preserves the invariant.
LEMMA InvStep == IInv /\ [Next]_vars => IInv'
<1> SUFFICES ASSUME IInv, [Next]_vars PROVE IInv'
  OBVIOUS
<1>0. TypeOK /\ TypeOK'
  BY TypeStep DEF IInv
<1> DEFINE Chain == TicketsTaken' /\ ChainIsQueue' /\ OneMutationAtATime'
           Tokens == TokenPerCleanup' /\ OwedRetained' /\ OwedCalled'
<1> SUFFICES Chain /\ Tokens
  BY <1>0 DEF IInv
<1>1. ASSUME NEW m \in Mutations, RefuseCall(m) PROVE Chain /\ Tokens
  <2>1. Live' = Live
    BY <1>1, <1>0 DEF RefuseCall, Refusal, Live, TypeOK
  <2>2. \A n \in Live : pc'[n] = pc[n]
    BY <1>1, <1>0 DEF RefuseCall, Live, TypeOK
  <2>3. Chain
    BY <1>1, <2>1, <2>2 DEF RefuseCall, IInv, TicketsTaken, ChainIsQueue, OneMutationAtATime
  <2>4. TokenPerCleanup' /\ OwedRetained'
    BY <1>1, <2>1 DEF RefuseCall, cleanupVars, IInv, TokenPerCleanup, OwedRetained
  <2>5. OwedCalled'
    BY <1>1, <1>0 DEF RefuseCall, Refusal, cleanupVars, IInv, OwedCalled, TypeOK
  <2> QED BY <2>3, <2>4, <2>5
<1>2. ASSUME NEW m \in Mutations, Call(m) PROVE Chain /\ Tokens
  <2>1. TicketsTaken' /\ ChainIsQueue' /\ OneMutationAtATime' /\ OwedRetained'
    BY <1>2, CallStep
  <2>2. TokenPerCleanup'
    BY <1>2 DEF Call, cleanupVars, IInv, TokenPerCleanup
  <2>3. OwedCalled'
    BY <1>2, <1>0 DEF Call, cleanupVars, IInv, OwedCalled, TypeOK
  <2> QED BY <2>1, <2>2, <2>3
<1>3. ASSUME NEW m \in Mutations, Resume(m) PROVE Chain /\ Tokens
  <2>1. TokenPerCleanup'
    BY <1>3 DEF Resume, cleanupVars, IInv, TokenPerCleanup
  <2>2. OwedCalled'
    BY <1>3, <1>0 DEF Resume, Refusal, cleanupVars, IInv, OwedCalled, TypeOK
  <2>3. CASE Refused(m)
    <3>1. m \in Live /\ Refusal(m) \in {"done", "skipped", "rejected"}
      BY <1>3 DEF Resume, Live, Refusal
    <3> QED BY <1>3, <2>1, <2>2, <2>3, <3>1, LeaveStep DEF Resume
  <2>4. CASE ~Refused(m)
    BY <1>3, <2>1, <2>2, <2>4, StartStep DEF Resume
  <2> QED BY <2>3, <2>4
<1>4. ASSUME NEW m \in Mutations, FinishMutation(m) PROVE Chain /\ Tokens
  <2>1. m \in Live
    BY <1>4 DEF FinishMutation, Live
  <2>2. TicketsTaken' /\ ChainIsQueue' /\ OneMutationAtATime' /\ OwedRetained'
    BY <1>4, <2>1, LeaveStep DEF FinishMutation
  <2>3. TokenPerCleanup' /\ OwedCalled'
    BY <1>4, <1>0 DEF FinishMutation, cleanupVars, IInv, TokenPerCleanup, OwedCalled, TypeOK
  <2> QED BY <2>2, <2>3
<1>5. ASSUME NEW c \in Cleanups, RequestCleanup(c) PROVE Chain /\ Tokens
  <2>1. Chain /\ Live' = Live
    BY <1>5, UntouchedChain DEF RequestCleanup
  <2>2. TokenPerCleanup'
    BY <1>5, <1>0, NoOneAssumption DEF RequestCleanup, IInv, TokenPerCleanup, TypeOK
  <2>3. OwedCalled'
    BY <1>5, <1>0 DEF RequestCleanup, mutationVars, IInv, OwedCalled, TypeOK, Live
  <2>4. OwedRetained'
    <3> SUFFICES ASSUME NEW d \in Cleanups, owed'[d] \intersect Live # {}
                 PROVE  /\ d \in cleanupRequestTokens'
                        /\ \E p \in retainedWork'[d] :
                             p \in Live /\ \A n \in owed'[d] \intersect Live : ticket[n] <= ticket[p]
      BY <1>5, <2>1 DEF OwedRetained, RequestCleanup, mutationVars
    <3>1. CASE d = c
      <4>1. owed'[c] = Live /\ retainedWork'[c] = WorkToRetain /\ c \in cleanupRequestTokens'
        BY <1>5, <1>0 DEF RequestCleanup, TypeOK
      <4>2. mutationTail # NoOne /\ mutationTail \in Live /\ \A n \in Live : ticket[n] <= ticket[mutationTail]
        BY <3>1, <4>1 DEF IInv, ChainIsQueue
      <4>3. mutationTail \in WorkToRetain
        BY <4>2 DEF WorkToRetain
      <4> QED BY <3>1, <4>1, <4>2, <4>3
    <3>2. CASE d # c
      BY <1>5, <1>0, <3>2 DEF RequestCleanup, IInv, OwedRetained, TypeOK
    <3> QED BY <3>1, <3>2
  <2> QED BY <2>1, <2>2, <2>3, <2>4
<1>6. ASSUME NEW c \in Cleanups, FinishCleanup(c) PROVE Chain /\ Tokens
  <2>1. Chain /\ Live' = Live
    BY <1>6, UntouchedChain DEF FinishCleanup
  <2>2. TokenPerCleanup'
    BY <1>6, <1>0, NoOneAssumption DEF FinishCleanup, IInv, TokenPerCleanup, TypeOK
  <2>3. OwedRetained' /\ OwedCalled'
    BY <1>6, <2>1 DEF FinishCleanup, mutationVars, IInv, OwedRetained, OwedCalled
  <2> QED BY <2>1, <2>2, <2>3
<1>7. ASSUME NEW c \in Cleanups, ReleaseToken(c) PROVE Chain /\ Tokens
  <2>1. Chain /\ Live' = Live
    BY <1>7, UntouchedChain DEF ReleaseToken
  <2>2. TokenPerCleanup'
    BY <1>7, <1>0 DEF ReleaseToken, IInv, TokenPerCleanup, TypeOK
  <2>3. OwedCalled'
    BY <1>7 DEF ReleaseToken, mutationVars, IInv, OwedCalled
  <2>4. owed[c] \intersect Live = {}
    BY <1>7 DEF ReleaseToken, Pending, IInv, OwedRetained
  <2>5. OwedRetained'
    BY <1>7, <2>1, <2>4 DEF ReleaseToken, mutationVars, IInv, OwedRetained
  <2> QED BY <2>1, <2>2, <2>3, <2>5
<1>8. ASSUME UNCHANGED <<mutationVars, cleanupVars>> PROVE Chain /\ Tokens
  <2>1. Chain /\ Live' = Live
    BY <1>8, UntouchedChain
  <2>2. Tokens
    BY <1>8, <2>1 DEF mutationVars, cleanupVars, IInv, TokenPerCleanup, OwedRetained, OwedCalled
  <2> QED BY <2>1, <2>2
<1> QED
  BY <1>1, <1>2, <1>3, <1>4, <1>5, <1>6, <1>7, <1>8
  DEF Next, StartWork, SettleWork, ChangeAvailability, vars

\* The invariant holds in every state.
LEMMA Invariance == Spec => []IInv
BY InitIInv, InvStep, PTL DEF Spec

\* Every variable has its type in every state.
THEOREM TypeCorrect == Spec => []TypeOK
BY Invariance, PTL DEF IInv

\* The chain of promises is a queue, whatever is refused or ends early.
THEOREM ChainCorrect == Spec => []ChainIsQueue
BY Invariance, PTL DEF IInv

\* Bodies never overlap, and start in the order of the calls.
THEOREM MutualExclusion == Spec => []OneMutationAtATime
BY Invariance, PTL DEF IInv

\* A run stays closed until every mutation it was closed under is over.
THEOREM StaysClosed == Spec => []ClosedWhileOwed
<1>1. IInv => ClosedWhileOwed
  BY DEF IInv, OwedRetained, ClosedWhileOwed
<1> QED BY <1>1, Invariance, PTL

-----------------------------------------------------------------------------
(* RunLifecycle implements RunGate. *)

\* A new run is an open gate without mutations.
LEMMA GateInit == Init => Gate!Init
<1> SUFFICES ASSUME Init PROVE Gate!Init
  OBVIOUS
<1> QED BY DEF Init, PhaseOf, Gate!Init

\* The gate sees as live the mutations that the class has not settled.
LEMMA GateLive == Gate!Live = Live
BY DEF Gate!Live, Live, PhaseOf

\* How a step of one call shows in the phases.
LEMMA PhaseStep ==
  ASSUME TypeOK, NEW m \in Mutations,
         NEW v \in {"queued", "running", "done", "skipped", "rejected"},
         pc' = [pc EXCEPT ![m] = v]
  PROVE  [n \in Mutations |-> PhaseOf(n)]'
           = [[n \in Mutations |-> PhaseOf(n)] EXCEPT
                ![m] = IF v \in {"queued", "running"} THEN v ELSE "over"]
BY DEF TypeOK, PhaseOf

\* Every step of the class is a step of the gate or leaves it unchanged.
LEMMA GateStep == IInv /\ [Next]_vars => [Gate!Next]_Gate!vars
<1> SUFFICES ASSUME IInv, [Next]_vars PROVE [Gate!Next]_Gate!vars
  OBVIOUS
<1> USE DEF mutationVars, cleanupVars
<1>0. TypeOK
  BY DEF IInv
<1>1. ASSUME NEW m \in Mutations, RefuseCall(m) PROVE Gate!Refuse(m)
  BY <1>0, <1>1, PhaseStep DEF RefuseCall, Refused, Refusal, PhaseOf, Gate!Refuse
<1>2. ASSUME NEW m \in Mutations, Call(m) PROVE Gate!Arrive(m) \/ Gate!ArriveAndStart(m)
  <2>1. CASE mutationTail = NoOne
    <3>1. pc' = [pc EXCEPT ![m] = "running"] /\ pc[m] = "idle"
      BY <1>2, <2>1 DEF Call
    <3>2. Gate!Live = {} /\ Gate!MayRun(m)
      BY <1>2, <2>1, GateLive DEF Call, Refused, IInv, ChainIsQueue, IsCleanupRequested, Gate!MayRun
    <3>3. Gate!TakeTicket(m)
      BY <1>0, <1>2, <3>1 DEF Call, PhaseOf, Gate!TakeTicket
    <3> QED BY <1>0, <1>2, <3>1, <3>2, <3>3, PhaseStep DEF Call, PhaseOf, Gate!ArriveAndStart
  <2>2. CASE mutationTail # NoOne
    <3>1. pc' = [pc EXCEPT ![m] = "queued"] /\ pc[m] = "idle"
      BY <1>2, <2>2 DEF Call
    <3>2. Gate!TakeTicket(m)
      BY <1>0, <1>2, <3>1 DEF Call, PhaseOf, Gate!TakeTicket
    <3> QED BY <1>0, <1>2, <3>1, <3>2, PhaseStep DEF Call, PhaseOf, Gate!Arrive
  <2> QED BY <2>1, <2>2
<1>3. ASSUME NEW m \in Mutations, Resume(m) PROVE Gate!Start(m) \/ Gate!Refuse(m)
  <2>1. CASE Refused(m)
    BY <1>0, <1>3, <2>1, PhaseStep DEF Resume, Refused, Refusal, PhaseOf, Gate!Refuse
  <2>2. CASE ~Refused(m)
    <3>1. pc[m] = "queued" /\ m \in Live /\ pc' = [pc EXCEPT ![m] = "running"]
      BY <1>3, <2>2 DEF Resume, Live
    <3>2. Gate!MayRun(m)
      BY <2>2 DEF Refused, IsCleanupRequested, Gate!MayRun
    <3>3. \A n \in Live : n # m => pc[n] = "queued"
      BY <1>3, <2>2, StartStep DEF Resume
    <3>4. \A n \in Live : n # m => ticket[m] < ticket[n]
      BY <1>3, <3>1, OldestLemma DEF Resume
    <3>5. \A n \in Gate!Live \ {m} : n \in Mutations /\ PhaseOf(n) = "queued" /\ ticket[m] < ticket[n]
      BY <3>3, <3>4, GateLive DEF PhaseOf, Live
    <3> QED BY <1>0, <1>3, <2>2, <3>1, <3>2, <3>5, PhaseStep DEF Resume, PhaseOf, Gate!Start
  <2> QED BY <2>1, <2>2
<1>4. ASSUME NEW m \in Mutations, FinishMutation(m) PROVE Gate!Finish(m)
  BY <1>0, <1>4, PhaseStep DEF FinishMutation, PhaseOf, Gate!Finish
<1>5. ASSUME NEW c \in Cleanups, RequestCleanup(c) PROVE Gate!Close(c)
  BY <1>5, GateLive DEF RequestCleanup, IInv, TokenPerCleanup, PhaseOf, Gate!Close
<1>6. ASSUME NEW c \in Cleanups, ReleaseToken(c) PROVE Gate!Reopen(c)
  <2>1. owed[c] \intersect Live = {}
    BY <1>6 DEF ReleaseToken, Pending, IInv, OwedRetained
  <2>2. c \in cleanupRequestTokens
    BY <1>6 DEF ReleaseToken, IInv, TokenPerCleanup
  <2> QED BY <1>6, <2>1, <2>2, GateLive DEF ReleaseToken, PhaseOf, Gate!Reopen
<1>7. ASSUME UNCHANGED <<pc, ticket, lastTicket, cleanupRequestTokens, owed>>
      PROVE  UNCHANGED Gate!vars
  BY <1>7 DEF Gate!vars, PhaseOf
<1> QED
  BY <1>1, <1>2, <1>3, <1>4, <1>5, <1>6, <1>7
  DEF Next, FinishCleanup, StartWork, SettleWork, ChangeAvailability, vars, Gate!Next

\* Every behaviour of the class is one RunGate allows.
THEOREM Refinement == Spec => ImplementsGate
BY GateInit, GateStep, Invariance, PTL DEF Spec, ImplementsGate, Gate!Spec
=============================================================================
