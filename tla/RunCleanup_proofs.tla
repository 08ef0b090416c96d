------------------------- MODULE RunCleanup_proofs -------------------------
(***************************************************************************)
(* Proofs about RunCleanup, for any mutations, messages, resets, consumers *)
(* and loads.                                                              *)
(*                                                                         *)
(* They stand on the invariant of the lifecycle: every step is a step of   *)
(* RunLifecycle or leaves it alone (LifecycleStep), so bodies exclude each *)
(* other, and a run that is closed stays closed while a call lives that    *)
(* the cleanup began under. The argument about the cleanup is then:        *)
(*   - while it lasts, whatever lives was there when it was requested      *)
(*     (NothingNew), so once its prerequisites are met the run is quiet;   *)
(*   - a quiet run that is closed stays quiet, and gains no handle, so the *)
(*     handles that are left are the ones whose disconnect is awaited      *)
(*     (HandlesAwaited);                                                   *)
(*   - while a deletion is pending the run is closed, first by the token   *)
(*     and then by its status (AttemptIsClosed).                           *)
(***************************************************************************)
EXTENDS RunCleanup, WellFoundedInduction, NaturalsInduction, TLAPS

L == INSTANCE RunLifecycle_proofs WITH unavailable <- IsRunMutationUnavailable

(* What the lifecycle assumes of its constants. *)
LEMMA LifecycleConstants ==
  /\ NoOne \notin Mutations \union Cleanups
  /\ Behavior \in [Mutations -> {"allow", "reject", "skip"}]
BY NobodyAssumption, RefusalAssumption

(* The two instances of the lifecycle are the same, operation by operation. *)
LEMMA SameLifecycle ==
  /\ Lifecycle!Init => L!Init
  /\ \A m \in Mutations : /\ Lifecycle!RefuseCall(m) => L!RefuseCall(m)
                          /\ Lifecycle!Call(m) => L!Call(m)
                          /\ Lifecycle!Resume(m) => L!Resume(m)
                          /\ Lifecycle!FinishMutation(m) => L!FinishMutation(m)
  /\ \A c \in Cleanups : /\ Lifecycle!RequestCleanup(c) => L!RequestCleanup(c)
                         /\ Lifecycle!FinishCleanup(c) => L!FinishCleanup(c)
                         /\ Lifecycle!ReleaseToken(c) => L!ReleaseToken(c)
  /\ \A w \in Works : /\ Lifecycle!StartWork(w) => L!StartWork(w)
                      /\ Lifecycle!SettleWork(w) => L!SettleWork(w)
<1> USE DEF Lifecycle!cleanupVars, L!cleanupVars, Lifecycle!mutationVars, L!mutationVars,
            Lifecycle!Live, L!Live, Lifecycle!IsCleanupRequested, L!IsCleanupRequested,
            Lifecycle!Refused, L!Refused, Lifecycle!Refusal, L!Refusal
<1>1. Lifecycle!Init => L!Init
  BY DEF Lifecycle!Init, L!Init
<1>2. ASSUME NEW m \in Mutations
      PROVE  /\ Lifecycle!RefuseCall(m) => L!RefuseCall(m)
             /\ Lifecycle!Call(m) => L!Call(m)
             /\ Lifecycle!Resume(m) => L!Resume(m)
             /\ Lifecycle!FinishMutation(m) => L!FinishMutation(m)
  BY DEF Lifecycle!RefuseCall, L!RefuseCall, Lifecycle!Call, L!Call, Lifecycle!Resume, L!Resume,
         Lifecycle!FinishMutation, L!FinishMutation, Lifecycle!Release, L!Release
<1>3. ASSUME NEW c \in Cleanups
      PROVE  /\ Lifecycle!RequestCleanup(c) => L!RequestCleanup(c)
             /\ Lifecycle!FinishCleanup(c) => L!FinishCleanup(c)
             /\ Lifecycle!ReleaseToken(c) => L!ReleaseToken(c)
  BY DEF Lifecycle!RequestCleanup, L!RequestCleanup, Lifecycle!FinishCleanup, L!FinishCleanup,
         Lifecycle!ReleaseToken, L!ReleaseToken, Lifecycle!WorkToRetain, L!WorkToRetain,
         Lifecycle!Pending, L!Pending
<1>4. ASSUME NEW w \in Works
      PROVE  /\ Lifecycle!StartWork(w) => L!StartWork(w)
             /\ Lifecycle!SettleWork(w) => L!SettleWork(w)
  BY DEF Lifecycle!StartWork, L!StartWork, Lifecycle!SettleWork, L!SettleWork
<1> QED BY <1>1, <1>2, <1>3, <1>4

(* The operations of a cleanup, its steps, and the answers bodies wait for,  *)
(* leave the lifecycle alone; what they do change is whether the run is      *)
(* available.                                                                *)
AnswerStep(m) ==
  \/ ConsumerCreated(m) \/ ConsumerRejected(m) \/ ConsumerNotRolledBack(m)
  \/ ConsumerDisconnected(m) \/ OtherAnswer(m)

ReleaseStep ==
  \/ \E m \in Mutations : DisconnectSucceeds(m) \/ DisconnectFails(m) \/ DisconnectTimesOut(m)
  \/ \E p \in Mutations \union Works : MissDeadline(p)
  \/ DisconnectConsumers \/ SkipAdapter \/ CleanAdapter
  \/ (\E deleted \in BOOLEAN : AdapterAnswers(deleted)) \/ AdapterTimesOut

(* The steps of a run, by what they do to the lifecycle. *)
LEMMA StepKinds ==
  ASSUME [Next]_vars
  PROVE  \/ \E m \in Mutations : \/ CallUpdate(m)
                                 \/ Resume(m)
                                 \/ FinishMutation(m)
                                 \/ AnswerStep(m)
         \/ \E w \in Works : (\E h \in Mutations : StartWork(w, h)) \/ SettleWork(w)
         \/ \E c \in Cleanups : RequestCleanup(c) \/ FinishCleanup(c) \/ ReleaseToken(c)
         \/ ReleaseStep
         \/ UNCHANGED vars
<1>1. ASSUME NEW w \in Works, DelayEnds(w) PROVE \E m \in Mutations : CallUpdate(m)
  BY <1>1, ProcessAssumption DEF DelayEnds
<1>2. ASSUME NEW m \in Mutations, Call(m) PROVE CallUpdate(m)
  BY <1>2 DEF Call
<1>3. ASSUME NEW p \in Mutations \union Works, GiveUp(p) PROVE ReleaseStep
  BY <1>3 DEF GiveUp, ReleaseStep
<1> QED BY <1>1, <1>2, <1>3 DEF Next, AnswerStep, ReleaseStep

(* Neither an answer nor a step of a cleanup moves the lifecycle.            *)
LEMMA QuietLifecycle ==
  ASSUME (\E m \in Mutations : AnswerStep(m)) \/ ReleaseStep \/ UNCHANGED vars
  PROVE  UNCHANGED lifecycleVars
BY DEF AnswerStep, ReleaseStep, Answered, vars, ConsumerCreated, ConsumerRejected, ConsumerNotRolledBack,
       ConsumerDisconnected, OtherAnswer, DisconnectSucceeds, DisconnectFails, DisconnectTimesOut,
       MissDeadline, DisconnectConsumers, SkipAdapter, CleanAdapter, DeleteRunResources,
       AdapterAnswers, AdapterTimesOut

(* Every step is one of the lifecycle, or none. *)
LEMMA LifecycleStep == [Next]_vars => [L!Next]_L!vars
<1> SUFFICES ASSUME [Next]_vars PROVE [L!Next]_L!vars
  OBVIOUS
<1>1. ASSUME NEW m \in Mutations, CallUpdate(m) \/ Resume(m) \/ FinishMutation(m) PROVE L!Next
  BY <1>1, SameLifecycle DEF CallUpdate, Resume, FinishMutation, L!Next
<1>2. ASSUME NEW w \in Works, (\E h \in Mutations : StartWork(w, h)) \/ SettleWork(w) PROVE L!Next
  BY <1>2, SameLifecycle DEF StartWork, Deliver, SettleWork, L!Next
<1>3. ASSUME NEW c \in Cleanups, RequestCleanup(c) \/ FinishCleanup(c) \/ ReleaseToken(c) PROVE L!Next
  BY <1>3, SameLifecycle DEF RequestCleanup, FinishCleanup, ReleaseToken, L!Next
<1>4. ASSUME UNCHANGED lifecycleVars PROVE [L!Next]_L!vars
  <2>1. UNCHANGED <<L!mutationVars, L!cleanupVars, workPc>>
    BY <1>4 DEF lifecycleVars, L!mutationVars, L!cleanupVars
  <2>2. CASE IsRunMutationUnavailable' = IsRunMutationUnavailable
    BY <2>1, <2>2 DEF L!vars
  <2>3. CASE IsRunMutationUnavailable' # IsRunMutationUnavailable
    <3>1. IsRunMutationUnavailable' = ~IsRunMutationUnavailable
      BY <2>3 DEF IsRunMutationUnavailable
    <3>2. L!ChangeAvailability
      BY <2>1, <3>1 DEF L!ChangeAvailability
    <3> QED BY <3>2 DEF L!Next
  <2> QED BY <2>2, <2>3
<1> QED BY <1>1, <1>2, <1>3, <1>4, StepKinds, QuietLifecycle

-----------------------------------------------------------------------------
(* What the cleanup relies on. *)

Closed == cleanupRequestTokens # {} \/ IsRunMutationUnavailable

Handled == {w \in Works : workPc[w] = "pending"}

\* No call of mutate() lives and no message is being handled.
Quiet == L!Live = {} /\ Handled = {}

\* A body that awaits the Kafka client runs, and awaits what its kind awaits;
\* an id is free as long as its consumer is being created.
Bodies ==
  \A m \in Mutations :
    /\ body[m] = "awaiting" => pc[m] = "running"
    /\ client[m] = "connecting" => body[m] = "awaiting" /\ Kind[m] = "add"
    /\ body[m] = "awaiting" /\ Kind[m] \in {"add", "stop", "crash"} => target[m] \in ConsumerIds
    /\ body[m] = "awaiting" /\ Kind[m] = "add" => consumerHandles[target[m]] = NoOne

StageIsOperation == stage # "none" <=> cleanupOperation # NoOne

\* What lives during a cleanup was there when it was requested.
NothingNew ==
  stage # "none" => L!Live \subseteq owed[cleanupOperation] /\ Handled \subseteq retainedWork[cleanupOperation]

\* Prerequisites that are met leave the run quiet.
MetIsQuiet == stage \in {"disconnecting", "adapter"} /\ gaveUp = {} => Quiet

\* The handles that are left are those whose disconnect is awaited.
HandlesAwaited == stage = "disconnecting" /\ gaveUp = {} /\ ~disconnectFailed => Handles \subseteq awaiting

\* A pending deletion finds a run that is quiet, and closed.
AttemptIsClosed == adapterAttempt => Quiet /\ Handles = {} /\ (stage = "adapter" \/ runStatus = "stopped")

\* A run that was cleaned is quiet.
CleanIsQuiet ==
  runStatus = "stopped" /\ ~IsIncomplete(cleanupStatus) => topic = "deleted" /\ Quiet /\ Handles = {}

\* A deletion that was requested is pending or has succeeded.
RequestIsSettled == cleanupStatus = "requested" => stage = "adapter" \/ runStatus = "stopped"

\* The inductive invariant.
IInv ==
  /\ L!IInv
  /\ TypeOK
  /\ Bodies
  /\ NoConsumerLost
  /\ StoppedRunIsEmpty
  /\ StageIsOperation
  /\ NothingNew
  /\ MetIsQuiet
  /\ HandlesAwaited
  /\ AttemptIsClosed
  /\ CleanIsQuiet
  /\ RequestIsSettled

-----------------------------------------------------------------------------
(* The smallest free id is one of the ids. *)
LEMMA SmallestId ==
  ASSUME NEW S \in SUBSET Nat, S # {}
  PROVE  Min(S) \in S
<1> DEFINE R == OpToRel(<, Nat)
<1>1. IsWellFoundedOn(R, Nat)
  BY NatLessThanWellFounded, Zenon
<1>2. \A x, y \in Nat : x < y => <<x, y>> \in R
  BY DEF OpToRel
<1> HIDE DEF R
<1>3. PICK x \in S : \A y \in S : <<y, x>> \notin R
  BY <1>1, WFMin
<1>4. ASSUME NEW y \in S PROVE x =< y
  <2>1. x \in Nat /\ y \in Nat /\ ~(y < x)
    BY <1>2, <1>3
  <2> QED BY <2>1
<1> QED BY <1>4 DEF Min

(* What a body does up to its first await. *)
LEMMA BeginTypes ==
  ASSUME TypeOK, NEW m \in Mutations, Begin(m)
  PROVE  /\ consumerStatus' \in [ConsumerIds -> {"absent", "starting", "running", "stopping", "crashed"}]
         /\ target' \in [Mutations -> ConsumerIds \union {NoOne}]
         /\ body' \in [Mutations -> {"none", "awaiting", "over"}]
         /\ client' \in [Mutations -> {"none", "connecting", "connected", "closed"}]
         /\ UNCHANGED consumerHandles
<1>1. CASE BeginAdd(m)
  <2>1. CASE Cardinality(ActiveConsumers) >= ConsumerLimit
    BY <1>1, <2>1 DEF BeginAdd, TypeOK, consumerVars
  <2>2. CASE ~(Cardinality(ActiveConsumers) >= ConsumerLimit)
    <3>1. FreeIds # {} /\ FreeIds \in SUBSET Nat
      BY <1>1, <2>2, ConsumerIdsAssumption DEF BeginAdd, FreeIds
    <3>2. Min(FreeIds) \in ConsumerIds
      BY <3>1, SmallestId DEF FreeIds
    <3> QED BY <1>1, <2>2, <3>2 DEF BeginAdd, TypeOK
  <2> QED BY <2>1, <2>2
<1>2. CASE \E k \in ConsumerIds : BeginDisconnect(m, k)
  BY <1>2 DEF BeginDisconnect, TypeOK, consumerVars
<1>3. CASE BeginMessage(m)
  BY <1>3 DEF BeginMessage, TypeOK, consumerVars
<1> QED BY <1>1, <1>2, <1>3 DEF Begin

(* Every variable keeps its type. *)
LEMMA TypeStep == TypeOK /\ [Next]_vars => TypeOK'
<1> SUFFICES ASSUME TypeOK, [Next]_vars PROVE TypeOK'
  OBVIOUS
<1> USE DEF TypeOK, vars, lifecycleVars, statusVars, consumerVars, bodyVars, attemptVars, stepVars
<1>1. ASSUME NEW m \in Mutations, CallUpdate(m) \/ Resume(m) PROVE TypeOK'
  <2>1. CASE Begin(m)
    BY <1>1, <2>1, BeginTypes DEF CallUpdate, Resume
  <2>2. CASE UNCHANGED <<body, target, consumerVars>>
    BY <1>1, <2>2 DEF CallUpdate, Resume
  <2> QED BY <1>1, <2>1, <2>2 DEF CallUpdate, Resume, BeginIfRunning
<1>2. ASSUME NEW m \in Mutations, FinishMutation(m) PROVE TypeOK'
  BY <1>2 DEF FinishMutation
<1>3. ASSUME NEW m \in Mutations, AnswerStep(m) PROVE TypeOK'
  <2>1. CASE ConsumerCreated(m)
    BY <2>1 DEF ConsumerCreated, Answered
  <2>2. CASE ConsumerRejected(m)
    BY <2>2 DEF ConsumerRejected, Answered
  <2>3. CASE ConsumerNotRolledBack(m)
    BY <2>3 DEF ConsumerNotRolledBack, Answered
  <2>4. CASE ConsumerDisconnected(m)
    BY <2>4 DEF ConsumerDisconnected, Answered
  <2>5. CASE OtherAnswer(m)
    BY <2>5 DEF OtherAnswer, Answered
  <2> QED BY <1>3, <2>1, <2>2, <2>3, <2>4, <2>5 DEF AnswerStep
<1>4. ASSUME NEW w \in Works, (\E h \in Mutations : StartWork(w, h)) \/ SettleWork(w) PROVE TypeOK'
  BY <1>4 DEF StartWork, Deliver, SettleWork
<1>5. ASSUME NEW c \in Cleanups, RequestCleanup(c) \/ FinishCleanup(c) \/ ReleaseToken(c) PROVE TypeOK'
  BY <1>5 DEF RequestCleanup, FinishCleanup, ReleaseToken
<1>6. ASSUME ReleaseStep PROVE TypeOK'
  <2>1. ASSUME NEW h \in Mutations, DisconnectSucceeds(h) \/ DisconnectFails(h) \/ DisconnectTimesOut(h)
        PROVE  TypeOK'
    <3>1. disconnectFailed' \in BOOLEAN /\ disconnected' \in BOOLEAN
      BY <2>1 DEF DisconnectSucceeds, DisconnectFails, DisconnectTimesOut
    <3>2. CASE DisconnectSucceeds(h)
      BY <3>1, <3>2 DEF DisconnectSucceeds
    <3>3. CASE DisconnectFails(h) \/ DisconnectTimesOut(h)
      BY <3>1, <3>3 DEF DisconnectFails, DisconnectTimesOut
    <3> QED BY <2>1, <3>2, <3>3
  <2>2. ASSUME NEW p \in Mutations \union Works, MissDeadline(p) PROVE TypeOK'
    BY <2>2 DEF MissDeadline
  <2>3. CASE DisconnectConsumers
    BY <2>3 DEF DisconnectConsumers, Handles
  <2>4. CASE SkipAdapter \/ AdapterTimesOut
    BY <2>4 DEF SkipAdapter, AdapterTimesOut, Settle
  <2>5. CASE CleanAdapter
    BY <2>5 DEF CleanAdapter, DeleteRunResources
  <2>6. ASSUME NEW deleted \in BOOLEAN, AdapterAnswers(deleted) PROVE TypeOK'
    BY <2>6 DEF AdapterAnswers, Settle
  <2> QED BY <1>6, <2>1, <2>2, <2>3, <2>4, <2>5, <2>6 DEF ReleaseStep
<1>7. CASE UNCHANGED vars
  BY <1>7
<1> QED BY <1>1, <1>2, <1>3, <1>4, <1>5, <1>6, <1>7, StepKinds

-----------------------------------------------------------------------------
(* In a run that is closed nothing starts. *)
LEMMA ClosedStep ==
  ASSUME L!IInv, TypeOK, Closed, [Next]_vars
  PROVE  /\ L!Live' \subseteq L!Live
         /\ Handled' \subseteq Handled
         /\ \A m \in Mutations : body[m] = "none" => body'[m] = "none"
         /\ \A w \in Works : workPc[w] = "idle" => workPc'[w] = "idle"
<1> DEFINE Goal == /\ L!Live' \subseteq L!Live
                   /\ Handled' \subseteq Handled
                   /\ \A m \in Mutations : body[m] = "none" => body'[m] = "none"
                   /\ \A w \in Works : workPc[w] = "idle" => workPc'[w] = "idle"
<1>0. /\ pc \in [Mutations -> {"idle", "queued", "running", "done", "skipped", "rejected"}]
      /\ workPc \in [Works -> {"idle", "pending", "settled"}]
      /\ body \in [Mutations -> {"none", "awaiting", "over"}]
      /\ \A m \in Mutations : Behavior[m] \in {"reject", "skip"}
  BY RefusalAssumption DEF L!IInv, L!TypeOK, TypeOK
<1> USE <1>0 DEF Handled, L!Live
<1>1. ASSUME NEW m \in Mutations, CallUpdate(m) PROVE Goal
  <2>1. Lifecycle!RefuseCall(m)
    BY <1>1 DEF CallUpdate, Lifecycle!Call, Lifecycle!Refused, Lifecycle!IsCleanupRequested, Closed
  <2>2. pc' = [pc EXCEPT ![m] = Lifecycle!Refusal(m)] /\ pc[m] = "idle" /\ UNCHANGED workPc
    BY <2>1 DEF Lifecycle!RefuseCall
  <2>3. UNCHANGED body
    BY <1>1, <2>2 DEF CallUpdate, BeginIfRunning, Lifecycle!Refusal
  <2> QED BY <2>2, <2>3 DEF Lifecycle!Refusal
<1>2. ASSUME NEW m \in Mutations, Resume(m) PROVE Goal
  <2>1. pc' = [pc EXCEPT ![m] = Lifecycle!Refusal(m)] /\ UNCHANGED workPc
    BY <1>2 DEF Resume, Lifecycle!Resume, Lifecycle!Refused, Lifecycle!IsCleanupRequested, Closed
  <2>2. UNCHANGED body
    BY <1>2, <2>1 DEF Resume, BeginIfRunning, Lifecycle!Refusal
  <2> QED BY <2>1, <2>2 DEF Lifecycle!Refusal
<1>3. ASSUME NEW m \in Mutations, FinishMutation(m) PROVE Goal
  BY <1>3 DEF FinishMutation, bodyVars, Lifecycle!FinishMutation
<1>4. ASSUME NEW m \in Mutations, AnswerStep(m) PROVE Goal
  <2>1. UNCHANGED <<pc, workPc>>
    BY <1>4, QuietLifecycle DEF lifecycleVars
  <2>2. body' = [body EXCEPT ![m] = "over"] /\ body[m] = "awaiting"
    BY <1>4 DEF AnswerStep, Answered, ConsumerCreated, ConsumerRejected, ConsumerNotRolledBack,
                ConsumerDisconnected, OtherAnswer
  <2> QED BY <2>1, <2>2
<1>5. ASSUME NEW w \in Works, SettleWork(w) PROVE Goal
  BY <1>5 DEF SettleWork, bodyVars, Lifecycle!SettleWork, Lifecycle!mutationVars
<1>6. ASSUME NEW w \in Works, NEW h \in Mutations, StartWork(w, h) PROVE FALSE
  BY <1>6 DEF StartWork, IsCleanupRequested, Lifecycle!IsCleanupRequested, Closed
<1>7. ASSUME NEW c \in Cleanups, RequestCleanup(c) \/ FinishCleanup(c) \/ ReleaseToken(c) PROVE Goal
  BY <1>7 DEF RequestCleanup, FinishCleanup, ReleaseToken, bodyVars, Lifecycle!RequestCleanup,
              Lifecycle!FinishCleanup, Lifecycle!ReleaseToken, Lifecycle!mutationVars
<1>8. ASSUME ReleaseStep \/ UNCHANGED vars PROVE Goal
  <2>1. UNCHANGED <<pc, workPc>>
    BY <1>8, QuietLifecycle DEF lifecycleVars
  <2>2. UNCHANGED body
    BY <1>8 DEF ReleaseStep, vars, bodyVars, DisconnectSucceeds, DisconnectFails, DisconnectTimesOut,
       MissDeadline, DisconnectConsumers, SkipAdapter, CleanAdapter, DeleteRunResources,
       AdapterAnswers, AdapterTimesOut
  <2> QED BY <2>1, <2>2
<1> QED BY <1>1, <1>2, <1>3, <1>4, <1>5, <1>6, <1>7, <1>8, StepKinds

(* A cleanup holds its token. *)
LEMMA StageCloses ==
  ASSUME L!IInv, StageIsOperation, stage # "none"
  PROVE  /\ cleanupOperation \in Cleanups
         /\ cleanupOperation \in cleanupRequestTokens
         /\ Closed
BY DEF StageIsOperation, L!IInv, L!TypeOK, L!TokenPerCleanup, Closed

(* Two bodies do not await the Kafka client at once. *)
LEMMA OneBody ==
  ASSUME L!IInv, Bodies, NEW m \in Mutations, NEW n \in Mutations, body[m] = "awaiting", body[n] = "awaiting"
  PROVE  m = n
BY DEF Bodies, L!IInv, L!OneMutationAtATime, L!Live

-----------------------------------------------------------------------------
(* A step of the stages of a cleanup. *)
LEMMA StageStep == IInv /\ [Next]_vars => StageIsOperation'
<1> SUFFICES ASSUME IInv, [Next]_vars PROVE StageIsOperation'
  OBVIOUS
<1> USE DEF StageIsOperation
<1>1. CASE UNCHANGED <<cleanupOperation, stage>>
  BY <1>1 DEF IInv
<1>2. ASSUME NEW m \in Mutations, CallUpdate(m) \/ Resume(m) \/ FinishMutation(m)
      PROVE  UNCHANGED <<cleanupOperation, stage>>
  BY <1>2 DEF CallUpdate, Resume, FinishMutation, stepVars, Lifecycle!RefuseCall, Lifecycle!Call,
              Lifecycle!Resume, Lifecycle!FinishMutation, Lifecycle!cleanupVars
<1>3. ASSUME NEW m \in Mutations, AnswerStep(m) PROVE UNCHANGED <<cleanupOperation, stage>>
  BY <1>3 DEF AnswerStep, Answered, ConsumerCreated, ConsumerRejected, ConsumerNotRolledBack,
              ConsumerDisconnected, OtherAnswer, lifecycleVars, stepVars
<1>4. ASSUME NEW w \in Works, (\E h \in Mutations : StartWork(w, h)) \/ SettleWork(w)
      PROVE  UNCHANGED <<cleanupOperation, stage>>
  BY <1>4 DEF StartWork, Deliver, SettleWork, stepVars, Lifecycle!StartWork, Lifecycle!SettleWork,
              Lifecycle!cleanupVars
<1>5. ASSUME NEW c \in Cleanups, RequestCleanup(c) \/ FinishCleanup(c) PROVE StageIsOperation'
  BY <1>5, NobodyAssumption DEF RequestCleanup, FinishCleanup, Lifecycle!RequestCleanup, Lifecycle!FinishCleanup
<1>6. ASSUME NEW c \in Cleanups, ReleaseToken(c) PROVE UNCHANGED <<cleanupOperation, stage>>
  BY <1>6 DEF ReleaseToken, stepVars, Lifecycle!ReleaseToken
<1>7. ASSUME ReleaseStep PROVE UNCHANGED cleanupOperation /\ (stage' = "none" <=> stage = "none")
  <2>1. UNCHANGED cleanupOperation
    BY <1>7, QuietLifecycle DEF lifecycleVars
  <2>2. stage' = "none" <=> stage = "none"
    BY <1>7 DEF ReleaseStep, stepVars, DisconnectSucceeds, DisconnectFails, DisconnectTimesOut, MissDeadline,
       DisconnectConsumers, SkipAdapter, CleanAdapter, DeleteRunResources, AdapterAnswers, AdapterTimesOut,
       Settle, DisconnectsSettled
  <2> QED BY <2>1, <2>2
<1>8. CASE UNCHANGED vars
  BY <1>8, <1>1 DEF vars, lifecycleVars, stepVars
<1>9. CASE ReleaseStep
  BY <1>9, <1>7 DEF IInv
<1> QED BY <1>1, <1>2, <1>3, <1>4, <1>5, <1>6, <1>8, <1>9, StepKinds

(* Outside RequestCleanup a cleanup in progress keeps what it was given. *)
LEMMA KeepsItsWork ==
  ASSUME IInv, [Next]_vars, stage # "none", stage' # "none"
  PROVE  UNCHANGED <<cleanupOperation, owed, retainedWork>>
<1> DEFINE Goal == UNCHANGED <<cleanupOperation, owed, retainedWork>>
<1>1. ASSUME NEW m \in Mutations, CallUpdate(m) \/ Resume(m) \/ FinishMutation(m) PROVE Goal
  BY <1>1 DEF CallUpdate, Resume, FinishMutation, Lifecycle!RefuseCall, Lifecycle!Call,
              Lifecycle!Resume, Lifecycle!FinishMutation, Lifecycle!cleanupVars
<1>2. ASSUME NEW w \in Works, (\E h \in Mutations : StartWork(w, h)) \/ SettleWork(w) PROVE Goal
  BY <1>2 DEF StartWork, Deliver, SettleWork, Lifecycle!StartWork, Lifecycle!SettleWork, Lifecycle!cleanupVars
<1>3. ASSUME NEW c \in Cleanups, RequestCleanup(c) PROVE FALSE
  BY <1>3, StageCloses, NobodyAssumption DEF RequestCleanup, Lifecycle!RequestCleanup, IInv
<1>4. ASSUME NEW c \in Cleanups, FinishCleanup(c) PROVE FALSE
  BY <1>4 DEF FinishCleanup
<1>5. ASSUME NEW c \in Cleanups, ReleaseToken(c) PROVE Goal
  BY <1>5 DEF ReleaseToken, Lifecycle!ReleaseToken
<1>6. ASSUME (\E m \in Mutations : AnswerStep(m)) \/ ReleaseStep \/ UNCHANGED vars PROVE Goal
  BY <1>6, QuietLifecycle DEF lifecycleVars
<1> QED BY <1>1, <1>2, <1>3, <1>4, <1>5, <1>6, StepKinds

(* A cleanup starts with all that lives, and only with RequestCleanup. *)
LEMMA CleanupStarts ==
  ASSUME IInv, [Next]_vars, stage = "none", stage' # "none"
  PROVE  \E c \in Cleanups : RequestCleanup(c)
<1>1. ASSUME NEW m \in Mutations, CallUpdate(m) \/ Resume(m) \/ FinishMutation(m) \/ AnswerStep(m) PROVE FALSE
  BY <1>1 DEF CallUpdate, Resume, FinishMutation, stepVars, AnswerStep, Answered, ConsumerCreated,
              ConsumerRejected, ConsumerNotRolledBack, ConsumerDisconnected, OtherAnswer
<1>2. ASSUME NEW w \in Works, (\E h \in Mutations : StartWork(w, h)) \/ SettleWork(w) PROVE FALSE
  BY <1>2 DEF StartWork, Deliver, SettleWork, stepVars
<1>3. ASSUME NEW c \in Cleanups, FinishCleanup(c) \/ ReleaseToken(c) PROVE FALSE
  BY <1>3 DEF FinishCleanup, ReleaseToken, stepVars
<1>4. ASSUME ReleaseStep \/ UNCHANGED vars PROVE FALSE
  BY <1>4 DEF ReleaseStep, vars, stepVars, DisconnectSucceeds, DisconnectFails, DisconnectTimesOut, MissDeadline,
       DisconnectConsumers, SkipAdapter, CleanAdapter, DeleteRunResources, AdapterAnswers, AdapterTimesOut,
       Settle, DisconnectsSettled
<1> QED BY <1>1, <1>2, <1>3, <1>4, StepKinds

(* Whatever lives during a cleanup, it was requested under. *)
LEMMA NothingNewStep == IInv /\ [Next]_vars => NothingNew'
<1> SUFFICES ASSUME IInv, [Next]_vars, stage' # "none"
             PROVE  /\ L!Live' \subseteq owed'[cleanupOperation']
                    /\ Handled' \subseteq retainedWork'[cleanupOperation']
  BY DEF NothingNew
<1>1. CASE stage # "none"
  <2>1. Closed
    BY <1>1, StageCloses DEF IInv
  <2>2. L!Live' \subseteq L!Live /\ Handled' \subseteq Handled
    BY <2>1, ClosedStep DEF IInv
  <2>3. UNCHANGED <<cleanupOperation, owed, retainedWork>>
    BY <1>1, KeepsItsWork
  <2> QED BY <1>1, <2>2, <2>3 DEF IInv, NothingNew
<1>2. CASE stage = "none"
  <2>1. PICK c \in Cleanups : RequestCleanup(c)
    BY <1>2, CleanupStarts
  <2>2. /\ cleanupOperation' = c
        /\ owed' = [owed EXCEPT ![c] = Lifecycle!Live]
        /\ retainedWork' = [retainedWork EXCEPT ![c] = Lifecycle!WorkToRetain]
        /\ UNCHANGED <<pc, workPc>>
    BY <2>1 DEF RequestCleanup, Lifecycle!RequestCleanup, Lifecycle!mutationVars
  <2>3. owed'[c] = Lifecycle!Live /\ retainedWork'[c] = Lifecycle!WorkToRetain
    BY <2>2 DEF IInv, L!IInv, L!TypeOK
  <2>4. L!Live' = Lifecycle!Live /\ Handled' \subseteq Lifecycle!WorkToRetain
    BY <2>2 DEF L!Live, Lifecycle!Live, Handled, Lifecycle!WorkToRetain
  <2> QED BY <2>2, <2>3, <2>4
<1> QED BY <1>1, <1>2

(* The stages past the prerequisites are reached by DisconnectConsumers, which *)
(* waits for the work the cleanup retains, or gives it up for good.            *)
LEMMA StageProgress ==
  ASSUME IInv, [Next]_vars, stage' \in {"disconnecting", "adapter"}
  PROVE  \/ DisconnectConsumers
         \/ stage \in {"disconnecting", "adapter"} /\ UNCHANGED gaveUp
<1> DEFINE Goal == stage \in {"disconnecting", "adapter"} /\ UNCHANGED gaveUp
<1>1. ASSUME NEW m \in Mutations, CallUpdate(m) \/ Resume(m) \/ FinishMutation(m) \/ AnswerStep(m) PROVE Goal
  BY <1>1 DEF CallUpdate, Resume, FinishMutation, stepVars, AnswerStep, Answered, ConsumerCreated,
              ConsumerRejected, ConsumerNotRolledBack, ConsumerDisconnected, OtherAnswer
<1>2. ASSUME NEW w \in Works, (\E h \in Mutations : StartWork(w, h)) \/ SettleWork(w) PROVE Goal
  BY <1>2 DEF StartWork, Deliver, SettleWork, stepVars
<1>3. ASSUME NEW c \in Cleanups, RequestCleanup(c) \/ FinishCleanup(c) \/ ReleaseToken(c) PROVE Goal
  BY <1>3 DEF RequestCleanup, FinishCleanup, ReleaseToken, stepVars
<1>4. ASSUME ReleaseStep \/ UNCHANGED vars PROVE DisconnectConsumers \/ Goal
  BY <1>4 DEF ReleaseStep, vars, stepVars, DisconnectSucceeds, DisconnectFails, DisconnectTimesOut, MissDeadline,
       SkipAdapter, CleanAdapter, DeleteRunResources, AdapterAnswers, AdapterTimesOut,
       Settle, DisconnectsSettled
<1> QED BY <1>1, <1>2, <1>3, <1>4, StepKinds

(* Once the prerequisites are met nothing lives: the tail outlives the chain. *)
LEMMA PrerequisitesMet ==
  ASSUME IInv, stage # "none", \A p \in retainedWork[cleanupOperation] : ~Lifecycle!Pending(p)
  PROVE  Quiet
<1> DEFINE c == cleanupOperation
<1>1. c \in Cleanups
  BY StageCloses DEF IInv
<1>2. L!Live \subseteq owed[c] /\ Handled \subseteq retainedWork[c]
  BY DEF IInv, NothingNew
<1>3. Handled = {}
  BY <1>2 DEF Handled, Lifecycle!Pending
<1>4. \A p \in retainedWork[c] : p \notin L!Live
  BY DEF Lifecycle!Pending, Lifecycle!Live, L!Live
<1>5. owed[c] \intersect L!Live = {}
  BY <1>1, <1>4 DEF IInv, L!IInv, L!OwedRetained
<1> QED BY <1>2, <1>3, <1>5 DEF Quiet

(* A quiet run that is closed stays quiet. *)
LEMMA QuietStep ==
  ASSUME IInv, Quiet, Closed, [Next]_vars
  PROVE  Quiet'
BY ClosedStep DEF IInv, Quiet

(* Once the prerequisites are met the run is quiet, and stays so until the   *)
(* cleanup is over.                                                          *)
LEMMA MetStep == IInv /\ [Next]_vars => MetIsQuiet'
<1> SUFFICES ASSUME IInv, [Next]_vars, stage' \in {"disconnecting", "adapter"}, gaveUp' = {} PROVE Quiet'
  BY DEF MetIsQuiet
<1>1. CASE DisconnectConsumers
  <2>1. stage = "prerequisites" /\ gaveUp = {} /\ UNCHANGED <<pc, workPc>>
    BY <1>1 DEF DisconnectConsumers, lifecycleVars
  <2>2. \A p \in retainedWork[cleanupOperation] : ~Lifecycle!Pending(p)
    BY <1>1, <2>1 DEF DisconnectConsumers, Prerequisites
  <2>3. Quiet
    BY <2>1, <2>2, PrerequisitesMet
  <2> QED BY <2>1, <2>3 DEF Quiet, Handled, L!Live
<1>2. CASE stage \in {"disconnecting", "adapter"} /\ UNCHANGED gaveUp
  <2>1. Quiet /\ Closed
    BY <1>2, StageCloses DEF IInv, MetIsQuiet
  <2> QED BY <2>1, QuietStep
<1> QED BY <1>1, <1>2, StageProgress

-----------------------------------------------------------------------------
(* Handles *)

(* No step gives a quiet run a handle: only createConsumer() does.           *)
LEMMA NoNewHandle ==
  ASSUME IInv, Quiet, [Next]_vars
  PROVE  /\ \A k \in ConsumerIds : consumerHandles'[k] \in {consumerHandles[k], NoOne}
         /\ Handles' \subseteq Handles
         /\ \A m \in Mutations : ~AnswerStep(m)
<1>1. \A m \in Mutations : body[m] # "awaiting"
  BY DEF IInv, Bodies, Quiet, L!Live
<1>2. ASSUME NEW m \in Mutations PROVE ~AnswerStep(m)
  BY <1>1 DEF AnswerStep, Answered, ConsumerCreated, ConsumerRejected, ConsumerNotRolledBack,
              ConsumerDisconnected, OtherAnswer
<1> DEFINE Goal == \A k \in ConsumerIds : consumerHandles'[k] \in {consumerHandles[k], NoOne}
<1>3. ASSUME NEW m \in Mutations, CallUpdate(m) \/ Resume(m) \/ FinishMutation(m) PROVE Goal
  <2>1. CASE Begin(m)
    BY <2>1, BeginTypes DEF IInv
  <2>2. CASE UNCHANGED consumerHandles
    BY <2>2
  <2> QED BY <1>3, <2>1, <2>2 DEF CallUpdate, Resume, FinishMutation, BeginIfRunning, consumerVars
<1>4. ASSUME NEW w \in Works, (\E h \in Mutations : StartWork(w, h)) \/ SettleWork(w) PROVE Goal
  BY <1>4 DEF StartWork, Deliver, SettleWork, consumerVars
<1>5. ASSUME NEW c \in Cleanups, RequestCleanup(c) \/ FinishCleanup(c) \/ ReleaseToken(c) PROVE Goal
  BY <1>5 DEF RequestCleanup, FinishCleanup, ReleaseToken, consumerVars
<1>6. ASSUME ReleaseStep \/ UNCHANGED vars PROVE Goal
  BY <1>6 DEF ReleaseStep, vars, consumerVars, DisconnectSucceeds, DisconnectFails, DisconnectTimesOut,
       MissDeadline, DisconnectConsumers, SkipAdapter, CleanAdapter, DeleteRunResources,
       AdapterAnswers, AdapterTimesOut
<1>7. Goal
  BY <1>2, <1>3, <1>4, <1>5, <1>6, StepKinds
<1>8. Handles' \subseteq Handles
  BY <1>7 DEF Handles
<1> QED BY <1>2, <1>7, <1>8

(* A disconnect that is awaited ends without its handle, or fails.           *)
LEMMA HandlesStep == IInv /\ [Next]_vars => HandlesAwaited'
<1> SUFFICES ASSUME IInv, [Next]_vars, stage' = "disconnecting", gaveUp' = {}, ~disconnectFailed'
             PROVE  Handles' \subseteq awaiting'
  BY DEF HandlesAwaited
<1>1. CASE DisconnectConsumers
  BY <1>1 DEF DisconnectConsumers, consumerVars, Handles
<1>2. CASE stage \in {"disconnecting", "adapter"} /\ gaveUp = {}
  <2>1. Quiet
    BY <1>2 DEF IInv, MetIsQuiet
  <2>2. Handles' \subseteq Handles /\ \A m \in Mutations : ~AnswerStep(m)
    BY <2>1, NoNewHandle
  <2>3. ASSUME UNCHANGED <<stage, awaiting, disconnectFailed>> PROVE Handles' \subseteq awaiting'
    BY <1>2, <2>2, <2>3 DEF IInv, HandlesAwaited
  <2>4. ASSUME NEW m \in Mutations, CallUpdate(m) \/ Resume(m) \/ FinishMutation(m)
        PROVE  UNCHANGED <<stage, awaiting, disconnectFailed>>
    BY <2>4 DEF CallUpdate, Resume, FinishMutation, stepVars
  <2>5. ASSUME NEW w \in Works, (\E h \in Mutations : StartWork(w, h)) \/ SettleWork(w)
        PROVE  UNCHANGED <<stage, awaiting, disconnectFailed>>
    BY <2>5 DEF StartWork, Deliver, SettleWork, stepVars
  <2>6. ASSUME NEW c \in Cleanups, RequestCleanup(c) \/ FinishCleanup(c) \/ ReleaseToken(c)
        PROVE  UNCHANGED <<stage, awaiting, disconnectFailed>>
    BY <2>6 DEF RequestCleanup, FinishCleanup, ReleaseToken, stepVars
  <2>7. CASE ReleaseStep
    <3>1. ASSUME NEW h \in Mutations, DisconnectSucceeds(h) PROVE Handles' \subseteq awaiting'
      <4>1. Handles' \subseteq Handles \ {h}
        BY <3>1, NobodyAssumption DEF DisconnectSucceeds, Handles
      <4> QED BY <1>2, <3>1, <4>1 DEF DisconnectSucceeds, IInv, HandlesAwaited
    <3>2. ASSUME NEW h \in Mutations, DisconnectFails(h) \/ DisconnectTimesOut(h)
          PROVE  Handles' \subseteq awaiting'
      <4>1. stage = "disconnecting" /\ ~disconnectFailed /\ h \notin awaiting
        BY <3>2 DEF DisconnectFails, DisconnectTimesOut
      <4>2. awaiting' = awaiting
        BY <3>2, <4>1 DEF DisconnectFails, DisconnectTimesOut
      <4> QED BY <1>2, <2>2, <4>1, <4>2 DEF IInv, HandlesAwaited
    <3>3. ASSUME NEW deleted \in BOOLEAN, AdapterAnswers(deleted)
          PROVE  UNCHANGED <<stage, awaiting, disconnectFailed>>
      BY <3>3 DEF AdapterAnswers, Settle, stepVars
    <3> QED BY <1>1, <1>2, <2>3, <2>7, <3>1, <3>2, <3>3
            DEF ReleaseStep, MissDeadline, SkipAdapter, AdapterTimesOut, Settle, CleanAdapter, DeleteRunResources
  <2>8. CASE UNCHANGED vars
    BY <2>3, <2>8 DEF vars, stepVars
  <2> QED BY <2>2, <2>3, <2>4, <2>5, <2>6, <2>7, <2>8, StepKinds
<1> QED BY <1>1, <1>2, StageProgress

-----------------------------------------------------------------------------
(* The status of the run, and the topic *)

(* What changes the status of a run, or its topic. *)
LEMMA StatusSteps ==
  ASSUME IInv, [Next]_vars
  PROVE  \/ /\ UNCHANGED <<runStatus, cleanupStatus, topic, adapterAttempt>>
            /\ stage = "adapter" => stage' = "adapter"
         \/ \E m \in Mutations : ConsumerNotRolledBack(m)
         \/ SkipAdapter \/ AdapterTimesOut
         \/ CleanAdapter
         \/ \E deleted \in BOOLEAN : AdapterAnswers(deleted)
<1> DEFINE Goal == /\ UNCHANGED <<runStatus, cleanupStatus, topic, adapterAttempt>>
                   /\ stage = "adapter" => stage' = "adapter"
<1>1. ASSUME NEW m \in Mutations, CallUpdate(m) \/ Resume(m) \/ FinishMutation(m) PROVE Goal
  BY <1>1 DEF CallUpdate, Resume, FinishMutation, statusVars, attemptVars, stepVars
<1>2. ASSUME NEW m \in Mutations, AnswerStep(m) PROVE ConsumerNotRolledBack(m) \/ Goal
  BY <1>2 DEF AnswerStep, Answered, ConsumerCreated, ConsumerRejected, ConsumerDisconnected, OtherAnswer,
              attemptVars, stepVars
<1>3. ASSUME NEW w \in Works, (\E h \in Mutations : StartWork(w, h)) \/ SettleWork(w) PROVE Goal
  BY <1>3 DEF StartWork, Deliver, SettleWork, statusVars, attemptVars, stepVars
<1>4. ASSUME NEW c \in Cleanups, FinishCleanup(c) \/ ReleaseToken(c) PROVE Goal
  BY <1>4 DEF FinishCleanup, ReleaseToken, statusVars, attemptVars, stepVars
<1>5. ASSUME NEW c \in Cleanups, RequestCleanup(c) PROVE Goal
  <2>1. stage = "none"
    BY <1>5 DEF RequestCleanup, Lifecycle!RequestCleanup, IInv, StageIsOperation
  <2> QED BY <1>5, <2>1 DEF RequestCleanup, statusVars, attemptVars
<1>6. ASSUME NEW h \in Mutations, DisconnectSucceeds(h) \/ DisconnectFails(h) \/ DisconnectTimesOut(h) PROVE Goal
  BY <1>6 DEF DisconnectSucceeds, DisconnectFails, DisconnectTimesOut, statusVars, attemptVars
<1>7. ASSUME NEW p \in Mutations \union Works, MissDeadline(p) PROVE Goal
  BY <1>7 DEF MissDeadline, statusVars, attemptVars
<1>8. ASSUME DisconnectConsumers \/ UNCHANGED vars PROVE Goal
  BY <1>8 DEF DisconnectConsumers, vars, statusVars, attemptVars, stepVars
<1> QED BY <1>1, <1>2, <1>3, <1>4, <1>5, <1>6, <1>7, <1>8, StepKinds DEF ReleaseStep

(* While a deletion is pending the run is closed by the token, then by its status. *)
LEMMA AttemptStep == IInv /\ [Next]_vars => AttemptIsClosed'
<1> SUFFICES ASSUME IInv, [Next]_vars, adapterAttempt'
             PROVE  Quiet' /\ Handles' = {} /\ (stage' = "adapter" \/ runStatus' = "stopped")
  BY DEF AttemptIsClosed
<1>1. CASE CleanAdapter
  <2>1. Quiet /\ Closed
    BY <1>1, StageCloses DEF CleanAdapter, DisconnectsSettled, IInv, MetIsQuiet
  <2>2. Quiet' /\ Handles' \subseteq Handles
    BY <2>1, QuietStep, NoNewHandle
  <2>3. Handles = {}
    BY <1>1 DEF CleanAdapter, DisconnectsSettled, IInv, HandlesAwaited
  <2> QED BY <1>1, <2>2, <2>3 DEF CleanAdapter, DeleteRunResources
<1>2. CASE adapterAttempt
  <2>1. Quiet /\ Handles = {} /\ (stage = "adapter" \/ runStatus = "stopped")
    BY <1>2 DEF IInv, AttemptIsClosed
  <2>2. Closed
    BY <2>1, StageCloses DEF IInv, Closed, IsRunMutationUnavailable
  <2>3. Quiet' /\ Handles' = {} /\ \A m \in Mutations : ~ConsumerNotRolledBack(m)
    BY <2>1, <2>2, QuietStep, NoNewHandle DEF AnswerStep
  <2>4. ~(\E deleted \in BOOLEAN : AdapterAnswers(deleted))
    BY DEF AdapterAnswers
  <2>5. SkipAdapter \/ AdapterTimesOut => runStatus' = "stopped"
    BY DEF SkipAdapter, AdapterTimesOut, Settle
  <2> QED BY <1>1, <2>1, <2>3, <2>4, <2>5, StatusSteps
<1>3. CASE ~CleanAdapter /\ ~adapterAttempt
  <2>1. adapterAttempt' = adapterAttempt \/ ~adapterAttempt'
    BY <1>3, StatusSteps DEF ConsumerNotRolledBack, Answered, attemptVars, SkipAdapter, AdapterTimesOut, AdapterAnswers
  <2> QED BY <1>3, <2>1
<1> QED BY <1>1, <1>2, <1>3

(* A run that was cleaned stays so. *)
LEMMA CleanStep == IInv /\ [Next]_vars => CleanIsQuiet'
<1> SUFFICES ASSUME IInv, [Next]_vars, runStatus' = "stopped", ~IsIncomplete(cleanupStatus')
             PROVE  topic' = "deleted" /\ Quiet' /\ Handles' = {}
  BY DEF CleanIsQuiet, IsIncomplete
<1>1. ASSUME runStatus = "stopped", ~IsIncomplete(cleanupStatus)
      PROVE  topic = "deleted" /\ Quiet' /\ Handles' = {}
  <2>1. topic = "deleted" /\ Quiet /\ Handles = {} /\ Closed
    BY <1>1 DEF IInv, CleanIsQuiet, Closed, IsRunMutationUnavailable
  <2> QED BY <2>1, QuietStep, NoNewHandle
<1>2. CASE UNCHANGED <<runStatus, cleanupStatus, topic>>
  BY <1>1, <1>2
<1>3. ASSUME NEW deleted \in BOOLEAN, AdapterAnswers(deleted)
      PROVE  topic' = "deleted" /\ Quiet' /\ Handles' = {}
  <2>1. Quiet /\ Handles = {} /\ (stage = "adapter" \/ runStatus = "stopped")
    BY <1>3 DEF AdapterAnswers, IInv, AttemptIsClosed
  <2>2. Closed
    BY <2>1, StageCloses DEF IInv, Closed, IsRunMutationUnavailable
  <2>3. Quiet' /\ Handles' = {}
    BY <2>1, <2>2, QuietStep, NoNewHandle
  <2>4. CASE stage = "adapter"
    <3>1. deleted
      BY <1>3, <2>4 DEF AdapterAnswers, Settle, IsIncomplete
    <3> QED BY <1>3, <2>3, <3>1 DEF AdapterAnswers
  <2>5. CASE stage # "adapter"
    <3>1. UNCHANGED statusVars
      BY <1>3, <2>5 DEF AdapterAnswers
    <3>2. topic = "deleted"
      BY <1>1, <3>1 DEF statusVars
    <3> QED BY <1>3, <2>3, <3>2 DEF AdapterAnswers
  <2> QED BY <2>4, <2>5
<1>4. ~(SkipAdapter \/ AdapterTimesOut) /\ ~CleanAdapter /\ \A m \in Mutations : ~ConsumerNotRolledBack(m)
  BY DEF SkipAdapter, AdapterTimesOut, Settle, IsIncomplete, CleanAdapter, DeleteRunResources, ConsumerNotRolledBack
<1> QED BY <1>2, <1>3, <1>4, StatusSteps

(* No step forgets a deletion that was requested.                            *)
LEMMA RequestStep == IInv /\ [Next]_vars => RequestIsSettled'
<1> SUFFICES ASSUME IInv, [Next]_vars, cleanupStatus' = "requested" PROVE stage' = "adapter" \/ runStatus' = "stopped"
  BY DEF RequestIsSettled
<1>1. CASE UNCHANGED <<runStatus, cleanupStatus>> /\ (stage = "adapter" => stage' = "adapter")
  BY <1>1 DEF IInv, RequestIsSettled
<1>2. CASE \E m \in Mutations : ConsumerNotRolledBack(m)
  BY <1>2 DEF ConsumerNotRolledBack
<1>3. CASE SkipAdapter \/ AdapterTimesOut
  BY <1>3 DEF SkipAdapter, AdapterTimesOut, Settle
<1>4. CASE CleanAdapter
  BY <1>4 DEF CleanAdapter, DeleteRunResources
<1>5. ASSUME NEW deleted \in BOOLEAN, AdapterAnswers(deleted) PROVE stage' = "adapter" \/ runStatus' = "stopped"
  BY <1>5 DEF AdapterAnswers, Settle, statusVars, stepVars, IInv, RequestIsSettled
<1> QED BY <1>1, <1>2, <1>3, <1>4, <1>5, StatusSteps

-----------------------------------------------------------------------------
(* Bodies and consumers *)

(* A step of the chain starts a body or touches none. *)
LEMMA ChainStep ==
  ASSUME IInv, NEW m \in Mutations, CallUpdate(m) \/ Resume(m)
  PROVE  /\ body[m] # "awaiting"
         /\ \A n \in Mutations : n # m => pc'[n] = pc[n]
         /\ UNCHANGED <<runStatus, handlerOf>>
         /\ \/ Begin(m) /\ pc'[m] = "running" /\ ~Closed
            \/ UNCHANGED <<body, target, consumerVars>>
<1>0. pc \in [Mutations -> {"idle", "queued", "running", "done", "skipped", "rejected"}]
  BY DEF IInv, L!IInv, L!TypeOK
<1>1. /\ pc[m] \in {"idle", "queued"}
      /\ \A n \in Mutations : n # m => pc'[n] = pc[n]
      /\ pc'[m] = "running" => ~Lifecycle!Refused(m)
  BY <1>0 DEF CallUpdate, Resume, Lifecycle!RefuseCall, Lifecycle!Call, Lifecycle!Resume, Lifecycle!Refusal
<1>2. ~Lifecycle!Refused(m) => ~Closed
  BY RefusalAssumption DEF Lifecycle!Refused, Lifecycle!IsCleanupRequested, Closed
<1>3. UNCHANGED <<runStatus, handlerOf>>
  BY DEF CallUpdate, Resume, statusVars
<1>4. body[m] # "awaiting"
  BY <1>1 DEF IInv, Bodies
<1> QED BY <1>1, <1>2, <1>3, <1>4 DEF CallUpdate, Resume, BeginIfRunning

(* What a body that starts awaits. *)
LEMMA BeginBody ==
  ASSUME IInv, NEW m \in Mutations, Begin(m), pc'[m] = "running", body[m] # "awaiting",
         \A n \in Mutations : n # m => pc'[n] = pc[n]
  PROVE  Bodies'
<1>0. TypeOK /\ client[m] # "connecting"
  BY DEF IInv, Bodies
<1>1. UNCHANGED consumerHandles
  BY <1>0, BeginTypes
<1>2. ASSUME NEW n \in Mutations, n # m PROVE UNCHANGED <<body[n], target[n], client[n]>>
  BY <1>0, <1>2 DEF Begin, BeginAdd, BeginDisconnect, BeginMessage, consumerVars, TypeOK
<1>3. /\ client'[m] = "connecting" => body'[m] = "awaiting" /\ Kind[m] = "add"
      /\ body'[m] = "awaiting" /\ Kind[m] \in {"add", "stop", "crash"} => target'[m] \in ConsumerIds
      /\ body'[m] = "awaiting" /\ Kind[m] = "add" => consumerHandles[target'[m]] = NoOne
  <2>1. CASE Kind[m] = "add" /\ BeginAdd(m)
    <3>1. CASE Cardinality(ActiveConsumers) >= ConsumerLimit
      BY <1>0, <2>1, <3>1 DEF BeginAdd, consumerVars, TypeOK
    <3>2. CASE ~(Cardinality(ActiveConsumers) >= ConsumerLimit)
      <4>1. FreeIds # {} /\ FreeIds \in SUBSET Nat
        BY <2>1, <3>2, ConsumerIdsAssumption DEF BeginAdd, FreeIds
      <4>2. Min(FreeIds) \in ConsumerIds /\ consumerHandles[Min(FreeIds)] = NoOne
        BY <4>1, SmallestId DEF FreeIds
      <4> QED BY <1>0, <2>1, <3>2, <4>2 DEF BeginAdd, TypeOK
    <3> QED BY <3>1, <3>2
  <2>2. CASE Kind[m] \in {"stop", "crash"} /\ \E k \in ConsumerIds : BeginDisconnect(m, k)
    BY <1>0, <2>2 DEF BeginDisconnect, consumerVars, TypeOK
  <2>3. CASE Kind[m] \in {"produce", "process"} /\ BeginMessage(m)
    BY <1>0, <2>3 DEF BeginMessage, consumerVars, TypeOK
  <2> QED BY <2>1, <2>2, <2>3 DEF Begin
<1> QED BY <1>1, <1>2, <1>3 DEF IInv, Bodies

(* Bodies run one at a time, and each awaits what it may. *)
LEMMA BodiesStep == IInv /\ [Next]_vars => Bodies'
<1> SUFFICES ASSUME IInv, [Next]_vars PROVE Bodies'
  OBVIOUS
<1>0. TypeOK
  BY DEF IInv
<1>1. ASSUME NEW m \in Mutations, CallUpdate(m) \/ Resume(m) PROVE Bodies'
  <2>1. CASE Begin(m) /\ pc'[m] = "running"
    BY <1>1, <2>1, ChainStep, BeginBody
  <2>2. CASE UNCHANGED <<body, target, consumerVars>>
    BY <1>1, <2>2, ChainStep DEF IInv, Bodies, consumerVars
  <2> QED BY <1>1, <2>1, <2>2, ChainStep
<1>2. ASSUME NEW m \in Mutations, FinishMutation(m) PROVE Bodies'
  <2>1. body[m] = "over" /\ UNCHANGED <<body, target, client, consumerHandles>>
    BY <1>2 DEF FinishMutation, bodyVars, consumerVars
  <2>2. \A n \in Mutations : n # m => pc'[n] = pc[n]
    BY <1>2 DEF FinishMutation, Lifecycle!FinishMutation, IInv, L!IInv, L!TypeOK
  <2> QED BY <2>1, <2>2 DEF IInv, Bodies
<1>3. ASSUME NEW m \in Mutations, AnswerStep(m) PROVE Bodies'
  <2>1. body[m] = "awaiting" /\ body' = [body EXCEPT ![m] = "over"]
    BY <1>3 DEF AnswerStep, Answered, ConsumerCreated, ConsumerRejected, ConsumerNotRolledBack,
                ConsumerDisconnected, OtherAnswer
  <2>2. \A n \in Mutations : body'[n] # "awaiting"
    BY <2>1, OneBody DEF IInv, TypeOK
  <2>3. ASSUME NEW n \in Mutations, client[n] = "connecting" PROVE n = m /\ Kind[m] = "add"
    BY <2>1, <2>3, OneBody DEF IInv, Bodies
  <2>4. CASE ConsumerCreated(m) \/ ConsumerRejected(m) \/ ConsumerNotRolledBack(m)
    <3>1. \A n \in Mutations : client'[n] # "connecting"
      BY <1>0, <2>3, <2>4 DEF ConsumerCreated, ConsumerRejected, ConsumerNotRolledBack, TypeOK
    <3> QED BY <2>2, <3>1 DEF Bodies
  <2>5. CASE ConsumerDisconnected(m) \/ OtherAnswer(m)
    <3>1. Kind[m] # "add"
      BY <2>5 DEF ConsumerDisconnected, OtherAnswer, Answered
    <3>2. \A n \in Mutations : client'[n] # "connecting"
      BY <1>0, <2>3, <2>5, <3>1 DEF ConsumerDisconnected, OtherAnswer, consumerVars, TypeOK
    <3> QED BY <2>2, <3>2 DEF Bodies
  <2> QED BY <1>3, <2>4, <2>5 DEF AnswerStep
<1>4. ASSUME UNCHANGED <<pc, body, target>>,
             \A n \in Mutations : client'[n] \in {client[n], "closed"},
             \A k \in ConsumerIds : consumerHandles'[k] \in {consumerHandles[k], NoOne}
      PROVE  Bodies'
  BY <1>4 DEF IInv, Bodies
<1>5. ASSUME NEW w \in Works, (\E h \in Mutations : StartWork(w, h)) \/ SettleWork(w) PROVE Bodies'
  BY <1>4, <1>5 DEF StartWork, Deliver, SettleWork, consumerVars, bodyVars, Lifecycle!StartWork,
                    Lifecycle!SettleWork, Lifecycle!mutationVars
<1>6. ASSUME NEW c \in Cleanups, RequestCleanup(c) \/ FinishCleanup(c) \/ ReleaseToken(c) PROVE Bodies'
  BY <1>4, <1>6 DEF RequestCleanup, FinishCleanup, ReleaseToken, consumerVars, bodyVars, Lifecycle!RequestCleanup,
                    Lifecycle!FinishCleanup, Lifecycle!ReleaseToken, Lifecycle!mutationVars
<1>7. CASE ReleaseStep \/ UNCHANGED vars
  <2>1. UNCHANGED pc
    BY <1>7, QuietLifecycle DEF lifecycleVars
  <2>2. ASSUME UNCHANGED <<body, target, client, consumerHandles>> PROVE Bodies'
    BY <1>4, <2>1, <2>2
  <2>3. ASSUME NEW h \in Mutations, DisconnectSucceeds(h) PROVE Bodies'
    <3>1. \A n \in Mutations : client'[n] \in {client[n], "closed"}
      BY <1>0, <2>3 DEF DisconnectSucceeds, TypeOK
    <3>2. \A k \in ConsumerIds : consumerHandles'[k] \in {consumerHandles[k], NoOne}
      BY <2>3 DEF DisconnectSucceeds
    <3>3. UNCHANGED <<body, target>>
      BY <2>3 DEF DisconnectSucceeds, bodyVars
    <3> QED BY <1>4, <2>1, <3>1, <3>2, <3>3
  <2>4. CASE \E h \in Mutations : DisconnectFails(h) \/ DisconnectTimesOut(h)
    BY <2>2, <2>4 DEF DisconnectFails, DisconnectTimesOut, consumerVars, bodyVars
  <2>5. CASE DisconnectConsumers \/ \E p \in Mutations \union Works : MissDeadline(p)
    BY <2>2, <2>5 DEF DisconnectConsumers, MissDeadline, consumerVars, bodyVars
  <2>6. CASE SkipAdapter \/ CleanAdapter \/ AdapterTimesOut \/ \E deleted \in BOOLEAN : AdapterAnswers(deleted)
    BY <2>2, <2>6 DEF SkipAdapter, CleanAdapter, DeleteRunResources, AdapterAnswers, AdapterTimesOut,
                      consumerVars, bodyVars
  <2>7. CASE UNCHANGED vars
    BY <2>2, <2>7 DEF vars, consumerVars, bodyVars
  <2> QED BY <1>7, <2>3, <2>4, <2>5, <2>6, <2>7 DEF ReleaseStep
<1> QED BY <1>1, <1>2, <1>3, <1>5, <1>6, <1>7, StepKinds

(* A handle is dropped only with the consumer it stands for. *)
LEMMA LostStep == IInv /\ [Next]_vars => NoConsumerLost'
<1> SUFFICES ASSUME IInv, [Next]_vars PROVE NoConsumerLost'
  OBVIOUS
<1>0. TypeOK
  BY DEF IInv
<1>1. ASSUME UNCHANGED consumerHandles, \A n \in Mutations : client'[n] = "connected" => client[n] = "connected"
      PROVE  NoConsumerLost'
  BY <1>1 DEF IInv, NoConsumerLost, Handles
<1>2. ASSUME NEW m \in Mutations, CallUpdate(m) \/ Resume(m) PROVE NoConsumerLost'
  <2>1. CASE Begin(m)
    <3>1. \A n \in Mutations : client'[n] = "connected" => client[n] = "connected"
      BY <1>0, <2>1 DEF Begin, BeginAdd, BeginDisconnect, BeginMessage, consumerVars, TypeOK
    <3> QED BY <1>0, <1>1, <2>1, <3>1, BeginTypes
  <2>2. CASE UNCHANGED <<body, target, consumerVars>>
    BY <1>1, <2>2 DEF consumerVars
  <2> QED BY <1>2, <2>1, <2>2, ChainStep
<1>3. ASSUME NEW m \in Mutations, AnswerStep(m) PROVE NoConsumerLost'
  <2>1. CASE ConsumerCreated(m) \/ ConsumerNotRolledBack(m)
    <3>1. body[m] = "awaiting" /\ Kind[m] = "add" /\ consumerHandles' = [consumerHandles EXCEPT ![target[m]] = m]
      BY <2>1 DEF ConsumerCreated, ConsumerNotRolledBack, Answered
    <3>2. target[m] \in ConsumerIds /\ consumerHandles[target[m]] = NoOne
      BY <3>1 DEF IInv, Bodies
    <3>3. Handles \union {m} \subseteq Handles'
      BY <1>0, <3>1, <3>2, NobodyAssumption DEF Handles, TypeOK
    <3>4. \A n \in Mutations : client'[n] = "connected" => n = m \/ client[n] = "connected"
      BY <1>0, <2>1 DEF ConsumerCreated, ConsumerNotRolledBack, TypeOK
    <3> QED BY <3>3, <3>4 DEF IInv, NoConsumerLost
  <2>2. CASE ConsumerRejected(m) \/ OtherAnswer(m)
    BY <1>0, <1>1, <2>2 DEF ConsumerRejected, OtherAnswer, consumerVars, TypeOK
  <2>3. CASE ConsumerDisconnected(m)
    <3> DEFINE k == target[m]
               h == consumerHandles[k]
    <3>1. k \in ConsumerIds
      BY <2>3 DEF ConsumerDisconnected, Answered, IInv, Bodies
    <3>2. /\ consumerHandles' = [consumerHandles EXCEPT ![k] = NoOne]
          /\ client' = IF h = NoOne THEN client ELSE [client EXCEPT ![h] = "closed"]
      BY <2>3 DEF ConsumerDisconnected
    <3>3. Handles \ {h} \subseteq Handles'
      BY <1>0, <3>1, <3>2 DEF Handles, TypeOK
    <3>4. ASSUME NEW n \in Mutations, client'[n] = "connected" PROVE client[n] = "connected" /\ n # h
      BY <1>0, <3>1, <3>2, <3>4, NobodyAssumption DEF TypeOK
    <3> QED BY <3>3, <3>4 DEF IInv, NoConsumerLost
  <2> QED BY <1>3, <2>1, <2>2, <2>3 DEF AnswerStep
<1>4. ASSUME NEW m \in Mutations, FinishMutation(m) PROVE NoConsumerLost'
  BY <1>1, <1>4 DEF FinishMutation, consumerVars
<1>5. ASSUME NEW w \in Works, (\E h \in Mutations : StartWork(w, h)) \/ SettleWork(w) PROVE NoConsumerLost'
  BY <1>1, <1>5 DEF StartWork, Deliver, SettleWork, consumerVars
<1>6. ASSUME NEW c \in Cleanups, RequestCleanup(c) \/ FinishCleanup(c) \/ ReleaseToken(c) PROVE NoConsumerLost'
  BY <1>1, <1>6 DEF RequestCleanup, FinishCleanup, ReleaseToken, consumerVars
<1>7. ASSUME NEW h \in Mutations, DisconnectSucceeds(h) PROVE NoConsumerLost'
  <2>1. Handles \ {h} \subseteq Handles'
    BY <1>7 DEF DisconnectSucceeds, Handles
  <2>2. \A n \in Mutations : client'[n] = "connected" => client[n] = "connected" /\ n # h
    BY <1>0, <1>7 DEF DisconnectSucceeds, TypeOK
  <2> QED BY <2>1, <2>2 DEF IInv, NoConsumerLost
<1>8. CASE ReleaseStep \/ UNCHANGED vars
  BY <1>1, <1>7, <1>8 DEF ReleaseStep, vars, consumerVars, DisconnectFails, DisconnectTimesOut, MissDeadline,
     DisconnectConsumers, SkipAdapter, CleanAdapter, DeleteRunResources, AdapterAnswers, AdapterTimesOut
<1> QED BY <1>2, <1>3, <1>4, <1>5, <1>6, <1>8, StepKinds

(* Nothing gives a stopped run a consumer. *)
LEMMA EmptyStep == IInv /\ [Next]_vars => StoppedRunIsEmpty'
<1> SUFFICES ASSUME IInv, [Next]_vars, runStatus' = "stopped", NEW k \in ConsumerIds
             PROVE  consumerStatus'[k] = "absent"
  BY DEF StoppedRunIsEmpty
<1>0. TypeOK
  BY DEF IInv
<1>1. ASSUME UNCHANGED runStatus, UNCHANGED consumerStatus PROVE consumerStatus'[k] = "absent"
  BY <1>1 DEF IInv, StoppedRunIsEmpty
<1>2. ASSUME NEW m \in Mutations, CallUpdate(m) \/ Resume(m) PROVE consumerStatus'[k] = "absent"
  BY <1>1, <1>2, ChainStep DEF Closed, IsRunMutationUnavailable, consumerVars
<1>3. ASSUME NEW m \in Mutations, AnswerStep(m) PROVE consumerStatus'[k] = "absent"
  <2>1. runStatus = "stopped"
    BY <1>3 DEF AnswerStep, Answered, ConsumerCreated, ConsumerRejected, ConsumerNotRolledBack,
                ConsumerDisconnected, OtherAnswer
  <2>2. \A j \in ConsumerIds : consumerStatus[j] = "absent"
    BY <2>1 DEF IInv, StoppedRunIsEmpty
  <2>3. IsRunMutationUnavailable
    BY <2>1 DEF IsRunMutationUnavailable
  <2>4. CASE ConsumerCreated(m)
    BY <1>0, <2>2, <2>3, <2>4 DEF ConsumerCreated, TypeOK
  <2>5. CASE ConsumerRejected(m) \/ ConsumerNotRolledBack(m)
    BY <1>0, <2>2, <2>5 DEF ConsumerRejected, ConsumerNotRolledBack, TypeOK
  <2>6. CASE ConsumerDisconnected(m)
    <3>1. target[m] \in ConsumerIds
      BY <2>6 DEF ConsumerDisconnected, Answered, IInv, Bodies
    <3> QED BY <1>0, <2>2, <2>6, <3>1 DEF ConsumerDisconnected, TypeOK
  <2>7. CASE OtherAnswer(m)
    BY <2>2, <2>7 DEF OtherAnswer, consumerVars
  <2> QED BY <1>3, <2>4, <2>5, <2>6, <2>7 DEF AnswerStep
<1>4. ASSUME NEW m \in Mutations, FinishMutation(m) PROVE consumerStatus'[k] = "absent"
  BY <1>1, <1>4 DEF FinishMutation, statusVars, consumerVars
<1>5. ASSUME NEW w \in Works, (\E h \in Mutations : StartWork(w, h)) \/ SettleWork(w)
      PROVE  consumerStatus'[k] = "absent"
  BY <1>1, <1>5 DEF StartWork, Deliver, SettleWork, statusVars, consumerVars
<1>6. ASSUME NEW c \in Cleanups, RequestCleanup(c) \/ FinishCleanup(c) \/ ReleaseToken(c)
      PROVE  consumerStatus'[k] = "absent"
  BY <1>1, <1>6 DEF RequestCleanup, FinishCleanup, ReleaseToken, statusVars, consumerVars
<1>7. CASE ReleaseStep \/ UNCHANGED vars
  <2>1. CASE Settle(FALSE) \/ Settle(TRUE)
    BY <2>1 DEF Settle
  <2>2. ASSUME NEW deleted \in BOOLEAN, AdapterAnswers(deleted) PROVE consumerStatus'[k] = "absent"
    BY <1>1, <2>1, <2>2 DEF AdapterAnswers, statusVars
  <2> QED BY <1>1, <1>7, <2>1, <2>2 DEF ReleaseStep, vars, statusVars, consumerVars, DisconnectSucceeds, DisconnectFails,
     DisconnectTimesOut, MissDeadline, DisconnectConsumers, SkipAdapter, CleanAdapter, DeleteRunResources,
     AdapterTimesOut
<1> QED BY <1>2, <1>3, <1>4, <1>5, <1>6, <1>7, StepKinds

-----------------------------------------------------------------------------

(* A run begins running, with nothing called, connected or under way.        *)
LEMMA InitIInv == Init => IInv
<1> SUFFICES ASSUME Init PROVE IInv
  OBVIOUS
<1> USE DEF Init
<1>1. L!IInv
  BY SameLifecycle, LifecycleConstants, L!InitIInv
<1>2. pc = [m \in Mutations |-> "idle"] /\ workPc = [w \in Works |-> "idle"] /\ cleanupOperation = NoOne
  BY DEF Lifecycle!Init
<1>3. TypeOK
  BY DEF TypeOK
<1>4. Handles = {}
  BY DEF Handles
<1> QED BY <1>1, <1>2, <1>3, <1>4 DEF IInv, Bodies, NoConsumerLost, StoppedRunIsEmpty, StageIsOperation, NothingNew,
    MetIsQuiet, HandlesAwaited, AttemptIsClosed, CleanIsQuiet, RequestIsSettled

(* The steps keep each part of the invariant, by the lemmas above.           *)
LEMMA InvStep == IInv /\ [Next]_vars => IInv'
<1> SUFFICES ASSUME IInv, [Next]_vars PROVE IInv'
  OBVIOUS
<1>1. L!IInv'
  BY LifecycleStep, LifecycleConstants, L!InvStep DEF IInv
<1>2. TypeOK'
  BY TypeStep DEF IInv
<1> QED BY <1>1, <1>2, BodiesStep, LostStep, EmptyStep, StageStep, NothingNewStep, MetStep, HandlesStep,
           AttemptStep, CleanStep, RequestStep DEF IInv

(* The invariant holds for ever.                                             *)
LEMMA Invariance == Spec => []IInv
BY InitIInv, InvStep, PTL DEF Spec

(* Type correctness. *)
THEOREM SpecTypeOK == Spec => []TypeOK
<1>1. IInv => TypeOK
  BY DEF IInv
<1> QED BY <1>1, Invariance, PTL

(* The topic is deleted only when nothing uses it any more, however many     *)
(* consumers, messages and resets there are and however late each call of    *)
(* the Kafka client settles.                                                 *)
THEOREM SpecDeleteOnlyWhenQuiet == Spec => []DeleteOnlyWhenQuiet
<1>1. ASSUME IInv PROVE DeleteOnlyWhenQuiet
  <2>1. SUFFICES ASSUME adapterAttempt
                 PROVE  /\ \A m \in Mutations : client[m] \notin {"connecting", "connected"} /\ body[m] # "awaiting"
                        /\ \A w \in Works : workPc[w] # "pending"
    BY DEF DeleteOnlyWhenQuiet
  <2>2. Quiet /\ Handles = {}
    BY <1>1, <2>1 DEF IInv, AttemptIsClosed
  <2>3. \A m \in Mutations : body[m] # "awaiting"
    BY <1>1, <2>2 DEF IInv, Bodies, Quiet, L!Live
  <2>4. \A m \in Mutations : client[m] \notin {"connecting", "connected"}
    BY <1>1, <2>2, <2>3 DEF IInv, Bodies, NoConsumerLost
  <2> QED BY <2>2, <2>3, <2>4 DEF Quiet, Handled
<1> QED BY <1>1, Invariance, PTL

(* A cleanup that reports no failure has released everything.                *)
THEOREM SpecCleanMeansClean == Spec => []CleanMeansClean
<1>1. ASSUME IInv PROVE CleanMeansClean
  <2>1. SUFFICES ASSUME runStatus = "stopped", ~IsIncomplete(cleanupStatus)
                 PROVE  /\ topic = "deleted"
                        /\ Handles = {}
                        /\ \A m \in Mutations : client[m] \notin {"connecting", "connected"}
    BY DEF CleanMeansClean
  <2>2. topic = "deleted" /\ Quiet /\ Handles = {}
    BY <1>1, <2>1 DEF IInv, CleanIsQuiet
  <2>3. \A m \in Mutations : client[m] \notin {"connecting", "connected"}
    BY <1>1, <2>2 DEF IInv, Bodies, NoConsumerLost, Quiet, L!Live
  <2> QED BY <2>2, <2>3
<1> QED BY <1>1, Invariance, PTL

(* A connected consumer can be found by the next cleanup.                    *)
THEOREM SpecNoConsumerLost == Spec => []NoConsumerLost
<1>1. IInv => NoConsumerLost
  BY DEF IInv
<1> QED BY <1>1, Invariance, PTL

(* A run that was stopped shows no consumer, whatever answers afterwards.    *)
THEOREM SpecStoppedRunIsEmpty == Spec => []StoppedRunIsEmpty
<1>1. IInv => StoppedRunIsEmpty
  BY DEF IInv
<1> QED BY <1>1, Invariance, PTL

(* No body and no message handler starts once a cleanup was asked for.       *)
THEOREM SpecNothingStartsAfterCleanup == Spec => NothingStartsAfterCleanup
<1> DEFINE Quietly == CleanupWasAsked =>
             /\ \A m \in Mutations : body[m] = "none" => body'[m] = "none"
             /\ \A w \in Works : workPc[w] = "idle" => workPc'[w] = "idle"
<1>1. ASSUME IInv, [Next]_vars PROVE Quietly
  <2>1. SUFFICES ASSUME CleanupWasAsked PROVE Closed
    BY <1>1, <2>1, ClosedStep DEF IInv
  <2>2. CASE stage # "none"
    BY <1>1, <2>2, StageCloses DEF IInv
  <2>3. CASE stage = "none" /\ cleanupStatus # "not_requested"
    <3>1. IsIncomplete(cleanupStatus) \/ runStatus = "stopped"
      BY <1>1, <2>3 DEF IInv, TypeOK, IsIncomplete, RequestIsSettled
    <3> QED BY <3>1 DEF Closed, IsRunMutationUnavailable
  <2> QED BY <2>1, <2>2, <2>3 DEF CleanupWasAsked
<1>2. IInv /\ [Next]_vars => [Quietly]_vars
  BY <1>1
<1> QED BY <1>2, Invariance, PTL DEF Spec, NothingStartsAfterCleanup
=============================================================================
