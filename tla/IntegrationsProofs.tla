------------------------- MODULE IntegrationsProofs -------------------------
(***************************************************************************)
(* Proofs about Integrations, for any connections, deliveries, workers,    *)
(* reconcilers and limits.                                                 *)
(***************************************************************************)
EXTENDS IntegrationsHandover, FiniteSetTheorems, TLAPS

(***************************************************************************)
(* The inductive invariant                                                 *)
(***************************************************************************)

\* A worker that sends holds the delivery: it is being sent, under a lease that has
\* not expired.  Any other worker holds none.
HoldingInv ==
    \A w \in Workers :
        IF worker[w].pc \in {"send"} \cup Results
        THEN /\ worker[w].at \in Deliveries
             /\ delivery[worker[w].at].st = "sending"
             /\ ~lapsed[worker[w].at]
        ELSE worker[w].at = NoDelivery

\* No delivery is held by two workers.
AloneInv ==
    \A v, w \in Workers :
        worker[v].at = worker[w].at /\ worker[v].at # NoDelivery => v = w

\* A delivery that is being sent has an attempt, and only its lease can expire.
SendingInv ==
    \A d \in Deliveries :
        /\ lapsed[d] => delivery[d].st = "sending"
        /\ delivery[d].st = "sending" => tries[d] # <<>>

\* What a worker knows of the acceptance of the delivery it holds.
AnswerInv ==
    \A w \in Workers :
        /\ worker[w].pc \in {"send", "transient", "permanent"} => accepted[worker[w].at] = 0
        /\ worker[w].pc = "ok" => accepted[worker[w].at] = 1

\* What the status of a delivery says of its acceptance.
AcceptInv ==
    \A d \in Deliveries :
        /\ accepted[d] \in {0, 1}
        /\ delivery[d].st \in {"none", "queued", "failed"} => accepted[d] = 0
        /\ delivery[d].st = "succeeded" => accepted[d] = 1

\* A delivery under reconciliation is not sent again, and a reconciler that heard
\* of success knows that the delivery was accepted.
ReconcilingInv ==
    \A r \in Reconcilers :
        reconciler[r].pc # "idle" =>
            /\ reconciler[r].at \in Deliveries
            /\ delivery[reconciler[r].at].st \in {"uncertain", "succeeded"}
            /\ reconciler[r].pc = "succeeded" => accepted[reconciler[r].at] = 1

Inv == HoldingInv /\ AloneInv /\ SendingInv /\ AnswerInv /\ AcceptInv /\ ReconcilingInv

DispatchInv == HoldingInv /\ AloneInv /\ SendingInv /\ AnswerInv /\ AcceptInv

(***************************************************************************)
(* What the helpers return                                                 *)
(***************************************************************************)

LEMMA IdleType ==
    /\ Idle \in WorkerState /\ Idle.at = NoDelivery /\ Idle.pc = "idle"
    /\ NotReconciling \in ReconcilerState /\ NotReconciling.pc = "idle"
BY DEF Idle, NotReconciling, WorkerState, ReconcilerState

LEMMA WithoutDeliveryType ==
    ASSUME NEW w \in Workers, NEW d, worker[w] \in WorkerState
    PROVE  /\ WithoutDelivery(w, d) \in WorkerState
           /\ WithoutDelivery(w, d).at = NoDelivery
           /\ WithoutDelivery(w, d).pc \in {"idle", "claim"}
BY IdleType DEF WithoutDelivery, WorkerState

\* A worker that goes from one step of a delivery to the next.
LEMMA WorkerMoves ==
    ASSUME NEW s \in WorkerState, NEW d \in Deliveries, NEW pc \in {"send"} \cup Results
    PROVE  /\ [s EXCEPT !.pc = pc] \in WorkerState
           /\ [s EXCEPT !.at = d, !.pc = pc] \in WorkerState
           /\ [s EXCEPT !.at = d, !.pc = pc].at = d
           /\ [s EXCEPT !.at = d, !.pc = pc].pc = pc
<1>1. pc \in {"idle", "select", "claim", "send"} \cup Results
  OBVIOUS
<1> QED BY <1>1 DEF WorkerState

\* Only the row of d is written.
LEMMA SetDeliveryRow ==
    ASSUME delivery \in [Deliveries -> DeliveryRow], NEW d \in Deliveries,
           NEW st \in DeliveryStatus, NEW next \in NextAttempt, SetDelivery(d, st, next)
    PROVE  /\ delivery' \in [Deliveries -> DeliveryRow]
           /\ delivery'[d].st = st
           /\ \A e \in Deliveries : e # d => delivery'[e] = delivery[e]
BY DEF SetDelivery, DeliveryRow

LEMMA SetLastType ==
    ASSUME NEW d \in Deliveries, tries[d] \in Seq(TryStatus), NEW st \in TryStatus
    PROVE  /\ SetLast(d, st) \in Seq(TryStatus)
           /\ tries[d] # <<>> => SetLast(d, st) # <<>>
<1> DEFINE s == tries[d]
           t == SetLast(d, st)
<1>1. s \in [1 .. Len(s) -> TryStatus] /\ Len(s) \in Nat
  OBVIOUS
<1>2. t \in [1 .. Len(s) -> TryStatus]
  BY <1>1 DEF SetLast
<1>3. t \in Seq(TryStatus) /\ Len(t) = Len(s)
  BY <1>1, <1>2
<1>4. s # <<>> => t # <<>>
  BY <1>1, <1>3
<1> QED BY <1>3, <1>4

\* Whatever a worker heard, it has a status to write.
LEMMA OutcomeType ==
    ASSUME NEW result \in Results
    PROVE  /\ Outcome(result) \in {"succeeded", "failed", "uncertain"}
           /\ Outcome(result) = "succeeded" => result = "ok"
           /\ Outcome(result) = "failed" => result \in {"transient", "permanent"}
BY DEF Outcome, Results

\* The connection keeps its type whatever an attempt's end writes on it.
LEMMA BreakerType ==
    ASSUME NEW c \in ConnectionRow
    PROVE  AfterFailure(c) \in ConnectionRow /\ AfterSuccess(c) \in ConnectionRow
BY DEF AfterFailure, AfterSuccess, ConnectionRow, ConnectionStatus

(***************************************************************************)
(* Types                                                                   *)
(***************************************************************************)

LEMMA TypeInit == Init => TypeOK
BY IdleType DEF Init, TypeOK, ConnectionRow, DeliveryRow, ConnectionStatus, DeliveryStatus,
                NextAttempt

LEMMA TypeStutter == TypeOK /\ UNCHANGED vars => TypeOK'
BY DEF TypeOK, vars

LEMMA RecoverType ==
    ASSUME TypeOK, NEW w \in Workers, RecoverExpiredDeliveryLeases(w)
    PROVE  TypeOK'
<1>1. worker' \in [Workers -> WorkerState]
  <2>1. [worker[w] EXCEPT !.pc = "select"] \in WorkerState
    BY DEF TypeOK, WorkerState
  <2>2. worker' = [worker EXCEPT ![w] = [worker[w] EXCEPT !.pc = "select"]]
    BY DEF RecoverExpiredDeliveryLeases
  <2> QED BY <2>1, <2>2 DEF TypeOK
<1>2. "uncertain" \in TryStatus
  BY DEF TryStatus
<1>3. tries' \in [Deliveries -> Seq(TryStatus)]
  BY <1>2, SetLastType DEF RecoverExpiredDeliveryLeases, TypeOK
<1>4. delivery' \in [Deliveries -> DeliveryRow]
  BY DEF RecoverExpiredDeliveryLeases, TypeOK, RecoveredDelivery, DeliveryRow,
         DeliveryStatus, NextAttempt
<1> QED BY <1>1, <1>3, <1>4 DEF RecoverExpiredDeliveryLeases, TypeOK, reconcileVars

LEMMA SelectType ==
    ASSUME TypeOK, NEW w \in Workers, SelectBatch(w)
    PROVE  TypeOK'
<1>1. PICK batch \in Batches :
          worker' = [worker EXCEPT ![w] =
              IF batch = {} THEN Idle ELSE [todo |-> batch, at |-> NoDelivery, pc |-> "claim"]]
  BY DEF SelectBatch
<1>2. batch \subseteq Deliveries
  BY DEF Batches, DueDeliveries, FreshDeliveries
<1>3. [todo |-> batch, at |-> NoDelivery, pc |-> "claim"] \in WorkerState
  BY <1>2 DEF WorkerState
<1>4. worker' \in [Workers -> WorkerState]
  BY <1>1, <1>3, IdleType DEF TypeOK
<1> QED BY <1>4 DEF SelectBatch, TypeOK, reconcileVars

LEMMA ClaimType ==
    ASSUME TypeOK, NEW w \in Workers, NEW d \in Deliveries, ClaimDelivery(w, d)
    PROVE  TypeOK'
<1>1. worker' \in [Workers -> WorkerState]
  <2>1. worker[w] \in WorkerState
    BY DEF TypeOK
  <2>2. [worker[w] EXCEPT !.at = d, !.pc = "send"] \in WorkerState
    BY <2>1, WorkerMoves
  <2>3. worker' = [worker EXCEPT ![w] = [worker[w] EXCEPT !.at = d, !.pc = "send"]]
    BY DEF ClaimDelivery, TypeOK
  <2> QED BY <2>2, <2>3 DEF TypeOK
<1>2. "sending" \in TryStatus /\ "sending" \in DeliveryStatus /\ "unset" \in NextAttempt
  BY DEF TryStatus, DeliveryStatus, NextAttempt
<1>3. tries' \in [Deliveries -> Seq(TryStatus)]
  BY <1>2 DEF ClaimDelivery, TypeOK
<1>4. delivery' \in [Deliveries -> DeliveryRow]
  BY <1>2, SetDeliveryRow DEF ClaimDelivery, TypeOK
<1> QED BY <1>1, <1>3, <1>4 DEF ClaimDelivery, TypeOK, reconcileVars

LEMMA SkipType ==
    ASSUME TypeOK, NEW w \in Workers, NEW d \in Deliveries, SkipDelivery(w, d)
    PROVE  TypeOK'
<1>1. worker' \in [Workers -> WorkerState]
  BY WithoutDeliveryType DEF SkipDelivery, TypeOK
<1> QED BY <1>1 DEF SkipDelivery, TypeOK, reconcileVars

LEMMA SendType ==
    ASSUME TypeOK, HoldingInv, NEW w \in Workers, Send(w)
    PROVE  TypeOK'
<1>1. worker' \in [Workers -> WorkerState]
  <2>1. worker[w] \in WorkerState /\ worker[w].at \in Deliveries
    BY DEF Send, TypeOK, HoldingInv
  <2>2. PICK result \in Results :
            worker' = [worker EXCEPT ![w] = [worker[w] EXCEPT !.pc = result]]
    BY DEF Send, TypeOK
  <2>3. [worker[w] EXCEPT !.pc = result] \in WorkerState
    BY <2>1, WorkerMoves
  <2> QED BY <2>2, <2>3 DEF TypeOK
<1>2. \/ UNCHANGED accepted
      \/ accepted' = [accepted EXCEPT ![worker[w].at] = @ + 1]
  BY DEF Send
<1>3. accepted' \in [Deliveries -> Nat]
  <2>1. worker[w].at \in Deliveries
    BY DEF Send, HoldingInv
  <2>2. accepted[worker[w].at] + 1 \in Nat
    BY <2>1 DEF TypeOK
  <2> QED BY <1>2, <2>2 DEF TypeOK
<1> QED BY <1>1, <1>3 DEF Send, TypeOK, reconcileVars

LEMMA FinishType ==
    ASSUME TypeOK, HoldingInv, NEW w \in Workers, FinishAttempt(w)
    PROVE  TypeOK'
<1> DEFINE d == worker[w].at
           outcome == Outcome(worker[w].pc)
<1>1. d \in Deliveries /\ worker[w].pc \in Results
  BY DEF FinishAttempt, HoldingInv
<1>2. outcome \in TryStatus /\ outcome \in DeliveryStatus
  BY <1>1, OutcomeType DEF TryStatus, DeliveryStatus
<1>3. worker' \in [Workers -> WorkerState]
  BY WithoutDeliveryType DEF FinishAttempt, TypeOK
<1>4. tries' \in [Deliveries -> Seq(TryStatus)]
  BY <1>1, <1>2, SetLastType DEF FinishAttempt, TypeOK
<1>5. delivery' \in [Deliveries -> DeliveryRow]
  <2>1. \E next \in NextAttempt : SetDelivery(d, outcome, next)
    BY DEF FinishAttempt, NextAttempt
  <2> QED BY <2>1, <1>1, <1>2, SetDeliveryRow DEF TypeOK
<1>6. connection' \in [Connections -> ConnectionRow]
  <2>1. ConnectionOf[d] \in Connections
    BY <1>1, ConnectionAssumption
  <2>2. connection[ConnectionOf[d]] \in ConnectionRow
    BY <2>1 DEF TypeOK
  <2> HIDE DEF d
  <2>3. PICK row \in ConnectionRow : connection' = [connection EXCEPT ![ConnectionOf[d]] = row]
    BY <2>2, BreakerType DEF FinishAttempt, d
  <2> QED BY <2>1, <2>3 DEF TypeOK
<1> QED BY <1>3, <1>4, <1>5, <1>6 DEF FinishAttempt, TypeOK, reconcileVars

LEMMA DiesType ==
    ASSUME TypeOK, HoldingInv, NEW w \in Workers, WorkerDies(w)
    PROVE  TypeOK'
<1>1. worker' \in [Workers -> WorkerState]
  BY IdleType DEF WorkerDies, TypeOK
<1>2. accepted' \in [Deliveries -> Nat]
  BY DEF WorkerDies, TypeOK
<1> QED BY <1>1, <1>2 DEF WorkerDies, TypeOK, reconcileVars

LEMMA DeliveryStepType ==
    ASSUME TypeOK, NEW d \in Deliveries, DeliveryStep(d)
    PROVE  TypeOK'
<1>1. CASE CreateDelivery(d)
  <2>1. "queued" \in DeliveryStatus /\ "unset" \in NextAttempt
    BY DEF DeliveryStatus, NextAttempt
  <2> QED BY <1>1, <2>1, SetDeliveryRow DEF CreateDelivery, TypeOK, reconcileVars
<1>2. CASE LeaseExpires(d)
  BY <1>2 DEF LeaseExpires, TypeOK, reconcileVars
<1>3. CASE BackoffElapses(d)
  <2>1. delivery[d].st \in DeliveryStatus /\ "due" \in NextAttempt
    BY DEF TypeOK, DeliveryRow, NextAttempt
  <2> QED BY <1>3, <2>1, SetDeliveryRow DEF BackoffElapses, TypeOK, reconcileVars
<1> QED BY <1>1, <1>2, <1>3 DEF DeliveryStep

LEMMA ReconcilerStepType ==
    ASSUME TypeOK, ReconcilingInv, NEW r \in Reconcilers, ReconcilerStep(r)
    PROVE  TypeOK'
<1>1. ASSUME NEW d \in Deliveries, SelectUncertain(r, d) PROVE TypeOK'
  <2>1. [at |-> d, pc |-> "selected"] \in ReconcilerState
    BY DEF ReconcilerState
  <2> QED BY <1>1, <2>1 DEF SelectUncertain, TypeOK, dispatchVars
<1>2. CASE OpenRun(r)
  <2>1. [reconciler[r] EXCEPT !.pc = "ask"] \in ReconcilerState
    BY DEF TypeOK, ReconcilerState
  <2>2. run' \in [Deliveries -> {"none", "running", "succeeded", "failed", "uncertain"}]
    BY <1>2 DEF OpenRun, TypeOK
  <2>3. reconciler' \in [Reconcilers -> ReconcilerState]
    <3>1. reconciler' = [reconciler EXCEPT ![r] = [reconciler[r] EXCEPT !.pc = "ask"]]
              \/ reconciler' = [reconciler EXCEPT ![r] = NotReconciling]
      BY <1>2 DEF OpenRun
    <3> QED BY <2>1, <3>1, IdleType DEF TypeOK
  <2> QED BY <1>2, <2>2, <2>3 DEF OpenRun, TypeOK, dispatchVars
<1>3. CASE AskAdapter(r)
  <2>1. reconciler' \in [Reconcilers -> ReconcilerState]
    <3>1. PICK answer \in {"uncertain", "succeeded", "failed"} :
              reconciler' = [reconciler EXCEPT ![r] = [reconciler[r] EXCEPT !.pc = answer]]
      BY <1>3 DEF AskAdapter
    <3>2. [reconciler[r] EXCEPT !.pc = answer] \in ReconcilerState
      BY DEF TypeOK, ReconcilerState
    <3> QED BY <3>1, <3>2 DEF TypeOK
  <2> QED BY <1>3, <2>1 DEF AskAdapter, TypeOK, dispatchVars
<1>4. CASE SaveReconciledDelivery(r)
  <2>1. reconciler' \in [Reconcilers -> ReconcilerState]
    <3>1. reconciler' = [reconciler EXCEPT ![r] = [reconciler[r] EXCEPT !.pc = "save_run"]]
      BY <1>4 DEF SaveReconciledDelivery
    <3>2. [reconciler[r] EXCEPT !.pc = "save_run"] \in ReconcilerState
      BY DEF TypeOK, ReconcilerState
    <3> QED BY <3>1, <3>2 DEF TypeOK
  <2>2. reconciler[r].at \in Deliveries
    BY <1>4 DEF SaveReconciledDelivery, ReconcilingInv
  <2>3. "succeeded" \in DeliveryStatus /\ delivery[reconciler[r].at].next \in NextAttempt
    BY <2>2 DEF TypeOK, DeliveryRow, DeliveryStatus
  <2>4. delivery' \in [Deliveries -> DeliveryRow]
    BY <1>4, <2>2, <2>3, SetDeliveryRow DEF SaveReconciledDelivery, TypeOK
  <2> QED BY <1>4, <2>1, <2>4 DEF SaveReconciledDelivery, TypeOK
<1>5. CASE SaveRun(r)
  <2>1. reconciler' \in [Reconcilers -> ReconcilerState]
    BY <1>5, IdleType DEF SaveRun, TypeOK
  <2>2. run' \in [Deliveries -> {"none", "running", "succeeded", "failed", "uncertain"}]
    BY <1>5 DEF SaveRun, TypeOK
  <2> QED BY <1>5, <2>1, <2>2 DEF SaveRun, TypeOK, dispatchVars
<1>6. CASE ReconcilerDies(r)
  BY <1>6, IdleType DEF ReconcilerDies, TypeOK, dispatchVars
<1> QED BY <1>1, <1>2, <1>3, <1>4, <1>5, <1>6 DEF ReconcilerStep

LEMMA TypeStep ==
    ASSUME TypeOK, HoldingInv, ReconcilingInv, Next
    PROVE  TypeOK'
<1>1. ASSUME NEW w \in Workers, WorkerStep(w) PROVE TypeOK'
  BY <1>1, RecoverType, SelectType, ClaimType, SkipType, SendType, FinishType, DiesType
     DEF WorkerStep
<1>2. ASSUME NEW c \in Connections, SetConnectionStatus(c) PROVE TypeOK'
  <2>1. PICK st \in AdminStatuses :
            connection' = [connection EXCEPT ![c] = [connection[c] EXCEPT !.status = st]]
    BY <1>2 DEF SetConnectionStatus
  <2>2. [connection[c] EXCEPT !.status = st] \in ConnectionRow
    BY AdminAssumption DEF TypeOK, ConnectionRow
  <2>3. connection' \in [Connections -> ConnectionRow]
    BY <2>1, <2>2 DEF TypeOK
  <2> QED BY <1>2, <2>3 DEF SetConnectionStatus, TypeOK, reconcileVars
<1> QED BY <1>1, <1>2, DeliveryStepType, ReconcilerStepType DEF Next

(***************************************************************************)
(* The invariant is inductive                                              *)
(***************************************************************************)

LEMMA InvInit == Init => Inv
BY IdleType, NoDeliveryAssumption
   DEF Init, Inv, HoldingInv, AloneInv, SendingInv, AnswerInv, AcceptInv, ReconcilingInv,
       Idle, NotReconciling, Results

LEMMA InvStutter == Inv /\ UNCHANGED vars => Inv'
BY DEF vars, Inv, HoldingInv, AloneInv, SendingInv, AnswerInv, AcceptInv, ReconcilingInv

\* A step that writes neither deliveries, attempts, workers nor acceptances.
LEMMA DispatchFrame ==
    ASSUME DispatchInv, UNCHANGED <<delivery, tries, lapsed, worker, accepted>>
    PROVE  DispatchInv'
BY DEF DispatchInv, HoldingInv, AloneInv, SendingInv, AnswerInv, AcceptInv

\* A step of anyone but a reconciler: what is under reconciliation stays as it is.
LEMMA ReconcilingFrame ==
    ASSUME ReconcilingInv, UNCHANGED reconciler,
           \A d \in Deliveries :
               delivery[d].st \in {"uncertain", "succeeded"} =>
                   /\ delivery'[d].st \in {"uncertain", "succeeded"}
                   /\ accepted'[d] = accepted[d]
    PROVE  ReconcilingInv'
BY DEF ReconcilingInv

LEMMA CreateInv ==
    ASSUME TypeOK, Inv, NEW d \in Deliveries, CreateDelivery(d)
    PROVE  Inv'
<1>1. /\ delivery'[d].st = "queued"
      /\ \A e \in Deliveries : e # d => delivery'[e] = delivery[e]
  BY SetDeliveryRow DEF CreateDelivery, TypeOK, DeliveryStatus, NextAttempt
<1>2. HoldingInv' /\ AloneInv' /\ AnswerInv'
  BY <1>1 DEF CreateDelivery, Inv, HoldingInv, AloneInv, AnswerInv
<1>3. SendingInv' /\ AcceptInv'
  BY <1>1 DEF CreateDelivery, Inv, SendingInv, AcceptInv
<1>4. ReconcilingInv'
  BY <1>1, ReconcilingFrame DEF CreateDelivery, Inv, reconcileVars
<1> QED BY <1>2, <1>3, <1>4 DEF Inv

LEMMA ExpireInv ==
    ASSUME TypeOK, Inv, NEW d \in Deliveries, LeaseExpires(d)
    PROVE  Inv'
<1>1. HoldingInv' /\ AloneInv' /\ AnswerInv'
  BY DEF LeaseExpires, Inv, TypeOK, HoldingInv, AloneInv, AnswerInv
<1>2. SendingInv' /\ AcceptInv'
  BY DEF LeaseExpires, Inv, TypeOK, SendingInv, AcceptInv
<1>3. ReconcilingInv'
  BY ReconcilingFrame DEF LeaseExpires, Inv, reconcileVars
<1> QED BY <1>1, <1>2, <1>3 DEF Inv

LEMMA BackoffInv ==
    ASSUME TypeOK, Inv, NEW d \in Deliveries, BackoffElapses(d)
    PROVE  Inv'
<1>1. /\ delivery'[d].st = delivery[d].st
      /\ \A e \in Deliveries : e # d => delivery'[e] = delivery[e]
  BY SetDeliveryRow DEF BackoffElapses, TypeOK, DeliveryRow, NextAttempt
<1>2. HoldingInv' /\ AloneInv' /\ AnswerInv'
  BY <1>1 DEF BackoffElapses, Inv, HoldingInv, AloneInv, AnswerInv
<1>3. SendingInv' /\ AcceptInv'
  BY <1>1 DEF BackoffElapses, Inv, SendingInv, AcceptInv
<1>4. ReconcilingInv'
  BY <1>1, ReconcilingFrame DEF BackoffElapses, Inv, reconcileVars
<1> QED BY <1>2, <1>3, <1>4 DEF Inv

\* What is recovered was being sent by nobody.
LEMMA RecoverInv ==
    ASSUME TypeOK, Inv, NEW w \in Workers, RecoverExpiredDeliveryLeases(w)
    PROVE  Inv'
<1>1. \A d \in Deliveries :
          /\ ~lapsed'[d]
          /\ lapsed[d] => delivery[d].st = "sending" /\ delivery'[d].st = "uncertain"
          /\ ~lapsed[d] => delivery'[d] = delivery[d] /\ tries'[d] = tries[d]
  BY DEF RecoverExpiredDeliveryLeases, RecoveredDelivery, Inv, SendingInv
<1>2. /\ worker[w].at = NoDelivery /\ worker'[w].at = NoDelivery
      /\ worker'[w].pc = "select"
      /\ \A v \in Workers : v # w => worker'[v] = worker[v]
  BY IdleType DEF RecoverExpiredDeliveryLeases, TypeOK, WorkerState
<1>3. HoldingInv'
  BY <1>1, <1>2 DEF Inv, HoldingInv, Results
<1>4. AloneInv'
  BY <1>2 DEF Inv, AloneInv
<1>5. SendingInv'
  BY <1>1 DEF Inv, SendingInv
<1>6. AnswerInv'
  BY <1>2 DEF RecoverExpiredDeliveryLeases, Inv, AnswerInv
<1>7. AcceptInv'
  BY <1>1 DEF RecoverExpiredDeliveryLeases, Inv, AcceptInv
<1>8. ReconcilingInv'
  BY <1>1, ReconcilingFrame DEF RecoverExpiredDeliveryLeases, Inv, reconcileVars
<1> QED BY <1>3, <1>4, <1>5, <1>6, <1>7, <1>8 DEF Inv

\* A worker that selects a batch or skips a delivery goes on without one.
LEMMA GoesOnInv ==
    ASSUME TypeOK, Inv, NEW w \in Workers,
           UNCHANGED <<delivery, tries, lapsed, accepted, reconciler>>,
           worker'[w].at = NoDelivery, worker'[w].pc \in {"idle", "claim"},
           \A v \in Workers : v # w => worker'[v] = worker[v]
    PROVE  Inv'
<1>1. HoldingInv' /\ AloneInv' /\ AnswerInv'
  BY DEF Inv, HoldingInv, AloneInv, AnswerInv, Results
<1>2. SendingInv' /\ AcceptInv' /\ ReconcilingInv'
  BY DEF Inv, SendingInv, AcceptInv, ReconcilingInv
<1> QED BY <1>1, <1>2 DEF Inv

LEMMA SelectInv ==
    ASSUME TypeOK, Inv, NEW w \in Workers, SelectBatch(w)
    PROVE  Inv'
<1>1. /\ worker'[w].at = NoDelivery /\ worker'[w].pc \in {"idle", "claim"}
      /\ \A v \in Workers : v # w => worker'[v] = worker[v]
  BY IdleType DEF SelectBatch, TypeOK
<1> QED BY <1>1, GoesOnInv DEF SelectBatch, reconcileVars

LEMMA SkipInv ==
    ASSUME TypeOK, Inv, NEW w \in Workers, NEW d \in Deliveries, SkipDelivery(w, d)
    PROVE  Inv'
<1>1. /\ worker'[w].at = NoDelivery /\ worker'[w].pc \in {"idle", "claim"}
      /\ \A v \in Workers : v # w => worker'[v] = worker[v]
  BY WithoutDeliveryType DEF SkipDelivery, TypeOK
<1> QED BY <1>1, GoesOnInv DEF SkipDelivery, reconcileVars

\* What is claimed is queued or failed: nobody holds it, and it was not accepted.
LEMMA ClaimInv ==
    ASSUME TypeOK, Inv, NEW w \in Workers, NEW d \in Deliveries, ClaimDelivery(w, d)
    PROVE  Inv'
<1>1. delivery[d].st \in {"queued", "failed"}
  BY DEF ClaimDelivery, Claimable
<1>2. /\ delivery'[d].st = "sending"
      /\ \A e \in Deliveries : e # d => delivery'[e] = delivery[e]
  BY SetDeliveryRow DEF ClaimDelivery, TypeOK, DeliveryStatus, NextAttempt
<1>3. /\ worker'[w].at = d /\ worker'[w].pc = "send"
      /\ \A v \in Workers : v # w => worker'[v] = worker[v]
  <2>1. worker[w] \in WorkerState /\ worker \in [Workers -> WorkerState]
    BY DEF TypeOK
  <2>2. worker' = [worker EXCEPT ![w] = [worker[w] EXCEPT !.at = d, !.pc = "send"]]
    BY <2>1 DEF ClaimDelivery
  <2> DEFINE s == [worker[w] EXCEPT !.at = d, !.pc = "send"]
  <2>3. s.at = d /\ s.pc = "send"
    BY <2>1 DEF WorkerState
  <2> HIDE DEF s
  <2>4. worker' = [worker EXCEPT ![w] = s]
    BY <2>2 DEF s
  <2> QED BY <2>1, <2>3, <2>4
<1>4. ~lapsed[d] /\ \A v \in Workers : worker[v].at # d
  BY <1>1, NoDeliveryAssumption DEF Inv, SendingInv, HoldingInv
<1>5. HoldingInv'
  <2>1. lapsed' = lapsed
    BY DEF ClaimDelivery
  <2> SUFFICES ASSUME NEW v \in Workers
               PROVE  IF worker'[v].pc \in {"send"} \cup Results
                      THEN /\ worker'[v].at \in Deliveries
                           /\ delivery'[worker'[v].at].st = "sending"
                           /\ ~lapsed'[worker'[v].at]
                      ELSE worker'[v].at = NoDelivery
    BY DEF HoldingInv
  <2>2. CASE v = w
    BY <1>2, <1>3, <1>4, <2>1, <2>2
  <2>3. CASE v # w
    <3>1. worker'[v] = worker[v] /\ worker[v].at # d
      BY <1>3, <1>4, <2>3
    <3>2. IF worker[v].pc \in {"send"} \cup Results
          THEN /\ worker[v].at \in Deliveries
               /\ delivery[worker[v].at].st = "sending"
               /\ ~lapsed[worker[v].at]
          ELSE worker[v].at = NoDelivery
      BY DEF Inv, HoldingInv
    <3> QED BY <1>2, <2>1, <3>1, <3>2
  <2> QED BY <2>2, <2>3
<1>6. AloneInv'
  BY <1>3, <1>4 DEF Inv, AloneInv
<1>7. SendingInv'
  <2>1. tries'[d] # <<>> /\ \A e \in Deliveries : e # d => tries'[e] = tries[e]
    BY DEF ClaimDelivery, TypeOK
  <2> QED BY <1>2, <2>1 DEF ClaimDelivery, Inv, SendingInv
<1>8. AnswerInv'
  <2>1. accepted' = accepted /\ accepted[d] = 0
    BY <1>1 DEF ClaimDelivery, Inv, AcceptInv
  <2> SUFFICES ASSUME NEW v \in Workers
               PROVE  /\ worker'[v].pc \in {"send", "transient", "permanent"} =>
                             accepted'[worker'[v].at] = 0
                      /\ worker'[v].pc = "ok" => accepted'[worker'[v].at] = 1
    BY DEF AnswerInv
  <2>2. CASE v = w
    BY <1>3, <2>1, <2>2
  <2>3. CASE v # w
    BY <1>3, <2>1, <2>3 DEF Inv, AnswerInv
  <2> QED BY <2>2, <2>3
<1>9. AcceptInv'
  BY <1>1, <1>2 DEF ClaimDelivery, Inv, AcceptInv
<1>10. ReconcilingInv'
  BY <1>1, <1>2, ReconcilingFrame DEF ClaimDelivery, Inv, reconcileVars
<1> QED BY <1>5, <1>6, <1>7, <1>8, <1>9, <1>10 DEF Inv

\* The external system accepts a delivery that is being sent for the first time.
LEMMA SendInv ==
    ASSUME TypeOK, Inv, NEW w \in Workers, Send(w)
    PROVE  Inv'
<1> DEFINE d == worker[w].at
<1>1. /\ d \in Deliveries /\ delivery[d].st = "sending" /\ ~lapsed[d] /\ accepted[d] = 0
  BY DEF Send, Inv, HoldingInv, AnswerInv
<1>2. /\ worker'[w].at = d /\ worker'[w].pc \in Results
      /\ worker'[w].pc = "ok" => accepted'[d] = 1
      /\ worker'[w].pc \in {"transient", "permanent"} => accepted'[d] = 0
      /\ \A v \in Workers : v # w => worker'[v] = worker[v]
  BY <1>1 DEF Send, TypeOK, WorkerState
<1>3. accepted'[d] \in {0, 1} /\ \A e \in Deliveries : e # d => accepted'[e] = accepted[e]
  BY <1>1 DEF Send, TypeOK
<1>4. \A v \in Workers : v # w => worker[v].at # d
  BY <1>1, NoDeliveryAssumption DEF Inv, AloneInv
<1>5. HoldingInv'
  BY <1>1, <1>2 DEF Send, Inv, HoldingInv
<1>6. AloneInv'
  BY <1>2 DEF Inv, AloneInv
<1>7. SendingInv'
  BY DEF Send, Inv, SendingInv
<1>8. AnswerInv'
  <2> SUFFICES ASSUME NEW v \in Workers, v # w
               PROVE  /\ worker[v].pc \in {"send", "transient", "permanent"}
                              => accepted'[worker[v].at] = 0
                      /\ worker[v].pc = "ok" => accepted'[worker[v].at] = 1
    BY <1>2 DEF AnswerInv, Results
  <2>1. worker[v].pc \in {"send"} \cup Results => worker[v].at \in Deliveries
    BY DEF Inv, HoldingInv
  <2> QED BY <1>3, <1>4, <2>1 DEF Inv, AnswerInv, Results
<1>9. AcceptInv'
  BY <1>1, <1>3 DEF Send, Inv, AcceptInv
<1>10. ReconcilingInv'
  BY <1>1, <1>3, ReconcilingFrame DEF Send, Inv, reconcileVars
<1> QED BY <1>5, <1>6, <1>7, <1>8, <1>9, <1>10 DEF Inv

LEMMA FinishInv ==
    ASSUME TypeOK, Inv, NEW w \in Workers, FinishAttempt(w)
    PROVE  Inv'
<1> DEFINE d == worker[w].at
           outcome == Outcome(worker[w].pc)
<1>1. /\ d \in Deliveries /\ delivery[d].st = "sending" /\ ~lapsed[d]
      /\ worker[w].pc \in Results
  BY DEF FinishAttempt, Inv, HoldingInv
<1>2. /\ outcome \in {"succeeded", "failed", "uncertain"}
      /\ outcome = "succeeded" => accepted[d] = 1
      /\ outcome = "failed" => accepted[d] = 0
  BY <1>1, OutcomeType DEF Inv, AnswerInv
<1>3. /\ delivery'[d].st = outcome
      /\ \A e \in Deliveries : e # d => delivery'[e] = delivery[e]
  <2>1. \E next \in NextAttempt : SetDelivery(d, outcome, next)
    BY DEF FinishAttempt, NextAttempt
  <2>2. outcome \in DeliveryStatus
    BY <1>2 DEF DeliveryStatus
  <2> QED BY <1>1, <2>1, <2>2, SetDeliveryRow DEF TypeOK
<1>4. /\ worker'[w].at = NoDelivery /\ worker'[w].pc \in {"idle", "claim"}
      /\ \A v \in Workers : v # w => worker'[v] = worker[v]
  BY WithoutDeliveryType DEF FinishAttempt, TypeOK
<1>5. \A v \in Workers : v # w => worker[v].at # d
  BY <1>1, NoDeliveryAssumption DEF Inv, AloneInv
<1>6. HoldingInv'
  <2>1. lapsed' = lapsed
    BY DEF FinishAttempt
  <2> SUFFICES ASSUME NEW v \in Workers
               PROVE  IF worker'[v].pc \in {"send"} \cup Results
                      THEN /\ worker'[v].at \in Deliveries
                           /\ delivery'[worker'[v].at].st = "sending"
                           /\ ~lapsed'[worker'[v].at]
                      ELSE worker'[v].at = NoDelivery
    BY DEF HoldingInv
  <2>2. CASE v = w
    BY <1>4, <2>2 DEF Results
  <2>3. CASE v # w
    <3>1. worker'[v] = worker[v] /\ worker[v].at # d
      BY <1>4, <1>5, <2>3
    <3>2. IF worker[v].pc \in {"send"} \cup Results
          THEN /\ worker[v].at \in Deliveries
               /\ delivery[worker[v].at].st = "sending"
               /\ ~lapsed[worker[v].at]
          ELSE worker[v].at = NoDelivery
      BY DEF Inv, HoldingInv
    <3> QED BY <1>3, <2>1, <3>1, <3>2
  <2> QED BY <2>2, <2>3
<1>7. AloneInv'
  BY <1>4 DEF Inv, AloneInv
<1>8. SendingInv'
  <2>1. \A e \in Deliveries : e # d => tries'[e] = tries[e]
    BY <1>1 DEF FinishAttempt, TypeOK
  <2> QED BY <1>1, <1>2, <1>3, <2>1 DEF FinishAttempt, Inv, SendingInv
<1>9. AnswerInv'
  BY <1>4 DEF FinishAttempt, Inv, AnswerInv
<1>10. AcceptInv'
  BY <1>1, <1>2, <1>3 DEF FinishAttempt, Inv, AcceptInv
<1>11. ReconcilingInv'
  BY <1>1, <1>3, ReconcilingFrame DEF FinishAttempt, Inv, reconcileVars
<1> QED BY <1>6, <1>7, <1>8, <1>9, <1>10, <1>11 DEF Inv

\* Like the send it interrupts, a crash leaves the delivery accepted at most once.
LEMMA DiesInv ==
    ASSUME TypeOK, Inv, NEW w \in Workers, WorkerDies(w)
    PROVE  Inv'
<1> DEFINE d == worker[w].at
<1>1. /\ worker'[w].at = NoDelivery /\ worker'[w].pc = "idle"
      /\ \A v \in Workers : v # w => worker'[v] = worker[v]
  BY IdleType DEF WorkerDies, TypeOK
<1>2. CASE UNCHANGED accepted
  <2>1. UNCHANGED <<delivery, tries, lapsed, accepted, reconciler>>
    BY <1>2 DEF WorkerDies, reconcileVars
  <2> QED BY <1>1, <2>1, GoesOnInv
<1>3. CASE worker[w].pc = "send" /\ accepted' = [accepted EXCEPT ![worker[w].at] = @ + 1]
  <2>1. d \in Deliveries /\ delivery[d].st = "sending" /\ accepted[d] = 0
    BY <1>3 DEF Inv, HoldingInv, AnswerInv
  <2>2. accepted'[d] = 1 /\ \A e \in Deliveries : e # d => accepted'[e] = accepted[e]
    BY <1>3, <2>1 DEF TypeOK
  <2>3. \A v \in Workers : v # w => worker[v].at # d
    BY <2>1, NoDeliveryAssumption DEF Inv, AloneInv
  <2>4. HoldingInv' /\ AloneInv'
    BY <1>1 DEF WorkerDies, Inv, HoldingInv, AloneInv, Results
  <2>5. SendingInv'
    BY DEF WorkerDies, Inv, SendingInv
  <2>6. AnswerInv'
    <3> SUFFICES ASSUME NEW v \in Workers, v # w
                 PROVE  /\ worker[v].pc \in {"send", "transient", "permanent"}
                                => accepted'[worker[v].at] = 0
                        /\ worker[v].pc = "ok" => accepted'[worker[v].at] = 1
      BY <1>1 DEF AnswerInv
    <3>1. worker[v].pc \in {"send"} \cup Results => worker[v].at \in Deliveries
      BY DEF Inv, HoldingInv
    <3> QED BY <2>2, <2>3, <3>1 DEF Inv, AnswerInv, Results
  <2>7. AcceptInv'
    BY <2>1, <2>2 DEF WorkerDies, Inv, AcceptInv
  <2>8. ReconcilingInv'
    BY <2>1, <2>2, ReconcilingFrame DEF WorkerDies, Inv, reconcileVars
  <2> QED BY <2>4, <2>5, <2>6, <2>7, <2>8 DEF Inv
<1> QED BY <1>2, <1>3 DEF WorkerDies

LEMMA ReconcilerStepInv ==
    ASSUME TypeOK, Inv, NEW r \in Reconcilers, ReconcilerStep(r)
    PROVE  Inv'
<1>1. ASSUME NEW d \in Deliveries, SelectUncertain(r, d) PROVE Inv'
  <2>1. ReconcilingInv'
    BY <1>1 DEF SelectUncertain, Inv, ReconcilingInv, TypeOK, dispatchVars
  <2> QED BY <1>1, <2>1, DispatchFrame DEF SelectUncertain, Inv, DispatchInv, dispatchVars
<1>2. CASE OpenRun(r)
  <2>1. \/ reconciler' = [reconciler EXCEPT ![r] = [reconciler[r] EXCEPT !.pc = "ask"]]
        \/ reconciler' = [reconciler EXCEPT ![r] = NotReconciling]
    BY <1>2 DEF OpenRun
  <2>2. UNCHANGED <<delivery, accepted>> /\ reconciler[r].pc = "selected"
    BY <1>2 DEF OpenRun, dispatchVars
  <2>3. ASSUME reconciler' = [reconciler EXCEPT ![r] = [reconciler[r] EXCEPT !.pc = "ask"]]
       PROVE  ReconcilingInv'
    BY <2>2, <2>3 DEF Inv, ReconcilingInv, TypeOK, ReconcilerState
  <2>4. ASSUME reconciler' = [reconciler EXCEPT ![r] = NotReconciling]
       PROVE  ReconcilingInv'
    BY <2>2, <2>4, IdleType DEF Inv, ReconcilingInv, TypeOK
  <2>5. ReconcilingInv'
    BY <2>1, <2>3, <2>4
  <2> QED BY <1>2, <2>5, DispatchFrame DEF OpenRun, Inv, DispatchInv, dispatchVars
<1>3. CASE AskAdapter(r)
  <2>1. accepted[reconciler[r].at] > 0 => accepted[reconciler[r].at] = 1
    BY <1>3 DEF AskAdapter, Inv, ReconcilingInv, AcceptInv
  <2>2. ReconcilingInv'
    BY <1>3, <2>1 DEF AskAdapter, Inv, ReconcilingInv, TypeOK, ReconcilerState, dispatchVars
  <2> QED BY <1>3, <2>2, DispatchFrame DEF AskAdapter, Inv, DispatchInv, dispatchVars
<1>4. CASE SaveReconciledDelivery(r)
  <2> DEFINE d == reconciler[r].at
  <2>1. /\ d \in Deliveries /\ delivery[d].st \in {"uncertain", "succeeded"}
        /\ accepted[d] = 1
    BY <1>4 DEF SaveReconciledDelivery, Inv, ReconcilingInv
  <2>2. /\ delivery'[d].st = "succeeded"
        /\ \A e \in Deliveries : e # d => delivery'[e] = delivery[e]
    <3>1. "succeeded" \in DeliveryStatus /\ delivery[d].next \in NextAttempt
      BY <2>1 DEF TypeOK, DeliveryRow, DeliveryStatus
    <3> QED BY <1>4, <2>1, <3>1, SetDeliveryRow DEF SaveReconciledDelivery, TypeOK
  <2>3. HoldingInv' /\ AloneInv' /\ AnswerInv'
    BY <1>4, <2>1, <2>2 DEF SaveReconciledDelivery, Inv, HoldingInv, AloneInv, AnswerInv
  <2>4. SendingInv' /\ AcceptInv'
    BY <1>4, <2>1, <2>2 DEF SaveReconciledDelivery, Inv, SendingInv, AcceptInv
  <2>5. ReconcilingInv'
    <3>1. accepted' = accepted
      BY <1>4 DEF SaveReconciledDelivery
    <3>2. /\ reconciler'[r].at = d /\ reconciler'[r].pc = "save_run"
          /\ \A q \in Reconcilers : q # r => reconciler'[q] = reconciler[q]
      BY <1>4 DEF SaveReconciledDelivery, TypeOK, ReconcilerState
    <3> SUFFICES ASSUME NEW q \in Reconcilers, reconciler'[q].pc # "idle"
                 PROVE  /\ reconciler'[q].at \in Deliveries
                        /\ delivery'[reconciler'[q].at].st \in {"uncertain", "succeeded"}
                        /\ reconciler'[q].pc = "succeeded" => accepted'[reconciler'[q].at] = 1
      BY DEF ReconcilingInv
    <3>3. CASE q = r
      BY <2>1, <2>2, <3>1, <3>2, <3>3
    <3>4. CASE q # r
      BY <2>1, <2>2, <3>1, <3>2, <3>4 DEF Inv, ReconcilingInv
    <3> QED BY <3>3, <3>4
  <2> QED BY <2>3, <2>4, <2>5 DEF Inv
<1>5. CASE SaveRun(r)
  <2>1. ReconcilingInv'
    BY <1>5, IdleType DEF SaveRun, Inv, ReconcilingInv, TypeOK, dispatchVars
  <2> QED BY <1>5, <2>1, DispatchFrame DEF SaveRun, Inv, DispatchInv, dispatchVars
<1>6. CASE ReconcilerDies(r)
  <2>1. ReconcilingInv'
    BY <1>6, IdleType DEF ReconcilerDies, Inv, ReconcilingInv, TypeOK, dispatchVars
  <2> QED BY <1>6, <2>1, DispatchFrame DEF ReconcilerDies, Inv, DispatchInv, dispatchVars
<1> QED BY <1>1, <1>2, <1>3, <1>4, <1>5, <1>6 DEF ReconcilerStep

LEMMA InvStep ==
    ASSUME TypeOK, Inv, Next
    PROVE  Inv'
<1>1. ASSUME NEW d \in Deliveries, DeliveryStep(d) PROVE Inv'
  BY <1>1, CreateInv, ExpireInv, BackoffInv DEF DeliveryStep
<1>2. ASSUME NEW w \in Workers, WorkerStep(w) PROVE Inv'
  BY <1>2, RecoverInv, SelectInv, ClaimInv, SkipInv, SendInv, FinishInv, DiesInv
     DEF WorkerStep
<1>3. ASSUME NEW c \in Connections, SetConnectionStatus(c) PROVE Inv'
  <2>1. UNCHANGED <<delivery, tries, lapsed, worker, accepted, reconciler>>
    BY <1>3 DEF SetConnectionStatus, reconcileVars
  <2> QED BY <2>1, DispatchFrame, ReconcilingFrame DEF Inv, DispatchInv
<1> QED BY <1>1, <1>2, <1>3, ReconcilerStepInv DEF Next

LEMMA Invariant == Spec => [](TypeOK /\ Inv)
<1>1. TypeOK /\ Inv /\ [Next]_vars => (TypeOK /\ Inv)'
  BY TypeStep, TypeStutter, InvStep, InvStutter DEF Inv
<1> QED BY TypeInit, InvInit, <1>1, PTL DEF Spec

\* The variables keep their types.
THEOREM TypeCorrect == Spec => []TypeOK
BY Invariant, PTL

\* The external system accepts a delivery at most once, whatever workers die,
\* answers are lost, leases expire and administrators do.
THEOREM AcceptedAtMostOnceHolds == Spec => []AcceptedAtMostOnce
<1>1. Inv => AcceptedAtMostOnce
  BY DEF Inv, AcceptInv, AcceptedAtMostOnce
<1> QED BY Invariant, <1>1, PTL

\* What is recorded as succeeded was accepted, what is recorded as failed was not.
THEOREM OutcomeIsTrueHolds == Spec => []OutcomeIsTrue
<1>1. Inv => OutcomeIsTrue
  BY DEF Inv, AcceptInv, OutcomeIsTrue
<1> QED BY Invariant, <1>1, PTL

(***************************************************************************)
(* The run never gets ahead of the delivery                                *)
(***************************************************************************)

\* What succeeded stays, and a reconciler saves a run as succeeded after it saved
\* the delivery.
RunInv ==
    /\ RunNeverAhead
    /\ \A r \in Reconcilers :
          reconciler[r].pc = "save_run" => delivery[reconciler[r].at].st = "succeeded"

SucceededStays ==
    \A d \in Deliveries : delivery[d].st = "succeeded" => delivery'[d].st = "succeeded"

LEMMA SucceededStep ==
    ASSUME TypeOK, Inv, Next
    PROVE  SucceededStays
<1> USE DEF SucceededStays
<1>1. ASSUME NEW d \in Deliveries, DeliveryStep(d) PROVE SucceededStays
  <2>1. CASE CreateDelivery(d)
    BY <2>1 DEF CreateDelivery, SetDelivery, TypeOK
  <2>2. CASE LeaseExpires(d)
    BY <2>2 DEF LeaseExpires
  <2>3. CASE BackoffElapses(d)
    BY <2>3 DEF BackoffElapses, SetDelivery, TypeOK
  <2> QED BY <1>1, <2>1, <2>2, <2>3 DEF DeliveryStep
<1>2. ASSUME NEW w \in Workers, WorkerStep(w) PROVE SucceededStays
  <2>1. CASE RecoverExpiredDeliveryLeases(w)
    BY <2>1 DEF RecoverExpiredDeliveryLeases, Inv, SendingInv
  <2>2. ASSUME NEW d \in Deliveries, ClaimDelivery(w, d) PROVE SucceededStays
    BY <2>2 DEF ClaimDelivery, Claimable, SetDelivery, TypeOK
  <2>3. CASE FinishAttempt(w)
    <3>1. worker[w].at \in Deliveries /\ delivery[worker[w].at].st = "sending"
      BY <2>3 DEF FinishAttempt, Inv, HoldingInv
    <3>2. \A e \in Deliveries : e # worker[w].at => delivery'[e] = delivery[e]
      BY <2>3 DEF FinishAttempt, SetDelivery, TypeOK
    <3> QED BY <3>1, <3>2
  <2>4. UNCHANGED delivery => SucceededStays
    OBVIOUS
  <2> QED
    BY <1>2, <2>1, <2>2, <2>3, <2>4
       DEF WorkerStep, SelectBatch, SkipDelivery, Send, WorkerDies
<1>3. ASSUME NEW r \in Reconcilers, ReconcilerStep(r) PROVE SucceededStays
  <2>1. CASE SaveReconciledDelivery(r)
    BY <2>1 DEF SaveReconciledDelivery, SetDelivery, TypeOK
  <2>2. UNCHANGED delivery => SucceededStays
    OBVIOUS
  <2> QED
    BY <1>3, <2>1, <2>2 DEF ReconcilerStep, SelectUncertain, OpenRun, AskAdapter, SaveRun,
                            ReconcilerDies, dispatchVars
<1>4. ASSUME NEW c \in Connections, SetConnectionStatus(c) PROVE SucceededStays
  BY <1>4 DEF SetConnectionStatus
<1> QED BY <1>1, <1>2, <1>3, <1>4 DEF Next

\* A step that neither saves a run nor sends a reconciler to save one.
LEMMA RunFrame ==
    ASSUME RunInv, ReconcilingInv, SucceededStays,
           \A d \in Deliveries : run'[d] = "succeeded" => run[d] = "succeeded",
           \A r \in Reconcilers :
               reconciler'[r] = reconciler[r] \/ reconciler'[r].pc # "save_run"
    PROVE  RunInv'
BY DEF RunInv, RunNeverAhead, ReconcilingInv, SucceededStays

LEMMA RunStep ==
    ASSUME TypeOK, Inv, RunInv, Next
    PROVE  RunInv'
<1>0. SucceededStays /\ ReconcilingInv
  BY SucceededStep DEF Inv
<1>1. CASE UNCHANGED reconcileVars
  BY <1>0, <1>1, RunFrame DEF reconcileVars
<1>2. ASSUME NEW r \in Reconcilers, ReconcilerStep(r) PROVE RunInv'
  <2>0. reconciler \in [Reconcilers -> ReconcilerState] /\ reconciler[r] \in ReconcilerState
    BY DEF TypeOK
  <2>1. ASSUME NEW d \in Deliveries, SelectUncertain(r, d) PROVE RunInv'
    BY <1>0, <2>0, <2>1, RunFrame DEF SelectUncertain
  <2>2. CASE OpenRun(r)
    <3>1. \A v \in Reconcilers :
             reconciler'[v] = reconciler[v] \/ reconciler'[v].pc # "save_run"
      <4>1. [reconciler[r] EXCEPT !.pc = "ask"].pc = "ask"
        BY <2>0 DEF ReconcilerState
      <4>2. \/ reconciler' = [reconciler EXCEPT ![r] = [reconciler[r] EXCEPT !.pc = "ask"]]
            \/ reconciler' = [reconciler EXCEPT ![r] = NotReconciling]
        BY <2>2 DEF OpenRun
      <4> QED BY <2>0, <4>1, <4>2, IdleType
    <3>2. \A d \in Deliveries : run'[d] = "succeeded" => run[d] = "succeeded"
      BY <2>2 DEF OpenRun, TypeOK
    <3> QED BY <1>0, <3>1, <3>2, RunFrame
  <2>3. CASE AskAdapter(r)
    <3>1. \A v \in Reconcilers :
             reconciler'[v] = reconciler[v] \/ reconciler'[v].pc # "save_run"
      BY <2>0, <2>3 DEF AskAdapter, ReconcilerState
    <3> QED BY <1>0, <2>3, <3>1, RunFrame DEF AskAdapter
  <2>4. CASE SaveReconciledDelivery(r)
    <3>1. /\ reconciler'[r].at = reconciler[r].at
          /\ \A v \in Reconcilers : v # r => reconciler'[v] = reconciler[v]
      BY <2>0, <2>4 DEF SaveReconciledDelivery, ReconcilerState
    <3>2. reconciler[r].at \in Deliveries
      BY <1>0, <2>4 DEF SaveReconciledDelivery, ReconcilingInv
    <3>3. delivery'[reconciler[r].at].st = "succeeded" /\ run' = run
      BY <2>4, <3>2 DEF SaveReconciledDelivery, SetDelivery, TypeOK
    <3>4. \A v \in Reconcilers : reconciler[v].pc = "save_run" => reconciler[v].at \in Deliveries
      BY <1>0 DEF ReconcilingInv
    <3> QED
      BY <1>0, <3>1, <3>3, <3>4 DEF RunInv, RunNeverAhead, SucceededStays
  <2>5. CASE SaveRun(r)
    <3> DEFINE d == reconciler[r].at
    <3>1. d \in Deliveries /\ (reconciler[r].pc = "save_run" => delivery[d].st = "succeeded")
      BY <1>0, <2>5 DEF SaveRun, ReconcilingInv, RunInv
    <3>2. run'[d] = "succeeded" => reconciler[r].pc = "save_run"
      BY <2>5, <3>1 DEF SaveRun, TypeOK
    <3>3. UNCHANGED delivery /\ \A e \in Deliveries : e # d => run'[e] = run[e]
      BY <2>5 DEF SaveRun, dispatchVars, TypeOK
    <3>4. \A v \in Reconcilers :
             reconciler'[v] = reconciler[v] \/ reconciler'[v].pc # "save_run"
      BY <2>0, <2>5, IdleType DEF SaveRun
    <3> QED
      BY <3>1, <3>2, <3>3, <3>4 DEF RunInv, RunNeverAhead
  <2>6. CASE ReconcilerDies(r)
    <3>1. \A v \in Reconcilers :
             reconciler'[v] = reconciler[v] \/ reconciler'[v].pc # "save_run"
      BY <2>0, <2>6, IdleType DEF ReconcilerDies
    <3> QED BY <1>0, <2>6, <3>1, RunFrame DEF ReconcilerDies
  <2> QED BY <1>2, <2>1, <2>2, <2>3, <2>4, <2>5, <2>6 DEF ReconcilerStep
<1> QED
  BY <1>1, <1>2 DEF Next, DeliveryStep, CreateDelivery, LeaseExpires, BackoffElapses,
                    WorkerStep, RecoverExpiredDeliveryLeases, SelectBatch, ClaimDelivery,
                    SkipDelivery, Send, FinishAttempt, WorkerDies, SetConnectionStatus

\* A reconciliation that says it succeeded left a delivery that succeeded, wherever
\* its task died.
THEOREM RunNeverAheadHolds == Spec => []RunNeverAhead
<1>1. Init => RunInv
  BY DEF Init, RunInv, RunNeverAhead, NotReconciling
<1>2. TypeOK /\ Inv /\ RunInv /\ [Next]_vars => RunInv'
  BY RunStep DEF RunInv, RunNeverAhead, vars
<1>3. RunInv => RunNeverAhead
  BY DEF RunInv
<1> QED BY Invariant, <1>1, <1>2, <1>3, PTL DEF Spec

(***************************************************************************)
(* A delivery and its attempts tell the same story                         *)
(***************************************************************************)

\* AttemptsMatchDelivery for a delivery with status st and attempts s.
Story(st, s) ==
    /\ Len(s) <= MaxAttempts
    /\ \A k \in 1 .. Len(s) - 1 : s[k] = "failed"
    /\ st \in {"none", "queued"} <=> s = <<>>
    /\ s # <<>> => \/ s[Len(s)] = st
                   \/ s[Len(s)] = "uncertain" /\ st = "succeeded"

LEMMA StoryIsMatch ==
    AttemptsMatchDelivery <=> \A d \in Deliveries : Story(delivery[d].st, tries[d])
BY DEF AttemptsMatchDelivery, Story, Last

\* The status a transaction writes on a delivery and on its last attempt.
LEMMA StoryEnds ==
    ASSUME NEW d \in Deliveries, tries[d] \in Seq(TryStatus), tries[d] # <<>>,
           NEW old, Story(old, tries[d]), NEW st \in TryStatus
    PROVE  Story(st, SetLast(d, st))
<1> DEFINE s == tries[d]
           t == SetLast(d, st)
<1>1. s \in [1 .. Len(s) -> TryStatus] /\ Len(s) \in Nat /\ Len(s) >= 1
  OBVIOUS
<1>2. t \in [1 .. Len(s) -> TryStatus] /\ t[Len(s)] = st
      /\ \A k \in 1 .. Len(s) - 1 : t[k] = s[k]
  BY <1>1 DEF SetLast
<1>3. Len(t) = Len(s) /\ t # <<>>
  BY <1>1, <1>2
<1>4. st \notin {"none", "queued"}
  BY DEF TryStatus
<1>5. Len(t) <= MaxAttempts
  BY <1>3 DEF Story
<1>6. \A k \in 1 .. Len(t) - 1 : t[k] = "failed"
  BY <1>2, <1>3 DEF Story
<1>7. t[Len(t)] = st
  BY <1>2, <1>3
<1> HIDE DEF t
<1>8. Story(st, t)
  BY <1>3, <1>4, <1>5, <1>6, <1>7 DEF Story
<1> QED BY <1>8 DEF t

\* The attempt a claim opens.
LEMMA StoryBegins ==
    ASSUME NEW d \in Deliveries, tries[d] \in Seq(TryStatus), Claimable(d),
           delivery[d] \in DeliveryRow, Story(delivery[d].st, tries[d])
    PROVE  Story("sending", Append(tries[d], "sending"))
<1> DEFINE s == tries[d]
           t == Append(s, "sending")
<1>1. Len(s) \in Nat /\ Len(s) < MaxAttempts
  BY DEF Claimable
<1>2. /\ Len(t) = Len(s) + 1 /\ t # <<>> /\ t[Len(s) + 1] = "sending"
      /\ \A k \in 1 .. Len(s) : t[k] = s[k]
  BY <1>1
<1>3. \A k \in 1 .. Len(s) : s[k] = "failed"
  <2>1. s = <<>> => Len(s) = 0
    OBVIOUS
  <2>2. s # <<>> => s[Len(s)] = "failed"
    BY DEF Story, Claimable
  <2> QED BY <1>1, <2>1, <2>2 DEF Story
<1> HIDE DEF t
<1> QED BY <1>1, <1>2, <1>3, LimitsAssumption DEF Story

LEMMA MatchStep ==
    ASSUME TypeOK, Inv, AttemptsMatchDelivery, Next
    PROVE  AttemptsMatchDelivery'
<1> DEFINE Match == \A d \in Deliveries : Story(delivery[d].st, tries[d])
<1>0. /\ Match /\ delivery \in [Deliveries -> DeliveryRow]
      /\ tries \in [Deliveries -> Seq(TryStatus)]
  BY StoryIsMatch DEF TypeOK
<1> SUFFICES Match'
  BY DEF AttemptsMatchDelivery, Story, Last
<1>1. UNCHANGED <<delivery, tries>> => Match'
  BY <1>0
<1>2. ASSUME NEW d \in Deliveries, DeliveryStep(d) PROVE Match'
  <2>1. CASE CreateDelivery(d)
    <3>1. tries[d] = <<>>
      BY <1>0, <2>1 DEF CreateDelivery, Story
    <3>2. tries' = tries /\ delivery'[d].st = "queued"
          /\ \A e \in Deliveries : e # d => delivery'[e] = delivery[e]
      BY <1>0, <2>1 DEF CreateDelivery, SetDelivery
    <3>3. Story("queued", <<>>)
      BY LimitsAssumption DEF Story
    <3> QED BY <1>0, <3>1, <3>2, <3>3
  <2>2. CASE LeaseExpires(d)
    BY <1>1, <2>2 DEF LeaseExpires
  <2>3. CASE BackoffElapses(d)
    <3>1. tries' = tries /\ \A e \in Deliveries : delivery'[e].st = delivery[e].st
      BY <1>0, <2>3 DEF BackoffElapses, SetDelivery
    <3> QED BY <1>0, <3>1
  <2> QED BY <1>2, <2>1, <2>2, <2>3 DEF DeliveryStep
<1>3. ASSUME NEW w \in Workers, WorkerStep(w) PROVE Match'
  <2>1. CASE RecoverExpiredDeliveryLeases(w)
    <3>1. ASSUME NEW d \in Deliveries, lapsed[d]
          PROVE  Story(delivery'[d].st, tries'[d])
      <4>1. tries[d] # <<>> /\ tries[d] \in Seq(TryStatus) /\ "uncertain" \in TryStatus
        BY <1>0, <3>1 DEF Inv, SendingInv, TryStatus
      <4>2. tries'[d] = SetLast(d, "uncertain") /\ delivery'[d].st = "uncertain"
        BY <2>1, <3>1 DEF RecoverExpiredDeliveryLeases, RecoveredDelivery
      <4> QED BY <1>0, <4>1, <4>2, StoryEnds
    <3>2. ASSUME NEW d \in Deliveries, ~lapsed[d]
          PROVE  tries'[d] = tries[d] /\ delivery'[d] = delivery[d]
      BY <2>1, <3>2 DEF RecoverExpiredDeliveryLeases
    <3> QED BY <1>0, <3>1, <3>2
  <2>2. ASSUME NEW d \in Deliveries, ClaimDelivery(w, d) PROVE Match'
    <3>1. /\ tries'[d] = Append(tries[d], "sending") /\ delivery'[d].st = "sending"
          /\ \A e \in Deliveries : e # d => tries'[e] = tries[e] /\ delivery'[e] = delivery[e]
      BY <1>0, <2>2 DEF ClaimDelivery, SetDelivery
    <3>2. Story("sending", Append(tries[d], "sending"))
      BY <1>0, <2>2, StoryBegins DEF ClaimDelivery
    <3> QED BY <1>0, <3>1, <3>2
  <2>3. CASE FinishAttempt(w)
    <3>0. PICK d \in Deliveries : d = worker[w].at
      BY <2>3 DEF FinishAttempt, Inv, HoldingInv
    <3> DEFINE outcome == Outcome(worker[w].pc)
    <3>1. tries[d] # <<>> /\ outcome \in TryStatus
      BY <2>3, <3>0, OutcomeType DEF FinishAttempt, Inv, HoldingInv, SendingInv, TryStatus
    <3>2. /\ tries'[d] = SetLast(d, outcome) /\ delivery'[d].st = outcome
          /\ \A e \in Deliveries : e # d => tries'[e] = tries[e] /\ delivery'[e] = delivery[e]
      BY <1>0, <2>3, <3>0 DEF FinishAttempt, SetDelivery
    <3> HIDE DEF outcome
    <3>3. Story(outcome, SetLast(d, outcome))
      BY <1>0, <3>1, StoryEnds
    <3> QED BY <1>0, <3>2, <3>3
  <2> QED
    BY <1>1, <1>3, <2>1, <2>2, <2>3
       DEF WorkerStep, SelectBatch, SkipDelivery, Send, WorkerDies
<1>4. ASSUME NEW r \in Reconcilers, ReconcilerStep(r) PROVE Match'
  <2>1. CASE SaveReconciledDelivery(r)
    <3>0. PICK d \in Deliveries : d = reconciler[r].at
      BY <2>1 DEF SaveReconciledDelivery, Inv, ReconcilingInv
    <3>1. delivery[d].st \in {"uncertain", "succeeded"}
      BY <2>1, <3>0 DEF SaveReconciledDelivery, Inv, ReconcilingInv
    <3>2. /\ tries' = tries /\ delivery'[d].st = "succeeded"
          /\ \A e \in Deliveries : e # d => delivery'[e] = delivery[e]
      BY <1>0, <2>1, <3>0 DEF SaveReconciledDelivery, SetDelivery
    <3>3. Story("succeeded", tries[d])
      BY <1>0, <3>1 DEF Story
    <3> QED BY <1>0, <3>2, <3>3
  <2> QED
    BY <1>1, <1>4, <2>1 DEF ReconcilerStep, SelectUncertain, OpenRun, AskAdapter, SaveRun,
                            ReconcilerDies, dispatchVars
<1>5. ASSUME NEW c \in Connections, SetConnectionStatus(c) PROVE Match'
  BY <1>1, <1>5 DEF SetConnectionStatus
<1> QED BY <1>2, <1>3, <1>4, <1>5 DEF Next

\* Deliveries and attempts, written by four transactions, never contradict.
THEOREM AttemptsMatchDeliveryHolds == Spec => []AttemptsMatchDelivery
<1>1. Init => AttemptsMatchDelivery
  BY LimitsAssumption DEF Init, AttemptsMatchDelivery
<1>2. TypeOK /\ Inv /\ AttemptsMatchDelivery /\ [Next]_vars => AttemptsMatchDelivery'
  BY MatchStep DEF AttemptsMatchDelivery, Last, vars
<1> QED BY Invariant, <1>1, <1>2, PTL DEF Spec

(***************************************************************************)
(* The circuit breaker                                                     *)
(*                                                                         *)
(* While the connection is active the limit is not reached, and a failure  *)
(* counted after it opened was in flight before: what failed and what is   *)
(* in flight together never exceed the bound.                              *)
(***************************************************************************)

InFlight(c) ==
    {w \in Workers : worker[w].at \in Deliveries /\ ConnectionOf[worker[w].at] = c}

Bound == FailuresToDegrade - 1 + Cardinality(Workers)

Breaker(c) ==
    /\ connection[c].status = "active" => connection[c].failures <= FailuresToDegrade - 1
    /\ connection[c].failures + Cardinality(InFlight(c)) <= Bound

BreakerInv == \A c \in Connections : Breaker(c)

LEMMA InFlightFinite ==
    ASSUME IsFiniteSet(Workers), NEW S \in SUBSET Workers
    PROVE  /\ IsFiniteSet(S) /\ Cardinality(S) \in Nat /\ Cardinality(Workers) \in Nat
           /\ Cardinality(S) <= Cardinality(Workers)
BY FS_Subset, FS_CardinalityType

\* A step that counts no failure and sends nothing over the connection.
LEMMA NothingNew ==
    ASSUME IsFiniteSet(Workers), TypeOK, NEW c \in Connections, Breaker(c),
           InFlight(c)' \subseteq InFlight(c),
           connection'[c].failures = connection[c].failures,
           connection'[c].status = "active" => connection[c].status = "active"
    PROVE  Breaker(c)'
<1>1. InFlight(c) \in SUBSET Workers
  BY DEF InFlight
<1>2. InFlight(c)' \in SUBSET Workers
  BY DEF InFlight
<1>3. Cardinality(InFlight(c)') <= Cardinality(InFlight(c))
  BY <1>1, InFlightFinite, FS_Subset
<1>4. /\ Cardinality(InFlight(c)') \in Nat /\ Cardinality(InFlight(c)) \in Nat
      /\ Cardinality(Workers) \in Nat
  BY <1>1, <1>2, InFlightFinite
<1>5. connection[c].failures \in Nat
  BY DEF TypeOK, ConnectionRow
<1> HIDE DEF InFlight
<1> QED BY <1>3, <1>4, <1>5, LimitsAssumption DEF Breaker, Bound

\* A step after which the connection is within the limit.
LEMMA WithinLimit ==
    ASSUME IsFiniteSet(Workers), TypeOK', NEW c \in Connections,
           connection'[c].failures <= FailuresToDegrade - 1
    PROVE  Breaker(c)'
<1>1. InFlight(c)' \in SUBSET Workers
  BY DEF InFlight
<1>2. /\ Cardinality(InFlight(c)') \in Nat /\ Cardinality(Workers) \in Nat
      /\ Cardinality(InFlight(c)') <= Cardinality(Workers)
  BY <1>1, InFlightFinite
<1>3. connection'[c].failures \in Nat
  BY DEF TypeOK, ConnectionRow
<1> HIDE DEF InFlight
<1> QED BY <1>2, <1>3, LimitsAssumption DEF Breaker, Bound

LEMMA FinishBreaker ==
    ASSUME IsFiniteSet(Workers), TypeOK, TypeOK', Inv, BreakerInv,
           NEW w \in Workers, FinishAttempt(w), NEW c \in Connections
    PROVE  Breaker(c)'
<1>0. PICK d \in Deliveries : d = worker[w].at
  BY DEF FinishAttempt, Inv, HoldingInv
<1>1. /\ worker'[w].at = NoDelivery /\ \A v \in Workers : v # w => worker'[v] = worker[v]
  BY WithoutDeliveryType DEF FinishAttempt, TypeOK
<1>2. InFlight(c)' = InFlight(c) \ {w}
  BY <1>1, NoDeliveryAssumption DEF InFlight
<1>3. CASE ConnectionOf[d] # c
  <2>1. connection'[c] = connection[c]
    BY <1>0, <1>3 DEF FinishAttempt, TypeOK
  <2> QED BY <1>2, <2>1, NothingNew DEF BreakerInv
<1>4. CASE ConnectionOf[d] = c
  <2>1. \/ connection'[c] = connection[c]
        \/ connection'[c] = AfterSuccess(connection[c])
        \/ connection'[c] = AfterFailure(connection[c])
    BY <1>0, <1>4 DEF FinishAttempt, TypeOK
  <2>2. CASE connection'[c] = connection[c]
    BY <1>2, <2>2, NothingNew DEF BreakerInv
  <2>3. CASE connection'[c] = AfterSuccess(connection[c])
    <3>1. connection'[c].failures = 0
      BY <2>3 DEF AfterSuccess
    <3> QED BY <3>1, WithinLimit, LimitsAssumption
  <2>4. CASE connection'[c] = AfterFailure(connection[c])
    <3>1. /\ connection'[c].failures = connection[c].failures + 1
          /\ connection'[c].status = "active" => ~Degrades(connection[c].failures + 1)
      BY <2>4 DEF AfterFailure
    <3>2. w \in InFlight(c) /\ InFlight(c) \in SUBSET Workers
      BY <1>0, <1>4 DEF InFlight
    <3>3. /\ Cardinality(InFlight(c)') = Cardinality(InFlight(c)) - 1
          /\ Cardinality(InFlight(c)) \in Nat /\ Cardinality(Workers) \in Nat
      BY <1>2, <3>2, InFlightFinite, FS_RemoveElement
    <3>4. connection[c].failures \in Nat /\ Breaker(c)
      BY DEF TypeOK, ConnectionRow, BreakerInv
    <3> HIDE DEF InFlight
    <3> QED BY <3>1, <3>3, <3>4, LimitsAssumption DEF Breaker, Bound, Degrades
  <2> QED BY <2>1, <2>2, <2>3, <2>4
<1> QED BY <1>3, <1>4

LEMMA BreakerStep ==
    ASSUME IsFiniteSet(Workers), "active" \notin AdminStatuses,
           TypeOK, TypeOK', Inv, BreakerInv, Next, NEW c \in Connections
    PROVE  Breaker(c)'
<1>1. ASSUME UNCHANGED connection,
             \A w \in Workers : worker'[w].at \in {worker[w].at, NoDelivery}
      PROVE  Breaker(c)'
  <2>1. InFlight(c)' \subseteq InFlight(c)
    BY <1>1, NoDeliveryAssumption DEF InFlight
  <2> QED BY <1>1, <2>1, NothingNew DEF BreakerInv
<1>2. ASSUME NEW w \in Workers, WorkerStep(w) PROVE Breaker(c)'
  <2>0. worker \in [Workers -> WorkerState] /\ worker[w] \in WorkerState
    BY DEF TypeOK
  <2>1. CASE RecoverExpiredDeliveryLeases(w)
    BY <1>1, <2>0, <2>1 DEF RecoverExpiredDeliveryLeases, WorkerState
  <2>2. CASE SelectBatch(w)
    <3>1. worker'[w].at = NoDelivery /\ \A v \in Workers : v # w => worker'[v] = worker[v]
      BY <2>0, <2>2, IdleType DEF SelectBatch
    <3> QED BY <1>1, <2>2, <3>1 DEF SelectBatch
  <2>3. ASSUME NEW d \in Deliveries, ClaimDelivery(w, d) PROVE Breaker(c)'
    <3>1. /\ worker[w].at = NoDelivery /\ worker'[w].at = d
          /\ \A v \in Workers : v # w => worker'[v] = worker[v]
      BY <2>0, <2>3 DEF ClaimDelivery, WorkerState, Inv, HoldingInv, Results
    <3>2. UNCHANGED connection
      BY <2>3 DEF ClaimDelivery
    <3>3. CASE ConnectionOf[d] = c
      <4>1. connection'[c].failures <= FailuresToDegrade - 1
        BY <2>3, <3>2, <3>3 DEF ClaimDelivery, Claimable, StatusFor, BreakerInv, Breaker
      <4> QED BY <4>1, WithinLimit
    <3>4. CASE ConnectionOf[d] # c
      <4>1. InFlight(c)' \subseteq InFlight(c)
        BY <3>1, <3>4 DEF InFlight
      <4> QED BY <3>2, <4>1, NothingNew DEF BreakerInv
    <3> QED BY <3>3, <3>4
  <2>4. ASSUME NEW d \in Deliveries, SkipDelivery(w, d) PROVE Breaker(c)'
    <3>1. worker'[w].at = NoDelivery /\ \A v \in Workers : v # w => worker'[v] = worker[v]
      BY <2>0, <2>4, WithoutDeliveryType DEF SkipDelivery
    <3> QED BY <1>1, <2>4, <3>1 DEF SkipDelivery
  <2>5. CASE Send(w)
    <3>1. \A v \in Workers : worker'[v].at = worker[v].at
      BY <2>0, <2>5 DEF Send, WorkerState
    <3> QED BY <1>1, <2>5, <3>1 DEF Send
  <2>6. CASE WorkerDies(w)
    <3>1. worker'[w].at = NoDelivery /\ \A v \in Workers : v # w => worker'[v] = worker[v]
      BY <2>0, <2>6, IdleType DEF WorkerDies
    <3> QED BY <1>1, <2>6, <3>1 DEF WorkerDies
  <2> QED
    BY <1>2, <2>1, <2>2, <2>3, <2>4, <2>5, <2>6, FinishBreaker DEF WorkerStep
<1>3. ASSUME NEW k \in Connections, SetConnectionStatus(k) PROVE Breaker(c)'
  <2>1. PICK st \in AdminStatuses : connection' = [connection EXCEPT ![k].status = st]
    BY <1>3 DEF SetConnectionStatus
  <2>2. /\ connection'[c].failures = connection[c].failures
        /\ connection'[c].status = "active" => connection[c].status = "active"
    BY <2>1 DEF TypeOK, ConnectionRow
  <2>3. InFlight(c)' = InFlight(c)
    BY <1>3 DEF SetConnectionStatus, InFlight
  <2> QED BY <2>2, <2>3, NothingNew DEF BreakerInv
<1>4. ASSUME NEW d \in Deliveries, DeliveryStep(d) PROVE Breaker(c)'
  BY <1>1, <1>4 DEF DeliveryStep, CreateDelivery, LeaseExpires, BackoffElapses
<1>5. ASSUME NEW r \in Reconcilers, ReconcilerStep(r) PROVE Breaker(c)'
  BY <1>1, <1>5 DEF ReconcilerStep, SelectUncertain, OpenRun, AskAdapter,
                    SaveReconciledDelivery, SaveRun, ReconcilerDies, dispatchVars
<1> QED BY <1>2, <1>3, <1>4, <1>5 DEF Next

\* The breaker lets no more fail after it opened than was in flight, for any number
\* of connections, deliveries and workers.
THEOREM BreakerBoundHolds ==
    ASSUME IsFiniteSet(Workers), "active" \notin AdminStatuses
    PROVE  Spec => []BreakerBound
<1>1. Init => BreakerInv
  <2> SUFFICES ASSUME Init, NEW c \in Connections PROVE Breaker(c)
    BY DEF BreakerInv
  <2>1. InFlight(c) = {} /\ connection[c].failures = 0
    BY NoDeliveryAssumption DEF Init, InFlight, Idle
  <2>2. Cardinality(InFlight(c)) = 0 /\ Cardinality(Workers) \in Nat
    BY <2>1, FS_EmptySet, FS_CardinalityType
  <2> HIDE DEF InFlight
  <2> QED BY <2>1, <2>2, LimitsAssumption DEF Breaker, Bound
<1>2. TypeOK /\ TypeOK' /\ Inv /\ BreakerInv /\ [Next]_vars => BreakerInv'
  <2>1. BreakerInv /\ UNCHANGED vars => BreakerInv'
    BY DEF BreakerInv, Breaker, InFlight, vars
  <2> QED BY <2>1, BreakerStep DEF BreakerInv
<1>3. TypeOK /\ BreakerInv => BreakerBound
  <2> SUFFICES ASSUME TypeOK, NEW c \in Connections, Breaker(c)
               PROVE  connection[c].failures <= Bound
    BY DEF BreakerBound, BreakerInv, Bound
  <2>1. InFlight(c) \in SUBSET Workers
    BY DEF InFlight
  <2>2. Cardinality(InFlight(c)) \in Nat /\ Cardinality(Workers) \in Nat
    BY <2>1, InFlightFinite
  <2>3. connection[c].failures \in Nat
    BY DEF TypeOK, ConnectionRow
  <2> HIDE DEF InFlight
  <2> QED BY <2>2, <2>3, LimitsAssumption DEF Breaker, Bound
<1> QED BY Invariant, <1>1, <1>2, <1>3, PTL DEF Spec

(***************************************************************************)
(* Integrations implements Handover                                        *)
(*                                                                         *)
(* Every action writes one delivery, or the deliveries of expired leases,  *)
(* or counts an acceptance; what is left to show is that the phase it      *)
(* leaves and the acceptance it relies on are those of an abstract step.   *)
(***************************************************************************)

Seen == [Handed!Next]_(Handed!vars)

LEMMA Unseen ==
    ASSUME UNCHANGED <<delivery, accepted>>
    PROVE  Seen
BY DEF Seen, Handed!vars, PhaseOf

\* Writing one row moves one item from phase to phase.
LEMMA RowSeen ==
    ASSUME TypeOK, NEW d \in Deliveries, NEW st \in DeliveryStatus, NEW next \in NextAttempt,
           SetDelivery(d, st, next), UNCHANGED accepted
    PROVE  Handed!Moves(d, Phase(delivery[d]), Phase([st |-> st, next |-> next]))
<1>1. \A e \in Deliveries :
          delivery'[e] = IF e = d THEN [st |-> st, next |-> next] ELSE delivery[e]
  BY DEF SetDelivery, TypeOK
<1>2. PhaseOf[d] = Phase(delivery[d])
  BY DEF PhaseOf
<1>3. PhaseOf' = [PhaseOf EXCEPT ![d] = Phase([st |-> st, next |-> next])]
  BY <1>1 DEF PhaseOf
<1> QED BY <1>2, <1>3 DEF Handed!Moves

\* A phase that is written again is no step.
LEMMA SamePhase ==
    ASSUME NEW d \in Deliveries, NEW phase, Handed!Moves(d, phase, phase)
    PROVE  Seen
<1>1. PhaseOf' = PhaseOf
  BY DEF Handed!Moves, PhaseOf
<1> QED BY <1>1 DEF Handed!Moves, Handed!vars, Seen

\* An acceptance is counted while the delivery is being sent.
LEMMA TakenSeen ==
    ASSUME NEW d \in Deliveries, delivery[d].st = "sending", accepted[d] = 0,
           accepted' = [accepted EXCEPT ![d] = @ + 1], UNCHANGED delivery
    PROVE  Seen
<1>1. PhaseOf[d] = "handing"
  BY DEF PhaseOf, Phase
<1>2. UNCHANGED PhaseOf
  BY DEF PhaseOf
<1>3. accepted' = [accepted EXCEPT ![d] = 1]
  OBVIOUS
<1>4. Handed!Take(d)
  BY <1>1, <1>2, <1>3 DEF Handed!Take
<1> QED BY <1>4 DEF Seen, Handed!Next

LEMMA DeliverySeen ==
    ASSUME TypeOK, NEW d \in Deliveries, DeliveryStep(d)
    PROVE  Seen
<1>1. CASE CreateDelivery(d)
  <2>1. Handed!Moves(d, Phase(delivery[d]), Phase([st |-> "queued", next |-> "unset"]))
    BY <1>1, RowSeen DEF CreateDelivery, DeliveryStatus, NextAttempt
  <2>2. Handed!Plan(d)
    BY <1>1, <2>1 DEF CreateDelivery, Phase, Handed!Plan
  <2> QED BY <2>2 DEF Seen, Handed!Next
<1>2. CASE LeaseExpires(d)
  BY <1>2, Unseen DEF LeaseExpires
<1>3. CASE BackoffElapses(d)
  <2>1. delivery[d].st \in DeliveryStatus
    BY DEF TypeOK, DeliveryRow
  <2>2. Handed!Moves(d, Phase(delivery[d]), Phase([st |-> delivery[d].st, next |-> "due"]))
    BY <1>3, <2>1, RowSeen DEF BackoffElapses, NextAttempt
  <2>3. Phase([st |-> delivery[d].st, next |-> "due"]) = Phase(delivery[d])
    BY <1>3 DEF BackoffElapses, Phase
  <2> QED BY <2>2, <2>3, SamePhase
<1> QED BY <1>1, <1>2, <1>3 DEF DeliveryStep

\* Recovery calls all deliveries of expired leases uncertain at once.
LEMMA RecoverSeen ==
    ASSUME TypeOK, Inv, NEW w \in Workers, RecoverExpiredDeliveryLeases(w)
    PROVE  Seen
<1> DEFINE lost == {d \in Deliveries : lapsed[d]}
<1>1. \A d \in lost : PhaseOf[d] = "handing"
  BY DEF Inv, SendingInv, PhaseOf, Phase
<1>2. Phase(RecoveredDelivery) = "uncertain"
  BY DEF Phase, RecoveredDelivery
<1>3. PhaseOf' = [d \in Deliveries |-> IF d \in lost THEN "uncertain" ELSE PhaseOf[d]]
  <2>1. delivery' = [d \in Deliveries |-> IF lapsed[d] THEN RecoveredDelivery ELSE delivery[d]]
    BY DEF RecoverExpiredDeliveryLeases
  <2>2. \A d \in Deliveries :
            Phase(delivery'[d]) = IF d \in lost THEN "uncertain" ELSE Phase(delivery[d])
    BY <1>2, <2>1
  <2> QED BY <2>2 DEF PhaseOf
<1>4. Handed!Doubt(lost)
  BY <1>1, <1>3 DEF Handed!Doubt, RecoverExpiredDeliveryLeases
<1>5. lost \in SUBSET Deliveries
  OBVIOUS
<1> QED BY <1>4, <1>5 DEF Seen, Handed!Next

\* Only a delivery that was never accepted is claimed.
LEMMA ClaimSeen ==
    ASSUME TypeOK, NEW w \in Workers, NEW d \in Deliveries, ClaimDelivery(w, d)
    PROVE  Seen
<1>1. Handed!Moves(d, Phase(delivery[d]), Phase([st |-> "sending", next |-> "unset"]))
  BY RowSeen DEF ClaimDelivery, DeliveryStatus, NextAttempt
<1>2. Phase(delivery[d]) = "waiting"
  BY DEF ClaimDelivery, Claimable, Phase
<1>3. Phase([st |-> "sending", next |-> "unset"]) = "handing"
  BY DEF Phase
<1>4. Handed!Start(d)
  BY <1>1, <1>2, <1>3 DEF Handed!Start
<1> QED BY <1>4 DEF Seen, Handed!Next

LEMMA SendSeen ==
    ASSUME TypeOK, Inv, NEW w \in Workers, Send(w) \/ WorkerDies(w)
    PROVE  Seen
<1>1. UNCHANGED delivery
  BY DEF Send, WorkerDies
<1>2. \/ UNCHANGED accepted
      \/ worker[w].pc = "send" /\ accepted' = [accepted EXCEPT ![worker[w].at] = @ + 1]
  BY DEF Send, WorkerDies
<1>3. CASE UNCHANGED accepted
  BY <1>1, <1>3, Unseen
<1>4. CASE worker[w].pc = "send" /\ accepted' = [accepted EXCEPT ![worker[w].at] = @ + 1]
  <2>1. worker[w].at \in Deliveries /\ delivery[worker[w].at].st = "sending"
    BY <1>4 DEF Inv, HoldingInv
  <2>2. accepted[worker[w].at] = 0
    BY <1>4 DEF Inv, AnswerInv
  <2> QED BY <1>1, <1>4, <2>1, <2>2, TakenSeen
<1> QED BY <1>2, <1>3, <1>4

\* The worker that finishes knows what happened, or calls it uncertain.
LEMMA FinishSeen ==
    ASSUME TypeOK, Inv, NEW w \in Workers, FinishAttempt(w)
    PROVE  Seen
<1> DEFINE d == worker[w].at
           outcome == Outcome(worker[w].pc)
           next == IF Retries(d, worker[w].pc) THEN "later" ELSE "unset"
<1>1. /\ d \in Deliveries /\ delivery[d].st = "sending"
      /\ worker[w].pc \in Results
  BY DEF FinishAttempt, Inv, HoldingInv
<1>2. /\ outcome \in {"succeeded", "failed", "uncertain"}
      /\ outcome = "succeeded" => accepted[d] = 1
      /\ outcome = "failed" => accepted[d] = 0
  BY <1>1, OutcomeType DEF Inv, AnswerInv
<1>3. Phase(delivery[d]) = "handing"
  BY <1>1 DEF Phase
<1>4. Handed!Moves(d, "handing", Phase([st |-> outcome, next |-> next]))
  <2>1. outcome \in DeliveryStatus /\ next \in NextAttempt
    BY <1>2 DEF DeliveryStatus, NextAttempt
  <2>2. SetDelivery(d, outcome, next) /\ UNCHANGED accepted
    BY DEF FinishAttempt
  <2> QED BY <1>1, <1>3, <2>1, <2>2, RowSeen
<1>5. CASE outcome = "succeeded"
  <2>1. Handed!Confirm(d)
    BY <1>2, <1>4, <1>5 DEF Handed!Confirm, Phase
  <2> QED BY <1>1, <2>1 DEF Seen, Handed!Next
<1>6. CASE outcome = "failed"
  <2>1. Phase([st |-> outcome, next |-> next]) \in {"waiting", "refused"}
    BY <1>6 DEF Phase
  <2>2. Handed!Refuse(d)
    BY <1>2, <1>4, <1>6, <2>1 DEF Handed!Refuse
  <2> QED BY <1>1, <2>2 DEF Seen, Handed!Next
<1>7. CASE outcome = "uncertain"
  <2>1. Phase([st |-> outcome, next |-> next]) = "uncertain"
    BY <1>7 DEF Phase
  <2>2. Handed!Doubt({d})
    BY <1>1, <1>4, <2>1 DEF Handed!Doubt, Handed!Moves, PhaseOf
  <2> QED BY <1>1, <2>2 DEF Seen, Handed!Next
<1> QED BY <1>2, <1>5, <1>6, <1>7

\* A reconciler settles only what is uncertain or succeeded already.
LEMMA ReconcilerSeen ==
    ASSUME TypeOK, Inv, NEW r \in Reconcilers, ReconcilerStep(r)
    PROVE  Seen
<1>1. CASE SaveReconciledDelivery(r)
  <2> DEFINE d == reconciler[r].at
  <2>1. /\ d \in Deliveries
        /\ delivery[d].st \in {"uncertain", "succeeded"}
        /\ accepted[d] = 1
    BY <1>1 DEF SaveReconciledDelivery, Inv, ReconcilingInv
  <2>2. delivery[d].next \in NextAttempt
    BY <2>1 DEF TypeOK, DeliveryRow
  <2>3. Handed!Moves(d, Phase(delivery[d]), Phase([st |-> "succeeded", next |-> delivery[d].next]))
    BY <1>1, <2>1, <2>2, RowSeen DEF SaveReconciledDelivery, DeliveryStatus
  <2>4. Phase([st |-> "succeeded", next |-> delivery[d].next]) = "done"
    BY DEF Phase
  <2>5. CASE delivery[d].st = "uncertain"
    <3>1. Handed!Confirm(d)
      BY <2>1, <2>3, <2>4, <2>5 DEF Handed!Confirm, Phase
    <3> QED BY <2>1, <3>1 DEF Seen, Handed!Next
  <2>6. CASE delivery[d].st = "succeeded"
    <3>1. Phase(delivery[d]) = "done"
      BY <2>6 DEF Phase
    <3> QED BY <2>1, <2>3, <2>4, <3>1, SamePhase
  <2> QED BY <2>1, <2>5, <2>6
<1>2. CASE ~SaveReconciledDelivery(r)
  <2>1. UNCHANGED <<delivery, accepted>>
    BY <1>2 DEF ReconcilerStep, SelectUncertain, OpenRun, AskAdapter, SaveRun, ReconcilerDies,
                dispatchVars
  <2> QED BY <2>1, Unseen
<1> QED BY <1>1, <1>2

LEMMA StepSeen ==
    ASSUME TypeOK, Inv, [Next]_vars
    PROVE  Seen
<1>1. ASSUME NEW w \in Workers, WorkerStep(w) PROVE Seen
  <2>1. ASSUME NEW d \in Deliveries, SkipDelivery(w, d) PROVE Seen
    BY <2>1, Unseen DEF SkipDelivery
  <2>2. CASE SelectBatch(w)
    BY <2>2, Unseen DEF SelectBatch
  <2> QED BY <1>1, <2>1, <2>2, RecoverSeen, ClaimSeen, SendSeen, FinishSeen DEF WorkerStep
<1>2. ASSUME NEW c \in Connections, SetConnectionStatus(c) PROVE Seen
  BY <1>2, Unseen DEF SetConnectionStatus
<1>3. CASE UNCHANGED vars
  BY <1>3, Unseen DEF vars
<1> QED BY <1>1, <1>2, <1>3, DeliverySeen, ReconcilerSeen DEF Next

\* Dispatch, retry, dead workers, recovery and reconciliation keep the promises of
\* Handover: a delivery is sent again only if the last attempt was refused.
THEOREM ImplementsHandoverHolds == Spec => ImplementsHandover
<1>1. Init => Handed!Init
  BY DEF Init, Handed!Init, PhaseOf, Phase
<1>2. TypeOK /\ Inv /\ [Next]_vars => Seen
  BY StepSeen
<1> QED BY <1>1, <1>2, Invariant, PTL DEF Spec, ImplementsHandover, Handed!Spec, Seen
=============================================================================
