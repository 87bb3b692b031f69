--------------------------- MODULE PaymentsProofs ---------------------------
(***************************************************************************)
(* Proofs about Payments, for every number of attempts, cancellations,     *)
(* workers, deliveries and request ids.                                    *)
(***************************************************************************)
EXTENDS Payments, TLAPS

(***************************************************************************)
(* Provider evidence                                                       *)
(***************************************************************************)

\* A provider answer maps to a status of the intent or to "failed".
LEMMA MappedType ==
    \A s : Mapped(s) \in {"awaiting_payment", "processing", "paid", "cancelled",
                          "failed", "expired", "requires_attention"}
BY DEF Mapped, ProviderStatusMapping

LEMMA TargetType ==
    \A a, s, source :
        Target(a, s, source) \in {"awaiting_payment", "processing", "paid", "cancelled",
                                  "failed", "expired", "requires_attention"}
BY MappedType DEF Target

\* Evidence leaves the intent and the attempt in statuses of the models.
LEMMA EvidenceType ==
    ASSUME NEW a, NEW s, NEW source
    PROVE  /\ IntentAfter(a, s, source) \in IntentStatus
           /\ AttemptAfter(a, s, source) \in AttemptStatus
BY TargetType DEF IntentAfter, AttemptAfter, AttemptNeedingAttention, IntentStatus,
                  AttemptStatus, OpenAttempt, ClosedAttempt

\* Evidence never changes the status of a closed attempt.
LEMMA EvidenceKeepsClosed ==
    ASSUME NEW a, NEW s, NEW source, att[a].st \in ClosedAttempt
    PROVE  AttemptAfter(a, s, source) = att[a].st
<1>1. Target(a, s, source) \in {"requires_attention", att[a].st}
  <2>1. CASE Regressive(a, Mapped(s)) BY <2>1 DEF Target
  <2>2. CASE ~Regressive(a, Mapped(s)) BY <2>2 DEF Target, Regressive
  <2> QED BY <2>1, <2>2
<1>2. att[a].st \notin {"awaiting_payment", "requires_attention"}
  BY DEF ClosedAttempt
<1> QED BY <1>1, <1>2 DEF AttemptAfter, AttemptNeedingAttention

(***************************************************************************)
(* Types                                                                   *)
(***************************************************************************)

\* A cancellation job carries the event it was selected for.
CancelJobInv ==
    \A w \in Workers :
        worker[w].pc \in {"cancel_item", "cancel_call", "cancel_apply"}
            => worker[w].evt \in 1 .. MaxCancels

\* A callback in progress has read a resource under a request id.
CallbackJobInv ==
    \A d \in Deliveries :
        delivery[d] # IdleDelivery =>
            delivery[d].at \in Attempts /\ delivery[d].rid \in RequestIds

\* A reconciliation in progress has read the resource of an attempt.
ManagerJobInv == manager # IdleManager => manager.at \in Attempts

TypeInv == TypeOK /\ CancelJobInv /\ CallbackJobInv /\ ManagerJobInv

LEMMA NewAttemptType == NoAttempt \in AttemptRow /\ NewAttempt \in AttemptRow
<1>1. NoAttempt \in AttemptRow BY MaxCancelsAssumption DEF NoAttempt, AttemptRow
<1> QED BY <1>1 DEF NewAttempt, AttemptRow, AttemptStatus, OpenAttempt

LEMMA IdleWorkerType == IdleWorker \in WorkerState
BY MaxAttemptsAssumption DEF IdleWorker, WorkerState, Attempts

\* The jobs a worker picks up when it polls.
LEMMA JobType ==
    /\ \A n \in Attempts :
          /\ [IdleWorker EXCEPT !.pc = "item", !.evt = 1, !.last = n] \in WorkerState
          /\ [IdleWorker EXCEPT !.pc = "item", !.evt = 1, !.last = n].pc = "item"
    /\ \A a \in Attempts, e \in 1 .. MaxCancels :
          /\ [IdleWorker EXCEPT !.pc = "cancel_item", !.at = a, !.evt = e] \in WorkerState
          /\ [IdleWorker EXCEPT !.pc = "cancel_item", !.at = a, !.evt = e].evt = e
<1>1. \A n \in Attempts : n \in 0 .. MaxAttempts
  BY MaxAttemptsAssumption DEF Attempts
<1>2. \A e \in 1 .. MaxCancels : e \in Nat
  BY MaxCancelsAssumption
<1> QED
  BY <1>1, <1>2, IdleWorkerType DEF IdleWorker, WorkerState

LEMMA NextItemType ==
    ASSUME NEW w \in Workers, worker[w] \in WorkerState
    PROVE  NextItem(w) \in WorkerState /\ NextItem(w).pc \in {"item", "idle"}
<1>1. CASE worker[w].evt < worker[w].last
  <2>1. NextItem(w) = [worker[w] EXCEPT !.pc = "item", !.evt = worker[w].evt + 1, !.at = 1]
    BY <1>1 DEF NextItem
  <2>2. worker[w].evt + 1 \in Nat BY DEF WorkerState
  <2>3. 1 \in Attempts BY MaxAttemptsAssumption DEF Attempts
  <2> QED BY <2>1, <2>2, <2>3 DEF WorkerState
<1>2. CASE ~(worker[w].evt < worker[w].last)
  BY <1>2, IdleWorkerType DEF NextItem, IdleWorker
<1> QED BY <1>1, <1>2

\* An attempt's row keeps its type whatever a service writes on it.
LEMMA RowType ==
    ASSUME NEW a, att[a] \in AttemptRow
    PROVE  /\ \A st \in AttemptStatus : [att[a] EXCEPT !.st = st] \in AttemptRow
           /\ [att[a] EXCEPT !.live = FALSE] \in AttemptRow
           /\ [att[a] EXCEPT !.backoff = FALSE] \in AttemptRow
           /\ [att[a] EXCEPT !.cancelDone = TRUE] \in AttemptRow
           /\ [att[a] EXCEPT !.st = "cancelled", !.backoff = FALSE] \in AttemptRow
           /\ att[a].cancel < MaxCancels =>
                 [att[a] EXCEPT !.cancel = @ + 1, !.cancelDone = FALSE] \in AttemptRow
           /\ \A w \in Workers : Leased(a, w) \in AttemptRow
           /\ Unleased(a) \in AttemptRow
           /\ [Unleased(a) EXCEPT !.backoff = TRUE] \in AttemptRow
           /\ [Unleased(a) EXCEPT !.st = "active", !.ext = TRUE, !.backoff = FALSE] \in AttemptRow
           /\ \A st \in AttemptStatus \cup {"none"}, late, done \in BOOLEAN :
                 [Unleased(a) EXCEPT !.st = st, !.backoff = late, !.cancelDone = done]
                     \in AttemptRow
<1>1. att[a].cancel < MaxCancels => att[a].cancel + 1 \in 0 .. MaxCancels
  BY MaxCancelsAssumption DEF AttemptRow
<1>2. Unleased(a) \in AttemptRow
  BY DEF AttemptRow, Unleased
<1>3. {"cancelled", "active"} \subseteq AttemptStatus
  BY DEF AttemptStatus, ClosedAttempt, OpenAttempt
<1>4. /\ \A st \in AttemptStatus : [att[a] EXCEPT !.st = st] \in AttemptRow
      /\ [att[a] EXCEPT !.live = FALSE] \in AttemptRow
      /\ [att[a] EXCEPT !.backoff = FALSE] \in AttemptRow
      /\ [att[a] EXCEPT !.cancelDone = TRUE] \in AttemptRow
  BY DEF AttemptRow
<1>5. [att[a] EXCEPT !.st = "cancelled", !.backoff = FALSE] \in AttemptRow
  BY <1>3 DEF AttemptRow
<1>6. att[a].cancel < MaxCancels =>
         [att[a] EXCEPT !.cancel = @ + 1, !.cancelDone = FALSE] \in AttemptRow
  BY <1>1 DEF AttemptRow
<1>7. \A w \in Workers : Leased(a, w) \in AttemptRow
  BY DEF AttemptRow, Leased
<1>8. [Unleased(a) EXCEPT !.backoff = TRUE] \in AttemptRow
  BY <1>2 DEF AttemptRow
<1>9. [Unleased(a) EXCEPT !.st = "active", !.ext = TRUE, !.backoff = FALSE] \in AttemptRow
  BY <1>2, <1>3 DEF AttemptRow
<1>10. \A st \in AttemptStatus \cup {"none"}, late, done \in BOOLEAN :
          [Unleased(a) EXCEPT !.st = st, !.backoff = late, !.cancelDone = done] \in AttemptRow
  BY <1>2 DEF AttemptRow
<1> QED
  BY <1>2, <1>4, <1>5, <1>6, <1>7, <1>8, <1>9, <1>10

LEMMA SetAttemptType ==
    ASSUME att \in [Attempts -> AttemptRow],
           NEW a \in Attempts, NEW row \in AttemptRow, SetAttempt(a, row)
    PROVE  att' \in [Attempts -> AttemptRow]
BY DEF SetAttempt

LEMMA SetWorkerType ==
    ASSUME worker \in [Workers -> WorkerState], CancelJobInv,
           NEW w \in Workers, NEW state \in WorkerState,
           state.pc \in {"cancel_item", "cancel_call", "cancel_apply"}
               => state.evt \in 1 .. MaxCancels,
           SetWorker(w, state)
    PROVE  worker' \in [Workers -> WorkerState] /\ CancelJobInv'
BY DEF SetWorker, CancelJobInv

LEMMA FinishType ==
    ASSUME worker \in [Workers -> WorkerState], CancelJobInv,
           NEW w \in Workers, Finish(w)
    PROVE  worker' \in [Workers -> WorkerState] /\ CancelJobInv'
BY NextItemType, SetWorkerType DEF Finish

LEMMA StepType ==
    ASSUME worker \in [Workers -> WorkerState], CancelJobInv,
           NEW w \in Workers, NEW pc \in LeasePhase,
           pc \in {"cancel_call", "cancel_apply"} => worker[w].evt \in 1 .. MaxCancels,
           Step(w, pc)
    PROVE  worker' \in [Workers -> WorkerState] /\ CancelJobInv'
<1> DEFINE state == [worker[w] EXCEPT !.pc = pc]
<1>1. /\ state \in WorkerState /\ state.pc = pc /\ state.evt = worker[w].evt
  BY DEF WorkerState
<1>2. SetWorker(w, state) BY DEF Step
<1> QED BY <1>1, <1>2, SetWorkerType DEF LeasePhase

\* Evidence keeps the types of intent and attempts.
LEMMA ApplyResourceType ==
    ASSUME TypeOK, NEW a \in Attempts, NEW s, NEW source, ApplyResource(a, s, source)
    PROVE  att' \in [Attempts -> AttemptRow] /\ intent' \in IntentStatus \cup {"none"}
<1>1. CASE Changes(a, s, source)
  <2>1. [att[a] EXCEPT !.st = AttemptAfter(a, s, source)] \in AttemptRow
    BY EvidenceType, RowType DEF TypeOK
  <2> QED BY <1>1, <2>1, EvidenceType, SetAttemptType DEF ApplyResource, SetStatus, TypeOK
<1>2. CASE ~Changes(a, s, source)
  BY <1>2 DEF ApplyResource, rows, TypeOK
<1> QED BY <1>1, <1>2

\* A change of the intent's version does not touch what the manager fetched.
LEMMA BumpType ==
    ASSUME manager \in ManagerState, ManagerJobInv, Bump \/ UNCHANGED manager
    PROVE  manager' \in ManagerState /\ ManagerJobInv'
<1>1. CASE UNCHANGED manager
  BY <1>1 DEF ManagerJobInv
<1>2. CASE Bump /\ manager = IdleManager
  <2>1. manager' = IdleManager BY <1>2 DEF Bump, IdleManager
  <2> QED BY <1>2, <2>1 DEF ManagerJobInv
<1>3. CASE Bump /\ manager # IdleManager
  <2>1. manager' \in ManagerState /\ manager'.at = manager.at
    BY <1>3 DEF Bump, ManagerState
  <2> QED BY <1>3, <2>1 DEF ManagerJobInv
<1> QED BY <1>1, <1>2, <1>3

LEMMA IdleTypes == IdleManager \in ManagerState /\ IdleDelivery \in DeliveryState
BY MaxAttemptsAssumption DEF IdleManager, ManagerState, IdleDelivery, DeliveryState

LEMMA SetDeliveryType ==
    ASSUME delivery \in [Deliveries -> DeliveryState], CallbackJobInv,
           NEW d \in Deliveries, NEW job \in DeliveryState,
           job # IdleDelivery => job.at \in Attempts /\ job.rid \in RequestIds,
           delivery' = [delivery EXCEPT ![d] = job]
    PROVE  delivery' \in [Deliveries -> DeliveryState] /\ CallbackJobInv'
BY DEF CallbackJobInv

LEMMA TypeInit == Init => TypeInv
<1> SUFFICES ASSUME Init PROVE TypeInv
  OBVIOUS
<1>1. att \in [Attempts -> AttemptRow] /\ worker \in [Workers -> WorkerState]
  BY NewAttemptType, IdleWorkerType DEF Init
<1>2. manager \in ManagerState /\ delivery \in [Deliveries -> DeliveryState]
  BY IdleTypes DEF Init
<1>3. CancelJobInv /\ CallbackJobInv /\ ManagerJobInv
  BY DEF Init, CallbackJobInv, ManagerJobInv, CancelJobInv, IdleWorker
<1>4. activation \in [Attempts -> 0 .. MaxAttempts]
  BY MaxAttemptsAssumption DEF Init
<1>5. link \in [Attempts -> ProviderStatuses \cup {"none"}]
  BY DEF Init
<1>6. /\ order \in {"confirmed", "cancelled"} /\ accountActive \in BOOLEAN
      /\ intent \in IntentStatus \cup {"none"} /\ consumed \in BOOLEAN
      /\ cancelHistory \subseteq Attempts \X (1 .. MaxCancels)
      /\ callbackReceipts \subseteq Attempts \X RequestIds
  BY DEF Init
<1> QED BY <1>1, <1>2, <1>3, <1>4, <1>5, <1>6 DEF TypeInv, TypeOK

\* Every step keeps the types.
LEMMA TypeStep ==
    ASSUME TypeInv, Next
    PROVE  TypeInv'
<1>1. CASE CreatePaymentIntent
  BY <1>1
     DEF CreatePaymentIntent, TypeInv, TypeOK, CancelJobInv, CallbackJobInv,
         ManagerJobInv, outside, rows, receiptVars, IntentStatus
<1>2. CASE RequestHostedCheckout
  <2>1. manager' \in ManagerState /\ ManagerJobInv'
    BY <1>2, BumpType, IdleTypes DEF RequestHostedCheckout, TypeInv, TypeOK
  <2>2. att' \in [Attempts -> AttemptRow]
    BY <1>2, NewAttemptType, SetAttemptType DEF RequestHostedCheckout, TypeInv, TypeOK
  <2> QED
    BY <1>2, <2>1, <2>2
       DEF RequestHostedCheckout, TypeInv, TypeOK, CancelJobInv, CallbackJobInv,
      ManagerJobInv, outside, rows, receiptVars
<1>3. CASE RequestHostedCheckoutCancellation
  <2>1. manager' \in ManagerState /\ ManagerJobInv'
    BY <1>3, BumpType, IdleTypes DEF RequestHostedCheckoutCancellation, TypeInv, TypeOK
  <2>2. att' \in [Attempts -> AttemptRow]
    BY <1>3, RowType, SetAttemptType
       DEF RequestHostedCheckoutCancellation, TypeInv, TypeOK
  <2> QED
    BY <1>3, <2>1, <2>2
       DEF RequestHostedCheckoutCancellation, TypeInv, TypeOK, CancelJobInv,
      CallbackJobInv, ManagerJobInv, outside, rows, receiptVars
<1>4. CASE ReopenPaymentAfterVerifiedClosure
  <2>1. manager' \in ManagerState /\ ManagerJobInv'
    BY <1>4, BumpType, IdleTypes DEF ReopenPaymentAfterVerifiedClosure, TypeInv, TypeOK
  <2> QED
    BY <1>4, <2>1
       DEF ReopenPaymentAfterVerifiedClosure, TypeInv, TypeOK, CancelJobInv,
      CallbackJobInv, ManagerJobInv, outside, rows, receiptVars, IntentStatus
<1>5. CASE FetchForReconciliation
  <2>1. manager' \in ManagerState /\ ManagerJobInv'
    BY <1>5, MaxAttemptsAssumption, ProviderAssumption
       DEF FetchForReconciliation, TypeInv, TypeOK, ManagerJobInv, ManagerState,
      Attempts
  <2> QED
    BY <1>5, <2>1
       DEF FetchForReconciliation, TypeInv, TypeOK, CancelJobInv, CallbackJobInv,
      ManagerJobInv, outside, rows, receiptVars
<1>6. CASE ReconcileVerifiedResource
  <2>1. manager' \in ManagerState /\ ManagerJobInv'
    BY <1>6, BumpType, IdleTypes
       DEF ReconcileVerifiedResource, TypeInv, TypeOK, ManagerJobInv
  <2>2. att' \in [Attempts -> AttemptRow]
         /\ intent' \in IntentStatus \cup {"none"}
    BY <1>6, ApplyResourceType
       DEF ReconcileVerifiedResource, TypeInv, TypeOK, ManagerJobInv, CallbackJobInv
  <2> QED
    BY <1>6, <2>1, <2>2, MaxAttemptsAssumption
       DEF ReconcileVerifiedResource, TypeInv, TypeOK, CancelJobInv, CallbackJobInv,
      ManagerJobInv, outside, rows, receiptVars, IdleManager
<1>7. CASE RefuseReconciliation
  <2>1. manager' \in ManagerState /\ ManagerJobInv'
    BY <1>7, BumpType, IdleTypes
       DEF RefuseReconciliation, TypeInv, TypeOK, ManagerJobInv
  <2> QED
    BY <1>7, <2>1, MaxAttemptsAssumption
       DEF RefuseReconciliation, TypeInv, TypeOK, CancelJobInv, CallbackJobInv,
      ManagerJobInv, outside, rows, receiptVars, IdleManager
<1>8. CASE CancelOrder
  BY <1>8
     DEF CancelOrder, TypeInv, TypeOK, CancelJobInv, CallbackJobInv, ManagerJobInv,
         outside, rows, receiptVars
<1>9. CASE ConsumeOrderCancelled
  <2>1. manager' \in ManagerState /\ ManagerJobInv'
    BY <1>9, BumpType, IdleTypes DEF ConsumeOrderCancelled, TypeInv, TypeOK
  <2>2. att' \in [Attempts -> AttemptRow]
    BY <1>9, RowType, SetAttemptType
       DEF ConsumeOrderCancelled, TypeInv, TypeOK, SetStatus, AttemptStatus,
      ClosedAttempt, rows
  <2> QED
    BY <1>9, <2>1, <2>2
       DEF ConsumeOrderCancelled, TypeInv, TypeOK, CancelJobInv, CallbackJobInv,
      ManagerJobInv, outside, rows, receiptVars, IntentStatus
<1>10. CASE SwitchAccount
  BY <1>10
     DEF SwitchAccount, TypeInv, TypeOK, CancelJobInv, CallbackJobInv, ManagerJobInv,
         outside, rows, receiptVars
<1>11. ASSUME NEW d \in Deliveries, ReadForCallback(d) PROVE TypeInv'
  <2> PICK a \in Attempts, r \in RequestIds :
          delivery' = [delivery EXCEPT ![d] = [at |-> a, rid |-> r, got |-> link[a]]]
    BY <1>11 DEF ReadForCallback
  <2> DEFINE job == [at |-> a, rid |-> r, got |-> link[a]]
  <2>0. job \in DeliveryState
    BY MaxAttemptsAssumption, ProviderAssumption DEF DeliveryState, TypeInv, TypeOK, Attempts
  <2>1. delivery' \in [Deliveries -> DeliveryState] /\ CallbackJobInv'
    BY <2>0, SetDeliveryType DEF TypeInv, TypeOK
  <2> QED
    BY <1>11, <2>1
       DEF ReadForCallback, TypeInv, TypeOK, CancelJobInv, CallbackJobInv,
      ManagerJobInv, outside, rows, receiptVars
<1>12. ASSUME NEW d \in Deliveries, ApplyVerifiedProviderResource(d) PROVE TypeInv'
  <2>1. manager' \in ManagerState /\ ManagerJobInv'
    BY <1>12, BumpType, IdleTypes DEF ApplyVerifiedProviderResource, TypeInv, TypeOK
  <2>2. delivery' \in [Deliveries -> DeliveryState] /\ CallbackJobInv'
    BY <1>12, IdleTypes, SetDeliveryType, ProviderAssumption
       DEF ApplyVerifiedProviderResource, TypeInv, TypeOK
  <2>3. att' \in [Attempts -> AttemptRow]
         /\ intent' \in IntentStatus \cup {"none"}
    BY <1>12, ApplyResourceType
       DEF ApplyVerifiedProviderResource, TypeInv, TypeOK, ManagerJobInv, CallbackJobInv
  <2> QED
    BY <1>12, <2>1, <2>2, <2>3
       DEF ApplyVerifiedProviderResource, TypeInv, TypeOK, CancelJobInv, CallbackJobInv,
      ManagerJobInv, outside, rows, receiptVars, IdleDelivery
<1>13. ASSUME NEW d \in Deliveries, RefuseCallback(d) PROVE TypeInv'
  <2>1. delivery' \in [Deliveries -> DeliveryState] /\ CallbackJobInv'
    BY <1>13, IdleTypes, SetDeliveryType, ProviderAssumption
       DEF RefuseCallback, TypeInv, TypeOK
  <2> QED
    BY <1>13, <2>1
       DEF RefuseCallback, TypeInv, TypeOK, CancelJobInv, CallbackJobInv, ManagerJobInv,
      outside, rows, receiptVars, IdleDelivery
<1>14. ASSUME NEW w \in Workers, PollCheckouts(w) PROVE TypeInv'
  <2>1. worker' \in [Workers -> WorkerState] /\ CancelJobInv'
    BY <1>14, JobType, SetWorkerType DEF PollCheckouts, TypeInv, TypeOK
  <2> QED
    BY <1>14, <2>1
       DEF PollCheckouts, TypeInv, TypeOK, CancelJobInv, CallbackJobInv, ManagerJobInv,
      outside, rows, receiptVars
<1>15. ASSUME NEW w \in Workers, SkipItem(w) PROVE TypeInv'
  <2>1. worker' \in [Workers -> WorkerState] /\ CancelJobInv'
    BY <1>15, FinishType DEF SkipItem, TypeInv, TypeOK
  <2> QED
    BY <1>15, <2>1
       DEF SkipItem, TypeInv, TypeOK, CancelJobInv, CallbackJobInv, ManagerJobInv,
      outside, rows, receiptVars
<1>16. ASSUME NEW w \in Workers, ClaimRequestedCheckout(w) PROVE TypeInv'
  <2>1. att' \in [Attempts -> AttemptRow]
    BY <1>16, RowType, SetAttemptType DEF ClaimRequestedCheckout, TypeInv, TypeOK
  <2>2. worker' \in [Workers -> WorkerState] /\ CancelJobInv'
    <3>1. worker[w] \in WorkerState /\ worker \in [Workers -> WorkerState] /\ CancelJobInv
      BY DEF TypeInv, TypeOK
    <3>2. PICK a \in Attempts : SetWorker(w, [worker[w] EXCEPT !.pc = "create", !.at = a])
      BY <1>16 DEF ClaimRequestedCheckout
    <3> DEFINE state == [worker[w] EXCEPT !.pc = "create", !.at = a]
    <3>3. state \in WorkerState /\ state.pc = "create"
      BY <3>1 DEF WorkerState, LeasePhase
    <3> HIDE DEF state
    <3> QED BY <3>1, <3>2, <3>3, SetWorkerType DEF state
  <2> QED
    BY <1>16, <2>1, <2>2
       DEF ClaimRequestedCheckout, TypeInv, TypeOK, CancelJobInv, CallbackJobInv,
      ManagerJobInv, outside, rows, receiptVars
<1>17. ASSUME NEW w \in Workers, CloseIneligible(w) PROVE TypeInv'
  <2>1. manager' \in ManagerState /\ ManagerJobInv'
    BY <1>17, BumpType, IdleTypes DEF CloseIneligible, TypeInv, TypeOK
  <2>2. att' \in [Attempts -> AttemptRow]
    BY <1>17, RowType, SetAttemptType
       DEF CloseIneligible, TypeInv, TypeOK, SetStatus, AttemptStatus, ClosedAttempt
  <2>3. worker' \in [Workers -> WorkerState] /\ CancelJobInv'
    BY <1>17, FinishType DEF CloseIneligible, TypeInv, TypeOK
  <2> QED
    BY <1>17, <2>1, <2>2, <2>3
       DEF CloseIneligible, TypeInv, TypeOK, CancelJobInv, CallbackJobInv,
      ManagerJobInv, outside, rows, receiptVars, IntentStatus
<1>18. ASSUME NEW w \in Workers, CreateCheckout(w) PROVE TypeInv'
  <2>1. worker' \in [Workers -> WorkerState] /\ CancelJobInv'
    BY <1>18, StepType DEF CreateCheckout, TypeInv, TypeOK, LeasePhase, CancelJobInv
  <2> QED
    BY <1>18, <2>1, ProviderAssumption
       DEF CreateCheckout, TypeInv, TypeOK, CancelJobInv, CallbackJobInv, ManagerJobInv,
      outside, rows, receiptVars
<1>19. ASSUME NEW w \in Workers, CreateCheckoutFails(w) PROVE TypeInv'
  <2>1. worker' \in [Workers -> WorkerState] /\ CancelJobInv'
    BY <1>19, StepType
       DEF CreateCheckoutFails, TypeInv, TypeOK, LeasePhase, CancelJobInv
  <2> QED
    BY <1>19, <2>1, ProviderAssumption
       DEF CreateCheckoutFails, TypeInv, TypeOK, CancelJobInv, CallbackJobInv,
      ManagerJobInv, outside, rows, receiptVars
<1>20. ASSUME NEW w \in Workers, ActivateHostedCheckout(w) PROVE TypeInv'
  <2>1. manager' \in ManagerState /\ ManagerJobInv'
    BY <1>20, BumpType, IdleTypes DEF ActivateHostedCheckout, TypeInv, TypeOK
  <2>2. att' \in [Attempts -> AttemptRow]
    BY <1>20, RowType, SetAttemptType
       DEF ActivateHostedCheckout, TypeInv, TypeOK, WorkerState
  <2>3. worker' \in [Workers -> WorkerState] /\ CancelJobInv'
    BY <1>20, FinishType DEF ActivateHostedCheckout, TypeInv, TypeOK
  <2> QED
    <3>1. activation' \in [Attempts -> 0 .. MaxAttempts]
      <4>1. worker[w].at \in 0 .. MaxAttempts
        BY MaxAttemptsAssumption DEF TypeInv, TypeOK, WorkerState, Attempts
      <4> QED BY <1>20, <4>1 DEF ActivateHostedCheckout, TypeInv, TypeOK
    <3>2. intent' \in IntentStatus
      BY <1>20 DEF ActivateHostedCheckout, IntentAfterActivation, IntentStatus
    <3> QED
      BY <1>20, <2>1, <2>2, <2>3, <3>1, <3>2
         DEF ActivateHostedCheckout, TypeInv, TypeOK, CallbackJobInv, outside
<1>21. ASSUME NEW w \in Workers, ActivationReplayed(w) PROVE TypeInv'
  <2>1. worker' \in [Workers -> WorkerState] /\ CancelJobInv'
    BY <1>21, FinishType DEF ActivationReplayed, TypeInv, TypeOK
  <2> QED
    BY <1>21, <2>1
       DEF ActivationReplayed, TypeInv, TypeOK, CancelJobInv, CallbackJobInv,
      ManagerJobInv, outside, rows, receiptVars
<1>22. ASSUME NEW w \in Workers, ActivationRefused(w) PROVE TypeInv'
  <2>1. worker' \in [Workers -> WorkerState] /\ CancelJobInv'
    BY <1>22, StepType DEF ActivationRefused, TypeInv, TypeOK, LeasePhase, CancelJobInv
  <2> QED
    BY <1>22, <2>1
       DEF ActivationRefused, TypeInv, TypeOK, CancelJobInv, CallbackJobInv,
      ManagerJobInv, outside, rows, receiptVars
<1>23. ASSUME NEW w \in Workers, ReleaseCheckoutLease(w) PROVE TypeInv'
  <2>1. att' \in [Attempts -> AttemptRow]
    BY <1>23, RowType, SetAttemptType
       DEF ReleaseCheckoutLease, TypeInv, TypeOK, WorkerState
  <2>2. worker' \in [Workers -> WorkerState] /\ CancelJobInv'
    BY <1>23, FinishType DEF ReleaseCheckoutLease, TypeInv, TypeOK
  <2> QED
    BY <1>23, <2>1, <2>2
       DEF ReleaseCheckoutLease, TypeInv, TypeOK, CancelJobInv, CallbackJobInv,
      ManagerJobInv, outside, rows, receiptVars
<1>24. ASSUME NEW w \in Workers, SelectCancellation(w) PROVE TypeInv'
  <2>1. worker' \in [Workers -> WorkerState] /\ CancelJobInv'
    <3>1. PICK a \in Attempts :
             /\ CancelPending(a)
             /\ SetWorker(w, [IdleWorker EXCEPT !.pc = "cancel_item", !.at = a,
                                                !.evt = att[a].cancel])
      BY <1>24 DEF SelectCancellation
    <3>2. att[a].cancel \in 1 .. MaxCancels
      BY <3>1, MaxCancelsAssumption DEF CancelPending, TypeInv, TypeOK, AttemptRow
    <3> QED
      BY <3>1, <3>2, JobType, SetWorkerType DEF TypeInv, TypeOK
  <2> QED
    BY <1>24, <2>1
       DEF SelectCancellation, TypeInv, TypeOK, CancelJobInv, CallbackJobInv,
      ManagerJobInv, outside, rows, receiptVars
<1>25. ASSUME NEW w \in Workers, CompleteForTerminalAttempt(w) PROVE TypeInv'
  <2>1. att' \in [Attempts -> AttemptRow]
    BY <1>25, RowType, SetAttemptType
       DEF CompleteForTerminalAttempt, TypeInv, TypeOK, WorkerState
  <2>2. worker' \in [Workers -> WorkerState] /\ CancelJobInv'
    BY <1>25, FinishType DEF CompleteForTerminalAttempt, TypeInv, TypeOK
  <2> QED
    BY <1>25, <2>1, <2>2
       DEF CompleteForTerminalAttempt, TypeInv, TypeOK, CancelJobInv, CallbackJobInv,
      ManagerJobInv, outside, rows, receiptVars
<1>26. ASSUME NEW w \in Workers, ClaimCheckoutCancellation(w) PROVE TypeInv'
  <2>1. att' \in [Attempts -> AttemptRow]
    BY <1>26, RowType, SetAttemptType
       DEF ClaimCheckoutCancellation, TypeInv, TypeOK, WorkerState
  <2>2. worker' \in [Workers -> WorkerState] /\ CancelJobInv'
    BY <1>26, StepType
       DEF ClaimCheckoutCancellation, TypeInv, TypeOK, LeasePhase, CancelJobInv
  <2> QED
    BY <1>26, <2>1, <2>2
       DEF ClaimCheckoutCancellation, TypeInv, TypeOK, CancelJobInv, CallbackJobInv,
      ManagerJobInv, outside, rows, receiptVars
<1>27. ASSUME NEW w \in Workers, SkipCancellation(w) PROVE TypeInv'
  <2>1. worker' \in [Workers -> WorkerState] /\ CancelJobInv'
    BY <1>27, FinishType DEF SkipCancellation, TypeInv, TypeOK
  <2> QED
    BY <1>27, <2>1
       DEF SkipCancellation, TypeInv, TypeOK, CancelJobInv, CallbackJobInv,
      ManagerJobInv, outside, rows, receiptVars
<1>28. ASSUME NEW w \in Workers, CancelCheckout(w) PROVE TypeInv'
  <2>1. link' \in [Attempts -> ProviderStatuses \cup {"none"}]
    BY <1>28 DEF CancelCheckout, CancelAtProvider, TypeInv, TypeOK
  <2>2. worker' \in [Workers -> WorkerState] /\ CancelJobInv'
    BY <1>28, <2>1, SetWorkerType, ProviderAssumption
       DEF CancelCheckout, TypeInv, TypeOK, CancelJobInv, WorkerState, LeasePhase
  <2> QED
    BY <1>28, <2>1, <2>2
       DEF CancelCheckout, TypeInv, TypeOK, CancelJobInv, CallbackJobInv, ManagerJobInv,
      outside, rows, receiptVars
<1>29. ASSUME NEW w \in Workers, CancelCheckoutFails(w) PROVE TypeInv'
  <2>1. link' \in [Attempts -> ProviderStatuses \cup {"none"}]
    BY <1>29 DEF CancelCheckoutFails, CancelAtProvider, TypeInv, TypeOK
  <2>2. worker' \in [Workers -> WorkerState] /\ CancelJobInv'
    BY <1>29, StepType
       DEF CancelCheckoutFails, TypeInv, TypeOK, LeasePhase, CancelJobInv
  <2> QED
    BY <1>29, <2>1, <2>2
       DEF CancelCheckoutFails, TypeInv, TypeOK, CancelJobInv, CallbackJobInv,
      ManagerJobInv, outside, rows, receiptVars
<1>30. ASSUME NEW w \in Workers, ApplyVerifiedCheckoutCancellation(w) PROVE TypeInv'
  <2>1. manager' \in ManagerState /\ ManagerJobInv'
    BY <1>30, BumpType, IdleTypes DEF ApplyVerifiedCheckoutCancellation, TypeInv, TypeOK
  <2>2. att' \in [Attempts -> AttemptRow]
    <3> DEFINE a == worker[w].at
               status == IF Changes(a, worker[w].got, "cancellation_worker")
                         THEN AttemptAfter(a, worker[w].got, "cancellation_worker")
                         ELSE att[a].st
               complete == intent' \notin {"awaiting_payment", "processing"}
               row == [Unleased(a) EXCEPT !.st = status, !.backoff = ~complete,
                                          !.cancelDone = complete]
    <3>1. a \in Attempts /\ att[a] \in AttemptRow
      BY DEF TypeInv, TypeOK, WorkerState
    <3>2. status \in AttemptStatus \cup {"none"}
      BY <3>1, EvidenceType DEF AttemptRow
    <3>3. complete \in BOOLEAN /\ (~complete) \in BOOLEAN
      BY Zenon
    <3> HIDE DEF status, complete
    <3>4. row \in AttemptRow
      BY <3>1, <3>2, <3>3, RowType
    <3>5. SetAttempt(a, row)
      BY <1>30 DEF ApplyVerifiedCheckoutCancellation, status, complete
    <3> QED
      BY <3>1, <3>4, <3>5, SetAttemptType DEF TypeInv, TypeOK
  <2>3. worker' \in [Workers -> WorkerState] /\ CancelJobInv'
    BY <1>30, FinishType DEF ApplyVerifiedCheckoutCancellation, TypeInv, TypeOK
  <2> QED
    BY <1>30, <2>1, <2>2, <2>3, EvidenceType
       DEF ApplyVerifiedCheckoutCancellation, TypeInv, TypeOK, CancelJobInv,
      CallbackJobInv, ManagerJobInv, outside, rows, receiptVars, WorkerState
<1>31. ASSUME NEW w \in Workers, CancellationRefused(w) PROVE TypeInv'
  <2>1. worker' \in [Workers -> WorkerState] /\ CancelJobInv'
    BY <1>31, SetWorkerType
       DEF CancellationRefused, TypeInv, TypeOK, WorkerState, LeasePhase
  <2> QED
    BY <1>31, <2>1
       DEF CancellationRefused, TypeInv, TypeOK, CancelJobInv, CallbackJobInv,
      ManagerJobInv, outside, rows, receiptVars
<1>32. ASSUME NEW w \in Workers, WorkerDies(w) PROVE TypeInv'
  <2>1. worker' \in [Workers -> WorkerState] /\ CancelJobInv'
    BY <1>32, IdleWorkerType, SetWorkerType DEF WorkerDies, TypeInv, TypeOK, IdleWorker
  <2> QED
    BY <1>32, <2>1
       DEF WorkerDies, TypeInv, TypeOK, CancelJobInv, CallbackJobInv, ManagerJobInv,
      outside, rows, receiptVars
<1>33. ASSUME NEW a \in Attempts, LeaseExpires(a) PROVE TypeInv'
  <2>1. att' \in [Attempts -> AttemptRow]
    BY <1>33, RowType, SetAttemptType DEF LeaseExpires, TypeInv, TypeOK
  <2> QED
    BY <1>33, <2>1
       DEF LeaseExpires, TypeInv, TypeOK, CancelJobInv, CallbackJobInv, ManagerJobInv,
      outside, rows, receiptVars
<1>34. ASSUME NEW a \in Attempts, BackoffElapses(a) PROVE TypeInv'
  <2>1. att' \in [Attempts -> AttemptRow]
    BY <1>34, RowType, SetAttemptType DEF BackoffElapses, TypeInv, TypeOK
  <2> QED
    BY <1>34, <2>1
       DEF BackoffElapses, TypeInv, TypeOK, CancelJobInv, CallbackJobInv, ManagerJobInv,
      outside, rows, receiptVars
<1>35. ASSUME NEW a \in Attempts, ProviderUpdates(a) PROVE TypeInv'
  BY <1>35
     DEF ProviderUpdates, TypeInv, TypeOK, CancelJobInv, CallbackJobInv, ManagerJobInv,
         outside, rows, receiptVars
<1> QED
  BY <1>1, <1>2, <1>3, <1>4, <1>5, <1>6, <1>7, <1>8, <1>9, <1>10, <1>11, <1>12, <1>13,
     <1>14, <1>15, <1>16, <1>17, <1>18, <1>19, <1>20, <1>21, <1>22, <1>23, <1>24, <1>25,
     <1>26, <1>27, <1>28, <1>29, <1>30, <1>31, <1>32, <1>33, <1>34, <1>35
     DEF Next, ManagerStep, CallbackStep, CheckoutStep, CancellationStep

LEMMA TypeStutter ==
    ASSUME TypeInv, UNCHANGED vars
    PROVE  TypeInv'
BY DEF vars, TypeInv, TypeOK, CancelJobInv, CallbackJobInv, ManagerJobInv

\* Statuses stay within the check constraints of the models, and every other
\* variable keeps its type, in every reachable state.
THEOREM TypeCorrect == Spec => []TypeOK
<1>1. TypeInv /\ [Next]_vars => TypeInv'
  BY TypeStep, TypeStutter
<1>2. TypeInv => TypeOK
  BY DEF TypeInv
<1> QED BY TypeInit, <1>1, <1>2, PTL DEF Spec

(***************************************************************************)
(* Leases and the order of attempts                                        *)
(*                                                                         *)
(* OneOpenAttempt and the guarantees to a worker in a provider call are    *)
(* not inductive: they rest on who holds a live lease, on a waiting        *)
(* attempt having no provider resource yet, and on every attempt but the   *)
(* latest being closed.                                                    *)
(***************************************************************************)

\* A worker between its claim and its apply or release holds a live lease.
HeldInv ==
    \A w \in Workers :
        worker[w].pc \in LeasePhase =>
            /\ att[worker[w].at].lease = w
            /\ att[worker[w].at].live
            /\ Created(worker[w].at)

\* A checkout is created only for a waiting attempt, and cancelled only for one
\* the provider knows.
PhaseInv ==
    \A w \in Workers :
        /\ worker[w].pc \in {"create", "activate"} => att[worker[w].at].st = "requested"
        /\ worker[w].pc \in {"cancel_call", "cancel_apply"} => att[worker[w].at].ext

\* The provider does not know a waiting attempt.
UnsentInv == \A a \in Attempts : att[a].st \in {"none", "requested"} => ~att[a].ext

\* Every attempt before another one is closed.
OrderedInv ==
    \A a, b \in Attempts : a < b /\ Created(b) => att[a].st \in ClosedAttempt

\* A reconciliation in progress is about an attempt the provider knows.
FetchedInv == manager # IdleManager => att[manager.at].ext

LeaseInv == HeldInv /\ PhaseInv /\ UnsentInv /\ OrderedInv /\ FetchedInv

KeepsClosed ==
    \A a \in Attempts : att[a].st \in ClosedAttempt => att'[a].st = att[a].st

LEMMA SetAttemptEffect ==
    ASSUME att \in [Attempts -> AttemptRow], NEW a \in Attempts, NEW row, SetAttempt(a, row)
    PROVE  \A b \in Attempts : att'[b] = IF b = a THEN row ELSE att[b]
BY DEF SetAttempt

LEMMA SetWorkerEffect ==
    ASSUME worker \in [Workers -> WorkerState], NEW w \in Workers, NEW state,
           SetWorker(w, state)
    PROVE  \A v \in Workers : worker'[v] = IF v = w THEN state ELSE worker[v]
BY DEF SetWorker

LEMMA FinishEffect ==
    ASSUME worker \in [Workers -> WorkerState], NEW w \in Workers, Finish(w)
    PROVE  \A v \in Workers : IF v = w THEN worker'[v].pc \notin LeasePhase
                              ELSE worker'[v] = worker[v]
BY NextItemType, SetWorkerEffect DEF Finish, LeasePhase

LEMMA StepEffect ==
    ASSUME worker \in [Workers -> WorkerState], NEW w \in Workers, NEW pc, Step(w, pc)
    PROVE  /\ \A v \in Workers \ {w} : worker'[v] = worker[v]
           /\ worker'[w].pc = pc /\ worker'[w].at = worker[w].at
BY SetWorkerEffect DEF Step, WorkerState

\* The manager's reconciliation goes on with the attempt it read, or ends.
ManagerKept ==
    \/ manager' = IdleManager
    \/ manager # IdleManager /\ manager'.at = manager.at

LEMMA BumpKeeps ==
    ASSUME manager \in ManagerState, Bump \/ UNCHANGED manager
    PROVE  ManagerKept
<1>1. CASE UNCHANGED manager
  BY <1>1 DEF ManagerKept
<1>2. CASE Bump /\ manager = IdleManager
  BY <1>2 DEF Bump, IdleManager, ManagerKept
<1>3. CASE Bump /\ manager # IdleManager
  BY <1>3 DEF Bump, ManagerState, ManagerKept
<1> QED BY <1>1, <1>2, <1>3

\* No other worker takes a lease, and none enters a provider call.
OthersStay == \A v \in Workers : worker'[v] = worker[v] \/ worker'[v].pc \notin LeasePhase

\* Steps that leave the attempts alone and give no worker a lease.
LEMMA NoRowStep ==
    ASSUME TypeInv, LeaseInv, UNCHANGED att, ManagerKept, OthersStay
    PROVE  LeaseInv' /\ KeepsClosed
<1>1. HeldInv'
  BY DEF LeaseInv, HeldInv, OthersStay, Created
<1>2. PhaseInv'
  BY DEF LeaseInv, PhaseInv, OthersStay, LeasePhase
<1>3. UnsentInv' /\ OrderedInv' /\ KeepsClosed
  BY DEF LeaseInv, UnsentInv, OrderedInv, Created, KeepsClosed
<1>4. FetchedInv'
  BY DEF LeaseInv, FetchedInv, ManagerKept
<1> QED BY <1>1, <1>2, <1>3, <1>4 DEF LeaseInv

\* The provider's answer, or its absence, moves a worker on within its lease.
LEMMA ProceedStep ==
    ASSUME TypeInv, LeaseInv, UNCHANGED <<att, manager>>,
           NEW w \in Workers, worker[w].pc \in LeasePhase,
           \A v \in Workers \ {w} : worker'[v] = worker[v],
           worker'[w].at = worker[w].at,
           worker'[w].pc \in {"create", "activate"} => worker[w].pc \in {"create", "activate"},
           worker'[w].pc \in {"cancel_call", "cancel_apply"}
               => worker[w].pc \in {"cancel_call", "cancel_apply"}
    PROVE  LeaseInv' /\ KeepsClosed
<1>1. HeldInv'
  BY DEF LeaseInv, HeldInv, Created
<1>2. PhaseInv'
  BY DEF LeaseInv, PhaseInv
<1>3. UnsentInv' /\ OrderedInv' /\ FetchedInv' /\ KeepsClosed
  BY DEF LeaseInv, UnsentInv, OrderedInv, Created, KeepsClosed, FetchedInv
<1> QED BY <1>1, <1>2, <1>3 DEF LeaseInv

\* A claim takes the lease of an attempt nobody holds.
LEMMA ClaimStep ==
    ASSUME TypeInv, LeaseInv, UNCHANGED manager,
           NEW w \in Workers, NEW a \in Attempts, Created(a), ~att[a].live,
           SetAttempt(a, Leased(a, w)),
           \A v \in Workers \ {w} : worker'[v] = worker[v],
           worker'[w].at = a,
           \/ worker'[w].pc = "create" /\ att[a].st = "requested"
           \/ worker'[w].pc = "cancel_call" /\ att[a].ext
    PROVE  LeaseInv' /\ KeepsClosed
<1>1. \A b \in Attempts :
         /\ att'[b].st = att[b].st /\ att'[b].ext = att[b].ext
         /\ att'[b].lease = IF b = a THEN w ELSE att[b].lease
         /\ att'[b].live = IF b = a THEN TRUE ELSE att[b].live
  <2>1. \A b \in Attempts : att'[b] = IF b = a THEN Leased(a, w) ELSE att[b]
    BY SetAttemptEffect DEF TypeInv, TypeOK
  <2>2. att[a] \in AttemptRow
    BY DEF TypeInv, TypeOK
  <2>3. /\ Leased(a, w).st = att[a].st /\ Leased(a, w).ext = att[a].ext
        /\ Leased(a, w).lease = w /\ Leased(a, w).live = TRUE
    BY <2>2 DEF AttemptRow, Leased
  <2> QED
    BY <2>1, <2>3
<1>2. \A v \in Workers : worker[v].at \in Attempts
  BY DEF TypeInv, TypeOK, WorkerState
<1>3. ASSUME NEW v \in Workers \ {w}, worker'[v].pc \in LeasePhase
      PROVE  worker'[v] = worker[v] /\ worker[v].at # a
  BY <1>3 DEF LeaseInv, HeldInv
<1>4. HeldInv' /\ PhaseInv'
  <2>1. ASSUME NEW v \in Workers, worker'[v].pc \in LeasePhase
        PROVE  /\ att'[worker'[v].at].lease = v
               /\ att'[worker'[v].at].live
               /\ att'[worker'[v].at].st # "none"
               /\ worker'[v].pc \in {"create", "activate"}
                     => att'[worker'[v].at].st = "requested"
               /\ worker'[v].pc \in {"cancel_call", "cancel_apply"}
                     => att'[worker'[v].at].ext
    <3>1. CASE v = w BY <3>1, <1>1 DEF Created
    <3>2. CASE v # w
      <4>1. worker'[v] = worker[v] /\ worker[v].at # a /\ worker[v].at \in Attempts
        BY <2>1, <3>2, <1>2, <1>3
      <4>2. worker[v].pc \in LeasePhase
        BY <2>1, <4>1
      <4>3. /\ att[worker[v].at].lease = v
            /\ att[worker[v].at].live
            /\ att[worker[v].at].st # "none"
            /\ worker[v].pc \in {"create", "activate"}
                  => att[worker[v].at].st = "requested"
            /\ worker[v].pc \in {"cancel_call", "cancel_apply"} => att[worker[v].at].ext
        BY <4>2 DEF LeaseInv, HeldInv, PhaseInv, Created
      <4>4. att'[worker[v].at].lease = att[worker[v].at].lease
            /\ att'[worker[v].at].live = att[worker[v].at].live
            /\ att'[worker[v].at].st = att[worker[v].at].st
            /\ att'[worker[v].at].ext = att[worker[v].at].ext
        BY <4>1, <1>1
      <4> QED BY <4>1, <4>3, <4>4
    <3> QED BY <3>1, <3>2
  <2> QED BY <2>1 DEF HeldInv, PhaseInv, LeasePhase, Created
<1>5. UnsentInv' /\ OrderedInv' /\ KeepsClosed
  BY <1>1 DEF LeaseInv, UnsentInv, OrderedInv, Created, KeepsClosed
<1>6. FetchedInv'
  BY <1>1 DEF LeaseInv, FetchedInv, TypeInv, ManagerJobInv
<1> QED BY <1>4, <1>5, <1>6 DEF LeaseInv

\* A step that writes one attempt: a closed one keeps its status, none becomes
\* waiting, and a worker that stays in its lease finds lease and status as they were.
LEMMA RowStep ==
    ASSUME TypeInv, LeaseInv, ManagerKept, OthersStay,
           NEW a \in Attempts, NEW row, SetAttempt(a, row),
           att[a].st \in ClosedAttempt => row.st = att[a].st,
           row.st = att[a].st \/ (Created(a) /\ row.st \notin {"none", "requested"}),
           att[a].ext => row.ext,
           row.ext => att[a].ext \/ row.st \notin {"none", "requested"},
           \A v \in Workers :
               worker[v].pc \in LeasePhase /\ worker[v].at = a /\ worker'[v] = worker[v] =>
                   /\ row.lease = att[a].lease /\ row.live
                   /\ worker[v].pc \in {"create", "activate"} => row.st = att[a].st
    PROVE  LeaseInv' /\ KeepsClosed
<1>1. \A b \in Attempts : att'[b] = IF b = a THEN row ELSE att[b]
  BY SetAttemptEffect DEF TypeInv, TypeOK
<1>2. \A v \in Workers : worker[v].at \in Attempts
  BY DEF TypeInv, TypeOK, WorkerState
<1>3. HeldInv'
  BY <1>1, <1>2 DEF LeaseInv, HeldInv, Created, OthersStay, ClosedAttempt
<1>4. PhaseInv'
  BY <1>1, <1>2 DEF LeaseInv, PhaseInv, OthersStay, LeasePhase
<1>5. UnsentInv' /\ KeepsClosed
  BY <1>1 DEF LeaseInv, UnsentInv, KeepsClosed
<1>6. OrderedInv'
  BY <1>1 DEF LeaseInv, OrderedInv, Created
<1>7. FetchedInv'
  BY <1>1 DEF LeaseInv, FetchedInv, TypeInv, ManagerJobInv, ManagerKept
<1> QED BY <1>3, <1>4, <1>5, <1>6, <1>7 DEF LeaseInv

\* A new attempt comes after all others, which are closed.
LEMMA NewAttemptStep ==
    ASSUME TypeInv, LeaseInv, ManagerKept, UNCHANGED worker,
           \A b \in Attempts : ~Open(b),
           NEW a \in Attempts, IsNext(a), SetAttempt(a, NewAttempt)
    PROVE  LeaseInv' /\ KeepsClosed
<1>1. \A b \in Attempts : att'[b] = IF b = a THEN NewAttempt ELSE att[b]
  BY SetAttemptEffect DEF TypeInv, TypeOK
<1>2. NewAttempt.st = "requested" /\ NewAttempt.ext = FALSE
  BY DEF NewAttempt, NoAttempt
<1>3. \A v \in Workers : worker[v].at \in Attempts
  BY DEF TypeInv, TypeOK, WorkerState
<1>4. HeldInv' /\ PhaseInv'
  BY <1>1, <1>3 DEF LeaseInv, HeldInv, PhaseInv, Created, IsNext, LeasePhase
<1>5. UnsentInv' /\ KeepsClosed
  BY <1>1, <1>2 DEF LeaseInv, UnsentInv, KeepsClosed, IsNext, Created, ClosedAttempt
<1>6. OrderedInv'
  <2> SUFFICES ASSUME NEW b \in Attempts, NEW c \in Attempts, b < c, Created(c)'
               PROVE  att'[b].st \in ClosedAttempt
    BY DEF OrderedInv
  <2>1. CASE c = a
    <3>1. b # a /\ Created(b) /\ ~Open(b)
      BY <2>1 DEF IsNext, Attempts
    <3> QED
      BY <3>1, <1>1 DEF TypeInv, TypeOK, AttemptRow, AttemptStatus, Open, Created
  <2>2. CASE c # a
    <3>1. Created(c) BY <1>1, <2>2 DEF Created
    <3>2. att[b].st \in ClosedAttempt BY <3>1 DEF LeaseInv, OrderedInv
    <3> QED BY <3>2, <1>1 DEF IsNext, Created, ClosedAttempt
  <2> QED BY <2>1, <2>2
<1>7. FetchedInv'
  BY <1>1 DEF LeaseInv, FetchedInv, UnsentInv, TypeInv, ManagerJobInv, ManagerKept,
              IsNext, Created
<1> QED BY <1>4, <1>5, <1>6, <1>7 DEF LeaseInv

LEMMA EvidenceStatus ==
    \A a, s, source : AttemptAfter(a, s, source) \notin {"none", "requested"}
BY TargetType, Zenon DEF AttemptAfter, AttemptNeedingAttention, ClosedAttempt

\* Evidence is about an attempt the provider knows, which no worker is creating.
LEMMA EvidenceStep ==
    ASSUME TypeInv, LeaseInv, ManagerKept, UNCHANGED worker,
           NEW a \in Attempts, att[a].ext, NEW s, NEW source, ApplyResource(a, s, source)
    PROVE  LeaseInv' /\ KeepsClosed
<1>1. OthersStay
  BY DEF OthersStay
<1>2. CASE ~Changes(a, s, source)
  BY <1>1, <1>2, NoRowStep DEF ApplyResource, rows
<1>3. CASE Changes(a, s, source)
  <2> DEFINE row == [att[a] EXCEPT !.st = AttemptAfter(a, s, source)]
  <2>1. /\ row.st = AttemptAfter(a, s, source) /\ row.ext = att[a].ext
        /\ row.lease = att[a].lease /\ row.live = att[a].live
    <3>1. att[a] \in AttemptRow BY DEF TypeInv, TypeOK
    <3> QED BY <3>1 DEF AttemptRow
  <2>2. SetAttempt(a, row) BY <1>3 DEF ApplyResource, SetStatus
  <2>3. att[a].st \in ClosedAttempt => row.st = att[a].st BY <2>1, EvidenceKeepsClosed
  <2>4. row.st \notin {"none", "requested"} BY <2>1, EvidenceStatus
  <2>5. Created(a) /\ att[a].st # "requested" BY DEF LeaseInv, UnsentInv, Created
  <2>6. \A v \in Workers :
           worker[v].pc \in LeasePhase /\ worker[v].at = a =>
              att[a].live /\ worker[v].pc \notin {"create", "activate"}
    BY <2>5 DEF LeaseInv, HeldInv, PhaseInv
  <2>7. \A v \in Workers :
           worker[v].pc \in LeasePhase /\ worker[v].at = a =>
               /\ row.lease = att[a].lease /\ row.live
               /\ worker[v].pc \in {"create", "activate"} => row.st = att[a].st
    BY <2>1, <2>6
  <2>8. row.st = att[a].st \/ (Created(a) /\ row.st \notin {"none", "requested"})
    BY <2>4, <2>5
  <2>9. att[a].ext /\ row.ext
    BY <2>1
  <2> HIDE DEF row
  <2> QED BY <1>1, <2>2, <2>3, <2>7, <2>8, <2>9, RowStep
<1> QED BY <1>2, <1>3

\* Every step keeps the lease invariant and the outcome of closed attempts.
LEMMA LeaseStep ==
    ASSUME TypeInv, LeaseInv, Next, LeaseOutlivesWorker
    PROVE  LeaseInv' /\ KeepsClosed
<1> DEFINE Goal == LeaseInv' /\ KeepsClosed
<1>0. /\ att \in [Attempts -> AttemptRow] /\ worker \in [Workers -> WorkerState]
      /\ manager \in ManagerState
      /\ \A w \in Workers : worker[w].at \in Attempts /\ att[worker[w].at] \in AttemptRow
      /\ UNCHANGED manager => ManagerKept
      /\ Bump => ManagerKept
      /\ UNCHANGED worker => OthersStay
  BY BumpKeeps DEF TypeInv, TypeOK, WorkerState, OthersStay
<1>fin. ASSUME NEW w \in Workers, Finish(w) PROVE OthersStay
  BY <1>0, <1>fin, FinishEffect DEF OthersStay
<1>set. ASSUME NEW w \in Workers, NEW state, state.pc \notin LeasePhase, SetWorker(w, state)
        PROVE  OthersStay
  BY <1>0, <1>set, SetWorkerEffect DEF OthersStay
<1>1. CASE CreatePaymentIntent
  BY <1>1, <1>0, NoRowStep DEF CreatePaymentIntent, rows
<1>2. CASE RequestHostedCheckout
  BY <1>2, <1>0, NewAttemptStep DEF RequestHostedCheckout, NoOpenAttempt
<1>3. CASE RequestHostedCheckoutCancellation
  <2>1. ManagerKept /\ OthersStay
    BY <1>3, <1>0 DEF RequestHostedCheckoutCancellation
  <2>2. PICK a \in Attempts :
           /\ Open(a)
           /\ \/ /\ att[a].st = "requested" /\ att[a].lease = NoWorker
                 /\ SetAttempt(a, [att[a] EXCEPT !.st = "cancelled", !.backoff = FALSE])
              \/ SetAttempt(a, [att[a] EXCEPT !.cancel = @ + 1, !.cancelDone = FALSE])
    BY <1>3 DEF RequestHostedCheckoutCancellation, NotInFlight
  <2>3. Created(a) /\ att[a].st \notin ClosedAttempt
    BY <2>2 DEF Open, Created, OpenAttempt, ClosedAttempt
  <2>4. \A v \in Workers :
           worker[v].pc \in LeasePhase /\ worker[v].at = a =>
              att[a].lease # NoWorker /\ att[a].live
    BY NoWorkerAssumption DEF LeaseInv, HeldInv
  <2>5. CASE /\ att[a].st = "requested" /\ att[a].lease = NoWorker
             /\ SetAttempt(a, [att[a] EXCEPT !.st = "cancelled", !.backoff = FALSE])
    <3> DEFINE row == [att[a] EXCEPT !.st = "cancelled", !.backoff = FALSE]
    <3>1. row.st = "cancelled" /\ row.ext = att[a].ext
      BY <1>0 DEF AttemptRow
    <3>2. SetAttempt(a, row) BY <2>5
    <3> HIDE DEF row
    <3> QED BY <2>1, <2>3, <2>4, <2>5, <3>1, <3>2, RowStep
  <2>6. CASE SetAttempt(a, [att[a] EXCEPT !.cancel = @ + 1, !.cancelDone = FALSE])
    <3> DEFINE row == [att[a] EXCEPT !.cancel = @ + 1, !.cancelDone = FALSE]
    <3>1. /\ row.st = att[a].st /\ row.ext = att[a].ext
          /\ row.lease = att[a].lease /\ row.live = att[a].live
      BY <1>0 DEF AttemptRow
    <3>2. SetAttempt(a, row) BY <2>6
    <3> HIDE DEF row
    <3> QED BY <2>1, <2>3, <2>4, <3>1, <3>2, RowStep
  <2> QED BY <2>2, <2>5, <2>6
<1>4. CASE ReopenPaymentAfterVerifiedClosure
  BY <1>4, <1>0, NoRowStep DEF ReopenPaymentAfterVerifiedClosure, rows
<1>5. CASE FetchForReconciliation
  <2>1. HeldInv' /\ PhaseInv' /\ UnsentInv' /\ OrderedInv' /\ KeepsClosed
    BY <1>5 DEF FetchForReconciliation, LeaseInv, HeldInv, PhaseInv, UnsentInv, OrderedInv,
                Created, KeepsClosed, rows
  <2>2. FetchedInv'
    BY <1>5 DEF FetchForReconciliation, FetchedInv, rows
  <2> QED BY <2>1, <2>2 DEF LeaseInv
<1>6. CASE ReconcileVerifiedResource
  <2>1. manager.at \in Attempts /\ att[manager.at].ext /\ ManagerKept
    BY <1>6 DEF ReconcileVerifiedResource, LeaseInv, FetchedInv, TypeInv, ManagerJobInv,
                ManagerKept
  <2> QED BY <1>6, <2>1, EvidenceStep DEF ReconcileVerifiedResource
<1>7. CASE RefuseReconciliation
  BY <1>7, <1>0, NoRowStep DEF RefuseReconciliation, rows, ManagerKept
<1>8. CASE CancelOrder
  BY <1>8, <1>0, NoRowStep DEF CancelOrder, rows
<1>9. CASE ConsumeOrderCancelled
  <2>1. ManagerKept /\ OthersStay
    BY <1>9, <1>0 DEF ConsumeOrderCancelled
  <2>2. CASE UNCHANGED att
    BY <2>1, <2>2, NoRowStep
  <2>3. CASE ~UNCHANGED att
    <3>1. PICK a \in Attempts :
             /\ att[a].st = "requested" /\ att[a].lease = NoWorker
             /\ SetStatus(a, "cancelled")
      BY <1>9, <2>3 DEF ConsumeOrderCancelled, rows, NotInFlight
    <3> DEFINE row == [att[a] EXCEPT !.st = "cancelled"]
    <3>2. row.st = "cancelled" /\ row.ext = att[a].ext
      BY <1>0 DEF AttemptRow
    <3>3. SetAttempt(a, row) BY <3>1 DEF SetStatus
    <3>4. \A v \in Workers : ~(worker[v].pc \in LeasePhase /\ worker[v].at = a)
      BY <3>1, NoWorkerAssumption DEF LeaseInv, HeldInv
    <3>5. Created(a) /\ att[a].st \notin ClosedAttempt
      BY <3>1 DEF Created, ClosedAttempt
    <3> HIDE DEF row
    <3> QED BY <2>1, <3>2, <3>3, <3>4, <3>5, RowStep
  <2> QED BY <2>2, <2>3
<1>10. CASE SwitchAccount
  BY <1>10, <1>0, NoRowStep DEF SwitchAccount, rows
<1>11. ASSUME NEW d \in Deliveries, ReadForCallback(d) PROVE Goal
  BY <1>11, <1>0, NoRowStep DEF ReadForCallback, rows
<1>12. ASSUME NEW d \in Deliveries, ApplyVerifiedProviderResource(d) PROVE Goal
  <2>1. delivery[d].at \in Attempts /\ att[delivery[d].at].ext
    BY <1>12 DEF ApplyVerifiedProviderResource, CallbackAcceptable, TypeInv, CallbackJobInv
  <2>2. ManagerKept
    BY <1>12, <1>0 DEF ApplyVerifiedProviderResource
  <2> QED BY <1>12, <2>1, <2>2, EvidenceStep DEF ApplyVerifiedProviderResource
<1>13. ASSUME NEW d \in Deliveries, RefuseCallback(d) PROVE Goal
  BY <1>13, <1>0, NoRowStep DEF RefuseCallback, rows
<1>14. ASSUME NEW w \in Workers, PollCheckouts(w) PROVE Goal
  <2>1. PICK n \in Attempts :
           SetWorker(w, [IdleWorker EXCEPT !.pc = "item", !.evt = 1, !.last = n])
    BY <1>14 DEF PollCheckouts
  <2>2. [IdleWorker EXCEPT !.pc = "item", !.evt = 1, !.last = n].pc \notin LeasePhase
    BY DEF IdleWorker, LeasePhase
  <2>3. OthersStay BY <2>1, <2>2, <1>set
  <2> QED BY <1>14, <2>3, <1>0, NoRowStep DEF PollCheckouts, rows
<1>15. ASSUME NEW w \in Workers, SkipItem(w) PROVE Goal
  BY <1>15, <1>0, <1>fin, NoRowStep DEF SkipItem, rows
<1>16. ASSUME NEW w \in Workers, ClaimRequestedCheckout(w) PROVE Goal
  <2>1. PICK a \in Attempts :
           /\ att[a].st = "requested" /\ Claimable(a)
           /\ SetAttempt(a, Leased(a, w))
           /\ SetWorker(w, [worker[w] EXCEPT !.pc = "create", !.at = a])
    BY <1>16 DEF ClaimRequestedCheckout
  <2> DEFINE job == [worker[w] EXCEPT !.pc = "create", !.at = a]
  <2>4. job.pc = "create" /\ job.at = a
    BY <1>0 DEF WorkerState
  <2>5. \A v \in Workers : worker'[v] = IF v = w THEN job ELSE worker[v]
    BY <1>0, <2>1, SetWorkerEffect
  <2> HIDE DEF job
  <2>2. /\ \A v \in Workers \ {w} : worker'[v] = worker[v]
        /\ worker'[w].at = a /\ worker'[w].pc = "create"
    BY <2>4, <2>5
  <2>3. Created(a) /\ ~att[a].live
    BY <2>1 DEF Created, Claimable
  <2> QED BY <1>16, <2>1, <2>2, <2>3, ClaimStep DEF ClaimRequestedCheckout
<1>17. ASSUME NEW w \in Workers, CloseIneligible(w) PROVE Goal
  <2>1. ManagerKept /\ OthersStay
    BY <1>17, <1>0, <1>fin DEF CloseIneligible
  <2>2. PICK a \in Attempts, st \in {"cancelled", "failed"} :
           att[a].st = "requested" /\ Claimable(a) /\ SetStatus(a, st)
    BY <1>17 DEF CloseIneligible
  <2> DEFINE row == [att[a] EXCEPT !.st = st]
  <2>3. row.st = st /\ row.ext = att[a].ext
    BY <1>0 DEF AttemptRow
  <2>4. SetAttempt(a, row) BY <2>2 DEF SetStatus
  <2>5. \A v \in Workers : ~(worker[v].pc \in LeasePhase /\ worker[v].at = a)
    BY <2>2 DEF LeaseInv, HeldInv, Claimable
  <2>6. Created(a) /\ att[a].st \notin ClosedAttempt
    BY <2>2 DEF Created, ClosedAttempt
  <2> HIDE DEF row
  <2> QED BY <2>1, <2>2, <2>3, <2>4, <2>5, <2>6, RowStep
<1>18. ASSUME NEW w \in Workers, CreateCheckout(w) PROVE Goal
  <2>1. /\ \A v \in Workers \ {w} : worker'[v] = worker[v]
        /\ worker'[w].at = worker[w].at
        /\ worker'[w].pc \in {"create", "activate"}
              => worker[w].pc \in {"create", "activate"}
        /\ worker'[w].pc \in {"cancel_call", "cancel_apply"}
              => worker[w].pc \in {"cancel_call", "cancel_apply"}
    BY <1>18, <1>0, StepEffect, SetWorkerEffect DEF CreateCheckout, WorkerState
  <2> QED
    BY <1>18, <2>1, ProceedStep DEF CreateCheckout, rows, LeasePhase
<1>19. ASSUME NEW w \in Workers, CreateCheckoutFails(w) PROVE Goal
  <2>1. /\ \A v \in Workers \ {w} : worker'[v] = worker[v]
        /\ worker'[w].at = worker[w].at
        /\ worker'[w].pc \in {"create", "activate"}
              => worker[w].pc \in {"create", "activate"}
        /\ worker'[w].pc \in {"cancel_call", "cancel_apply"}
              => worker[w].pc \in {"cancel_call", "cancel_apply"}
    BY <1>19, <1>0, StepEffect, SetWorkerEffect DEF CreateCheckoutFails, WorkerState
  <2> QED
    BY <1>19, <2>1, ProceedStep DEF CreateCheckoutFails, rows, LeasePhase
<1>20. ASSUME NEW w \in Workers, ActivateHostedCheckout(w) PROVE Goal
  <2>1. ManagerKept /\ OthersStay
    BY <1>20, <1>0, <1>fin DEF ActivateHostedCheckout
  <2>2. /\ worker[w].at \in Attempts /\ Created(worker[w].at)
        /\ \A v \in Workers :
              worker[v].pc \in LeasePhase /\ worker[v].at = worker[w].at => v = w
    BY <1>20, <1>0 DEF ActivateHostedCheckout, LeaseInv, HeldInv, LeasePhase
  <2>3. worker'[w] # worker[w]
    BY <1>20, <1>0, FinishEffect DEF ActivateHostedCheckout, LeasePhase
  <2> DEFINE a == worker[w].at
             row == [Unleased(a) EXCEPT !.st = "active", !.ext = TRUE, !.backoff = FALSE]
  <2>4. row.st = "active" /\ row.ext = TRUE
    BY <1>0 DEF AttemptRow, Unleased
  <2>5. SetAttempt(a, row) /\ att[a].st = "requested"
    BY <1>20 DEF ActivateHostedCheckout, LeaseInv, PhaseInv
  <2> HIDE DEF row
  <2> QED BY <2>1, <2>2, <2>3, <2>4, <2>5, RowStep DEF ClosedAttempt
<1>21. ASSUME NEW w \in Workers, ActivationReplayed(w) PROVE Goal
  BY <1>21, <1>0, <1>fin, NoRowStep DEF ActivationReplayed, rows
<1>22. ASSUME NEW w \in Workers, ActivationRefused(w) PROVE Goal
  <2>1. /\ \A v \in Workers \ {w} : worker'[v] = worker[v]
        /\ worker'[w].at = worker[w].at
        /\ worker'[w].pc \in {"create", "activate"}
              => worker[w].pc \in {"create", "activate"}
        /\ worker'[w].pc \in {"cancel_call", "cancel_apply"}
              => worker[w].pc \in {"cancel_call", "cancel_apply"}
    BY <1>22, <1>0, StepEffect, SetWorkerEffect DEF ActivationRefused, WorkerState
  <2> QED
    BY <1>22, <2>1, ProceedStep DEF ActivationRefused, rows, LeasePhase
<1>23. ASSUME NEW w \in Workers, ReleaseCheckoutLease(w) PROVE Goal
  <2>1. ManagerKept /\ OthersStay
    BY <1>23, <1>0, <1>fin DEF ReleaseCheckoutLease
  <2>2. /\ worker[w].at \in Attempts /\ Created(worker[w].at)
        /\ \A v \in Workers :
              worker[v].pc \in LeasePhase /\ worker[v].at = worker[w].at => v = w
    BY <1>23, <1>0 DEF ReleaseCheckoutLease, LeaseInv, HeldInv, LeasePhase
  <2>3. worker'[w] # worker[w]
    BY <1>23, <1>0, FinishEffect DEF ReleaseCheckoutLease, LeasePhase
  <2> DEFINE a == worker[w].at
             row == [Unleased(a) EXCEPT !.backoff = TRUE]
  <2>4. row.st = att[a].st /\ row.ext = att[a].ext
    BY <1>0 DEF AttemptRow, Unleased
  <2>5. CASE SetAttempt(a, row)
    <3> HIDE DEF row
    <3> QED BY <2>1, <2>2, <2>3, <2>4, <2>5, RowStep
  <2>6. CASE UNCHANGED att
    BY <2>1, <2>6, NoRowStep
  <2> QED BY <1>23, <2>5, <2>6 DEF ReleaseCheckoutLease
<1>24. ASSUME NEW w \in Workers, SelectCancellation(w) PROVE Goal
  <2>1. PICK a \in Attempts :
           SetWorker(w, [IdleWorker EXCEPT !.pc = "cancel_item", !.at = a,
                                           !.evt = att[a].cancel])
    BY <1>24 DEF SelectCancellation
  <2>2. [IdleWorker EXCEPT !.pc = "cancel_item", !.at = a, !.evt = att[a].cancel].pc
           \notin LeasePhase
    BY DEF IdleWorker, LeasePhase
  <2>3. OthersStay BY <2>1, <2>2, <1>set
  <2> QED BY <1>24, <2>3, <1>0, NoRowStep DEF SelectCancellation, rows
<1>25. ASSUME NEW w \in Workers, CompleteForTerminalAttempt(w) PROVE Goal
  <2> DEFINE a == worker[w].at
             row == [att[a] EXCEPT !.cancelDone = TRUE]
  <2>1. ManagerKept /\ OthersStay
    BY <1>25, <1>0, <1>fin DEF CompleteForTerminalAttempt
  <2>2. /\ row.st = att[a].st /\ row.ext = att[a].ext
        /\ row.lease = att[a].lease /\ row.live = att[a].live
    BY <1>0 DEF AttemptRow
  <2>3. a \in Attempts /\ SetAttempt(a, row)
    BY <1>25, <1>0 DEF CompleteForTerminalAttempt
  <2>4. \A v \in Workers : worker[v].pc \in LeasePhase /\ worker[v].at = a => att[a].live
    BY DEF LeaseInv, HeldInv
  <2> HIDE DEF row
  <2> QED BY <2>1, <2>2, <2>3, <2>4, RowStep
<1>26. ASSUME NEW w \in Workers, ClaimCheckoutCancellation(w) PROVE Goal
  <2> DEFINE a == worker[w].at
  <2>1. /\ a \in Attempts /\ Created(a) /\ ~att[a].live /\ att[a].ext
        /\ SetAttempt(a, Leased(a, w)) /\ UNCHANGED manager
    BY <1>26, <1>0 DEF ClaimCheckoutCancellation, CancellationClaimable, Claimable, Created
  <2>2. /\ \A v \in Workers \ {w} : worker'[v] = worker[v]
        /\ worker'[w].at = a /\ worker'[w].pc = "cancel_call"
    BY <1>26, <1>0, StepEffect DEF ClaimCheckoutCancellation
  <2> HIDE DEF a
  <2> QED BY <2>1, <2>2, ClaimStep
<1>27. ASSUME NEW w \in Workers, SkipCancellation(w) PROVE Goal
  BY <1>27, <1>0, <1>fin, NoRowStep DEF SkipCancellation, rows
<1>28. ASSUME NEW w \in Workers, CancelCheckout(w) PROVE Goal
  <2> DEFINE job == [worker[w] EXCEPT !.pc = "cancel_apply", !.got = link'[worker[w].at]]
  <2>1. job.pc = "cancel_apply" /\ job.at = worker[w].at
    BY <1>0 DEF WorkerState
  <2>2. \A v \in Workers : worker'[v] = IF v = w THEN job ELSE worker[v]
    BY <1>28, <1>0, SetWorkerEffect DEF CancelCheckout
  <2> HIDE DEF job
  <2> QED
    BY <1>28, <2>1, <2>2, ProceedStep DEF CancelCheckout, rows, LeasePhase
<1>29. ASSUME NEW w \in Workers, CancelCheckoutFails(w) PROVE Goal
  <2>1. /\ \A v \in Workers \ {w} : worker'[v] = worker[v]
        /\ worker'[w].at = worker[w].at
        /\ worker'[w].pc \in {"create", "activate"}
              => worker[w].pc \in {"create", "activate"}
        /\ worker'[w].pc \in {"cancel_call", "cancel_apply"}
              => worker[w].pc \in {"cancel_call", "cancel_apply"}
    BY <1>29, <1>0, StepEffect, SetWorkerEffect DEF CancelCheckoutFails, WorkerState
  <2> QED
    BY <1>29, <2>1, ProceedStep DEF CancelCheckoutFails, rows, LeasePhase
<1>30. ASSUME NEW w \in Workers, ApplyVerifiedCheckoutCancellation(w) PROVE Goal
  <2>1. ManagerKept /\ OthersStay
    BY <1>30, <1>0, <1>fin DEF ApplyVerifiedCheckoutCancellation
  <2>2. /\ worker[w].at \in Attempts /\ Created(worker[w].at)
        /\ \A v \in Workers :
              worker[v].pc \in LeasePhase /\ worker[v].at = worker[w].at => v = w
    BY <1>30, <1>0 DEF ApplyVerifiedCheckoutCancellation, LeaseInv, HeldInv, LeasePhase
  <2>3. worker'[w] # worker[w]
    BY <1>30, <1>0, FinishEffect DEF ApplyVerifiedCheckoutCancellation, LeasePhase
  <2> DEFINE a == worker[w].at
             status == IF Changes(a, worker[w].got, "cancellation_worker")
                       THEN AttemptAfter(a, worker[w].got, "cancellation_worker")
                       ELSE att[a].st
             complete == intent' \notin {"awaiting_payment", "processing"}
             row == [Unleased(a) EXCEPT !.st = status, !.backoff = ~complete,
                                        !.cancelDone = complete]
  <2>4. /\ att[a].st \in ClosedAttempt => status = att[a].st
        /\ status = att[a].st \/ status \notin {"none", "requested"}
    BY EvidenceKeepsClosed, EvidenceStatus
  <2>5. SetAttempt(a, row)
    BY <1>30 DEF ApplyVerifiedCheckoutCancellation
  <2> HIDE DEF status, complete
  <2>6. row.st = status /\ row.ext = att[a].ext
    BY <1>0 DEF AttemptRow, Unleased
  <2> HIDE DEF row
  <2> QED BY <2>1, <2>2, <2>3, <2>4, <2>5, <2>6, RowStep
<1>31. ASSUME NEW w \in Workers, CancellationRefused(w) PROVE Goal
  <2> DEFINE job == [worker[w] EXCEPT !.pc = "release", !.got = "none"]
  <2>1. job.pc = "release" /\ job.at = worker[w].at
    BY <1>0 DEF WorkerState
  <2>2. \A v \in Workers : worker'[v] = IF v = w THEN job ELSE worker[v]
    BY <1>31, <1>0, SetWorkerEffect DEF CancellationRefused
  <2> HIDE DEF job
  <2> QED
    BY <1>31, <2>1, <2>2, ProceedStep DEF CancellationRefused, rows, LeasePhase
<1>32. ASSUME NEW w \in Workers, WorkerDies(w) PROVE Goal
  <2>1. IdleWorker.pc \notin LeasePhase
    BY DEF IdleWorker, LeasePhase
  <2>2. OthersStay BY <1>32, <2>1, <1>set DEF WorkerDies
  <2> QED BY <1>32, <2>2, <1>0, NoRowStep DEF WorkerDies, rows
<1>33. ASSUME NEW a \in Attempts, LeaseExpires(a) PROVE Goal
  <2> DEFINE row == [att[a] EXCEPT !.live = FALSE]
  <2>1. ManagerKept /\ OthersStay
    BY <1>33, <1>0 DEF LeaseExpires
  <2>2. row.st = att[a].st /\ row.ext = att[a].ext /\ row.lease = att[a].lease
    BY <1>0 DEF AttemptRow
  <2>3. SetAttempt(a, row)
    BY <1>33 DEF LeaseExpires
  <2>4. \A v \in Workers : ~(worker[v].pc \in LeasePhase /\ worker[v].at = a)
    BY <1>33 DEF LeaseExpires, LeaseInv, HeldInv, Holding
  <2> HIDE DEF row
  <2> QED BY <2>1, <2>2, <2>3, <2>4, RowStep
<1>34. ASSUME NEW a \in Attempts, BackoffElapses(a) PROVE Goal
  <2> DEFINE row == [att[a] EXCEPT !.backoff = FALSE]
  <2>1. ManagerKept /\ OthersStay
    BY <1>34, <1>0 DEF BackoffElapses
  <2>2. row.st = att[a].st /\ row.ext = att[a].ext /\ row.lease = att[a].lease /\ row.live = att[a].live
    BY <1>0 DEF AttemptRow
  <2>3. SetAttempt(a, row)
    BY <1>34 DEF BackoffElapses
  <2>4. \A v \in Workers : worker[v].pc \in LeasePhase /\ worker[v].at = a => att[a].live
    BY <1>34 DEF BackoffElapses, LeaseInv, HeldInv, Holding
  <2> HIDE DEF row
  <2> QED BY <2>1, <2>2, <2>3, <2>4, RowStep
<1>35. ASSUME NEW a \in Attempts, ProviderUpdates(a) PROVE Goal
  BY <1>35, <1>0, NoRowStep DEF ProviderUpdates, rows
<1> QED
  BY <1>1, <1>2, <1>3, <1>4, <1>5, <1>6, <1>7, <1>8, <1>9, <1>10, <1>11, <1>12, <1>13, <1>14, <1>15, <1>16, <1>17, <1>18, <1>19, <1>20, <1>21, <1>22, <1>23, <1>24, <1>25, <1>26, <1>27, <1>28, <1>29, <1>30, <1>31, <1>32, <1>33, <1>34, <1>35
     DEF Next, ManagerStep, CallbackStep, CheckoutStep, CancellationStep

LEMMA LeaseInit == Init => LeaseInv
BY DEF Init, LeaseInv, HeldInv, PhaseInv, UnsentInv, OrderedInv, FetchedInv, Created,
       NoAttempt, IdleWorker, LeasePhase

LEMMA LeaseStutter ==
    ASSUME TypeInv, LeaseInv, UNCHANGED vars
    PROVE  LeaseInv' /\ KeepsClosed
BY DEF vars, LeaseInv, HeldInv, PhaseInv, UnsentInv, OrderedInv, FetchedInv, Created,
       KeepsClosed

LEMMA LeaseInvariant ==
    ASSUME LeaseOutlivesWorker
    PROVE  Spec => [](TypeInv /\ LeaseInv)
<1>1. TypeInv /\ LeaseInv /\ [Next]_vars => (TypeInv /\ LeaseInv)'
  BY LeaseStep, LeaseStutter, TypeStep, TypeStutter
<1> QED BY TypeInit, LeaseInit, <1>1, PTL DEF Spec

\* At most one checkout of an intent is open, whatever crashes, callbacks,
\* reconciliations and reopenings happened, for any number of attempts.
THEOREM OneOpenAttemptHolds ==
    ASSUME LeaseOutlivesWorker
    PROVE  Spec => []OneOpenAttempt
<1>1. TypeInv /\ LeaseInv => OneOpenAttempt
  <2> SUFFICES ASSUME TypeInv, LeaseInv, NEW a \in Attempts, NEW b \in Attempts,
                      Open(a), Open(b), a # b
               PROVE  FALSE
    BY DEF OneOpenAttempt
  <2>1. a < b \/ b < a
    BY MaxAttemptsAssumption DEF Attempts
  <2> QED
    BY <2>1 DEF LeaseInv, OrderedInv, Open, Created, OpenAttempt, ClosedAttempt
<1> QED BY LeaseInvariant, <1>1, PTL

\* Two workers never call the provider for one attempt at the same time.
THEOREM OneProviderCallerHolds ==
    ASSUME LeaseOutlivesWorker
    PROVE  Spec => []OneProviderCaller
<1>1. TypeInv /\ LeaseInv => OneProviderCaller
  BY DEF LeaseInv, HeldInv, OneProviderCaller, InProviderCall, LeasePhase
<1> QED BY LeaseInvariant, <1>1, PTL

\* Nobody closes or takes over the attempt a worker is creating a checkout for.
THEOREM CallerOwnsAttemptHolds ==
    ASSUME LeaseOutlivesWorker
    PROVE  Spec => []CallerOwnsAttempt
<1>1. TypeInv /\ LeaseInv => CallerOwnsAttempt
  BY DEF LeaseInv, HeldInv, PhaseInv, CallerOwnsAttempt, LeasePhase
<1> QED BY LeaseInvariant, <1>1, PTL

\* No step changes the outcome of a closed checkout.
THEOREM ClosedIsFinalHolds ==
    ASSUME LeaseOutlivesWorker
    PROVE  Spec => ClosedIsFinal
<1>1. TypeInv /\ LeaseInv /\ [Next]_vars => KeepsClosed
  BY LeaseStep, LeaseStutter
<1>2. TypeInv /\ LeaseInv /\ [Next]_vars => [KeepsClosed]_vars
  BY <1>1
<1> QED BY LeaseInvariant, <1>2, PTL DEF Spec, ClosedIsFinal, KeepsClosed

=============================================================================
