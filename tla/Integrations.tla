---------------------------- MODULE Integrations ----------------------------
(***************************************************************************)
(* apps/integrations: the egress deliveries of the connections, the Celery *)
(* workers that send them in batches, outside any transaction, through the *)
(* adapter of the connection, the recovery of leases whose worker died,    *)
(* the circuit breaker of each connection and the reconciliation of the    *)
(* deliveries with an unknown outcome.                                     *)
(*                                                                         *)
(* claim_delivery, _finish_attempt and recover_expired_delivery_leases are *)
(* transactions, one action each.  reconcile_delivery is not: every        *)
(* statement of it commits alone, so each is an action.                    *)
(***************************************************************************)
EXTENDS Naturals, FiniteSets, Sequences

CONSTANTS
    Connections,        \* IntegrationConnection rows
    Deliveries,         \* egress deliveries
    ConnectionOf,       \* the connection of each delivery
    Workers,            \* Celery workers running dispatch_pending_deliveries
    Reconcilers,        \* Celery workers running reconcile_uncertain_deliveries
    BatchLimit,         \* limit of dispatch_pending_deliveries, 50 in the code
    MaxAttempts,        \* MAX_ATTEMPTS, 3 in the code
    FailuresToDegrade,  \* MAX_FAILURES_BEFORE_DEGRADED, 3 in the code
    AdminStatuses,      \* statuses an administrator may give a connection
    NoDelivery

ASSUME LimitsAssumption ==
    /\ BatchLimit \in Nat \ {0}
    /\ MaxAttempts \in Nat \ {0}
    /\ FailuresToDegrade \in Nat \ {0}
ASSUME ConnectionAssumption == ConnectionOf \in [Deliveries -> Connections]
ASSUME NoDeliveryAssumption == NoDelivery \notin Deliveries

ConnectionStatus == {"inactive", "active", "degraded", "disabled"}
ASSUME AdminAssumption == AdminStatuses \subseteq ConnectionStatus

VARIABLES
    connection,  \* IntegrationConnection: status and failure_count
    delivery,    \* IntegrationDelivery rows: status and next_attempt_at
    tries,       \* the statuses of the IntegrationDeliveryAttempt rows, by sequence
    lapsed,      \* the lease of the attempt being sent has expired
    worker,      \* dispatch_pending_deliveries: the ids left of its batch and the
                 \* delivery it sends
    run,         \* the IntegrationReconciliationRun of each delivery
    reconciler,  \* reconcile_delivery between its statements
    accepted     \* how often the external system accepted a delivery (external)

dispatchVars == <<connection, delivery, tries, lapsed, worker>>
reconcileVars == <<run, reconciler>>
vars == <<connection, delivery, tries, lapsed, worker, run, reconciler, accepted>>

DeliveryStatus == {"none", "queued", "sending", "succeeded", "failed", "uncertain"}
TryStatus == {"sending", "succeeded", "failed", "uncertain"}
OpenTry == {"sending", "uncertain"}
Results == {"ok", "ambiguous", "transient", "permanent"}

\* next_attempt_at: not set, in the future, in the past.
NextAttempt == {"unset", "later", "due"}

Last(d) == tries[d][Len(tries[d])]
SetLast(d, st) == [tries[d] EXCEPT ![Len(tries[d])] = st]
HasOpenTry(d) == \E k \in 1 .. Len(tries[d]) : tries[d][k] \in OpenTry
StatusFor(d) == connection[ConnectionOf[d]].status

Idle == [todo |-> {}, at |-> NoDelivery, pc |-> "idle"]
NotReconciling == [at |-> NoDelivery, pc |-> "idle"]
SetDelivery(d, st, next) == delivery' = [delivery EXCEPT ![d] = [st |-> st, next |-> next]]

Init ==
    /\ connection = [c \in Connections |-> [status |-> "active", failures |-> 0]]
    /\ delivery = [d \in Deliveries |-> [st |-> "none", next |-> "unset"]]
    /\ tries = [d \in Deliveries |-> <<>>]
    /\ lapsed = [d \in Deliveries |-> FALSE]
    /\ worker = [w \in Workers |-> Idle]
    /\ run = [d \in Deliveries |-> "none"]
    /\ reconciler = [r \in Reconcilers |-> NotReconciling]
    /\ accepted = [d \in Deliveries |-> 0]

CreateDelivery(d) ==
    /\ delivery[d].st = "none"
    /\ SetDelivery(d, "queued", "unset")
    /\ UNCHANGED <<connection, tries, lapsed, worker, reconcileVars, accepted>>

(***************************************************************************)
(* dispatch_pending_deliveries                                             *)
(***************************************************************************)

\* Mutation: the delivery of an expired lease is put back in the queue.
RequeuedDelivery == [st |-> "queued", next |-> "unset"]
\* Mutation: only the attempt is recovered.
LeftDelivery == [st |-> "sending", next |-> "unset"]
RecoveredDelivery == [st |-> "uncertain", next |-> "unset"]

\* Mutation: an attempt whose worker died counts as failed and its delivery is sent
\* again.
RecoverBySendingAgain(w) ==
    /\ worker[w] = Idle
    /\ worker' = [worker EXCEPT ![w].pc = "select"]
    /\ tries' = [d \in Deliveries |-> IF lapsed[d] THEN SetLast(d, "failed") ELSE tries[d]]
    /\ delivery' = [d \in Deliveries |-> IF lapsed[d] THEN RequeuedDelivery ELSE delivery[d]]
    /\ lapsed' = [d \in Deliveries |-> FALSE]
    /\ UNCHANGED <<connection, reconcileVars, accepted>>
\* The task starts by recovering all attempts with an expired lease, in one
\* transaction.
RecoverExpiredDeliveryLeases(w) ==
    /\ worker[w] = Idle
    /\ worker' = [worker EXCEPT ![w].pc = "select"]
    /\ tries' = [d \in Deliveries |-> IF lapsed[d] THEN SetLast(d, "uncertain") ELSE tries[d]]
    /\ delivery' = [d \in Deliveries |-> IF lapsed[d] THEN RecoveredDelivery ELSE delivery[d]]
    /\ lapsed' = [d \in Deliveries |-> FALSE]
    /\ UNCHANGED <<connection, reconcileVars, accepted>>

DueDeliveries == {d \in Deliveries : delivery[d].next = "due"}
FreshDeliveries ==
    {d \in Deliveries : delivery[d].st = "queued" /\ delivery[d].next = "unset"}

\* Two queries without an order: the due deliveries first, then what the limit
\* leaves of the fresh ones.  Neither looks at the connection.
Batches ==
    LET pending == DueDeliveries \cup FreshDeliveries IN
    {batch \in SUBSET pending :
        /\ Cardinality(batch) <= BatchLimit
        /\ batch = pending \/ Cardinality(batch) = BatchLimit
        /\ batch \subseteq DueDeliveries \/ DueDeliveries \subseteq batch}

SelectBatch(w) ==
    /\ worker[w].pc = "select"
    /\ \E batch \in Batches :
          worker' = [worker EXCEPT ![w] =
              IF batch = {} THEN Idle ELSE [todo |-> batch, at |-> NoDelivery, pc |-> "claim"]]
    /\ UNCHANGED <<connection, delivery, tries, lapsed, reconcileVars, accepted>>

\* The last conjunct is the constraint integrations_attempt_one_active.
Claimable(d) ==
    /\ \/ delivery[d].st = "queued"
       \/ delivery[d].st = "failed" /\ delivery[d].next # "unset"
    /\ delivery[d].next # "later"
    /\ StatusFor(d) = "active"
    /\ Len(tries[d]) < MaxAttempts
    /\ ~HasOpenTry(d)

\* The worker goes on with the rest of its batch.
WithoutDelivery(w, d) ==
    LET rest == worker[w].todo \ {d} IN
    IF rest = {} THEN Idle ELSE [todo |-> rest, at |-> NoDelivery, pc |-> "claim"]

ClaimDelivery(w, d) ==
    /\ worker[w].pc = "claim"
    /\ d \in worker[w].todo
    /\ Claimable(d)
    /\ tries' = [tries EXCEPT ![d] = Append(@, "sending")]
    /\ SetDelivery(d, "sending", "unset")
    /\ worker' = [worker EXCEPT ![w].at = d, ![w].pc = "send"]
    /\ UNCHANGED <<connection, lapsed, reconcileVars, accepted>>

SkipDelivery(w, d) ==
    /\ worker[w].pc = "claim"
    /\ d \in worker[w].todo
    /\ ~Claimable(d)
    /\ worker' = [worker EXCEPT ![w] = WithoutDelivery(w, d)]
    /\ UNCHANGED <<connection, delivery, tries, lapsed, reconcileVars, accepted>>

\* The answer of adapter.send: an ambiguous one leaves open whether the external
\* system accepted, a failure says that it did not.
Send(w) ==
    /\ worker[w].pc = "send"
    /\ \E result \in Results :
          /\ worker' = [worker EXCEPT ![w].pc = result]
          /\ \/ /\ result \in {"ok", "ambiguous"}
                /\ accepted' = [accepted EXCEPT ![worker[w].at] = @ + 1]
             \/ /\ result # "ok"
                /\ UNCHANGED accepted
    /\ UNCHANGED <<connection, delivery, tries, lapsed, reconcileVars>>

\* Mutation: an ambiguous answer counts as a failure.
FailedWhenUnclear(result) == IF result = "ok" THEN "succeeded" ELSE "failed"
Outcome(result) ==
    [ok |-> "succeeded", ambiguous |-> "uncertain",
     transient |-> "failed", permanent |-> "failed"][result]

\* Mutation: the connection degrades one failure too late.
DegradesLate(failures) == failures > FailuresToDegrade
Degrades(failures) == failures >= FailuresToDegrade

AfterFailure(c) ==
    [status   |-> IF Degrades(c.failures + 1) THEN "degraded" ELSE c.status,
     failures |-> c.failures + 1]
AfterSuccess(c) ==
    [status   |-> IF c.status = "degraded" THEN "active" ELSE c.status,
     failures |-> 0]

Retries(d, result) == result = "transient" /\ Len(tries[d]) < MaxAttempts

FinishAttempt(w) ==
    LET d == worker[w].at
        outcome == Outcome(worker[w].pc)
    IN
    /\ worker[w].pc \in Results
    /\ tries' = [tries EXCEPT ![d] = SetLast(d, outcome)]
    /\ SetDelivery(d, outcome, IF Retries(d, worker[w].pc) THEN "later" ELSE "unset")
    /\ connection' = [connection EXCEPT ![ConnectionOf[d]] =
                          CASE outcome = "succeeded" -> AfterSuccess(@)
                            [] outcome = "failed"    -> AfterFailure(@)
                            [] OTHER                 -> @]
    /\ worker' = [worker EXCEPT ![w] = WithoutDelivery(w, d)]
    /\ UNCHANGED <<lapsed, reconcileVars, accepted>>

\* The process dies (deploy, OOM, hard time limit) or the adapter raises something
\* else: a send that was under way may have been accepted or not, and the rest of
\* the batch is dropped.
WorkerDies(w) ==
    /\ worker[w] # Idle
    /\ worker' = [worker EXCEPT ![w] = Idle]
    /\ \/ UNCHANGED accepted
       \/ /\ worker[w].pc = "send"
          /\ accepted' = [accepted EXCEPT ![worker[w].at] = @ + 1]
    /\ UNCHANGED <<connection, delivery, tries, lapsed, reconcileVars>>

(***************************************************************************)
(* Time: the 90 s lease outlives the 60 s hard limit of the task, so it    *)
(* expires only after the worker that took it is gone.                     *)
(***************************************************************************)

LeaseExpires(d) ==
    /\ delivery[d].st = "sending"
    /\ ~lapsed[d]
    /\ \A w \in Workers : worker[w].at # d
    /\ lapsed' = [lapsed EXCEPT ![d] = TRUE]
    /\ UNCHANGED <<connection, delivery, tries, worker, reconcileVars, accepted>>

BackoffElapses(d) ==
    /\ delivery[d].next = "later"
    /\ SetDelivery(d, delivery[d].st, "due")
    /\ UNCHANGED <<connection, tries, lapsed, worker, reconcileVars, accepted>>

(***************************************************************************)
(* reconcile_delivery.  The task read the delivery as uncertain, and the   *)
(* copy in memory stays uncertain.                                         *)
(***************************************************************************)

SelectUncertain(r, d) ==
    /\ reconciler[r] = NotReconciling
    /\ delivery[d].st = "uncertain"
    /\ reconciler' = [reconciler EXCEPT ![r] = [at |-> d, pc |-> "selected"]]
    /\ UNCHANGED <<dispatchVars, run, accepted>>

\* The run is keyed by the delivery's updated_at, which nothing writes while the
\* delivery is uncertain: one run for each delivery.
OpenRun(r) ==
    LET d == reconciler[r].at IN
    /\ reconciler[r].pc = "selected"
    /\ \/ /\ run[d] \in {"none", "running"}
          /\ run' = [run EXCEPT ![d] = "running"]
          /\ reconciler' = [reconciler EXCEPT ![r].pc = "ask"]
       \/ /\ run[d] \notin {"none", "running"}
          /\ reconciler' = [reconciler EXCEPT ![r] = NotReconciling]
          /\ UNCHANGED run
    /\ UNCHANGED <<dispatchVars, accepted>>

\* External: adapter.reconcile says what became of the delivery, or that it cannot tell.
AskAdapter(r) ==
    /\ reconciler[r].pc = "ask"
    /\ \E answer \in {"uncertain", IF accepted[reconciler[r].at] > 0 THEN "succeeded" ELSE "failed"} :
          reconciler' = [reconciler EXCEPT ![r].pc = answer]
    /\ UNCHANGED <<dispatchVars, run, accepted>>

SaveReconciledDelivery(r) ==
    /\ reconciler[r].pc = "succeeded"
    /\ SetDelivery(reconciler[r].at, "succeeded", delivery[reconciler[r].at].next)
    /\ reconciler' = [reconciler EXCEPT ![r].pc = "save_run"]
    /\ UNCHANGED <<connection, tries, lapsed, worker, run, accepted>>

\* Mutation: the run is saved before the delivery.
SaveRunFirst(r) ==
    /\ reconciler[r].pc \in {"succeeded", "failed", "uncertain"}
    /\ run' = [run EXCEPT ![reconciler[r].at] = reconciler[r].pc]
    /\ reconciler' = [reconciler EXCEPT ![r] = NotReconciling]
    /\ UNCHANGED <<dispatchVars, accepted>>
SaveRun(r) ==
    /\ reconciler[r].pc \in {"failed", "uncertain", "save_run"}
    /\ run' = [run EXCEPT ![reconciler[r].at] =
                  IF reconciler[r].pc = "save_run" THEN "succeeded" ELSE reconciler[r].pc]
    /\ reconciler' = [reconciler EXCEPT ![r] = NotReconciling]
    /\ UNCHANGED <<dispatchVars, accepted>>

ReconcilerDies(r) ==
    /\ reconciler[r] # NotReconciling
    /\ reconciler' = [reconciler EXCEPT ![r] = NotReconciling]
    /\ UNCHANGED <<dispatchVars, run, accepted>>

\* The administrator edits the connection; failure_count is read-only there.
SetConnectionStatus(c) ==
    /\ \E st \in AdminStatuses \ {connection[c].status} :
          connection' = [connection EXCEPT ![c].status = st]
    /\ UNCHANGED <<delivery, tries, lapsed, worker, reconcileVars, accepted>>

(***************************************************************************)
(* Specification                                                           *)
(***************************************************************************)

DeliveryStep(d) == CreateDelivery(d) \/ LeaseExpires(d) \/ BackoffElapses(d)

WorkerStep(w) ==
    \/ RecoverExpiredDeliveryLeases(w)
    \/ SelectBatch(w)
    \/ \E d \in Deliveries : ClaimDelivery(w, d) \/ SkipDelivery(w, d)
    \/ Send(w)
    \/ FinishAttempt(w)
    \/ WorkerDies(w)

ReconcilerStep(r) ==
    \/ \E d \in Deliveries : SelectUncertain(r, d)
    \/ OpenRun(r)
    \/ AskAdapter(r)
    \/ SaveReconciledDelivery(r)
    \/ SaveRun(r)
    \/ ReconcilerDies(r)

Next ==
    \/ \E d \in Deliveries : DeliveryStep(d)
    \/ \E w \in Workers : WorkerStep(w)
    \/ \E r \in Reconcilers : ReconcilerStep(r)
    \/ \E c \in Connections : SetConnectionStatus(c)

Spec == Init /\ [][Next]_vars

\* Celery beat starts the task every ten seconds, time passes, and a task that is
\* not killed goes on.  A batch is not killed each time before it comes to the same
\* delivery: strong fairness of the step that takes a delivery from a batch.
\* Nothing is assumed of answers, reconcilers or administrators.
Fairness ==
    /\ \A w \in Workers :
          /\ WF_vars(RecoverExpiredDeliveryLeases(w))
          /\ SF_vars(SelectBatch(w))
          /\ WF_vars(Send(w))
          /\ WF_vars(FinishAttempt(w))
    /\ \A d \in Deliveries :
          /\ WF_vars(LeaseExpires(d))
          /\ WF_vars(BackoffElapses(d))
          /\ SF_vars(\E w \in Workers : ClaimDelivery(w, d) \/ SkipDelivery(w, d))

FairSpec == Spec /\ Fairness

(***************************************************************************)
(* Properties                                                              *)
(***************************************************************************)

ConnectionRow == [status : ConnectionStatus, failures : Nat]
DeliveryRow == [st : DeliveryStatus, next : NextAttempt]
WorkerState ==
    [todo : SUBSET Deliveries,
     at   : Deliveries \cup {NoDelivery},
     pc   : {"idle", "select", "claim", "send"} \cup Results]
ReconcilerState ==
    [at : Deliveries \cup {NoDelivery},
     pc : {"idle", "selected", "ask", "succeeded", "failed", "uncertain", "save_run"}]

TypeOK ==
    /\ connection \in [Connections -> ConnectionRow]
    /\ delivery \in [Deliveries -> DeliveryRow]
    /\ tries \in [Deliveries -> Seq(TryStatus)]
    /\ lapsed \in [Deliveries -> BOOLEAN]
    /\ worker \in [Workers -> WorkerState]
    /\ run \in [Deliveries -> {"none", "running", "succeeded", "failed", "uncertain"}]
    /\ reconciler \in [Reconcilers -> ReconcilerState]
    /\ accepted \in [Deliveries -> Nat]

\* An acceptance nobody heard of is never followed by another send: whichever
\* workers die and answers are lost, the external system accepts a delivery once.
AcceptedAtMostOnce == \A d \in Deliveries : accepted[d] <= 1

\* The recorded outcome is the external one: what succeeded was accepted and what
\* failed was not, whether the answer, the recovery or a reconciliation wrote it.
OutcomeIsTrue ==
    \A d \in Deliveries :
        /\ delivery[d].st = "succeeded" => accepted[d] > 0
        /\ delivery[d].st = "failed" => accepted[d] = 0

\* The delivery and its attempts, written together by three transactions and by
\* reconciliation alone, tell the same story.
AttemptsMatchDelivery ==
    \A d \in Deliveries :
        /\ Len(tries[d]) <= MaxAttempts
        /\ \A k \in 1 .. Len(tries[d]) - 1 : tries[d][k] = "failed"
        /\ delivery[d].st \in {"none", "queued"} <=> tries[d] = <<>>
        /\ tries[d] # <<>> =>
              \/ Last(d) = delivery[d].st
              \/ Last(d) = "uncertain" /\ delivery[d].st = "succeeded"

\* The circuit breaker lets no more than the attempts already in flight fail after
\* it opened (while no administrator activates the connection again by hand).
BreakerBound ==
    "active" \notin AdminStatuses =>
        \A c \in Connections :
            connection[c].failures <= FailuresToDegrade - 1 + Cardinality(Workers)

\* A reconciliation that says it succeeded left a delivery that succeeded, wherever
\* the task died between its two writes.
RunNeverAhead == \A d \in Deliveries : run[d] = "succeeded" => delivery[d].st = "succeeded"

\* No delivery stays with a worker that is gone.
SendingEnds ==
    \A d \in Deliveries : delivery[d].st = "sending" ~> delivery[d].st # "sending"
=============================================================================
