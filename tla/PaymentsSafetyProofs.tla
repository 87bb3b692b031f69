------------------------ MODULE PaymentsSafetyProofs ------------------------
(***************************************************************************)
(* Proofs about Payments that rest on its lease invariant: a payment once  *)
(* recorded is never forgotten, and Payments implements HostedCheckout.    *)
(* Both hold for every number of attempts, cancellations, workers,         *)
(* deliveries and request ids, while a lease outlives its worker.          *)
(***************************************************************************)
EXTENDS PaymentsProofs, PaymentsRefinement

(***************************************************************************)
(* What is paid stays paid                                                 *)
(*                                                                         *)
(* PaidNeverForgotten is not inductive.  An answer about another attempt   *)
(* may close the intent, so the paid attempt has to be the latest one, and *)
(* whoever brings an answer about an intent that needs attention has to    *)
(* bring it about the latest attempt: a reconciliation, because what it    *)
(* fetched is stale after every request; a cancellation, because no older  *)
(* attempt was asked to be cancelled.                                      *)
(***************************************************************************)

PaidKept ==
    \A a \in Attempts :
        att[a].st = "paid" => IsLatest(a) /\ intent \in {"paid", "requires_attention"}

\* The provider knows a paid attempt, and a paid intent has one.
PaidRowInv == \A a \in Attempts : att[a].st = "paid" => att[a].ext
PaidSeenInv == intent = "paid" => \E a \in Attempts : att[a].st = "paid"

\* What the manager fetched, while it is fresh, is the latest the provider knows.
FreshInv ==
    manager # IdleManager /\ manager.fresh =>
        \A b \in Attempts : b > manager.at => ~att[b].ext

\* Only attempts that exist were asked to be cancelled, and a worker cancels those.
BornInv == \A a \in Attempts : att[a].cancel > 0 => Created(a)
CancelPhase == {"cancel_item", "cancel_call", "cancel_apply"}
AskedInv ==
    \A w \in Workers : worker[w].pc \in CancelPhase => att[worker[w].at].cancel > 0

PaidInv ==
    /\ NoOlderCancellation => PaidKept
    /\ PaidRowInv /\ PaidSeenInv /\ FreshInv /\ BornInv /\ AskedInv

\* The step of PaidOnlyToAttention.
StaysPaid ==
    NoOlderCancellation /\ intent = "paid" => intent' \in {"paid", "requires_attention"}

Before == TypeInv /\ LeaseInv /\ PaidInv
After == PaidInv' /\ StaysPaid

\* Of every attempt a step keeps what was ever true of it.
Grows(b) ==
    /\ att[b].cancel > 0 => att'[b].cancel > 0
    /\ att[b].ext => att'[b].ext
    /\ Created(b) => Created(b)'
    /\ att'[b].cancel > 0 => Created(b)'

FreshKept ==
    \/ manager' = IdleManager
    \/ ~manager'.fresh
    \/ manager' = manager /\ \A b \in Attempts : att'[b].ext = att[b].ext

AskedKept ==
    \A v \in Workers :
        worker'[v].pc \in CancelPhase =>
            worker'[v].at \in Attempts /\ att[worker'[v].at].cancel > 0

\* The side conditions every step meets.
Framed == (\A b \in Attempts : Grows(b)) /\ FreshKept /\ AskedKept

LEMMA FramedStep ==
    ASSUME Before, Framed
    PROVE  /\ FreshInv' /\ BornInv' /\ AskedInv'
           /\ NoOlderCancellation' => NoOlderCancellation
<1>1. FreshInv'
  BY DEF Before, PaidInv, FreshInv, Framed, FreshKept, TypeInv, ManagerJobInv
<1>2. BornInv' /\ AskedInv'
  BY DEF Framed, Grows, AskedKept, AskedInv, BornInv
<1>3. NoOlderCancellation' => NoOlderCancellation
  BY DEF Framed, Grows, NoOlderCancellation, Before, TypeInv, TypeOK, AttemptRow
<1> QED
  BY <1>1, <1>2, <1>3

LEMMA PaidInit == Init => PaidInv
BY DEF Init, PaidInv, PaidKept, PaidRowInv, PaidSeenInv, FreshInv, BornInv, AskedInv,
       NoAttempt, IdleWorker, CancelPhase

(***************************************************************************)
(* The side conditions                                                     *)
(***************************************************************************)

LEMMA RowGrows ==
    ASSUME Before, NEW a \in Attempts, NEW row, SetAttempt(a, row),
           att[a].cancel > 0 => row.cancel > 0,
           att[a].ext => row.ext,
           Created(a) \/ row.cancel > 0 => row.st # "none"
    PROVE  /\ \A b \in Attempts : Grows(b)
           /\ \A b \in Attempts : att'[b] = IF b = a THEN row ELSE att[b]
<1>1. \A b \in Attempts : att'[b] = IF b = a THEN row ELSE att[b]
  BY SetAttemptEffect DEF Before, TypeInv, TypeOK
<1> QED
  BY <1>1 DEF Grows, Created, Before, PaidInv, BornInv

LEMMA SameGrows == ASSUME Before, UNCHANGED att PROVE \A b \in Attempts : Grows(b)
BY DEF Grows, Created, Before, PaidInv, BornInv

LEMMA BumpFresh ==
    ASSUME TypeInv,
           Bump \/ (UNCHANGED manager /\ \A b \in Attempts : att'[b].ext = att[b].ext)
    PROVE  FreshKept
BY DEF Bump, FreshKept, TypeInv, TypeOK, ManagerState

\* Workers that go on with a cancellation go on with the attempt they took.
LEMMA GoOn ==
    ASSUME TypeInv, AskedInv,
           \A v \in Workers :
              \/ worker'[v] = worker[v]
              \/ worker'[v].pc \notin CancelPhase
              \/ worker[v].pc \in CancelPhase /\ worker'[v].at = worker[v].at
    PROVE  AskedKept
BY DEF AskedInv, AskedKept, TypeInv, TypeOK, WorkerState

LEMMA FinishAsked ==
    ASSUME TypeInv, AskedInv, NEW w \in Workers, Finish(w)
    PROVE  AskedKept
<1>1. worker \in [Workers -> WorkerState]
  BY DEF TypeInv, TypeOK
<1>2. \A v \in Workers : worker'[v] = IF v = w THEN NextItem(w) ELSE worker[v]
  BY <1>1, SetWorkerEffect DEF Finish
<1>3. NextItem(w).pc \notin CancelPhase
  BY <1>1, NextItemType DEF CancelPhase
<1> QED
  BY <1>2, <1>3, GoOn

LEMMA StepAsked ==
    ASSUME TypeInv, AskedInv, NEW w \in Workers, NEW pc, Step(w, pc),
           pc \notin CancelPhase \/ worker[w].pc \in CancelPhase
    PROVE  AskedKept
<1>1. worker \in [Workers -> WorkerState]
  BY DEF TypeInv, TypeOK
<1> QED
  BY <1>1, StepEffect, GoOn

(***************************************************************************)
(* Kinds of steps                                                          *)
(***************************************************************************)

\* No attempt changes its status, and the intent does not leave paid or attention.
LEMMA SameStatusStep ==
    ASSUME Before, Framed, \A b \in Attempts : att'[b].st = att[b].st,
           intent' = "paid" => intent = "paid",
           intent \in {"paid", "requires_attention"}
               => intent' \in {"paid", "requires_attention"}
    PROVE  After
<1>1. NoOlderCancellation' => PaidKept'
  BY FramedStep DEF Before, PaidInv, PaidKept, IsLatest, Created
<1>2. PaidRowInv' /\ PaidSeenInv'
  BY DEF Before, PaidInv, PaidRowInv, PaidSeenInv, Framed, Grows
<1> QED
  BY <1>1, <1>2, FramedStep DEF After, PaidInv, StaysPaid

\* Nothing is paid before the step, and nothing after it that was not.
LEMMA UnpaidStep ==
    ASSUME Before, Framed, KeepsClosed,
           NoOlderCancellation => \A b \in Attempts : att[b].st # "paid",
           \A b \in Attempts : att'[b].st = "paid" => att[b].st = "paid",
           intent' = "paid" => intent = "paid"
    PROVE  After
<1>1. NoOlderCancellation' => PaidKept'
  BY FramedStep DEF PaidKept
<1>2. PaidRowInv'
  BY DEF Before, PaidInv, PaidRowInv, Framed, Grows
<1>3. PaidSeenInv'
  BY DEF Before, PaidInv, PaidSeenInv, KeepsClosed, ClosedAttempt
<1>4. StaysPaid
  BY DEF Before, PaidInv, PaidSeenInv, StaysPaid
<1> QED
  BY <1>1, <1>2, <1>3, <1>4, FramedStep DEF After, PaidInv

\* An open attempt is the latest one, so nothing is paid beside it.
LEMMA OpenIsLatest ==
    ASSUME LeaseInv, NEW a \in Attempts, Created(a), att[a].st \notin ClosedAttempt
    PROVE  IsLatest(a)
BY DEF LeaseInv, OrderedInv, IsLatest, Created

LEMMA NothingPaidBeside ==
    ASSUME Before, NoOlderCancellation,
           NEW a \in Attempts, Created(a), att[a].st \notin ClosedAttempt,
           NEW b \in Attempts
    PROVE  att[b].st # "paid"
<1> SUFFICES ASSUME att[b].st = "paid" PROVE FALSE
  OBVIOUS
<1>1. IsLatest(a) /\ IsLatest(b)
  BY OpenIsLatest DEF Before, PaidInv, PaidKept
<1>2. a # b /\ Created(b)
  BY DEF ClosedAttempt, Created
<1>3. a < b \/ b < a
  BY <1>2, MaxAttemptsAssumption DEF Attempts
<1> QED
  BY <1>1, <1>2, <1>3 DEF IsLatest

\* An answer about a shows as paid or as requiring attention if it is paid.
LEMMA PaidAnswer ==
    ASSUME NEW a, NEW s, NEW source, att[a].st # "paid", AttemptAfter(a, s, source) = "paid"
    PROVE  IntentAfter(a, s, source) \in {"paid", "requires_attention"}
BY TargetType, Zenon DEF AttemptAfter, IntentAfter

\* An answer about a paid attempt, or to a paid intent, is paid or refused.
LEMMA PaidIsRegressed ==
    ASSUME NEW a, NEW s, NEW source, intent = "paid" \/ att[a].st = "paid"
    PROVE  /\ Target(a, s, source) \in {"paid", "requires_attention"}
           /\ IntentAfter(a, s, source) \in {"paid", "requires_attention"}
<1>1. CASE Regressive(a, Mapped(s))
  BY <1>1 DEF Target, IntentAfter
<1>2. CASE ~Regressive(a, Mapped(s))
  <2>1. Mapped(s) = "paid"
    BY <1>2 DEF Regressive, TerminalIntent, ClosedAttempt
  <2> QED
    BY <2>1 DEF Target, IntentAfter
<1> QED
  BY <1>1, <1>2

\* An answer is applied to the attempt it is about.
LEMMA AnswerStep ==
    ASSUME Before, Framed, KeepsClosed,
           NEW a \in Attempts, att[a].ext, NEW s, NEW source,
           \A b \in Attempts : b # a => att'[b].st = att[b].st,
           \/ /\ intent' = IntentAfter(a, s, source)
              /\ att'[a].st = AttemptAfter(a, s, source)
           \/ intent' = intent /\ att'[a].st = att[a].st,
           NoOlderCancellation =>
              \/ intent' = intent
              \/ intent # "requires_attention"
              \/ \A b \in Attempts : att[b].st = "paid" => b = a
    PROVE  After
<1>1. CASE intent' = intent /\ att'[a].st = att[a].st
  BY <1>1, SameStatusStep
<1>2. CASE /\ intent' = IntentAfter(a, s, source)
           /\ att'[a].st = AttemptAfter(a, s, source)
  <2>1. Created(a) /\ \A b \in Attempts : Created(b)' = Created(b)
    BY <1>2, EvidenceStatus DEF Before, LeaseInv, UnsentInv, Created
  <2>2. PaidRowInv'
    BY DEF Before, PaidInv, PaidRowInv, Framed, Grows
  <2>3. PaidSeenInv'
    <3>1. IntentAfter(a, s, source) = "paid" => AttemptAfter(a, s, source) = "paid"
      BY TargetType DEF IntentAfter, AttemptAfter
    <3> QED
      BY <1>2, <3>1 DEF PaidSeenInv
  <2>4. ASSUME NoOlderCancellation, NEW b \in Attempts, att'[b].st = "paid"
        PROVE  IsLatest(b)' /\ intent' \in {"paid", "requires_attention"}
    <3>1. CASE att[b].st = "paid"
      <4>1. IsLatest(b) /\ intent \in {"paid", "requires_attention"}
        BY <2>4, <3>1 DEF Before, PaidInv, PaidKept
      <4>2. intent' = intent \/ intent = "paid" \/ att[a].st = "paid"
        BY <2>4, <3>1, <4>1
      <4>3. intent' \in {"paid", "requires_attention"}
        BY <1>2, <4>1, <4>2, PaidIsRegressed
      <4> QED
        BY <2>1, <4>1, <4>3 DEF IsLatest
    <3>2. CASE att[b].st # "paid"
      <4>1. b = a /\ att[a].st \notin ClosedAttempt
        BY <2>4, <3>2 DEF KeepsClosed
      <4>2. IsLatest(a)
        BY <2>1, <4>1, OpenIsLatest DEF Before
      <4>3. intent' \in {"paid", "requires_attention"}
        BY <1>2, <2>4, <3>2, <4>1, PaidAnswer
      <4> QED
        BY <2>1, <4>1, <4>2, <4>3 DEF IsLatest
    <3> QED
      BY <3>1, <3>2
  <2>5. NoOlderCancellation' => PaidKept'
    BY <2>4, FramedStep DEF PaidKept
  <2>6. StaysPaid
    BY <1>2, PaidIsRegressed DEF StaysPaid
  <2> QED
    BY <2>2, <2>3, <2>5, <2>6, FramedStep DEF After, PaidInv
<1> QED
  BY <1>1, <1>2

(***************************************************************************)
(* Every step                                                              *)
(***************************************************************************)

\* A row that keeps its status, whatever a worker notes on it.
LEMMA NotedStep ==
    ASSUME Before, AskedKept, UNCHANGED <<intent, manager>>,
           NEW a \in Attempts, NEW row, SetAttempt(a, row),
           row.st = att[a].st, row.ext = att[a].ext, row.cancel = att[a].cancel
    PROVE  After
<1>1. /\ \A b \in Attempts : Grows(b)
      /\ \A b \in Attempts : att'[b] = IF b = a THEN row ELSE att[b]
  BY RowGrows DEF Before, PaidInv, BornInv, Created
<1>2. \A b \in Attempts : att'[b].st = att[b].st /\ att'[b].ext = att[b].ext
  BY <1>1
<1>3. Framed
  BY <1>1, <1>2, BumpFresh DEF Framed, Before
<1> QED
  BY <1>2, <1>3, SameStatusStep

\* A step that leaves the rows alone.
LEMMA QuietStep ==
    ASSUME Before, UNCHANGED rows, FreshKept, AskedKept
    PROVE  After
<1>1. Framed
  BY SameGrows DEF Framed, rows
<1> QED
  BY <1>1, SameStatusStep DEF rows

\* A waiting attempt that is sent or closed.
LEMMA WaitingStep ==
    ASSUME Before, KeepsClosed, AskedKept, FreshKept,
           NEW a \in Attempts, att[a].st = "requested", NEW row, SetAttempt(a, row),
           row.st \notin {"none", "paid"}, att[a].ext => row.ext,
           row.cancel = att[a].cancel,
           intent' = "paid" => intent = "paid"
    PROVE  After
<1>1. Created(a) /\ att[a].st \notin ClosedAttempt
  BY DEF Created, ClosedAttempt
<1>2. /\ \A b \in Attempts : Grows(b)
      /\ \A b \in Attempts : att'[b] = IF b = a THEN row ELSE att[b]
  BY RowGrows
<1>3. Framed
  BY <1>2 DEF Framed
<1>4. NoOlderCancellation => \A b \in Attempts : att[b].st # "paid"
  BY <1>1, NothingPaidBeside
<1>5. \A b \in Attempts : att'[b].st = "paid" => att[b].st = "paid"
  BY <1>2
<1> QED
  BY <1>3, <1>4, <1>5, UnpaidStep

\* Evidence applied by ApplyResource.
LEMMA AppliedStep ==
    ASSUME Before, KeepsClosed, AskedKept,
           NEW a \in Attempts, att[a].ext, NEW s, NEW source, ApplyResource(a, s, source),
           FreshKept,
           NoOlderCancellation =>
              \/ ~Changes(a, s, source)
              \/ intent # "requires_attention"
              \/ \A b \in Attempts : att[b].st = "paid" => b = a
    PROVE  After
<1>1. CASE ~Changes(a, s, source)
  BY <1>1, QuietStep DEF ApplyResource
<1>2. CASE Changes(a, s, source)
  <2> DEFINE row == [att[a] EXCEPT !.st = AttemptAfter(a, s, source)]
  <2>1. /\ row.st = AttemptAfter(a, s, source) /\ row.ext = att[a].ext
        /\ row.cancel = att[a].cancel
    <3>1. att[a] \in AttemptRow BY DEF Before, TypeInv, TypeOK
    <3> QED BY <3>1 DEF AttemptRow
  <2>2. SetAttempt(a, row) /\ intent' = IntentAfter(a, s, source)
    BY <1>2 DEF ApplyResource, SetStatus
  <2>3. row.st # "none"
    BY <2>1, EvidenceStatus
  <2> HIDE DEF row
  <2>4. /\ \A b \in Attempts : Grows(b)
        /\ \A b \in Attempts : att'[b] = IF b = a THEN row ELSE att[b]
    BY <2>1, <2>2, <2>3, RowGrows
  <2>5. Framed
    BY <2>4 DEF Framed
  <2>6. /\ att'[a].st = AttemptAfter(a, s, source)
        /\ \A b \in Attempts : b # a => att'[b].st = att[b].st
    BY <2>1, <2>4
  <2> QED
    BY <1>2, <2>2, <2>5, <2>6, AnswerStep
<1> QED
  BY <1>1, <1>2

LEMMA ManagerPaid ==
    ASSUME Before, KeepsClosed, ManagerStep
    PROVE  After
<1>0. /\ TypeInv /\ AskedInv /\ LeaseInv /\ att \in [Attempts -> AttemptRow]
      /\ manager' = IdleManager => FreshKept
  BY DEF Before, PaidInv, TypeInv, TypeOK, FreshKept
<1>8. UNCHANGED worker => AskedKept
  BY <1>0, GoOn
<1>9. Bump => FreshKept
  BY <1>0, BumpFresh
<1>1. CASE CreatePaymentIntent
  <2>1. Framed
    BY <1>0, <1>8, <1>9, <1>1, SameGrows, BumpFresh DEF CreatePaymentIntent, Framed
  <2> QED
    BY <1>1, <2>1, SameStatusStep DEF CreatePaymentIntent
<1>2. CASE RequestHostedCheckout
  <2>1. PICK a \in Attempts : IsNext(a) /\ SetAttempt(a, NewAttempt)
    BY <1>2 DEF RequestHostedCheckout
  <2>2. att[a].st = "none" /\ ~att[a].ext
    BY <1>0, <1>8, <1>9, <2>1 DEF IsNext, Created, LeaseInv, UnsentInv
  <2>3. ~(att[a].cancel > 0)
    BY <2>1 DEF IsNext, Before, PaidInv, BornInv
  <2>4. NewAttempt.st = "requested" /\ NewAttempt.cancel = 0
    BY DEF NewAttempt, NoAttempt
  <2>5. /\ \A b \in Attempts : Grows(b)
        /\ \A b \in Attempts : att'[b] = IF b = a THEN NewAttempt ELSE att[b]
    BY <2>1, <2>2, <2>3, <2>4, RowGrows DEF Created
  <2>6. Framed
    BY <1>0, <1>8, <1>9, <1>2, <2>5 DEF RequestHostedCheckout, Framed
  <2>7. NoOlderCancellation => \A b \in Attempts : att[b].st # "paid"
    BY <1>2 DEF RequestHostedCheckout, Before, PaidInv, PaidKept
  <2>8. \A b \in Attempts : att'[b].st = "paid" => att[b].st = "paid"
    BY <2>4, <2>5
  <2> QED
    BY <1>2, <2>6, <2>7, <2>8, UnpaidStep DEF RequestHostedCheckout
<1>3. CASE RequestHostedCheckoutCancellation
  <2>1. PICK a \in Attempts :
           /\ Open(a)
           /\ \/ /\ att[a].st = "requested"
                 /\ SetAttempt(a, [att[a] EXCEPT !.st = "cancelled", !.backoff = FALSE])
              \/ SetAttempt(a, [att[a] EXCEPT !.cancel = @ + 1, !.cancelDone = FALSE])
    BY <1>3 DEF RequestHostedCheckoutCancellation, NotInFlight
  <2>2. att[a] \in AttemptRow /\ FreshKept /\ AskedKept /\ UNCHANGED intent
    BY <1>0, <1>8, <1>9, <1>3 DEF RequestHostedCheckoutCancellation
  <2>3. CASE /\ att[a].st = "requested"
             /\ SetAttempt(a, [att[a] EXCEPT !.st = "cancelled", !.backoff = FALSE])
    <3> DEFINE row == [att[a] EXCEPT !.st = "cancelled", !.backoff = FALSE]
    <3>1. row.st = "cancelled" /\ row.ext = att[a].ext /\ row.cancel = att[a].cancel
      BY <2>2 DEF AttemptRow
    <3>2. SetAttempt(a, row) BY <2>3
    <3> HIDE DEF row
    <3> QED BY <2>2, <2>3, <3>1, <3>2, WaitingStep
  <2>4. CASE SetAttempt(a, [att[a] EXCEPT !.cancel = @ + 1, !.cancelDone = FALSE])
    <3> DEFINE row == [att[a] EXCEPT !.cancel = @ + 1, !.cancelDone = FALSE]
    <3>1. row.st = att[a].st /\ row.ext = att[a].ext /\ row.cancel = att[a].cancel + 1
      BY <2>2 DEF AttemptRow
    <3>2. att[a].cancel \in Nat
      BY <2>2, MaxCancelsAssumption DEF AttemptRow
    <3>3. SetAttempt(a, row) BY <2>4
    <3> HIDE DEF row
    <3>4. /\ \A b \in Attempts : Grows(b)
          /\ \A b \in Attempts : att'[b] = IF b = a THEN row ELSE att[b]
      BY <1>0, <2>1, <3>1, <3>2, <3>3, RowGrows DEF Created, Open, OpenAttempt
    <3>5. Framed
      BY <2>2, <3>4 DEF Framed
    <3>6. \A b \in Attempts : att'[b].st = att[b].st
      BY <3>1, <3>4
    <3> QED BY <2>2, <3>5, <3>6, SameStatusStep
  <2> QED BY <2>1, <2>3, <2>4
<1>4. CASE ReopenPaymentAfterVerifiedClosure
  <2>1. Framed
    BY <1>0, <1>8, <1>9, <1>4, SameGrows DEF ReopenPaymentAfterVerifiedClosure, Framed
  <2> QED
    BY <1>4, <2>1, SameStatusStep DEF ReopenPaymentAfterVerifiedClosure
<1>5. CASE FetchForReconciliation
  <2>1. PICK a \in Attempts :
           /\ att[a].ext /\ \A b \in Attempts : b > a => ~att[b].ext
           /\ manager' = [at |-> a, got |-> link[a], fresh |-> TRUE]
    BY <1>5 DEF FetchForReconciliation
  <2>2. FreshInv'
    BY <1>5, <2>1 DEF FetchForReconciliation, FreshInv, rows
  <2>3. AskedInv' /\ BornInv' /\ PaidRowInv' /\ PaidSeenInv' /\ StaysPaid
    BY <1>5 DEF FetchForReconciliation, Before, PaidInv, AskedInv, BornInv, PaidRowInv,
                PaidSeenInv, StaysPaid, Created, rows
  <2>4. NoOlderCancellation' => PaidKept'
    BY <1>5 DEF FetchForReconciliation, Before, PaidInv, NoOlderCancellation, PaidKept,
                IsLatest, Created, rows
  <2> QED BY <2>2, <2>3, <2>4 DEF After, PaidInv
<1>6. CASE ReconcileVerifiedResource
  <2> DEFINE a == manager.at
  <2>1. /\ a \in Attempts /\ att[a].ext /\ AskedKept /\ FreshKept
        /\ manager # IdleManager /\ manager.fresh
        /\ ApplyResource(a, manager.got, "reconciliation")
    BY <1>0, <1>8, <1>9, <1>6 DEF ReconcileVerifiedResource, LeaseInv, FetchedInv, TypeInv, ManagerJobInv
  <2>2. ASSUME NoOlderCancellation, NEW b \in Attempts, att[b].st = "paid"
        PROVE  b = a
    <3>1. Created(a) /\ IsLatest(b) /\ att[b].ext
      BY <2>1, <2>2 DEF Before, PaidInv, PaidKept, PaidRowInv, LeaseInv, UnsentInv, Created
    <3>2. ~(b > a)
      BY <2>1, <3>1 DEF Before, PaidInv, FreshInv
    <3>3. ~(a > b)
      BY <2>1, <3>1 DEF IsLatest
    <3> QED
      BY <2>1, <3>2, <3>3, MaxAttemptsAssumption DEF Attempts
  <2> QED
    BY <1>6, <2>1, <2>2, AppliedStep DEF ReconcileVerifiedResource
<1>7. CASE RefuseReconciliation
  BY <1>0, <1>8, <1>9, <1>7, QuietStep DEF RefuseReconciliation
<1> QED
  BY <1>1, <1>2, <1>3, <1>4, <1>5, <1>6, <1>7 DEF ManagerStep

LEMMA OrderPaid ==
    ASSUME Before, KeepsClosed, ConsumeOrderCancelled
    PROVE  After
<1>0. /\ TypeInv /\ AskedInv /\ UNCHANGED worker
      /\ Bump \/ UNCHANGED manager
  BY DEF Before, PaidInv, ConsumeOrderCancelled
<1>1. AskedKept
  BY <1>0, GoOn
<1>2. CASE UNCHANGED att
  <2>1. FreshKept
    BY <1>0, <1>2, BumpFresh
  <2>2. Framed
    BY <1>1, <1>2, <2>1, SameGrows DEF Framed
  <2>3. ~(\E a \in Attempts : NotInFlight(a) /\ SetStatus(a, "cancelled"))
    <3> SUFFICES ASSUME NEW a \in Attempts, NotInFlight(a), SetStatus(a, "cancelled")
                 PROVE  FALSE
      OBVIOUS
    <3>1. att[a] \in AttemptRow /\ att'[a] = [att[a] EXCEPT !.st = "cancelled"]
      BY <1>0 DEF SetStatus, SetAttempt, TypeInv, TypeOK
    <3> QED
      BY <1>2, <3>1 DEF NotInFlight, AttemptRow
  <2>4. \/ intent' = "requires_attention"
        \/ intent \in {"pending", "awaiting_payment"} /\ intent' = "cancelled"
        \/ intent' = intent
    BY <2>3 DEF ConsumeOrderCancelled, rows
  <2> QED
    BY <1>2, <2>2, <2>4, SameStatusStep
<1>3. CASE ~UNCHANGED att
  <2>1. PICK a \in Attempts :
           att[a].st = "requested" /\ SetStatus(a, "cancelled") /\ intent' = "cancelled" /\ Bump
    BY <1>3 DEF ConsumeOrderCancelled, rows, NotInFlight
  <2> DEFINE row == [att[a] EXCEPT !.st = "cancelled"]
  <2>2. row.st = "cancelled" /\ row.ext = att[a].ext /\ row.cancel = att[a].cancel
    BY <1>0 DEF AttemptRow, TypeInv, TypeOK
  <2>3. SetAttempt(a, row) /\ FreshKept
    BY <1>0, <2>1, BumpFresh DEF SetStatus
  <2> HIDE DEF row
  <2> QED
    BY <1>1, <2>1, <2>2, <2>3, WaitingStep
<1> QED
  BY <1>2, <1>3

LEMMA CallbackPaid ==
    ASSUME Before, KeepsClosed, NEW d \in Deliveries, CallbackStep(d)
    PROVE  After
<1>0. TypeInv /\ AskedInv /\ AskedKept
  BY GoOn DEF Before, PaidInv, CallbackStep, ReadForCallback, ApplyVerifiedProviderResource,
              RefuseCallback
<1>1. CASE ReadForCallback(d) \/ RefuseCallback(d)
  <2>1. UNCHANGED rows /\ UNCHANGED manager
    BY <1>1 DEF ReadForCallback, RefuseCallback
  <2>2. FreshKept
    BY <1>0, <2>1, BumpFresh DEF rows
  <2> QED
    BY <1>0, <2>1, <2>2, QuietStep
<1>2. CASE ApplyVerifiedProviderResource(d)
  <2> DEFINE a == delivery[d].at
             s == delivery[d].got
  <2>1. /\ a \in Attempts /\ att[a].ext
        /\ ApplyResource(a, s, "provider_callback")
        /\ IF Changes(a, s, "provider_callback") THEN Bump ELSE UNCHANGED manager
    BY <1>0, <1>2 DEF ApplyVerifiedProviderResource, CallbackAcceptable, TypeInv,
                      CallbackJobInv
  <2>2. FreshKept
    BY <1>0, <2>1, BumpFresh DEF ApplyResource, rows
  <2>3. Changes(a, s, "provider_callback") => intent # "requires_attention"
    BY DEF Changes, Locked
  <2> HIDE DEF a, s
  <2> QED
    BY <1>0, <2>1, <2>2, <2>3, AppliedStep
<1> QED
  BY <1>1, <1>2 DEF CallbackStep

LEMMA CheckoutPaid ==
    ASSUME Before, KeepsClosed, NEW w \in Workers, CheckoutStep(w)
    PROVE  After
<1>0. /\ TypeInv /\ AskedInv /\ LeaseInv
      /\ att \in [Attempts -> AttemptRow] /\ worker \in [Workers -> WorkerState]
      /\ worker[w].at \in Attempts /\ att[worker[w].at] \in AttemptRow
  BY DEF Before, PaidInv, TypeInv, TypeOK, WorkerState
<1>8. UNCHANGED <<rows, manager>> /\ AskedKept => After
  BY <1>0, QuietStep, BumpFresh DEF rows
<1>9. Finish(w) => AskedKept
  BY <1>0, FinishAsked
<1>1. CASE PollCheckouts(w)
  <2>1. PICK n \in Attempts :
           SetWorker(w, [IdleWorker EXCEPT !.pc = "item", !.evt = 1, !.last = n])
    BY <1>1 DEF PollCheckouts
  <2>2. [IdleWorker EXCEPT !.pc = "item", !.evt = 1, !.last = n].pc \notin CancelPhase
    BY DEF IdleWorker, CancelPhase
  <2>3. AskedKept
    BY <1>0, <2>1, <2>2, SetWorkerEffect, GoOn
  <2> QED
    BY <1>1, <1>8, <2>3 DEF PollCheckouts
<1>2. CASE SkipItem(w) \/ ActivationReplayed(w)
  BY <1>2, <1>8, <1>9 DEF SkipItem, ActivationReplayed
<1>3. CASE ClaimRequestedCheckout(w)
  <2>1. PICK a \in Attempts :
           /\ SetAttempt(a, Leased(a, w))
           /\ SetWorker(w, [worker[w] EXCEPT !.pc = "create", !.at = a])
    BY <1>3 DEF ClaimRequestedCheckout
  <2> DEFINE job == [worker[w] EXCEPT !.pc = "create", !.at = a]
             row == Leased(a, w)
  <2>2. /\ job.pc \notin CancelPhase /\ row.st = att[a].st /\ row.ext = att[a].ext
        /\ row.cancel = att[a].cancel
    BY <1>0 DEF WorkerState, CancelPhase, AttemptRow, Leased
  <2>3. SetWorker(w, job) /\ SetAttempt(a, row)
    BY <2>1
  <2> HIDE DEF job, row
  <2>4. AskedKept
    BY <1>0, <2>2, <2>3, SetWorkerEffect, GoOn
  <2> QED
    BY <1>3, <2>2, <2>3, <2>4, NotedStep DEF ClaimRequestedCheckout
<1>4. CASE CloseIneligible(w)
  <2>1. PICK a \in Attempts, st \in {"cancelled", "failed"} :
           att[a].st = "requested" /\ SetStatus(a, st)
    BY <1>4 DEF CloseIneligible
  <2> DEFINE row == [att[a] EXCEPT !.st = st]
  <2>2. row.st = st /\ row.ext = att[a].ext /\ row.cancel = att[a].cancel
    BY <1>0 DEF AttemptRow
  <2>3. SetAttempt(a, row) BY <2>1 DEF SetStatus
  <2> HIDE DEF row
  <2>4. \A b \in Attempts : att'[b].ext = att[b].ext
    BY <1>0, <2>2, <2>3, SetAttemptEffect
  <2>5. Bump \/ UNCHANGED manager
    BY <1>4 DEF CloseIneligible
  <2>6. FreshKept /\ AskedKept
    BY <1>0, <1>4, <1>9, <2>4, <2>5, BumpFresh DEF CloseIneligible
  <2>7. intent' = intent \/ intent' = "cancelled"
    BY <1>4 DEF CloseIneligible
  <2> QED
    BY <2>1, <2>2, <2>3, <2>6, <2>7, WaitingStep
<1>5. CASE CreateCheckout(w)
  BY <1>0, <1>5, <1>8, StepAsked DEF CreateCheckout, CancelPhase
<1>6. CASE CreateCheckoutFails(w) \/ ActivationRefused(w)
  BY <1>0, <1>6, <1>8, StepAsked DEF CreateCheckoutFails, ActivationRefused, CancelPhase
<1>7. CASE ActivateHostedCheckout(w)
  <2> DEFINE a == worker[w].at
             row == [Unleased(a) EXCEPT !.st = "active", !.ext = TRUE, !.backoff = FALSE]
  <2>1. row.st = "active" /\ row.ext = TRUE /\ row.cancel = att[a].cancel
    BY <1>0 DEF AttemptRow, Unleased
  <2>2. /\ SetAttempt(a, row) /\ att[a].st = "requested" /\ a \in Attempts
        /\ FreshKept /\ AskedKept
    BY <1>0, <1>7, <1>9, BumpFresh DEF ActivateHostedCheckout, LeaseInv, PhaseInv
  <2>3. intent' # "paid"
    BY <1>7 DEF ActivateHostedCheckout, IntentAfterActivation
  <2> HIDE DEF a, row
  <2> QED
    BY <2>1, <2>2, <2>3, WaitingStep
<1>10. CASE ReleaseCheckoutLease(w)
  <2> DEFINE a == worker[w].at
             row == [Unleased(a) EXCEPT !.backoff = TRUE]
  <2>1. AskedKept /\ UNCHANGED <<intent, manager>> /\ a \in Attempts
    BY <1>0, <1>9, <1>10 DEF ReleaseCheckoutLease
  <2>2. CASE UNCHANGED att
    BY <1>8, <2>1, <2>2 DEF rows
  <2>3. CASE SetAttempt(a, row)
    <3>1. row.st = att[a].st /\ row.ext = att[a].ext /\ row.cancel = att[a].cancel
      BY <1>0 DEF AttemptRow, Unleased
    <3> HIDE DEF a, row
    <3> QED
      BY <2>1, <2>3, <3>1, NotedStep
  <2> QED
    BY <1>10, <2>2, <2>3 DEF ReleaseCheckoutLease
<1> QED
  BY <1>1, <1>2, <1>3, <1>4, <1>5, <1>6, <1>7, <1>10 DEF CheckoutStep

LEMMA CancellationPaid ==
    ASSUME Before, KeepsClosed, NEW w \in Workers, CancellationStep(w)
    PROVE  After
<1>0. /\ TypeInv /\ AskedInv /\ LeaseInv
      /\ att \in [Attempts -> AttemptRow] /\ worker \in [Workers -> WorkerState]
      /\ worker[w].at \in Attempts /\ att[worker[w].at] \in AttemptRow
  BY DEF Before, PaidInv, TypeInv, TypeOK, WorkerState
<1>8. UNCHANGED <<rows, manager>> /\ AskedKept => After
  BY <1>0, QuietStep, BumpFresh DEF rows
<1>9. Finish(w) => AskedKept
  BY <1>0, FinishAsked
<1>1. CASE SelectCancellation(w)
  <2>1. PICK a \in Attempts :
           /\ CancelPending(a)
           /\ SetWorker(w, [IdleWorker EXCEPT !.pc = "cancel_item", !.at = a,
                                              !.evt = att[a].cancel])
    BY <1>1 DEF SelectCancellation
  <2>2. att[a].cancel > 0
    BY <2>1 DEF CancelPending
  <2>3. \A v \in Workers : v # w => worker'[v] = worker[v]
    BY <1>0, <2>1, SetWorkerEffect
  <2>4. worker'[w].at = a
    <3> DEFINE job == [IdleWorker EXCEPT !.pc = "cancel_item", !.at = a,
                                         !.evt = att[a].cancel]
    <3>1. job.at = a BY DEF IdleWorker
    <3> HIDE DEF job
    <3> QED BY <1>0, <2>1, <3>1, SetWorkerEffect DEF job
  <2>5. AskedKept
    BY <1>0, <2>2, <2>3, <2>4 DEF AskedKept, AskedInv, WorkerState
  <2> QED
    BY <1>1, <1>8, <2>5 DEF SelectCancellation
<1>2. CASE CompleteForTerminalAttempt(w)
  <2> DEFINE a == worker[w].at
             row == [att[a] EXCEPT !.cancelDone = TRUE]
  <2>1. row.st = att[a].st /\ row.ext = att[a].ext /\ row.cancel = att[a].cancel
    BY <1>0 DEF AttemptRow
  <2>2. SetAttempt(a, row) /\ a \in Attempts
    BY <1>0, <1>2 DEF CompleteForTerminalAttempt
  <2> HIDE DEF a, row
  <2> QED
    BY <1>2, <1>9, <2>1, <2>2, NotedStep DEF CompleteForTerminalAttempt
<1>3. CASE ClaimCheckoutCancellation(w)
  <2> DEFINE a == worker[w].at
             row == Leased(a, w)
  <2>1. row.st = att[a].st /\ row.ext = att[a].ext /\ row.cancel = att[a].cancel
    BY <1>0 DEF AttemptRow, Leased
  <2>2. SetAttempt(a, row) /\ a \in Attempts
    BY <1>0, <1>3 DEF ClaimCheckoutCancellation
  <2>3. AskedKept
    BY <1>0, <1>3, StepAsked DEF ClaimCheckoutCancellation, CancelPhase
  <2> HIDE DEF a, row
  <2> QED
    BY <1>3, <2>1, <2>2, <2>3, NotedStep DEF ClaimCheckoutCancellation
<1>4. CASE SkipCancellation(w)
  BY <1>4, <1>8, <1>9 DEF SkipCancellation
<1>5. CASE CancelCheckout(w)
  <2>1. PICK got : SetWorker(w, [worker[w] EXCEPT !.pc = "cancel_apply", !.got = got])
    BY <1>5 DEF CancelCheckout
  <2>2. \A v \in Workers : v # w => worker'[v] = worker[v]
    BY <1>0, <2>1, SetWorkerEffect
  <2>3. worker'[w].at = worker[w].at
    <3>1. worker[w] \in WorkerState BY <1>0
    <3>2. worker'[w] = [worker[w] EXCEPT !.pc = "cancel_apply", !.got = got]
      BY <1>0, <2>1, SetWorkerEffect
    <3> QED BY <3>1, <3>2 DEF WorkerState
  <2>4. AskedKept
    BY <1>0, <1>5, <2>2, <2>3, GoOn DEF CancelCheckout, CancelPhase
  <2> QED
    BY <1>5, <1>8, <2>4 DEF CancelCheckout
<1>6. CASE CancelCheckoutFails(w)
  BY <1>0, <1>6, <1>8, StepAsked DEF CancelCheckoutFails, CancelPhase
<1>7. CASE ApplyVerifiedCheckoutCancellation(w)
  <2> DEFINE a == worker[w].at
             s == worker[w].got
             changed == Changes(a, s, "cancellation_worker")
             status == IF changed THEN AttemptAfter(a, s, "cancellation_worker")
                       ELSE att[a].st
             complete == intent' \notin {"awaiting_payment", "processing"}
             row == [Unleased(a) EXCEPT !.st = status, !.backoff = ~complete,
                                        !.cancelDone = complete]
  <2>1. row.st = status /\ row.ext = att[a].ext /\ row.cancel = att[a].cancel
    BY <1>0 DEF AttemptRow, Unleased
  <2>2. SetAttempt(a, row) /\ a \in Attempts
    BY <1>0, <1>7 DEF ApplyVerifiedCheckoutCancellation
  <2>3. att[a].ext /\ att[a].cancel > 0
    BY <1>0, <1>7 DEF ApplyVerifiedCheckoutCancellation, LeaseInv, PhaseInv, AskedInv,
                      CancelPhase
  <2>4. Created(a) /\ status # "none"
    BY <1>0, <2>2, <2>3, EvidenceStatus DEF LeaseInv, UnsentInv, Created
  <2>5. /\ intent' = IF changed THEN IntentAfter(a, s, "cancellation_worker") ELSE intent
        /\ Bump \/ UNCHANGED manager
        /\ AskedKept
    BY <1>7, <1>9 DEF ApplyVerifiedCheckoutCancellation
  <2> HIDE DEF a, row, complete
  <2>6. /\ \A b \in Attempts : Grows(b)
        /\ \A b \in Attempts : att'[b] = IF b = a THEN row ELSE att[b]
    BY <2>1, <2>2, <2>4, RowGrows
  <2>7. \A b \in Attempts : att'[b].ext = att[b].ext
    BY <2>1, <2>6
  <2>8. Framed
    BY <1>0, <2>5, <2>6, <2>7, BumpFresh DEF Framed
  <2>9. ASSUME NoOlderCancellation, NEW b \in Attempts, att[b].st = "paid"
        PROVE  b = a
    <3>1. IsLatest(b)
      BY <2>9 DEF Before, PaidInv, PaidKept
    <3>2. ~(a > b)
      BY <2>2, <2>4, <3>1 DEF IsLatest
    <3>3. ~(a < b)
      BY <1>0, <2>2, <2>3, <2>9, <3>1 DEF NoOlderCancellation, IsLatest
    <3> QED
      BY <2>2, <3>2, <3>3, MaxAttemptsAssumption DEF Attempts
  <2>10. /\ \A b \in Attempts : b # a => att'[b].st = att[b].st
         /\ att'[a].st = status
    BY <2>1, <2>2, <2>6
  <2>11. \/ /\ intent' = IntentAfter(a, s, "cancellation_worker")
            /\ att'[a].st = AttemptAfter(a, s, "cancellation_worker")
         \/ intent' = intent /\ att'[a].st = att[a].st
    BY <2>5, <2>10
  <2> HIDE DEF s, changed, status
  <2> QED
    BY <2>2, <2>3, <2>8, <2>9, <2>10, <2>11, AnswerStep
<1>10. CASE CancellationRefused(w)
  <2>1. \A v \in Workers : \/ worker'[v] = worker[v]
                           \/ worker'[v].pc \notin CancelPhase
    <3>1. \A v \in Workers :
             worker'[v] = IF v = w
                          THEN [worker[w] EXCEPT !.pc = "release", !.got = "none"]
                          ELSE worker[v]
      BY <1>0, <1>10, SetWorkerEffect DEF CancellationRefused
    <3>2. [worker[w] EXCEPT !.pc = "release", !.got = "none"].pc = "release"
      BY <1>0 DEF WorkerState
    <3> QED BY <3>1, <3>2 DEF CancelPhase
  <2>2. AskedKept
    BY <1>0, <2>1, GoOn
  <2> QED
    BY <1>8, <1>10, <2>2 DEF CancellationRefused
<1> QED
  BY <1>1, <1>2, <1>3, <1>4, <1>5, <1>6, <1>7, <1>10 DEF CancellationStep

LEMMA OutsidePaid ==
    ASSUME Before,
           \/ CancelOrder \/ SwitchAccount
           \/ \E w \in Workers : WorkerDies(w)
           \/ \E a \in Attempts : LeaseExpires(a) \/ BackoffElapses(a) \/ ProviderUpdates(a)
           \/ UNCHANGED vars
    PROVE  After
<1>0. /\ TypeInv /\ AskedInv /\ att \in [Attempts -> AttemptRow]
      /\ worker \in [Workers -> WorkerState]
  BY DEF Before, PaidInv, TypeInv, TypeOK
<1>7. UNCHANGED worker => AskedKept
  BY <1>0, GoOn
<1>8. UNCHANGED <<rows, manager>> /\ AskedKept => After
  BY <1>0, QuietStep, BumpFresh DEF Before, rows
<1>1. CASE CancelOrder
  BY <1>1, <1>7, <1>8 DEF CancelOrder
<1>2. CASE SwitchAccount
  BY <1>2, <1>7, <1>8 DEF SwitchAccount
<1>3. ASSUME NEW w \in Workers, WorkerDies(w) PROVE After
  <2>1. \A v \in Workers : worker'[v] = IF v = w THEN IdleWorker ELSE worker[v]
    BY <1>0, <1>3, SetWorkerEffect DEF WorkerDies
  <2>2. IdleWorker.pc \notin CancelPhase
    BY DEF IdleWorker, CancelPhase
  <2>3. AskedKept
    BY <1>0, <2>1, <2>2, GoOn
  <2> QED
    BY <1>3, <1>8, <2>3 DEF WorkerDies
<1>4. ASSUME NEW a \in Attempts, LeaseExpires(a) PROVE After
  <2> DEFINE row == [att[a] EXCEPT !.live = FALSE]
  <2>1. row.st = att[a].st /\ row.ext = att[a].ext /\ row.cancel = att[a].cancel
    BY <1>0 DEF AttemptRow
  <2>2. SetAttempt(a, row) BY <1>4 DEF LeaseExpires
  <2> HIDE DEF row
  <2> QED BY <1>4, <1>7, <2>1, <2>2, NotedStep DEF LeaseExpires
<1>5. ASSUME NEW a \in Attempts, BackoffElapses(a) PROVE After
  <2> DEFINE row == [att[a] EXCEPT !.backoff = FALSE]
  <2>1. row.st = att[a].st /\ row.ext = att[a].ext /\ row.cancel = att[a].cancel
    BY <1>0 DEF AttemptRow
  <2>2. SetAttempt(a, row) BY <1>5 DEF BackoffElapses
  <2> HIDE DEF row
  <2> QED BY <1>5, <1>7, <2>1, <2>2, NotedStep DEF BackoffElapses
<1>6. ASSUME NEW a \in Attempts, ProviderUpdates(a) PROVE After
  BY <1>6, <1>7, <1>8 DEF ProviderUpdates
<1>9. CASE UNCHANGED vars
  BY <1>9, <1>7, <1>8 DEF vars, rows
<1> QED
  BY <1>1, <1>2, <1>3, <1>4, <1>5, <1>6, <1>9

LEMMA PaidStep ==
    ASSUME Before, KeepsClosed, [Next]_vars
    PROVE  After
BY ManagerPaid, OrderPaid, CallbackPaid, CheckoutPaid, CancellationPaid, OutsidePaid
   DEF Next

LEMMA PaidInvariant ==
    ASSUME LeaseOutlivesWorker
    PROVE  Spec => []Before
<1>1. Before /\ [Next]_vars => Before'
  BY TypeStep, TypeStutter, LeaseStep, LeaseStutter, PaidStep DEF Before, After
<1>2. Init => Before
  BY TypeInit, LeaseInit, PaidInit DEF Before
<1> QED BY <1>1, <1>2, PTL DEF Spec

\* A recorded payment shows on the intent, as paid or as requiring attention,
\* through every later callback, reconciliation, reopening and order event, while
\* no checkout but the latest was asked to be cancelled.
THEOREM PaidNeverForgottenHolds ==
    ASSUME LeaseOutlivesWorker
    PROVE  Spec => []PaidNeverForgotten
<1>1. Before => PaidNeverForgotten
  BY DEF Before, PaidInv, PaidKept, PaidNeverForgotten
<1> QED BY PaidInvariant, <1>1, PTL

\* A paid intent is left only for a human to look at it.
THEOREM PaidOnlyToAttentionHolds ==
    ASSUME LeaseOutlivesWorker
    PROVE  Spec => PaidOnlyToAttention
<1>1. Before /\ [Next]_vars => [StaysPaid]_vars
  BY LeaseStep, LeaseStutter, PaidStep DEF Before, After
<1> QED BY PaidInvariant, <1>1, PTL DEF Spec, PaidOnlyToAttention, StaysPaid

(***************************************************************************)
(* Payments implements HostedCheckout                                      *)
(*                                                                         *)
(* Seen through the mapping a step enters a call, leaves one (with or      *)
(* without an outcome), requests or closes a checkout, or changes nothing. *)
(* HeldInv makes the caller of an attempt its only one and keeps others    *)
(* from closing an attempt that is being created.                          *)
(***************************************************************************)

Calls(w, a) == worker[w].pc \in CallingPhase /\ worker[w].at = a

Seen == [Checkout!Next]_(Checkout!vars)
SameCalls == \A v \in Workers, b \in Attempts : Calls(v, b)' = Calls(v, b)

LEMMA PhaseValue ==
    ASSUME NEW a \in Attempts
    PROVE  /\ att[a].st = "none" => Phase(a) = "absent"
           /\ att[a].st = "requested" => Phase(a) = "waiting"
           /\ att[a].st \in {"active", "processing"} => Phase(a) = "open"
           /\ att[a].st \in ClosedAttempt => Phase(a) = "closed"
           /\ att'[a].st = "requested" => Phase(a)' = "waiting"
           /\ att'[a].st \in {"active", "processing"} => Phase(a)' = "open"
           /\ att'[a].st \in ClosedAttempt => Phase(a)' = "closed"
           /\ att'[a].st = att[a].st => Phase(a)' = Phase(a)
BY DEF Phase, ClosedAttempt

LEMMA PhaseSet ==
    ASSUME NEW a \in Attempts, NEW p, Phase(a)' = p,
           \A b \in Attempts : b # a => Phase(b)' = Phase(b)
    PROVE  PhaseOf' = [PhaseOf EXCEPT ![a] = p]
BY DEF PhaseOf

LEMMA CallersSame == ASSUME SameCalls PROVE CallersOf' = CallersOf
BY DEF SameCalls, Calls, CallersOf

LEMMA CallersSet ==
    ASSUME NEW a \in Attempts, NEW S, S \subseteq Workers,
           \A v \in Workers : Calls(v, a)' <=> v \in S,
           \A v \in Workers, b \in Attempts : b # a => Calls(v, b)' = Calls(v, b)
    PROVE  CallersOf' = [CallersOf EXCEPT ![a] = S]
<1>1. {v \in Workers : Calls(v, a)'} = S
  OBVIOUS
<1>2. CallersOf' = [b \in Attempts |-> {v \in Workers : Calls(v, b)'}]
  BY DEF CallersOf, Calls
<1>3. CallersOf = [b \in Attempts |-> {v \in Workers : Calls(v, b)}]
  BY DEF CallersOf, Calls
<1>4. \A b \in Attempts :
         b # a => {v \in Workers : Calls(v, b)'} = {v \in Workers : Calls(v, b)}
  OBVIOUS
<1> HIDE DEF Calls
<1> QED
  BY <1>1, <1>2, <1>3, <1>4

\* The caller of an attempt is its only one.
LEMMA OnlyCaller ==
    ASSUME LeaseInv, NEW a \in Attempts, NEW w \in Workers, Calls(w, a)
    PROVE  CallersOf[a] = {w}
<1>1. \A v \in Workers : Calls(v, a) => v = w
  BY DEF LeaseInv, HeldInv, Calls, CallingPhase, LeasePhase
<1> QED
  BY <1>1 DEF CallersOf, Calls

LEMMA StutterSeen ==
    ASSUME SameCalls, \A b \in Attempts : Phase(b)' = Phase(b)
    PROVE  Seen
<1>1. PhaseOf' = PhaseOf
  BY DEF PhaseOf
<1> QED
  BY <1>1, CallersSame DEF Seen, Checkout!vars

LEMMA EnterSeen ==
    ASSUME TypeInv, NEW a \in Attempts, NEW w \in Workers,
           Phase(a) \in {"waiting", "open"}, \A b \in Attempts : Phase(b)' = Phase(b),
           \A v \in Workers : ~Calls(v, a),
           worker[w].pc \notin CallingPhase, Calls(w, a)',
           \A v \in Workers : v # w => worker'[v] = worker[v]
    PROVE  Seen
<1>1. PhaseOf' = PhaseOf /\ PhaseOf[a] \in {"waiting", "open"}
  BY DEF PhaseOf
<1>2. CallersOf[a] = {}
  BY DEF CallersOf, Calls
<1>3. CallersOf' = [CallersOf EXCEPT ![a] = {w}]
  <2>1. \A v \in Workers : Calls(v, a)' <=> v \in {w}
    BY DEF Calls
  <2>2. \A v \in Workers, b \in Attempts : b # a => Calls(v, b)' = Calls(v, b)
    BY DEF Calls
  <2> QED
    BY <2>1, <2>2, CallersSet
<1>4. Checkout!Call(a, w)
  BY <1>1, <1>2, <1>3 DEF Checkout!Call
<1> QED
  BY <1>4 DEF Seen, Checkout!Next

LEMMA LeaveSeen ==
    ASSUME TypeInv, LeaseInv, NEW a \in Attempts, NEW w \in Workers, Calls(w, a),
           worker'[w].pc \notin CallingPhase,
           \A v \in Workers : v # w => worker'[v] = worker[v],
           \A b \in Attempts : b # a => Phase(b)' = Phase(b),
           \/ Phase(a)' = Phase(a)
           \/ Phase(a) = "waiting" /\ Phase(a)' = "open"
           \/ Phase(a) = "open" /\ Phase(a)' = "closed"
    PROVE  Seen
<1>1. CallersOf[a] = {w}
  BY OnlyCaller
<1>2. CallersOf' = [CallersOf EXCEPT ![a] = {}]
  <2>1. \A v \in Workers : Calls(v, a)' <=> v \in {}
    BY <1>1 DEF Calls, CallersOf
  <2>2. \A v \in Workers, b \in Attempts : b # a => Calls(v, b)' = Calls(v, b)
    BY DEF Calls
  <2> QED
    BY <2>1, <2>2, CallersSet
<1>3. PhaseOf[a] = Phase(a)
  BY DEF PhaseOf
<1>4. CASE Phase(a)' = Phase(a)
  <2>1. PhaseOf' = PhaseOf
    BY <1>4 DEF PhaseOf
  <2> QED
    BY <1>1, <1>2, <2>1 DEF Seen, Checkout!Next, Checkout!GiveUp
<1>5. CASE Phase(a) = "waiting" /\ Phase(a)' = "open"
  <2>1. PhaseOf' = [PhaseOf EXCEPT ![a] = "open"]
    BY <1>5, PhaseSet
  <2> QED
    BY <1>1, <1>2, <1>3, <1>5, <2>1 DEF Seen, Checkout!Next, Checkout!Open
<1>6. CASE Phase(a) = "open" /\ Phase(a)' = "closed"
  <2>1. PhaseOf' = [PhaseOf EXCEPT ![a] = "closed"]
    BY <1>6, PhaseSet
  <2> QED
    BY <1>1, <1>2, <1>3, <1>6, <2>1 DEF Seen, Checkout!Next, Checkout!CloseByCall
<1> QED
  BY <1>4, <1>5, <1>6

LEMMA RowSeen ==
    ASSUME SameCalls, NEW a \in Attempts,
           \A b \in Attempts : b # a => Phase(b)' = Phase(b),
           \/ Phase(a)' = Phase(a)
           \/ /\ Phase(a) = "absent" /\ Phase(a)' = "waiting"
              /\ \A b \in Attempts : Phase(b) \in {"absent", "closed"}
           \/ /\ Phase(a) = "waiting" /\ Phase(a)' = "closed"
              /\ \A v \in Workers : ~Calls(v, a)
           \/ Phase(a) = "open" /\ Phase(a)' = "closed"
    PROVE  Seen
<1>1. CallersOf' = CallersOf /\ \A b \in Attempts : PhaseOf[b] = Phase(b)
  BY CallersSame DEF PhaseOf
<1>2. CASE Phase(a)' = Phase(a)
  BY <1>2, StutterSeen
<1>3. CASE /\ Phase(a) = "absent" /\ Phase(a)' = "waiting"
           /\ \A b \in Attempts : Phase(b) \in {"absent", "closed"}
  <2>1. PhaseOf' = [PhaseOf EXCEPT ![a] = "waiting"]
    BY <1>3, PhaseSet
  <2> QED
    BY <1>1, <1>3, <2>1 DEF Seen, Checkout!Next, Checkout!Request
<1>4. CASE /\ Phase(a) = "waiting" /\ Phase(a)' = "closed"
           /\ \A v \in Workers : ~Calls(v, a)
  <2>1. PhaseOf' = [PhaseOf EXCEPT ![a] = "closed"]
    BY <1>4, PhaseSet
  <2>2. CallersOf[a] = {}
    BY <1>4 DEF CallersOf, Calls
  <2> QED
    BY <1>1, <1>4, <2>1, <2>2 DEF Seen, Checkout!Next, Checkout!Close
<1>5. CASE Phase(a) = "open" /\ Phase(a)' = "closed"
  <2>1. PhaseOf' = [PhaseOf EXCEPT ![a] = "closed"]
    BY <1>5, PhaseSet
  <2> QED
    BY <1>1, <1>5, <2>1 DEF Seen, Checkout!Next, Checkout!Close
<1> QED
  BY <1>2, <1>3, <1>4, <1>5

Around == TypeInv /\ TypeInv' /\ LeaseInv /\ KeepsClosed

Statuses(b) == att'[b].st = att[b].st

LEMMA QuietSeen ==
    ASSUME \A b \in Attempts : Statuses(b),
           \A v \in Workers :
              \/ worker'[v] = worker[v]
              \/ worker[v].pc \notin CallingPhase /\ worker'[v].pc \notin CallingPhase
              \/ /\ worker[v].pc \in CallingPhase /\ worker'[v].pc \in CallingPhase
                 /\ worker'[v].at = worker[v].at
    PROVE  Seen
<1>1. SameCalls
  BY DEF SameCalls, Calls
<1>2. \A b \in Attempts : Phase(b)' = Phase(b)
  BY PhaseValue DEF Statuses
<1> QED
  BY <1>1, <1>2, StutterSeen

\* A worker leaves its call, or ends a dispatch that was in none.
LEMMA EndSeen ==
    ASSUME Around, \A b \in Attempts : Statuses(b), NEW w \in Workers,
           worker'[w].pc \notin CallingPhase,
           \A v \in Workers : v # w => worker'[v] = worker[v]
    PROVE  Seen
<1>1. CASE worker[w].pc \notin CallingPhase
  BY <1>1, QuietSeen
<1>2. CASE worker[w].pc \in CallingPhase
  <2> DEFINE a == worker[w].at
  <2>1. a \in Attempts /\ Calls(w, a)
    BY <1>2 DEF Around, TypeInv, TypeOK, WorkerState, Calls
  <2>2. \A b \in Attempts : Phase(b)' = Phase(b)
    BY PhaseValue DEF Statuses
  <2> HIDE DEF a
  <2> QED
    BY <2>1, <2>2, LeaveSeen DEF Around
<1> QED
  BY <1>1, <1>2

\* What evidence may do to the phase of the attempt it is about.
LEMMA EvidencePhase ==
    ASSUME Around, NEW a \in Attempts, att[a].ext,
           Statuses(a) \/ att'[a].st \notin {"none", "requested"}
    PROVE  Phase(a)' = Phase(a) \/ (Phase(a) = "open" /\ Phase(a)' = "closed")
<1>1. att[a].st \in {"active", "processing"} \cup ClosedAttempt
  BY DEF Around, LeaseInv, UnsentInv, TypeInv, TypeOK, AttemptRow, AttemptStatus,
         OpenAttempt
<1>2. Statuses(a) \/ att'[a].st \in {"active", "processing"} \cup ClosedAttempt
  BY DEF Around, TypeInv, TypeOK, AttemptRow, AttemptStatus, OpenAttempt
<1> QED
  BY <1>1, <1>2, PhaseValue DEF Around, KeepsClosed, Statuses

LEMMA EvidenceSeen ==
    ASSUME Around, UNCHANGED worker,
           NEW a \in Attempts, att[a].ext, NEW s, NEW source, ApplyResource(a, s, source)
    PROVE  Seen
<1>1. CASE ~Changes(a, s, source)
  BY <1>1, QuietSeen DEF ApplyResource, rows, Statuses
<1>2. CASE Changes(a, s, source)
  <2> DEFINE row == [att[a] EXCEPT !.st = AttemptAfter(a, s, source)]
  <2>1. row.st = AttemptAfter(a, s, source)
    <3>1. att[a] \in AttemptRow BY DEF Around, TypeInv, TypeOK
    <3> QED BY <3>1 DEF AttemptRow
  <2>2. SetAttempt(a, row)
    BY <1>2 DEF ApplyResource, SetStatus
  <2> HIDE DEF row
  <2>3. /\ att'[a].st = AttemptAfter(a, s, source)
        /\ \A b \in Attempts : b # a => Statuses(b)
    BY <2>1, <2>2, SetAttemptEffect DEF Around, TypeInv, TypeOK, Statuses
  <2>4. Phase(a)' = Phase(a) \/ (Phase(a) = "open" /\ Phase(a)' = "closed")
    BY <2>3, EvidenceStatus, EvidencePhase
  <2>5. SameCalls /\ \A b \in Attempts : b # a => Phase(b)' = Phase(b)
    BY <2>3, PhaseValue DEF SameCalls, Calls, Statuses
  <2> QED
    BY <2>4, <2>5, RowSeen
<1> QED
  BY <1>1, <1>2

\* A waiting attempt nobody holds is closed.
LEMMA CloseWaitingSeen ==
    ASSUME Around, SameCalls, NEW a \in Attempts, att[a].st = "requested",
           att[a].lease = NoWorker \/ ~att[a].live,
           NEW row, SetAttempt(a, row), row.st \in ClosedAttempt
    PROVE  Seen
<1>1. \A b \in Attempts : att'[b] = IF b = a THEN row ELSE att[b]
  BY SetAttemptEffect DEF Around, TypeInv, TypeOK
<1>2. /\ Phase(a) = "waiting" /\ Phase(a)' = "closed"
      /\ \A b \in Attempts : b # a => Phase(b)' = Phase(b)
  BY <1>1, PhaseValue
<1>3. \A v \in Workers : ~Calls(v, a)
  BY NoWorkerAssumption DEF Around, LeaseInv, HeldInv, Calls, CallingPhase, LeasePhase
<1> QED
  BY <1>2, <1>3, RowSeen

\* What a worker notes on a row does not change a status.
LEMMA NotedStatuses ==
    ASSUME Around, NEW a \in Attempts, NEW row, SetAttempt(a, row), row.st = att[a].st
    PROVE  \A b \in Attempts : Statuses(b)
BY SetAttemptEffect DEF Around, TypeInv, TypeOK, Statuses

LEMMA ManagerSeen ==
    ASSUME Around, ManagerStep
    PROVE  Seen
<1>0. /\ UNCHANGED worker
      /\ att \in [Attempts -> AttemptRow] /\ TypeInv /\ LeaseInv
  BY DEF Around, TypeInv, TypeOK, ManagerStep, CreatePaymentIntent, RequestHostedCheckout,
         RequestHostedCheckoutCancellation, ReopenPaymentAfterVerifiedClosure,
         FetchForReconciliation, ReconcileVerifiedResource, RefuseReconciliation
<1>8. SameCalls
  BY <1>0 DEF SameCalls, Calls
<1>9. UNCHANGED att => Seen
  BY <1>0, QuietSeen DEF Statuses
<1>1. CASE \/ CreatePaymentIntent \/ ReopenPaymentAfterVerifiedClosure
           \/ FetchForReconciliation \/ RefuseReconciliation
  BY <1>1, <1>9 DEF CreatePaymentIntent, ReopenPaymentAfterVerifiedClosure,
                    FetchForReconciliation, RefuseReconciliation, rows
<1>2. CASE RequestHostedCheckout
  <2>1. PICK a \in Attempts : IsNext(a) /\ SetAttempt(a, NewAttempt)
    BY <1>2 DEF RequestHostedCheckout
  <2>2. \A b \in Attempts : att'[b] = IF b = a THEN NewAttempt ELSE att[b]
    BY <1>0, <2>1, SetAttemptEffect
  <2>3. att[a].st = "none" /\ NewAttempt.st = "requested"
    BY <2>1 DEF IsNext, Created, NewAttempt, NoAttempt
  <2>4. \A b \in Attempts : att[b].st \in {"none"} \cup ClosedAttempt
    BY <1>0, <1>2 DEF RequestHostedCheckout, NoOpenAttempt, Open, AttemptRow, AttemptStatus
  <2>5. \A b \in Attempts : Phase(b) \in {"absent", "closed"}
    BY <2>4, PhaseValue
  <2>6. /\ Phase(a) = "absent" /\ Phase(a)' = "waiting"
        /\ \A b \in Attempts : b # a => Phase(b)' = Phase(b)
    BY <2>2, <2>3, PhaseValue
  <2> QED
    BY <1>8, <2>5, <2>6, RowSeen
<1>3. CASE RequestHostedCheckoutCancellation
  <2>1. PICK a \in Attempts :
           \/ /\ NotInFlight(a)
              /\ SetAttempt(a, [att[a] EXCEPT !.st = "cancelled", !.backoff = FALSE])
           \/ SetAttempt(a, [att[a] EXCEPT !.cancel = @ + 1, !.cancelDone = FALSE])
    BY <1>3 DEF RequestHostedCheckoutCancellation
  <2>2. CASE /\ NotInFlight(a)
             /\ SetAttempt(a, [att[a] EXCEPT !.st = "cancelled", !.backoff = FALSE])
    <3>1. [att[a] EXCEPT !.st = "cancelled", !.backoff = FALSE].st \in ClosedAttempt
      BY <1>0 DEF AttemptRow, ClosedAttempt
    <3> QED
      BY <1>8, <2>2, <3>1, CloseWaitingSeen DEF NotInFlight
  <2>3. CASE SetAttempt(a, [att[a] EXCEPT !.cancel = @ + 1, !.cancelDone = FALSE])
    <3>1. [att[a] EXCEPT !.cancel = @ + 1, !.cancelDone = FALSE].st = att[a].st
      BY <1>0 DEF AttemptRow
    <3>2. \A b \in Attempts : Statuses(b)
      BY <2>3, <3>1, NotedStatuses
    <3> QED
      BY <1>0, <3>2, QuietSeen
  <2> QED BY <2>1, <2>2, <2>3
<1>4. CASE ReconcileVerifiedResource
  <2>1. manager.at \in Attempts /\ att[manager.at].ext
    BY <1>0, <1>4 DEF ReconcileVerifiedResource, LeaseInv, FetchedInv, TypeInv, ManagerJobInv
  <2> QED
    BY <1>0, <1>4, <2>1, EvidenceSeen DEF ReconcileVerifiedResource
<1> QED
  BY <1>1, <1>2, <1>3, <1>4 DEF ManagerStep

LEMMA OrderSeen ==
    ASSUME Around, ConsumeOrderCancelled
    PROVE  Seen
<1>0. UNCHANGED worker /\ SameCalls /\ att \in [Attempts -> AttemptRow]
  BY DEF ConsumeOrderCancelled, SameCalls, Calls, Around, TypeInv, TypeOK
<1>1. CASE UNCHANGED att
  BY <1>0, <1>1, QuietSeen DEF Statuses
<1>2. CASE ~UNCHANGED att
  <2>1. PICK a \in Attempts : NotInFlight(a) /\ SetStatus(a, "cancelled")
    BY <1>2 DEF ConsumeOrderCancelled, rows
  <2>2. [att[a] EXCEPT !.st = "cancelled"].st \in ClosedAttempt
    BY <1>0 DEF AttemptRow, ClosedAttempt
  <2> QED
    BY <1>0, <2>1, <2>2, CloseWaitingSeen DEF SetStatus, NotInFlight
<1> QED
  BY <1>1, <1>2

LEMMA CallbackSeen ==
    ASSUME Around, NEW d \in Deliveries, CallbackStep(d)
    PROVE  Seen
<1>1. CASE ReadForCallback(d) \/ RefuseCallback(d)
  BY <1>1, QuietSeen DEF ReadForCallback, RefuseCallback, rows, Statuses
<1>2. CASE ApplyVerifiedProviderResource(d)
  <2>1. delivery[d].at \in Attempts /\ att[delivery[d].at].ext
    BY <1>2 DEF ApplyVerifiedProviderResource, CallbackAcceptable, Around, TypeInv,
                CallbackJobInv
  <2> QED
    BY <1>2, <2>1, EvidenceSeen DEF ApplyVerifiedProviderResource
<1> QED
  BY <1>1, <1>2 DEF CallbackStep

LEMMA WorkerMoves ==
    ASSUME Around, NEW w \in Workers
    PROVE  /\ \A state : SetWorker(w, state) =>
                  /\ worker'[w] = state
                  /\ \A v \in Workers : v # w => worker'[v] = worker[v]
           /\ \A pc : Step(w, pc) =>
                  /\ worker'[w].pc = pc /\ worker'[w].at = worker[w].at
                  /\ \A v \in Workers : v # w => worker'[v] = worker[v]
           /\ Finish(w) =>
                  /\ worker'[w].pc \notin CallingPhase
                  /\ \A v \in Workers : v # w => worker'[v] = worker[v]
<1>0. worker \in [Workers -> WorkerState]
  BY DEF Around, TypeInv, TypeOK
<1>1. ASSUME NEW state, SetWorker(w, state)
      PROVE  worker'[w] = state /\ \A v \in Workers : v # w => worker'[v] = worker[v]
  BY <1>0, <1>1, SetWorkerEffect
<1>2. ASSUME NEW pc, Step(w, pc)
      PROVE  /\ worker'[w].pc = pc /\ worker'[w].at = worker[w].at
             /\ \A v \in Workers : v # w => worker'[v] = worker[v]
  BY <1>0, <1>2, StepEffect
<1>3. ASSUME Finish(w)
      PROVE  /\ worker'[w].pc \notin CallingPhase
             /\ \A v \in Workers : v # w => worker'[v] = worker[v]
  BY <1>0, <1>3, FinishEffect DEF LeasePhase, CallingPhase
<1> QED
  BY <1>1, <1>2, <1>3

\* A claim starts a call for an attempt nobody is calling for.
LEMMA ClaimSeen ==
    ASSUME Around, NEW w \in Workers, NEW a \in Attempts, worker[w].pc \notin CallingPhase,
           ~att[a].live, att[a].st \in OpenAttempt, SetAttempt(a, Leased(a, w)),
           Calls(w, a)', \A v \in Workers : v # w => worker'[v] = worker[v]
    PROVE  Seen
<1>1. Leased(a, w).st = att[a].st
  BY DEF Around, TypeInv, TypeOK, AttemptRow, Leased
<1>2. \A b \in Attempts : Phase(b)' = Phase(b)
  BY <1>1, NotedStatuses, PhaseValue DEF Statuses
<1>3. Phase(a) \in {"waiting", "open"}
  BY PhaseValue DEF OpenAttempt
<1>4. \A v \in Workers : ~Calls(v, a)
  BY DEF Around, LeaseInv, HeldInv, Calls, CallingPhase, LeasePhase
<1> QED
  BY <1>2, <1>3, <1>4, EnterSeen DEF Around

LEMMA CheckoutSeen ==
    ASSUME Around, NEW w \in Workers, CheckoutStep(w)
    PROVE  Seen
<1>0. /\ att \in [Attempts -> AttemptRow] /\ TypeInv /\ LeaseInv
      /\ worker[w].at \in Attempts /\ att[worker[w].at] \in AttemptRow
      /\ worker[w] \in WorkerState
  BY DEF Around, TypeInv, TypeOK, WorkerState
<1>9. UNCHANGED att => \A b \in Attempts : Statuses(b)
  BY DEF Statuses
<1>1. CASE PollCheckouts(w)
  <2>1. PICK n \in Attempts :
           SetWorker(w, [IdleWorker EXCEPT !.pc = "item", !.evt = 1, !.last = n])
    BY <1>1 DEF PollCheckouts
  <2>2. worker'[w].pc = "item" /\ \A v \in Workers : v # w => worker'[v] = worker[v]
    <3>1. [IdleWorker EXCEPT !.pc = "item", !.evt = 1, !.last = n].pc = "item"
      BY JobType
    <3> QED BY <2>1, <3>1, WorkerMoves
  <2> QED
    BY <1>1, <1>9, <2>2, EndSeen DEF PollCheckouts, rows, CallingPhase
<1>2. CASE SkipItem(w) \/ ActivationReplayed(w)
  BY <1>2, <1>9, WorkerMoves, EndSeen DEF SkipItem, ActivationReplayed, rows
<1>3. CASE ClaimRequestedCheckout(w)
  <2>1. PICK a \in Attempts :
           /\ att[a].st = "requested" /\ Claimable(a)
           /\ SetAttempt(a, Leased(a, w))
           /\ SetWorker(w, [worker[w] EXCEPT !.pc = "create", !.at = a])
    BY <1>3 DEF ClaimRequestedCheckout
  <2>2. Calls(w, a)' /\ \A v \in Workers : v # w => worker'[v] = worker[v]
    <3>1. worker'[w] = [worker[w] EXCEPT !.pc = "create", !.at = a]
      BY <2>1, WorkerMoves
    <3>2. worker'[w].pc = "create" /\ worker'[w].at = a
      BY <1>0, <3>1 DEF WorkerState
    <3> QED
      BY <2>1, <3>2, WorkerMoves DEF Calls, CallingPhase
  <2>3. worker[w].pc \notin CallingPhase
    BY <1>3 DEF ClaimRequestedCheckout, CallingPhase
  <2> QED
    BY <2>1, <2>2, <2>3, ClaimSeen DEF Claimable, OpenAttempt
<1>4. CASE CloseIneligible(w)
  <2>1. PICK a \in Attempts, st \in {"cancelled", "failed"} :
           att[a].st = "requested" /\ Claimable(a) /\ SetStatus(a, st)
    BY <1>4 DEF CloseIneligible
  <2>2. [att[a] EXCEPT !.st = st].st \in ClosedAttempt
    BY <1>0 DEF AttemptRow, ClosedAttempt
  <2>3. SameCalls
    BY <1>4, WorkerMoves DEF CloseIneligible, SameCalls, Calls, CallingPhase
  <2> QED
    BY <2>1, <2>2, <2>3, CloseWaitingSeen DEF SetStatus, Claimable
<1>5. CASE CreateCheckout(w)
  <2>1. /\ worker[w].pc \in CallingPhase /\ worker'[w].pc \in CallingPhase
        /\ worker'[w].at = worker[w].at
        /\ \A v \in Workers : v # w => worker'[v] = worker[v]
    BY <1>5, WorkerMoves DEF CreateCheckout, CallingPhase
  <2> QED
    BY <1>5, <1>9, <2>1, QuietSeen DEF CreateCheckout, rows
<1>6. CASE CreateCheckoutFails(w) \/ ActivationRefused(w)
  <2>1. /\ worker'[w].pc \notin CallingPhase
        /\ \A v \in Workers : v # w => worker'[v] = worker[v]
    BY <1>6, WorkerMoves DEF CreateCheckoutFails, ActivationRefused, CallingPhase
  <2> QED
    BY <1>6, <1>9, <2>1, EndSeen DEF CreateCheckoutFails, ActivationRefused, rows
<1>7. CASE ActivateHostedCheckout(w)
  <2>0. PICK a \in Attempts : a = worker[w].at
    BY <1>0
  <2> DEFINE row == [Unleased(a) EXCEPT !.st = "active", !.ext = TRUE, !.backoff = FALSE]
  <2>1. row.st = "active"
    BY <1>0, <2>0 DEF AttemptRow, Unleased
  <2>2. Calls(w, a) /\ SetAttempt(a, row) /\ att[a].st = "requested"
    BY <1>0, <1>7, <2>0 DEF ActivateHostedCheckout, Calls, CallingPhase, LeaseInv, PhaseInv
  <2>3. /\ worker'[w].pc \notin CallingPhase
        /\ \A v \in Workers : v # w => worker'[v] = worker[v]
    BY <1>7, WorkerMoves DEF ActivateHostedCheckout
  <2> HIDE DEF row
  <2>4. \A b \in Attempts : att'[b] = IF b = a THEN row ELSE att[b]
    BY <1>0, <2>2, SetAttemptEffect
  <2>5. /\ Phase(a) = "waiting" /\ Phase(a)' = "open"
        /\ \A b \in Attempts : b # a => Phase(b)' = Phase(b)
    BY <2>1, <2>2, <2>4, PhaseValue
  <2> QED
    BY <1>0, <2>2, <2>3, <2>5, LeaveSeen
<1>8. CASE ReleaseCheckoutLease(w)
  <2>1. UNCHANGED att \/ SetAttempt(worker[w].at, [Unleased(worker[w].at) EXCEPT !.backoff = TRUE])
    BY <1>8 DEF ReleaseCheckoutLease
  <2>2. [Unleased(worker[w].at) EXCEPT !.backoff = TRUE].st = att[worker[w].at].st
    BY <1>0 DEF AttemptRow, Unleased
  <2>3. \A b \in Attempts : Statuses(b)
    BY <1>0, <1>9, <2>1, <2>2, NotedStatuses
  <2> QED
    BY <1>8, <2>3, WorkerMoves, EndSeen DEF ReleaseCheckoutLease
<1> QED
  BY <1>1, <1>2, <1>3, <1>4, <1>5, <1>6, <1>7, <1>8 DEF CheckoutStep

LEMMA CancellationSeen ==
    ASSUME Around, NEW w \in Workers, CancellationStep(w)
    PROVE  Seen
<1>0. /\ att \in [Attempts -> AttemptRow] /\ TypeInv /\ LeaseInv
      /\ worker[w].at \in Attempts /\ att[worker[w].at] \in AttemptRow
      /\ worker[w] \in WorkerState
  BY DEF Around, TypeInv, TypeOK, WorkerState
<1>9. UNCHANGED att => \A b \in Attempts : Statuses(b)
  BY DEF Statuses
<1>1. CASE SelectCancellation(w)
  <2>1. PICK a \in Attempts :
           SetWorker(w, [IdleWorker EXCEPT !.pc = "cancel_item", !.at = a,
                                           !.evt = att[a].cancel])
    BY <1>1 DEF SelectCancellation
  <2>2. [IdleWorker EXCEPT !.pc = "cancel_item", !.at = a, !.evt = att[a].cancel].pc
           = "cancel_item"
    BY DEF IdleWorker
  <2>3. worker'[w].pc = "cancel_item" /\ \A v \in Workers : v # w => worker'[v] = worker[v]
    BY <2>1, <2>2, WorkerMoves
  <2> QED
    BY <1>1, <1>9, <2>3, EndSeen DEF SelectCancellation, rows, CallingPhase
<1>2. CASE CompleteForTerminalAttempt(w)
  <2>1. [att[worker[w].at] EXCEPT !.cancelDone = TRUE].st = att[worker[w].at].st
    BY <1>0 DEF AttemptRow
  <2>2. \A b \in Attempts : Statuses(b)
    BY <1>0, <1>2, <2>1, NotedStatuses DEF CompleteForTerminalAttempt
  <2> QED
    BY <1>2, <2>2, WorkerMoves, EndSeen DEF CompleteForTerminalAttempt
<1>3. CASE ClaimCheckoutCancellation(w)
  <2>0. PICK a \in Attempts : a = worker[w].at
    BY <1>0
  <2>1. /\ worker[w].pc \notin CallingPhase /\ Calls(w, a)'
        /\ \A v \in Workers : v # w => worker'[v] = worker[v]
    BY <1>3, <2>0, WorkerMoves DEF ClaimCheckoutCancellation, CallingPhase, Calls
  <2>2. /\ ~att[a].live /\ att[a].st \in OpenAttempt
        /\ SetAttempt(a, Leased(a, w))
    BY <1>3, <2>0 DEF ClaimCheckoutCancellation, CancellationClaimable, Claimable, OpenAttempt
  <2> QED
    BY <1>0, <2>1, <2>2, ClaimSeen
<1>4. CASE SkipCancellation(w)
  BY <1>4, <1>9, WorkerMoves, EndSeen DEF SkipCancellation, rows
<1>5. CASE CancelCheckout(w)
  <2>1. PICK got : SetWorker(w, [worker[w] EXCEPT !.pc = "cancel_apply", !.got = got])
    BY <1>5 DEF CancelCheckout
  <2>2. worker'[w] = [worker[w] EXCEPT !.pc = "cancel_apply", !.got = got]
    BY <2>1, WorkerMoves
  <2>3. /\ worker[w].pc \in CallingPhase /\ worker'[w].pc \in CallingPhase
        /\ worker'[w].at = worker[w].at
    BY <1>0, <1>5, <2>2 DEF CancelCheckout, WorkerState, CallingPhase
  <2>4. \A v \in Workers : v # w => worker'[v] = worker[v]
    BY <2>1, WorkerMoves
  <2> QED
    BY <1>5, <1>9, <2>3, <2>4, QuietSeen DEF CancelCheckout, rows
<1>6. CASE CancelCheckoutFails(w)
  <2>1. /\ worker'[w].pc \notin CallingPhase
        /\ \A v \in Workers : v # w => worker'[v] = worker[v]
    BY <1>6, WorkerMoves DEF CancelCheckoutFails, CallingPhase
  <2> QED
    BY <1>6, <1>9, <2>1, EndSeen DEF CancelCheckoutFails, rows
<1>7. CASE ApplyVerifiedCheckoutCancellation(w)
  <2>0. PICK a \in Attempts : a = worker[w].at
    BY <1>0
  <2> DEFINE s == worker[w].got
             changed == Changes(a, s, "cancellation_worker")
             status == IF changed THEN AttemptAfter(a, s, "cancellation_worker")
                       ELSE att[a].st
             complete == intent' \notin {"awaiting_payment", "processing"}
             row == [Unleased(a) EXCEPT !.st = status, !.backoff = ~complete,
                                        !.cancelDone = complete]
  <2>1. row.st = status
    BY <1>0, <2>0 DEF AttemptRow, Unleased
  <2>2. Calls(w, a) /\ SetAttempt(a, row) /\ att[a].ext
    BY <1>0, <1>7, <2>0 DEF ApplyVerifiedCheckoutCancellation, Calls, CallingPhase, LeaseInv,
                      PhaseInv
  <2>3. status = att[a].st \/ status \notin {"none", "requested"}
    BY EvidenceStatus
  <2>4. /\ worker'[w].pc \notin CallingPhase
        /\ \A v \in Workers : v # w => worker'[v] = worker[v]
    BY <1>7, WorkerMoves DEF ApplyVerifiedCheckoutCancellation
  <2> HIDE DEF row, status
  <2>5. \A b \in Attempts : att'[b] = IF b = a THEN row ELSE att[b]
    BY <1>0, <2>2, SetAttemptEffect
  <2>6. Phase(a)' = Phase(a) \/ (Phase(a) = "open" /\ Phase(a)' = "closed")
    BY <2>1, <2>2, <2>3, <2>5, EvidencePhase DEF Statuses
  <2>7. \A b \in Attempts : b # a => Phase(b)' = Phase(b)
    BY <2>5, PhaseValue
  <2> QED
    BY <1>0, <2>2, <2>4, <2>6, <2>7, LeaveSeen
<1>8. CASE CancellationRefused(w)
  <2>1. worker'[w] = [worker[w] EXCEPT !.pc = "release", !.got = "none"]
    BY <1>8, WorkerMoves DEF CancellationRefused
  <2>2. worker'[w].pc \notin CallingPhase
    BY <1>0, <2>1 DEF WorkerState, CallingPhase
  <2>3. \A v \in Workers : v # w => worker'[v] = worker[v]
    BY <1>8, WorkerMoves DEF CancellationRefused
  <2> QED
    BY <1>8, <1>9, <2>2, <2>3, EndSeen DEF CancellationRefused, rows
<1> QED
  BY <1>1, <1>2, <1>3, <1>4, <1>5, <1>6, <1>7, <1>8 DEF CancellationStep

LEMMA OutsideSeen ==
    ASSUME Around,
           \/ CancelOrder \/ SwitchAccount
           \/ \E w \in Workers : WorkerDies(w)
           \/ \E a \in Attempts : LeaseExpires(a) \/ BackoffElapses(a) \/ ProviderUpdates(a)
           \/ UNCHANGED vars
    PROVE  Seen
<1>0. att \in [Attempts -> AttemptRow]
  BY DEF Around, TypeInv, TypeOK
<1>1. CASE CancelOrder \/ SwitchAccount \/ UNCHANGED vars
  BY <1>1, QuietSeen DEF CancelOrder, SwitchAccount, vars, rows, Statuses
<1>2. ASSUME NEW w \in Workers, WorkerDies(w) PROVE Seen
  <2>1. worker'[w] = IdleWorker /\ \A v \in Workers : v # w => worker'[v] = worker[v]
    BY <1>2, WorkerMoves DEF WorkerDies
  <2> QED
    BY <1>2, <2>1, EndSeen DEF WorkerDies, IdleWorker, CallingPhase, rows, Statuses
<1>3. ASSUME NEW a \in Attempts, LeaseExpires(a) \/ BackoffElapses(a) PROVE Seen
  <2>1. PICK row : SetAttempt(a, row) /\ row.st = att[a].st
    <3>1. /\ [att[a] EXCEPT !.live = FALSE].st = att[a].st
          /\ [att[a] EXCEPT !.backoff = FALSE].st = att[a].st
      BY <1>0 DEF AttemptRow
    <3> QED
      BY <1>3, <3>1 DEF LeaseExpires, BackoffElapses
  <2>2. \A b \in Attempts : Statuses(b)
    BY <2>1, NotedStatuses
  <2> QED
    BY <1>3, <2>2, QuietSeen DEF LeaseExpires, BackoffElapses
<1>4. ASSUME NEW a \in Attempts, ProviderUpdates(a) PROVE Seen
  BY <1>4, QuietSeen DEF ProviderUpdates, rows, Statuses
<1> QED
  BY <1>1, <1>2, <1>3, <1>4

\* Every behaviour is, seen through the mapping, one of HostedCheckout, for every
\* number of attempts, workers and callbacks.
THEOREM ImplementsHostedCheckoutHolds ==
    ASSUME LeaseOutlivesWorker
    PROVE  Spec => ImplementsHostedCheckout
<1>1. Init => Checkout!Init
  BY DEF Init, Checkout!Init, PhaseOf, Phase, CallersOf, CallingPhase, NoAttempt,
         IdleWorker, ClosedAttempt
<1>2. TypeInv /\ LeaseInv /\ [Next]_vars => Seen
  <2>1. TypeInv /\ LeaseInv /\ [Next]_vars => Around
    BY TypeStep, TypeStutter, LeaseStep, LeaseStutter DEF Around
  <2> QED
    BY <2>1, ManagerSeen, OrderSeen, CallbackSeen, CheckoutSeen, CancellationSeen,
       OutsideSeen DEF Next
<1> QED
  BY <1>1, <1>2, LeaseInvariant, PTL DEF Spec, ImplementsHostedCheckout, Checkout!Spec, Seen

(***************************************************************************)
(* Late results                                                            *)
(*                                                                         *)
(* Leases may expire under a slow worker here, so nothing is known of who  *)
(* holds what: only the activation writes the status of a closed attempt.  *)
(***************************************************************************)

LateStep ==
    \A a \in Attempts :
        att[a].st \in ClosedAttempt /\ att'[a].st # att[a].st =>
           /\ ~att[a].ext /\ att'[a].ext /\ att'[a].st = "active"
           /\ intent' \in {"awaiting_payment", "requires_attention"}
           /\ order = "cancelled" => intent' = "requires_attention"

LEMMA KeptIsLateStep == ASSUME KeepsClosed PROVE LateStep
BY DEF KeepsClosed, LateStep

\* A row that keeps the status of a closed attempt.
LEMMA KeepingRow ==
    ASSUME TypeInv, NEW a \in Attempts, NEW row, SetAttempt(a, row),
           att[a].st \in ClosedAttempt => row.st = att[a].st
    PROVE  LateStep
<1>1. \A b \in Attempts : att'[b] = IF b = a THEN row ELSE att[b]
  BY SetAttemptEffect DEF TypeInv, TypeOK
<1> QED BY <1>1, KeptIsLateStep DEF KeepsClosed

LEMMA EvidenceKeeps ==
    ASSUME TypeInv, NEW a \in Attempts, NEW s, NEW source, ApplyResource(a, s, source)
    PROVE  LateStep
<1>1. CASE UNCHANGED att
  BY <1>1, KeptIsLateStep DEF KeepsClosed
<1>2. CASE SetStatus(a, AttemptAfter(a, s, source))
  <2>1. [att[a] EXCEPT !.st = AttemptAfter(a, s, source)].st = AttemptAfter(a, s, source)
    BY DEF TypeInv, TypeOK, AttemptRow
  <2> QED BY <1>2, <2>1, EvidenceKeepsClosed, KeepingRow DEF SetStatus
<1> QED BY <1>1, <1>2 DEF ApplyResource, rows

LEMMA LateManager ==
    ASSUME TypeInv, ManagerStep \/ ConsumeOrderCancelled \/ \E d \in Deliveries : CallbackStep(d)
    PROVE  LateStep
<1>0. att \in [Attempts -> AttemptRow]
  BY DEF TypeInv, TypeOK
<1>1. UNCHANGED att => LateStep
  BY KeptIsLateStep DEF KeepsClosed
<1>2. CASE RequestHostedCheckout
  BY <1>2, KeepingRow DEF RequestHostedCheckout, IsNext, Created, ClosedAttempt
<1>3. ASSUME NEW a \in Attempts, NEW row, SetAttempt(a, row), att[a].st = "requested"
      PROVE  LateStep
  BY <1>3, KeepingRow DEF ClosedAttempt
<1>4. CASE RequestHostedCheckoutCancellation
  BY <1>4, <1>3, KeepingRow
     DEF RequestHostedCheckoutCancellation, NotInFlight, Open, OpenAttempt, ClosedAttempt
<1>5. CASE ReconcileVerifiedResource
  BY <1>5, EvidenceKeeps DEF ReconcileVerifiedResource, TypeInv, ManagerJobInv
<1>6. CASE ConsumeOrderCancelled
  BY <1>6, <1>1, <1>3 DEF ConsumeOrderCancelled, NotInFlight, SetStatus, rows
<1>7. ASSUME NEW d \in Deliveries, CallbackStep(d) PROVE LateStep
  <2>1. CASE ApplyVerifiedProviderResource(d)
    BY <2>1, EvidenceKeeps DEF ApplyVerifiedProviderResource, TypeInv, CallbackJobInv
  <2> QED
    BY <1>1, <1>7, <2>1 DEF CallbackStep, ReadForCallback, RefuseCallback, rows
<1> QED
  BY <1>1, <1>2, <1>4, <1>5, <1>6, <1>7
     DEF ManagerStep, CreatePaymentIntent, ReopenPaymentAfterVerifiedClosure,
         FetchForReconciliation, RefuseReconciliation, rows

LEMMA LateWorker ==
    ASSUME TypeInv, NEW w \in Workers, CheckoutStep(w) \/ CancellationStep(w)
    PROVE  LateStep
<1>0. /\ att \in [Attempts -> AttemptRow]
      /\ worker[w].at \in Attempts /\ att[worker[w].at] \in AttemptRow
  BY DEF TypeInv, TypeOK, WorkerState
<1>1. UNCHANGED att => LateStep
  BY KeptIsLateStep DEF KeepsClosed
<1>2. ASSUME NEW a \in Attempts, NEW row, SetAttempt(a, row),
             att[a].st = "requested" \/ row.st = att[a].st
      PROVE  LateStep
  BY <1>2, KeepingRow DEF ClosedAttempt
<1>3. CASE ClaimRequestedCheckout(w)
  BY <1>3, <1>2 DEF ClaimRequestedCheckout
<1>4. CASE CloseIneligible(w)
  BY <1>4, <1>2 DEF CloseIneligible, SetStatus
<1>5. CASE ActivateHostedCheckout(w)
  <2>0. PICK a \in Attempts : a = worker[w].at
    BY <1>0
  <2> DEFINE row == [Unleased(a) EXCEPT !.st = "active", !.ext = TRUE, !.backoff = FALSE]
  <2>1. row.st = "active" /\ row.ext = TRUE
    BY <1>0, <2>0 DEF AttemptRow, Unleased
  <2>2. /\ SetAttempt(a, row)
        /\ att[a].st = "requested" \/ ~att[a].ext
        /\ intent' = IntentAfterActivation
    BY <1>5, <2>0 DEF ActivateHostedCheckout, Activatable, ResultAfterLocalCancel
  <2> HIDE DEF row
  <2>3. \A b \in Attempts : att'[b] = IF b = a THEN row ELSE att[b]
    BY <1>0, <2>2, SetAttemptEffect
  <2>4. /\ intent' \in {"awaiting_payment", "requires_attention"}
        /\ order = "cancelled" => intent' = "requires_attention"
    BY <2>2 DEF IntentAfterActivation, DispatchEligible
  <2> QED BY <2>1, <2>2, <2>3, <2>4 DEF LateStep, ClosedAttempt
<1>6. CASE ReleaseCheckoutLease(w)
  <2>1. [Unleased(worker[w].at) EXCEPT !.backoff = TRUE].st = att[worker[w].at].st
    BY <1>0 DEF AttemptRow, Unleased
  <2> QED BY <1>0, <1>1, <1>2, <1>6, <2>1 DEF ReleaseCheckoutLease
<1>7. CASE CompleteForTerminalAttempt(w)
  <2>1. [att[worker[w].at] EXCEPT !.cancelDone = TRUE].st = att[worker[w].at].st
    BY <1>0 DEF AttemptRow
  <2> QED BY <1>0, <1>2, <1>7, <2>1 DEF CompleteForTerminalAttempt
<1>8. CASE ClaimCheckoutCancellation(w)
  <2>1. Leased(worker[w].at, w).st = att[worker[w].at].st
    BY <1>0 DEF AttemptRow, Leased
  <2> QED BY <1>0, <1>2, <1>8, <2>1 DEF ClaimCheckoutCancellation
<1>9. CASE ApplyVerifiedCheckoutCancellation(w)
  <2>0. PICK a \in Attempts : a = worker[w].at
    BY <1>0
  <2> DEFINE s == worker[w].got
             changed == Changes(a, s, "cancellation_worker")
             status == IF changed THEN AttemptAfter(a, s, "cancellation_worker")
                       ELSE att[a].st
             complete == intent' \notin {"awaiting_payment", "processing"}
             row == [Unleased(a) EXCEPT !.st = status, !.backoff = ~complete,
                                        !.cancelDone = complete]
  <2>1. row.st = status
    BY <1>0, <2>0 DEF AttemptRow, Unleased
  <2>2. SetAttempt(a, row)
    BY <1>9, <2>0 DEF ApplyVerifiedCheckoutCancellation
  <2>3. att[a].st \in ClosedAttempt => status = att[a].st
    BY EvidenceKeepsClosed
  <2> HIDE DEF row, status
  <2> QED BY <2>1, <2>2, <2>3, KeepingRow
<1> QED
  BY <1>1, <1>3, <1>4, <1>5, <1>6, <1>7, <1>8, <1>9
     DEF CheckoutStep, CancellationStep, PollCheckouts, SkipItem, CreateCheckout,
         CreateCheckoutFails, ActivationReplayed, ActivationRefused, SelectCancellation,
         SkipCancellation, CancelCheckout, CancelCheckoutFails, CancellationRefused, rows

\* Whatever leases expire under slow workers, a closed checkout opens again only to
\* record the resource its late answer brings, and the intent says so.
THEOREM LateResultKeptHolds == Spec => LateResultKept
<1>1. TypeInv /\ [Next]_vars => LateStep
  <2>1. UNCHANGED att => LateStep
    BY KeptIsLateStep DEF KeepsClosed
  <2>2. ASSUME TypeInv, NEW a \in Attempts, LeaseExpires(a) \/ BackoffElapses(a)
        PROVE  LateStep
    <3>1. /\ [att[a] EXCEPT !.live = FALSE].st = att[a].st
          /\ [att[a] EXCEPT !.backoff = FALSE].st = att[a].st
      BY <2>2 DEF TypeInv, TypeOK, AttemptRow
    <3> QED BY <2>2, <3>1, KeepingRow DEF LeaseExpires, BackoffElapses
  <2> QED
    BY <2>1, <2>2, LateManager, LateWorker
       DEF Next, CancelOrder, SwitchAccount, WorkerDies, ProviderUpdates, rows, vars
<1>2. TypeInv /\ [Next]_vars => [LateStep]_vars
  BY <1>1
<1>3. TypeInv /\ [Next]_vars => TypeInv'
  BY TypeStep, TypeStutter
<1> QED BY TypeInit, <1>2, <1>3, PTL DEF Spec, LateResultKept, LateStep

=============================================================================
