-------------------------- MODULE MessagingProofs --------------------------
(***************************************************************************)
(* Proofs about MessageEvents, the whole of Messaging, for any number of   *)
(* sources, workers, consumers and messages, any answers and any bounds.   *)
(***************************************************************************)
EXTENDS MessagingHandover, TLAPS

(***************************************************************************)
(* Types                                                                   *)
(***************************************************************************)

LEMMA ProceedType ==
    ASSUME TypeOK, NEW w \in Workers, Proceed(w)
    PROVE  /\ worker' \in [Workers -> WorkerState]
           /\ worker'[w].pc \in {"idle", "item"}
           /\ \A v \in Workers : v # w => worker'[v] = worker[v]
  BY DEF TypeOK, Proceed, WorkerState

LEMMA GotoType ==
    ASSUME TypeOK, NEW w \in Workers,
           NEW pc \in {"prepare", "call", "accept", "unsure", "fail", "release"}, Goto(w, pc)
    PROVE  /\ worker' \in [Workers -> WorkerState]
           /\ worker'[w].pc = pc
           /\ worker'[w].at = worker[w].at
           /\ \A v \in Workers : v # w => worker'[v] = worker[v]
<1>1. /\ worker \in [Workers -> WorkerState]
      /\ worker' = [worker EXCEPT ![w] = [worker[w] EXCEPT !.pc = pc]]
  BY DEF TypeOK, Goto
<1>2. /\ [worker[w] EXCEPT !.pc = pc] \in WorkerState
      /\ [worker[w] EXCEPT !.pc = pc].pc = pc
      /\ [worker[w] EXCEPT !.pc = pc].at = worker[w].at
  BY <1>1 DEF WorkerState
<1> QED
  BY <1>1, <1>2

LEMMA SaveType ==
    ASSUME TypeOK, NEW m \in Messages, NEW row \in MessageRow, Save(m, row)
    PROVE  /\ msg' \in [Messages -> MessageRow]
           /\ msg'[m] = row
           /\ \A k \in Messages : k # m => msg'[k] = msg[k]
  BY DEF TypeOK, Save

LEMMA Statuses ==
    /\ {"queued", "sending", "sent", "failed", "uncertain", "pending", "cancelled"} \subseteq MessageStatus
    /\ {"sending", "accepted", "failed", "uncertain", "requested", "cancelled"} \subseteq AttemptStatus
  BY DEF MessageStatus, AttemptStatus

LEMMA SettledType ==
    ASSUME NEW row \in MessageRow, NEW st \in MessageStatus, NEW at \in AttemptStatus
    PROVE  /\ Settled(row, st, at) \in MessageRow
           /\ Settled(row, st, at).st = st
           /\ Settled(row, st, at).at = at
           /\ Settled(row, st, at).lease = NoWorker
           /\ Settled(row, st, at).ext = row.ext
           /\ Settled(row, st, at).sendingRow = row.sendingRow
           /\ Settled(row, st, at).auto = row.auto
           /\ Settled(row, st, at).source = row.source
           /\ Settled(row, st, at).rule = row.rule
           /\ Settled(row, st, at).to = row.to
           /\ Settled(row, st, at).version = row.version
           /\ Settled(row, st, at).evidence = row.evidence
  BY DEF Settled, MessageRow

LEMMA CreatedType ==
    ASSUME TypeOK, NEW s \in Sources, NEW c \in Contacts, NEW auto \in BOOLEAN, NEW r \in Nat
    PROVE  /\ Created(s, c, auto, r) \in MessageRow
           /\ Created(s, c, auto, r).st = "pending"
           /\ Created(s, c, auto, r).at = "requested"
           /\ Created(s, c, auto, r).lease = NoWorker
           /\ ~Created(s, c, auto, r).ext
           /\ Created(s, c, auto, r).auto = auto
           /\ Created(s, c, auto, r).source = s
           /\ Created(s, c, auto, r).rule = r
           /\ Created(s, c, auto, r).to = c
           /\ Created(s, c, auto, r).version = source[s].version
           /\ Created(s, c, auto, r).evidence = contact[c].evidence
<1>1. source[s].version \in Nat /\ contact[c].evidence \in Nat
  BY DEF TypeOK, ContactRow, SourceRow
<1>2. NoMessage \in MessageRow /\ NoMessage.lease = NoWorker /\ NoMessage.ext = FALSE
  BY DEF NoMessage, MessageRow, MessageStatus, AttemptStatus
<1>3. "pending" \in MessageStatus /\ "requested" \in AttemptStatus
  BY Statuses
<1>4. Created(s, c, auto, r) =
          [NoMessage EXCEPT !.st = "pending", !.at = "requested", !.source = s,
                            !.version = source[s].version,
                            !.to = c, !.evidence = contact[c].evidence,
                            !.auto = auto, !.rule = r]
  BY DEF Created
<1>5. Created(s, c, auto, r) \in MessageRow
  <2> DEFINE started == [NoMessage EXCEPT !.st = "pending", !.at = "requested"]
             sourced == [started EXCEPT !.source = s, !.version = source[s].version]
             addressed == [sourced EXCEPT !.to = c, !.evidence = contact[c].evidence]
  <2>1. started \in MessageRow
    BY <1>2, <1>3 DEF MessageRow
  <2> HIDE DEF started
  <2>2. sourced \in MessageRow
    BY <1>1, <2>1 DEF MessageRow
  <2> HIDE DEF sourced
  <2>3. addressed \in MessageRow
    BY <1>1, <2>2 DEF MessageRow
  <2> HIDE DEF addressed
  <2>4. [addressed EXCEPT !.auto = auto, !.rule = r] \in MessageRow
    BY <2>3 DEF MessageRow
  <2>5. Created(s, c, auto, r) = [addressed EXCEPT !.auto = auto, !.rule = r]
    BY <1>2, <1>4 DEF started, sourced, addressed, MessageRow
  <2> QED
    BY <2>4, <2>5
<1>6. /\ Created(s, c, auto, r).st = "pending"
      /\ Created(s, c, auto, r).at = "requested"
      /\ Created(s, c, auto, r).lease = NoWorker
      /\ ~Created(s, c, auto, r).ext
  BY <1>2, <1>4 DEF MessageRow
<1>7. /\ Created(s, c, auto, r).auto = auto
      /\ Created(s, c, auto, r).source = s
      /\ Created(s, c, auto, r).rule = r
      /\ Created(s, c, auto, r).to = c
      /\ Created(s, c, auto, r).version = source[s].version
      /\ Created(s, c, auto, r).evidence = contact[c].evidence
  BY <1>2, <1>4 DEF MessageRow
<1> QED
  BY <1>5, <1>6, <1>7

LEMMA NoMessageType == NoMessage \in MessageRow /\ NoMessage.st = "none"
  BY DEF NoMessage, MessageRow, MessageStatus, AttemptStatus

LEMMA InitTypes == Init => TypeOK
<1> SUFFICES ASSUME Init PROVE TypeOK
  OBVIOUS
<1>1. /\ contact \in [Contacts -> ContactRow]
      /\ primary \in Contacts
  BY ContactAssumption DEF Init, MInit, ContactRow, NewContact
<1>2. /\ msg \in [Messages -> MessageRow]
      /\ accepted \in [Messages -> Nat]
      /\ changes \in 0 .. MaxChanges /\ deaths \in 0 .. MaxDeaths
  BY NoMessageType, LimitsAssumption DEF Init, MInit
<1>3. /\ worker \in [Workers -> WorkerState]
      /\ consumer \in [Consumers -> ConsumerState]
  BY DEF Init, MInit, Idle, WorkerState, NotConsuming, ConsumerState
<1>4. /\ source \in [Sources -> SourceRow]
      /\ born \in [Messages -> Birth]
  BY DEF Init, MInit, SourceRow, ContactRow, NewContact, Unborn, Birth
<1> QED
  BY <1>1, <1>2, <1>3, <1>4 DEF Init, MInit, TypeOK

(***************************************************************************)
(* The inductive invariant                                                 *)
(*                                                                         *)
(* RowOK relates a row to the number of acceptances outside.  It needs     *)
(* WorkerOK: what a worker between two transactions knows of its row, the  *)
(* lease being what it has kept.  A worker that called the provider and    *)
(* lost its lease finds its message uncertain, and it is alone with it.    *)
(***************************************************************************)
Busy == {"claim", "prepare", "call", "accept", "unsure", "fail", "release"}
Calling == {"call", "accept", "unsure", "release"}

AttemptOf(st) == CASE st \in {"pending", "queued"} -> "requested"
                   [] st = "sent" -> "accepted"
                   [] OTHER -> st

RowOK(row, n) ==
    /\ row.at = AttemptOf(row.st)
    /\ n \in {0, 1}
    /\ row.st \in {"none", "pending", "queued", "cancelled"} => n = 0
    /\ row.st = "failed" /\ ~row.ext => n = 0
    /\ row.st \in {"sent", "delivered"} => n = 1
    /\ row.ext => row.st \in {"sent", "delivered", "failed"} /\ n = 1
    /\ row.lease # NoWorker => row.st \in {"queued", "sending"}
    /\ row.st = "none" => ~row.auto
    /\ row.st \notin {"none"} => row.source \in Sources

KnowsRow(w, pc, row, n) ==
    /\ pc \in {"prepare", "fail"} /\ row.lease = w => n = 0
    /\ pc \in Calling => row.st \in {"sending", "uncertain"}
    /\ pc \in Calling /\ row.st = "sending" => row.lease = w
    /\ pc \in {"call", "release"} => n = 0
    /\ pc = "accept" => n = 1

RowsOK == \A m \in Messages : RowOK(msg[m], accepted[m])
BusyOK == \A w \in Workers : worker[w].pc \in Busy => worker[w].at \in Messages
WorkersOK ==
    \A w \in Workers :
        worker[w].pc \in Busy =>
            KnowsRow(w, worker[w].pc, msg[worker[w].at], accepted[worker[w].at])
Alone ==
    \A v, w \in Workers :
        worker[v].pc \in Calling /\ worker[w].pc \in Calling /\ worker[v].at = worker[w].at
            => v = w

Known == RowsOK /\ BusyOK /\ WorkersOK /\ Alone

\* A consumer past the rules is at an event; needed for the source of a message.
EventOK ==
    \A c \in Consumers : consumer[c].pc \in {"create", "receipt"} => consumer[c].at \in Sources

IInv == TypeOK /\ EventOK /\ Known

LEMMA InitIInv == Init => IInv
<1> SUFFICES ASSUME Init PROVE IInv
  OBVIOUS
<1>1. TypeOK
  BY InitTypes
<1>2. RowsOK
  BY DEF Init, MInit, RowsOK, RowOK, AttemptOf, NoMessage
<1>3. BusyOK /\ WorkersOK /\ Alone
  BY DEF Init, MInit, Idle, BusyOK, WorkersOK, Alone, Busy, Calling
<1>4. EventOK
  BY DEF Init, NotConsuming, EventOK
<1> QED
  BY <1>1, <1>2, <1>3, <1>4 DEF IInv, Known

(***************************************************************************)
(* Each step keeps the types                                               *)
(***************************************************************************)

\* What a busy worker's row is.
LEMMA RowType ==
    ASSUME TypeOK, BusyOK, NEW w \in Workers, worker[w].pc \in Busy
    PROVE  worker[w].at \in Messages /\ Row(w) \in MessageRow /\ Row(w) = msg[worker[w].at]
  BY DEF TypeOK, BusyOK, Row

\* Steps of a worker that leave the rows alone.
LEMMA WorkerOnlyType ==
    ASSUME TypeOK, worker' \in [Workers -> WorkerState],
           UNCHANGED <<msg, receipts, world, deaths, accepted, evars>>
    PROVE  TypeOK'
  BY DEF TypeOK, world, evars, Messages, MessageRow, WorkerState, ConsumerState

\* Steps that write a row.
LEMMA WriteType ==
    ASSUME TypeOK, NEW m \in Messages, NEW row \in MessageRow, Save(m, row),
           worker' \in [Workers -> WorkerState],
           UNCHANGED <<receipts, world, deaths, accepted, evars>>
    PROVE  TypeOK'
  BY SaveType DEF TypeOK, world, evars

LEMMA PrepareRow ==
    ASSUME NEW row \in MessageRow, NEW w \in Workers
    PROVE  /\ [row EXCEPT !.st = "queued", !.lease = w, !.live = TRUE] \in MessageRow
           /\ [row EXCEPT !.st = "sending", !.at = "sending", !.sendingRow = TRUE] \in MessageRow
           /\ [Settled(row, "sent", "accepted") EXCEPT !.ext = TRUE] \in MessageRow
           /\ [Settled(row, "pending", "requested") EXCEPT !.waits = TRUE] \in MessageRow
<1>1. [row EXCEPT !.st = "queued", !.lease = w, !.live = TRUE] \in MessageRow
  BY Statuses DEF MessageRow
<1>2. [row EXCEPT !.st = "sending", !.at = "sending", !.sendingRow = TRUE] \in MessageRow
  BY Statuses DEF MessageRow
<1>3. [Settled(row, "sent", "accepted") EXCEPT !.ext = TRUE] \in MessageRow
  <2>1. Settled(row, "sent", "accepted") \in MessageRow
    BY SettledType, Statuses
  <2> QED
    BY <2>1 DEF MessageRow
<1>4. [Settled(row, "pending", "requested") EXCEPT !.waits = TRUE] \in MessageRow
  <2>1. Settled(row, "pending", "requested") \in MessageRow
    BY SettledType, Statuses
  <2> QED
    BY <2>1 DEF MessageRow
<1> QED
  BY <1>1, <1>2, <1>3, <1>4

LEMMA AnswerGoesOn ==
    ASSUME NEW answer
    PROVE  AfterAnswer(answer) \in {"accept", "unsure", "fail", "release"}
  BY DEF AfterAnswer

LEMMA WorkerType ==
    ASSUME TypeOK, BusyOK, NEW w \in Workers, WorkerStep(w), UNCHANGED evars
    PROVE  TypeOK'
<1>1. CASE SelectMessages(w)
  <2>1. worker' \in [Workers -> WorkerState]
    BY <1>1 DEF SelectMessages, TypeOK, WorkerState, Oldest, Pending
  <2> QED
    BY <1>1, <2>1, WorkerOnlyType DEF SelectMessages
<1>2. ASSUME NEW m \in Messages, TakeMessage(w, m) PROVE TypeOK'
  <2>1. worker' \in [Workers -> WorkerState]
    BY <1>2 DEF TakeMessage, TypeOK, WorkerState
  <2> QED
    BY <1>2, <2>1, WorkerOnlyType DEF TakeMessage
<1>3. CASE ClaimDispatch(w)
  <2>1. worker' \in [Workers -> WorkerState]
    BY <1>3, GotoType DEF ClaimDispatch
  <2>2. worker[w].at \in Messages /\ Row(w) \in MessageRow
    BY <1>3, RowType DEF ClaimDispatch, At, Busy
  <2> QED
    BY <1>3, <2>1, <2>2, PrepareRow, WriteType DEF ClaimDispatch
<1>4. CASE ClaimLostSender(w)
  <2>1. worker' \in [Workers -> WorkerState]
    BY <1>4, ProceedType DEF ClaimLostSender
  <2>2. worker[w].at \in Messages /\ Row(w) \in MessageRow
    BY <1>4, RowType DEF ClaimLostSender, At, Busy
  <2>3. Settled(Row(w), "uncertain", "uncertain") \in MessageRow
    BY <2>2, SettledType, Statuses
  <2> QED
    BY <1>4, <2>1, <2>2, <2>3, WriteType DEF ClaimLostSender
<1>5. CASE ClaimRefused(w)
  BY <1>5, ProceedType, WorkerOnlyType DEF ClaimRefused
<1>6. CASE PrepareSendRequest(w)
  <2>1. worker' \in [Workers -> WorkerState]
    BY <1>6, GotoType DEF PrepareSendRequest
  <2>2. worker[w].at \in Messages /\ Row(w) \in MessageRow
    BY <1>6, RowType DEF PrepareSendRequest, At, Busy
  <2> QED
    BY <1>6, <2>1, <2>2, PrepareRow, WriteType DEF PrepareSendRequest
<1>7. CASE PrepareFails(w)
  BY <1>7, ProceedType, WorkerOnlyType DEF PrepareFails
<1>8. CASE PrepareRefused(w)
  BY <1>8, GotoType, WorkerOnlyType DEF PrepareRefused
<1>9. ASSUME NEW answer \in Answers, SendText(w, answer) PROVE TypeOK'
  <2>1. worker' \in [Workers -> WorkerState]
    BY <1>9, GotoType, AnswerGoesOn DEF SendText
  <2>2. worker[w].at \in Messages
    BY <1>9, RowType DEF SendText, At, Busy
  <2>3. accepted' \in [Messages -> Nat]
    BY <1>9, <2>2 DEF SendText, TypeOK
  <2> QED
    BY <1>9, <2>1, <2>3 DEF SendText, TypeOK, world, evars
<1>10. CASE ApplyProviderAcceptance(w)
  <2>1. worker' \in [Workers -> WorkerState]
    BY <1>10, ProceedType, GotoType DEF ApplyProviderAcceptance
  <2>2. worker[w].at \in Messages /\ Row(w) \in MessageRow
    BY <1>10, RowType DEF ApplyProviderAcceptance, At, Busy
  <2> QED
    BY <1>10, <2>1, <2>2, PrepareRow, WriteType, WorkerOnlyType DEF ApplyProviderAcceptance
<1>11. CASE MarkUncertain(w)
  <2>1. worker' \in [Workers -> WorkerState]
    BY <1>11, ProceedType DEF MarkUncertain
  <2>2. worker[w].at \in Messages /\ Row(w) \in MessageRow
    BY <1>11, RowType DEF MarkUncertain, At, Busy
  <2>3. Settled(Row(w), "uncertain", "uncertain") \in MessageRow
    BY <2>2, SettledType, Statuses
  <2> QED
    BY <1>11, <2>1, <2>2, <2>3, WriteType, WorkerOnlyType DEF MarkUncertain, UncertainOutcome
<1>12. CASE MarkFailed(w)
  <2>1. worker' \in [Workers -> WorkerState]
    BY <1>12, ProceedType DEF MarkFailed
  <2>2. worker[w].at \in Messages /\ Row(w) \in MessageRow
    BY <1>12, RowType DEF MarkFailed, At, Busy
  <2>3. Settled(Row(w), "failed", "failed") \in MessageRow
    BY <2>2, SettledType, Statuses
  <2> QED
    BY <1>12, <2>1, <2>2, <2>3, WriteType, WorkerOnlyType DEF MarkFailed
<1>13. CASE ReleaseDispatch(w)
  <2>1. worker' \in [Workers -> WorkerState]
    BY <1>13, ProceedType DEF ReleaseDispatch
  <2>2. worker[w].at \in Messages /\ Row(w) \in MessageRow
    BY <1>13, RowType DEF ReleaseDispatch, At, Busy
  <2> QED
    BY <1>13, <2>1, <2>2, PrepareRow, WriteType, WorkerOnlyType DEF ReleaseDispatch
<1>14. CASE WorkerDies(w)
  <2>1. worker' \in [Workers -> WorkerState]
    BY <1>14 DEF WorkerDies, TypeOK, WorkerState, Idle
  <2>2. deaths' \in 0 .. MaxDeaths
    BY <1>14, LimitsAssumption DEF WorkerDies, TypeOK
  <2> QED
    BY <1>14, <2>1, <2>2 DEF WorkerDies, TypeOK, world, evars
<1> QED
  BY <1>1, <1>2, <1>3, <1>4, <1>5, <1>6, <1>7, <1>8, <1>9, <1>10, <1>11, <1>12, <1>13, <1>14
  DEF WorkerStep

LEMMA MessageRowType ==
    ASSUME NEW row \in MessageRow
    PROVE  /\ [row EXCEPT !.live = FALSE] \in MessageRow
           /\ [row EXCEPT !.waits = FALSE] \in MessageRow
           /\ [row EXCEPT !.st = "cancelled"] \in MessageRow
           /\ \A target \in Evidence : WithEvidence(row, target) \in MessageRow
<1>1. ASSUME NEW target \in Evidence PROVE WithEvidence(row, target) \in MessageRow
  <2>1. target \in MessageStatus /\ AttemptFor(target) \in AttemptStatus
    BY DEF Evidence, AttemptFor, MessageStatus, AttemptStatus
  <2>2. [row EXCEPT !.st = target, !.at = AttemptFor(target)] \in MessageRow
    BY <2>1 DEF MessageRow
  <2> QED
    BY <2>2 DEF WithEvidence
<1>2. [row EXCEPT !.live = FALSE] \in MessageRow /\ [row EXCEPT !.waits = FALSE] \in MessageRow
  BY DEF MessageRow
<1>3. [row EXCEPT !.st = "cancelled"] \in MessageRow
  BY DEF MessageRow, MessageStatus
<1> QED
  BY <1>1, <1>2, <1>3

\* What a creation changes.
LEMMA CreateType ==
    ASSUME TypeOK, NEW m \in Messages, NEW s \in Sources, NEW c \in Contacts,
           NEW auto \in BOOLEAN, NEW r \in Nat, Create(s, c, m, auto, r)
    PROVE  /\ msg' \in [Messages -> MessageRow]
           /\ born' \in [Messages -> Birth]
<1>1. msg' \in [Messages -> MessageRow]
  <2>1. Created(s, c, auto, r) \in MessageRow /\ Save(m, Created(s, c, auto, r))
    BY CreatedType DEF Create
  <2> QED
    BY <2>1, SaveType
<1>2. [source |-> source[s], contact |-> contact[c]] \in Birth
  BY DEF TypeOK, Birth
<1> QED
  BY <1>1, <1>2 DEF Create, TypeOK

LEMMA MessageType ==
    ASSUME TypeOK, NEW m \in Messages, MessageStep(m), UNCHANGED evars
    PROVE  TypeOK'
<1>1. msg[m] \in MessageRow /\ worker \in [Workers -> WorkerState]
  BY DEF TypeOK
<1>2. ASSUME NEW s \in Sources, NEW c \in Contacts, CreateMessageFromCommand(s, c, m) PROVE TypeOK'
  <2>1. Create(s, c, m, FALSE, 0) /\ 0 \in Nat
    BY <1>2 DEF CreateMessageFromCommand
  <2>2. msg' \in [Messages -> MessageRow] /\ born' \in [Messages -> Birth]
    BY <2>1, CreateType
  <2> QED
    BY <2>1, <2>2 DEF Create, TypeOK, evars
<1>3. CASE LeaseExpires(m)
  BY <1>1, <1>3, MessageRowType, WriteType DEF LeaseExpires
<1>4. CASE BackoffElapses(m)
  BY <1>1, <1>4, MessageRowType, WriteType DEF BackoffElapses
<1>5. CASE CancelMessage(m)
  <2>1. Settled(msg[m], "cancelled", "cancelled") \in MessageRow
    BY <1>1, SettledType, Statuses
  <2> QED
    BY <1>1, <1>5, <2>1, MessageRowType, WriteType DEF CancelMessage
<1>6. ASSUME NEW target \in Evidence, NEW id \in RequestIds,
             ApplyDeliveryEvidence(m, target, id)
      PROVE  TypeOK'
  <2>1. WithEvidence(msg[m], target) \in MessageRow
    BY <1>1, MessageRowType
  <2>2. msg' \in [Messages -> MessageRow]
    BY <1>6, <2>1, SaveType DEF ApplyDeliveryEvidence
  <2> QED
    BY <1>6, <2>2 DEF ApplyDeliveryEvidence, TypeOK, world, evars
<1> QED
  BY <1>2, <1>3, <1>4, <1>5, <1>6 DEF MessageStep

LEMMA ChangeType ==
    ASSUME TypeOK, Change
    PROVE  changes' \in 0 .. MaxChanges
  BY LimitsAssumption DEF TypeOK, Change

LEMMA WorldType ==
    ASSUME TypeOK, WorldStep, UNCHANGED evars
    PROVE  TypeOK'
<1>1. ASSUME NEW s \in Sources, NEW open \in BOOLEAN, SourceMoves(s, open) PROVE TypeOK'
  <2>1. source' \in [Sources -> SourceRow]
    BY <1>1 DEF SourceMoves, TypeOK, SourceRow
  <2> QED
    BY <1>1, <2>1, ChangeType DEF SourceMoves, TypeOK, evars
<1>2. ASSUME NEW k \in Contacts, NEW b \in BOOLEAN, AddContact(k, b) PROVE TypeOK'
  <2>1. contact' \in [Contacts -> ContactRow]
    <3>0. contact[k] \in ContactRow
      BY DEF TypeOK
    <3>1. [contact[k] EXCEPT !.known = TRUE] \in ContactRow
      BY <3>0 DEF ContactRow
    <3>2. contact' = [contact EXCEPT ![k] = [contact[k] EXCEPT !.known = TRUE]]
      BY <1>2 DEF AddContact
    <3> QED
      BY <3>1, <3>2 DEF TypeOK
  <2>2. primary' \in Contacts
    BY <1>2 DEF AddContact, TypeOK
  <2> QED
    BY <1>2, <2>1, <2>2, ChangeType DEF AddContact, TypeOK, evars
<1>3. CASE DisableChannel
  <2>1. channel' \in [active : BOOLEAN, connected : BOOLEAN]
    BY <1>3 DEF DisableChannel, TypeOK
  <2> QED
    BY <1>3, <2>1, ChangeType DEF DisableChannel, TypeOK, evars
<1>4. ASSUME NEW k \in Contacts, NEW b \in BOOLEAN, RecordPreference(k, b) PROVE TypeOK'
  <2>1. contact' \in [Contacts -> ContactRow]
    <3>1. contact[k].evidence + 1 \in Nat
      BY <1>4 DEF TypeOK, ContactRow
    <3> DEFINE row == [contact[k] EXCEPT !.evidence = contact[k].evidence + 1, !.allowed = b]
    <3>2. contact[k] \in ContactRow
      BY DEF TypeOK
    <3>3. row \in ContactRow
      BY <3>1, <3>2 DEF ContactRow
    <3>4. contact' = [contact EXCEPT ![k] = row]
      BY <1>4 DEF RecordPreference
    <3> HIDE DEF row
    <3> QED
      BY <3>3, <3>4 DEF TypeOK
  <2> QED
    BY <1>4, <2>1, ChangeType DEF RecordPreference, TypeOK, evars
<1>5. ASSUME NEW b \in BOOLEAN, SetProviderConnectionActive(b) PROVE TypeOK'
  <2>1. channel' \in [active : BOOLEAN, connected : BOOLEAN]
    BY <1>5 DEF SetProviderConnectionActive, TypeOK
  <2> QED
    BY <1>5, <2>1, ChangeType DEF SetProviderConnectionActive, TypeOK, evars
<1>6. ASSUME NEW kept \in SUBSET Contacts, MergeCustomers(kept) PROVE TypeOK'
  <2>1. contact' \in [Contacts -> ContactRow]
    <3>1. \A k \in Contacts, place \in {"moved", "closed"} :
              contact[k] \in ContactRow /\ [contact[k] EXCEPT !.place = place] \in ContactRow
      BY DEF TypeOK, ContactRow
    <3>2. contact' = [k \in Contacts |->
              IF ~contact[k].known THEN contact[k]
              ELSE [contact[k] EXCEPT !.place = IF k \in kept THEN "moved" ELSE "closed"]]
      BY <1>6 DEF MergeCustomers
    <3> QED
      BY <3>1, <3>2
  <2> QED
    BY <1>6, <2>1, ChangeType DEF MergeCustomers, TypeOK, evars
<1> QED
  BY <1>1, <1>2, <1>3, <1>4, <1>5, <1>6 DEF WorldStep

LEMMA NextEventType ==
    ASSUME TypeOK, NEW c \in Consumers, NextEvent(c)
    PROVE  consumer' \in [Consumers -> ConsumerState]
  BY DEF TypeOK, NextEvent, NotConsuming, ConsumerState

\* Steps of a consumer that only move it on.
LEMMA ConsumerOnlyType ==
    ASSUME TypeOK, consumer' \in [Consumers -> ConsumerState],
           UNCHANGED <<mvars, rule, consumed>>
    PROVE  TypeOK'
  BY DEF TypeOK, mvars, world, Messages, MessageRow, WorkerState

LEMMA ConsumerGoesOn ==
    ASSUME TypeOK, NEW c \in Consumers, consumer' = [consumer EXCEPT ![c].pc = "receipt"]
    PROVE  consumer' \in [Consumers -> ConsumerState]
<1>1. consumer \in [Consumers -> ConsumerState] /\ consumer[c] \in ConsumerState
  BY DEF TypeOK
<1>2. [consumer[c] EXCEPT !.pc = "receipt"] \in ConsumerState
  BY <1>1 DEF ConsumerState
<1>3. consumer' = [consumer EXCEPT ![c] = [consumer[c] EXCEPT !.pc = "receipt"]]
  OBVIOUS
<1> QED
  BY <1>1, <1>2, <1>3

LEMMA ConsumerType ==
    ASSUME TypeOK, EventOK, NEW c \in Consumers, ConsumerStep(c)
    PROVE  TypeOK'
<1>0. consumer[c] \in ConsumerState
  BY DEF TypeOK
<1>1. CASE SelectSourceEvents(c)
  <2>1. consumer' \in [Consumers -> ConsumerState]
    BY <1>1 DEF SelectSourceEvents, TypeOK, ConsumerState, NotConsuming
  <2> QED
    BY <1>1, <2>1, ConsumerOnlyType DEF SelectSourceEvents
<1>2. ASSUME NEW s \in Sources, ReadRules(c, s) PROVE TypeOK'
  <2>1. consumer' \in [Consumers -> ConsumerState]
    BY <1>2 DEF ReadRules, TypeOK, ConsumerState
  <2> QED
    BY <1>2, <2>1, ConsumerOnlyType DEF ReadRules
<1>3. ASSUME NEW m \in Messages, CreateMessageFromEvent(c, m) PROVE TypeOK'
  <2>1. consumer' \in [Consumers -> ConsumerState]
    BY <1>3, ConsumerGoesOn DEF CreateMessageFromEvent
  <2>2. consumer[c].at \in Sources /\ consumer[c].rule \in Nat
    BY <1>0, <1>3 DEF CreateMessageFromEvent, EventOK, ConsumerState
  <2>5. primary \in Contacts /\ TRUE \in BOOLEAN
    BY DEF TypeOK
  <2>3. Create(consumer[c].at, primary, m, TRUE, consumer[c].rule)
    BY <1>3 DEF CreateMessageFromEvent
  <2>4. msg' \in [Messages -> MessageRow] /\ born' \in [Messages -> Birth]
    BY <2>2, <2>3, <2>5, CreateType
  <2> QED
    BY <1>3, <2>1, <2>3, <2>4 DEF CreateMessageFromEvent, Create, TypeOK
<1>4. CASE NothingToCreate(c)
  <2>1. consumer' \in [Consumers -> ConsumerState]
    BY <1>4, ConsumerGoesOn DEF NothingToCreate
  <2> QED
    BY <1>4, <2>1, ConsumerOnlyType DEF NothingToCreate
<1>5. CASE RecordSourceConsumed(c)
  <2>1. consumer' \in [Consumers -> ConsumerState]
    BY <1>5, NextEventType DEF RecordSourceConsumed
  <2>2. consumer[c].at \in Sources
    BY <1>5 DEF RecordSourceConsumed, EventOK
  <2>3. consumed' \subseteq Sources
    BY <1>5, <2>2 DEF RecordSourceConsumed, TypeOK
  <2> QED
    BY <1>5, <2>1, <2>3 DEF RecordSourceConsumed, TypeOK, mvars, world
<1>6. CASE ConsumerFails(c)
  <2>1. consumer' \in [Consumers -> ConsumerState]
    <3>1. CASE consumer' = [consumer EXCEPT ![c] = NotConsuming]
      BY <3>1 DEF TypeOK, ConsumerState, NotConsuming
    <3>2. CASE NextEvent(c)
      BY <3>2, NextEventType
    <3> QED
      BY <1>6, <3>1, <3>2 DEF ConsumerFails
  <2>2. deaths' \in 0 .. MaxDeaths
    BY <1>6, LimitsAssumption DEF ConsumerFails, TypeOK
  <2> QED
    BY <1>6, <2>1, <2>2 DEF ConsumerFails, TypeOK, world
<1> QED
  BY <1>1, <1>2, <1>3, <1>4, <1>5, <1>6 DEF ConsumerStep

LEMMA RuleType ==
    ASSUME TypeOK, NEW b \in BOOLEAN, UpsertAutomationRule(b)
    PROVE  TypeOK'
<1>1. rule' \in [version : Nat, enabled : BOOLEAN]
  BY DEF UpsertAutomationRule, TypeOK
<1> QED
  BY <1>1, ChangeType DEF UpsertAutomationRule, TypeOK

LEMMA StutterType ==
    ASSUME TypeOK, UNCHANGED vars
    PROVE  TypeOK'
  BY DEF TypeOK, vars, mvars, evars, world, Messages, MessageRow, WorkerState, ConsumerState

LEMMA EventStep ==
    ASSUME TypeOK, EventOK, [Next]_vars
    PROVE  EventOK'
<1>1. ASSUME NEW c \in Consumers, ConsumerStep(c) PROVE EventOK'
  <2>1. ASSUME NextEvent(c) PROVE EventOK'
    BY <2>1 DEF NextEvent, EventOK, TypeOK, NotConsuming, ConsumerState
  <2>2. CASE SelectSourceEvents(c)
    BY <2>2 DEF SelectSourceEvents, EventOK, TypeOK, NotConsuming, ConsumerState
  <2>3. ASSUME NEW s \in Sources, ReadRules(c, s) PROVE EventOK'
    BY <2>3 DEF ReadRules, EventOK, TypeOK, ConsumerState
  <2>4. ASSUME NEW m \in Messages, CreateMessageFromEvent(c, m) PROVE EventOK'
    BY <2>4 DEF CreateMessageFromEvent, EventOK, TypeOK, ConsumerState
  <2>5. CASE NothingToCreate(c)
    BY <2>5 DEF NothingToCreate, EventOK, TypeOK, ConsumerState
  <2>6. CASE RecordSourceConsumed(c)
    BY <2>1, <2>6 DEF RecordSourceConsumed
  <2>7. CASE ConsumerFails(c)
    <3>1. CASE consumer' = [consumer EXCEPT ![c] = NotConsuming]
      BY <3>1 DEF EventOK, TypeOK, NotConsuming, ConsumerState
    <3> QED
      BY <2>1, <2>7, <3>1 DEF ConsumerFails
  <2> QED
    BY <1>1, <2>2, <2>3, <2>4, <2>5, <2>6, <2>7 DEF ConsumerStep
<1>2. CASE consumer' = consumer
  BY <1>2 DEF EventOK
<1> QED
  BY <1>1, <1>2 DEF Next, vars, evars, UpsertAutomationRule

LEMMA TypeStep ==
    ASSUME TypeOK, BusyOK, EventOK, [Next]_vars
    PROVE  TypeOK'
  BY WorkerType, MessageType, WorldType, ConsumerType, RuleType, StutterType DEF Next, MNext

(***************************************************************************)
(* Each step keeps the rest                                                *)
(***************************************************************************)
\* A step of worker w at row m: what has to be shown of it.
LEMMA WorkerFrame ==
    ASSUME TypeOK, Known, NEW w \in Workers, NEW m \in Messages,
           \A v \in Workers : v # w => worker'[v] = worker[v],
           \A k \in Messages : k # m => msg'[k] = msg[k] /\ accepted'[k] = accepted[k],
           RowOK(msg'[m], accepted'[m]),
           worker'[w].pc \in Busy =>
               worker'[w].at = m /\ KnowsRow(w, worker'[w].pc, msg'[m], accepted'[m]),
           worker'[w].pc \in Calling =>
               \A v \in Workers : worker[v].pc \in Calling /\ worker[v].at = m => v = w,
           \A v \in Workers : v # w /\ worker[v].pc \in Busy /\ worker[v].at = m =>
               KnowsRow(v, worker[v].pc, msg'[m], accepted'[m])
    PROVE  Known'
<1>1. RowsOK'
  BY DEF Known, RowsOK
<1>2. BusyOK'
  BY DEF Known, BusyOK
<1>3. WorkersOK'
  <2> SUFFICES ASSUME NEW v \in Workers, worker'[v].pc \in Busy
               PROVE  KnowsRow(v, worker'[v].pc, msg'[worker'[v].at], accepted'[worker'[v].at])
    BY DEF WorkersOK
  <2>1. CASE v = w
    BY <2>1
  <2>2. CASE v # w /\ worker[v].at = m
    BY <2>2
  <2>3. CASE v # w /\ worker[v].at # m
    <3>1. worker[v].at \in Messages /\ worker'[v] = worker[v]
      BY <2>3 DEF Known, BusyOK
    <3>2. msg'[worker[v].at] = msg[worker[v].at] /\ accepted'[worker[v].at] = accepted[worker[v].at]
      BY <2>3, <3>1
    <3> QED
      BY <3>1, <3>2 DEF Known, WorkersOK
  <2> QED
    BY <2>1, <2>2, <2>3
<1>4. Alone'
  <2> SUFFICES ASSUME NEW v \in Workers, NEW u \in Workers, u # v,
                      worker'[v].pc \in Calling, worker'[u].pc \in Calling,
                      worker'[v].at = worker'[u].at
               PROVE  FALSE
    BY DEF Alone
  <2>0. Calling \subseteq Busy
    BY DEF Calling, Busy
  <2>1. CASE v # w /\ u # w
    BY <2>1 DEF Known, Alone
  <2>2. CASE v = w
    BY <2>0, <2>2
  <2>3. CASE u = w
    BY <2>0, <2>3
  <2> QED
    BY <2>1, <2>2, <2>3
<1> QED
  BY <1>1, <1>2, <1>3, <1>4 DEF Known

\* A step that changes no worker.
LEMMA RowFrame ==
    ASSUME TypeOK, Known, NEW m \in Messages,
           worker' = worker, accepted' = accepted,
           \A k \in Messages : k # m => msg'[k] = msg[k],
           RowOK(msg'[m], accepted[m]),
           \A v \in Workers : worker[v].pc \in Busy /\ worker[v].at = m =>
               KnowsRow(v, worker[v].pc, msg'[m], accepted[m])
    PROVE  Known'
<1>1. RowsOK' /\ BusyOK' /\ Alone'
  BY DEF Known, RowsOK, BusyOK, Alone
<1>2. WorkersOK'
  <2> SUFFICES ASSUME NEW v \in Workers, worker[v].pc \in Busy
               PROVE  KnowsRow(v, worker[v].pc, msg'[worker[v].at], accepted[worker[v].at])
    BY DEF WorkersOK
  <2>1. worker[v].at \in Messages
    BY DEF Known, BusyOK
  <2> QED
    BY <2>1 DEF Known, WorkersOK
<1> QED
  BY <1>1, <1>2 DEF Known

\* A step that changes no row and does not bring a worker to the provider.
LEMMA IdleFrame ==
    ASSUME TypeOK, Known, NEW w \in Workers,
           msg' = msg, accepted' = accepted,
           \A v \in Workers : v # w => worker'[v] = worker[v],
           worker'[w].pc \in Busy => worker'[w].pc = "claim" /\ worker'[w].at \in Messages
    PROVE  Known'
<1>1. RowsOK' /\ BusyOK' /\ Alone'
  BY DEF Known, RowsOK, BusyOK, Alone, Busy, Calling
<1>2. WorkersOK'
  BY DEF Known, WorkersOK, KnowsRow, Busy, Calling
<1> QED
  BY <1>1, <1>2 DEF Known

LEMMA SameFrame ==
    ASSUME Known, UNCHANGED <<msg, worker, accepted>>
    PROVE  Known'
  BY DEF Known, RowsOK, BusyOK, WorkersOK, Alone

LEMMA RowFacts ==
    ASSUME TypeOK, Known, NEW w \in Workers, worker[w].pc \in Busy
    PROVE  /\ worker[w].at \in Messages
           /\ Row(w) \in MessageRow
           /\ Row(w) = msg[worker[w].at]
           /\ RowOK(Row(w), accepted[worker[w].at])
           /\ KnowsRow(w, worker[w].pc, Row(w), accepted[worker[w].at])
           /\ w # NoWorker
  BY RowType, NothingAssumption DEF Known, RowsOK, WorkersOK

\* What the others know of the row of m, and that one of them at the provider
\* is the only one.
LEMMA OtherFacts ==
    ASSUME TypeOK, Known, NEW m \in Messages, NEW v \in Workers,
           worker[v].pc \in Busy, worker[v].at = m
    PROVE  KnowsRow(v, worker[v].pc, msg[m], accepted[m]) /\ v # NoWorker
  BY NothingAssumption DEF Known, WorkersOK

LEMMA SelectKnown ==
    ASSUME TypeOK, Known, NEW w \in Workers, SelectMessages(w)
    PROVE  Known'
<1>1. worker'[w].pc = "item" /\ \A v \in Workers : v # w => worker'[v] = worker[v]
  BY DEF SelectMessages, TypeOK
<1>2. msg' = msg /\ accepted' = accepted
  BY DEF SelectMessages
<1>3. worker'[w].pc \notin Busy
  BY <1>1 DEF Busy
<1> QED
  BY <1>1, <1>2, <1>3, IdleFrame

LEMMA TakeKnown ==
    ASSUME TypeOK, Known, NEW w \in Workers, NEW m \in Messages, TakeMessage(w, m)
    PROVE  Known'
<1>1. /\ \A v \in Workers : v # w => worker'[v] = worker[v]
      /\ worker'[w].pc \in Busy => worker'[w].pc = "claim" /\ worker'[w].at \in Messages
  <2> DEFINE to == IF Dispatchable(m)
                   THEN [pc |-> "claim", todo |-> worker[w].todo \ {m}, at |-> m]
                   ELSE [pc |-> IF worker[w].todo \ {m} = {} THEN "idle" ELSE "item",
                         todo |-> worker[w].todo \ {m}, at |-> 0]
  <2>1. worker' = [worker EXCEPT ![w] = to]
    BY DEF TakeMessage
  <2>2. to.pc \in Busy => to.pc = "claim" /\ to.at = m
    <3>1. CASE Dispatchable(m)
      BY <3>1
    <3>2. CASE ~Dispatchable(m)
      BY <3>2 DEF Busy
    <3> QED
      BY <3>1, <3>2
  <2> HIDE DEF to
  <2> QED
    BY <2>1, <2>2 DEF TypeOK
<1>2. msg' = msg /\ accepted' = accepted
  BY DEF TakeMessage
<1> QED
  BY <1>1, <1>2, IdleFrame

LEMMA ClaimKnown ==
    ASSUME TypeOK, Known, NEW w \in Workers, ClaimDispatch(w)
    PROVE  Known'
<1> DEFINE m == worker[w].at
           row == [Row(w) EXCEPT !.st = "queued", !.lease = w, !.live = TRUE]
<1>1. /\ m \in Messages /\ Row(w) \in MessageRow /\ RowOK(Row(w), accepted[m])
      /\ Row(w) = msg[m] /\ w # NoWorker
  BY RowFacts DEF ClaimDispatch, At, Busy
<1>2. /\ worker'[w].pc = "prepare" /\ worker'[w].at = m
      /\ \A v \in Workers : v # w => worker'[v] = worker[v]
  BY GotoType DEF ClaimDispatch
<1>3. row \in MessageRow
  BY <1>1, PrepareRow
<1>4. msg'[m] = row /\ \A k \in Messages : k # m => msg'[k] = msg[k]
  BY <1>1, <1>3, SaveType DEF ClaimDispatch
<1>5. accepted' = accepted
  BY DEF ClaimDispatch
<1>6. /\ row.st = "queued" /\ row.at = "requested" /\ row.lease = w
      /\ row.ext = Row(w).ext /\ row.source = Row(w).source
  BY <1>1 DEF ClaimDispatch, Claimable, MessageRow
<1>7. accepted[m] = 0 /\ ~Row(w).ext /\ Row(w).source \in Sources
  BY <1>1 DEF RowOK, ClaimDispatch, Claimable, MessageRow
<1>8. RowOK(row, accepted[m])
  BY <1>6, <1>7, <1>1, <1>3 DEF RowOK, AttemptOf
<1>9. KnowsRow(w, "prepare", row, accepted[m])
  BY <1>6, <1>7 DEF KnowsRow, Calling
<1>10. ASSUME NEW v \in Workers, v # w, worker[v].pc \in Busy, worker[v].at = m
       PROVE  KnowsRow(v, worker[v].pc, row, accepted[m])
  <2>1. KnowsRow(v, worker[v].pc, Row(w), accepted[m])
    BY <1>1, <1>10, OtherFacts
  <2>2. worker[v].pc \notin Calling
    BY <2>1 DEF KnowsRow, ClaimDispatch, Claimable
  <2> QED
    BY <1>6, <1>10, <2>2 DEF KnowsRow, Calling
<1> HIDE DEF m, row
<1> QED
  BY <1>1, <1>2, <1>4, <1>5, <1>8, <1>9, <1>10, WorkerFrame DEF Calling, Busy

\* A row that ends, by the worker that holds it or by one that finds its sender
\* lost: nobody at the provider but, perhaps, a worker whose lease is over.
LEMMA SettleKnown ==
    ASSUME TypeOK, Known, NEW w \in Workers, worker[w].pc \in Busy,
           NEW row \in MessageRow, Save(worker[w].at, row), Proceed(w), accepted' = accepted,
           row.lease = NoWorker, RowOK(row, accepted[worker[w].at]),
           \A v \in Workers :
               v # w /\ worker[v].pc \in Calling /\ worker[v].at = worker[w].at =>
                   row.st = "uncertain"
    PROVE  Known'
<1> DEFINE m == worker[w].at
<1>1. m \in Messages
  BY RowFacts
<1>2. /\ worker'[w].pc \in {"idle", "item"}
      /\ \A v \in Workers : v # w => worker'[v] = worker[v]
  BY ProceedType
<1>3. msg'[m] = row /\ \A k \in Messages : k # m => msg'[k] = msg[k]
  BY <1>1, SaveType
<1>4. ASSUME NEW v \in Workers, v # w, worker[v].pc \in Busy, worker[v].at = m
      PROVE  KnowsRow(v, worker[v].pc, row, accepted[m])
  BY <1>1, <1>4, OtherFacts DEF KnowsRow, Calling
<1> HIDE DEF m
<1>5. worker'[w].pc \notin Busy /\ worker'[w].pc \notin Calling
  BY <1>2 DEF Busy, Calling
<1>6. RowOK(msg'[m], accepted'[m])
  BY <1>3 DEF m
<1> QED
  BY <1>1, <1>2, <1>3, <1>4, <1>5, <1>6, WorkerFrame

\* The holder of a row being sent is the only one at the provider with it.
LEMMA HolderAlone ==
    ASSUME TypeOK, Known, NEW w \in Workers, worker[w].pc \in Busy, Holds(w),
           NEW v \in Workers, v # w, worker[v].pc \in Calling, worker[v].at = worker[w].at
    PROVE  FALSE
<1>1. worker[v].pc \in Busy
  BY DEF Calling, Busy
<1>2. /\ worker[w].at \in Messages /\ Row(w) = msg[worker[w].at] /\ w # NoWorker
      /\ RowOK(Row(w), accepted[worker[w].at])
  BY RowFacts
<1>3. KnowsRow(v, worker[v].pc, Row(w), accepted[worker[w].at])
  BY <1>1, <1>2, OtherFacts
<1> QED
  BY <1>2, <1>3 DEF KnowsRow, RowOK, Holds

LEMMA LostKnown ==
    ASSUME TypeOK, Known, NEW w \in Workers, ClaimLostSender(w)
    PROVE  Known'
<1> DEFINE row == Settled(Row(w), "uncertain", "uncertain")
<1>1. /\ worker[w].pc \in Busy /\ Row(w) \in MessageRow
      /\ RowOK(Row(w), accepted[worker[w].at])
  BY RowFacts DEF ClaimLostSender, At, Busy
<1>2. /\ row \in MessageRow /\ row.st = "uncertain" /\ row.at = "uncertain"
      /\ row.lease = NoWorker /\ row.ext = Row(w).ext /\ row.source = Row(w).source
  BY <1>1, SettledType, Statuses
<1>3. Row(w).st = "sending"
  BY <1>1 DEF ClaimLostSender, SenderLost, RowOK, AttemptOf, MessageRow, MessageStatus
<1>4. RowOK(row, accepted[worker[w].at])
  BY <1>1, <1>2, <1>3 DEF RowOK, AttemptOf
<1> HIDE DEF row
<1> QED
  BY <1>1, <1>2, <1>4, SettleKnown DEF ClaimLostSender, row

LEMMA RefusedKnown ==
    ASSUME TypeOK, Known, NEW w \in Workers, ClaimRefused(w) \/ PrepareFails(w)
    PROVE  Known'
<1>1. Proceed(w) /\ UNCHANGED <<msg, accepted>>
  BY DEF ClaimRefused, PrepareFails
<1>2. /\ worker'[w].pc \in {"idle", "item"}
      /\ \A v \in Workers : v # w => worker'[v] = worker[v]
  BY <1>1, ProceedType
<1>3. worker'[w].pc \notin Busy
  BY <1>2 DEF Busy
<1> QED
  BY <1>1, <1>2, <1>3, IdleFrame

LEMMA PrepareKnown ==
    ASSUME TypeOK, Known, NEW w \in Workers, PrepareSendRequest(w)
    PROVE  Known'
<1> DEFINE m == worker[w].at
           row == [Row(w) EXCEPT !.st = "sending", !.at = "sending", !.sendingRow = TRUE]
<1>1. /\ m \in Messages /\ Row(w) \in MessageRow /\ RowOK(Row(w), accepted[m])
      /\ Row(w) = msg[m] /\ w # NoWorker /\ worker[w].pc \in Busy
  BY RowFacts DEF PrepareSendRequest, At, Busy
<1>2. /\ worker'[w].pc = "call" /\ worker'[w].at = m
      /\ \A v \in Workers : v # w => worker'[v] = worker[v]
  BY GotoType DEF PrepareSendRequest
<1>3. row \in MessageRow
  BY <1>1, PrepareRow
<1>4. msg'[m] = row /\ \A k \in Messages : k # m => msg'[k] = msg[k]
  BY <1>1, <1>3, SaveType DEF PrepareSendRequest
<1>5. accepted' = accepted /\ Holds(w)
  BY DEF PrepareSendRequest, ReadyToSend
<1>6. /\ row.st = "sending" /\ row.at = "sending" /\ row.lease = w
      /\ row.ext = Row(w).ext /\ row.source = Row(w).source
  BY <1>1, <1>5 DEF Holds, MessageRow
<1>7. accepted[m] = 0 /\ ~Row(w).ext /\ Row(w).source \in Sources
  BY <1>1 DEF RowOK, PrepareSendRequest, ReadyToSend, MessageRow
<1>8. RowOK(row, accepted[m])
  BY <1>1, <1>3, <1>6, <1>7 DEF RowOK, AttemptOf
<1>9. KnowsRow(w, "call", row, accepted[m])
  BY <1>6, <1>7 DEF KnowsRow, Calling
<1>10. ASSUME NEW v \in Workers, v # w, worker[v].pc \in Calling, worker[v].at = m PROVE FALSE
  BY <1>1, <1>5, <1>10, HolderAlone
<1>11. ASSUME NEW v \in Workers, v # w, worker[v].pc \in Busy, worker[v].at = m
       PROVE  KnowsRow(v, worker[v].pc, row, accepted[m])
  BY <1>6, <1>10, <1>11 DEF KnowsRow, Calling
<1> HIDE DEF m, row
<1> QED
  BY <1>1, <1>2, <1>4, <1>5, <1>8, <1>9, <1>10, <1>11, WorkerFrame

LEMMA FailKnown ==
    ASSUME TypeOK, Known, NEW w \in Workers, PrepareRefused(w)
    PROVE  Known'
<1>1. /\ worker[w].at \in Messages /\ worker[w].pc \in Busy /\ worker[w].pc = "prepare"
      /\ RowOK(Row(w), accepted[worker[w].at])
      /\ KnowsRow(w, worker[w].pc, Row(w), accepted[worker[w].at])
      /\ Row(w) = msg[worker[w].at]
  BY RowFacts DEF PrepareRefused, At, Busy
<1>2. /\ worker'[w].pc = "fail" /\ worker'[w].at = worker[w].at
      /\ \A v \in Workers : v # w => worker'[v] = worker[v]
  BY GotoType DEF PrepareRefused
<1>3. msg' = msg /\ accepted' = accepted
  BY DEF PrepareRefused
<1>4. KnowsRow(w, "fail", Row(w), accepted[worker[w].at])
  BY <1>1 DEF KnowsRow, Calling
<1> DEFINE m == worker[w].at
<1>5. \A v \in Workers : v # w /\ worker[v].pc \in Busy /\ worker[v].at = m =>
         KnowsRow(v, worker[v].pc, msg[m], accepted[m])
  BY <1>1, OtherFacts
<1>6. worker'[w].pc \notin Calling
  BY <1>2 DEF Calling
<1> HIDE DEF m
<1>7. m \in Messages /\ worker'[w].at = m /\ Row(w) = msg[m] /\ RowOK(msg[m], accepted[m])
      /\ KnowsRow(w, "fail", msg[m], accepted[m])
  BY <1>1, <1>2, <1>4 DEF m
<1> QED
  BY <1>2, <1>3, <1>5, <1>6, <1>7, WorkerFrame

LEMMA SendKnown ==
    ASSUME TypeOK, Known, NEW w \in Workers, NEW answer \in Answers, SendText(w, answer)
    PROVE  Known'
<1> DEFINE m == worker[w].at
           pc == AfterAnswer(answer)
<1>1. /\ m \in Messages /\ worker[w].pc \in Busy /\ worker[w].pc = "call"
      /\ RowOK(Row(w), accepted[m])
      /\ KnowsRow(w, "call", Row(w), accepted[m])
      /\ Row(w) = msg[m] /\ Row(w) \in MessageRow
  BY RowFacts DEF SendText, At, Busy
<1>2. /\ worker'[w].pc = pc /\ worker'[w].at = m
      /\ \A v \in Workers : v # w => worker'[v] = worker[v]
  BY GotoType, AnswerGoesOn DEF SendText
<1>3. msg' = msg
  BY DEF SendText
<1>4. accepted[m] = 0 /\ Row(w).st \in {"sending", "uncertain"}
      /\ (Row(w).st = "sending" => Row(w).lease = w)
  BY <1>1 DEF KnowsRow, Calling
<1>5. /\ accepted'[m] = IF Taken(answer) THEN 1 ELSE 0
      /\ \A k \in Messages : k # m => accepted'[k] = accepted[k]
  BY <1>1, <1>4 DEF SendText, TypeOK
<1>6. RowOK(msg[m], accepted'[m])
  BY <1>1, <1>4, <1>5 DEF RowOK
<1>7. KnowsRow(w, pc, msg[m], accepted'[m])
  <2>1. pc \in {"release", "fail"} => accepted'[m] = 0
    BY <1>5 DEF AfterAnswer, Taken
  <2>2. pc = "accept" => accepted'[m] = 1
    BY <1>5 DEF AfterAnswer, Taken
  <2>3. pc \in {"accept", "unsure", "fail", "release"}
    BY AnswerGoesOn
  <2> HIDE DEF pc
  <2> QED
    BY <1>1, <1>4, <2>1, <2>2, <2>3 DEF KnowsRow, Calling
<1>8. ASSUME NEW v \in Workers, worker[v].pc \in Calling, worker[v].at = m PROVE v = w
  BY <1>1, <1>8 DEF Known, Alone, Calling
<1>9. ASSUME NEW v \in Workers, v # w, worker[v].pc \in Busy, worker[v].at = m
      PROVE  KnowsRow(v, worker[v].pc, msg[m], accepted'[m])
  <2>1. KnowsRow(v, worker[v].pc, msg[m], accepted[m]) /\ v # NoWorker
    BY <1>1, <1>9, OtherFacts
  <2>2. worker[v].pc \notin Calling
    BY <1>8, <1>9
  <2>3. msg[m].lease # v
    BY <1>1, <1>4, <1>9, <2>1 DEF RowOK
  <2> QED
    BY <2>2, <2>3 DEF KnowsRow, Calling
<1> HIDE DEF m, pc
<1> QED
  BY <1>1, <1>2, <1>3, <1>5, <1>6, <1>7, <1>8, <1>9, WorkerFrame

\* A step that leaves the rows alone and is over with the message.
LEMMA OverKnown ==
    ASSUME TypeOK, Known, NEW w \in Workers, Proceed(w), msg' = msg, accepted' = accepted
    PROVE  Known'
<1>1. /\ worker'[w].pc \in {"idle", "item"}
      /\ \A v \in Workers : v # w => worker'[v] = worker[v]
  BY ProceedType
<1>2. worker'[w].pc \notin Busy
  BY <1>1 DEF Busy
<1> QED
  BY <1>1, <1>2, IdleFrame

LEMMA AcceptKnown ==
    ASSUME TypeOK, Known, NEW w \in Workers, ApplyProviderAcceptance(w)
    PROVE  Known'
<1> DEFINE m == worker[w].at
           row == [Settled(Row(w), "sent", "accepted") EXCEPT !.ext = TRUE]
<1>1. /\ m \in Messages /\ worker[w].pc \in Busy /\ worker[w].pc = "accept"
      /\ RowOK(Row(w), accepted[m]) /\ KnowsRow(w, "accept", Row(w), accepted[m])
      /\ Row(w) = msg[m] /\ Row(w) \in MessageRow
  BY RowFacts DEF ApplyProviderAcceptance, At, Busy
<1>2. accepted[m] = 1 /\ Row(w).st \in {"sending", "uncertain"}
  BY <1>1 DEF KnowsRow, Calling
<1>3. accepted' = accepted
  BY DEF ApplyProviderAcceptance
<1>4. CASE Holds(w) /\ Row(w).st = "sending"
  <2>1. Save(m, row) /\ Proceed(w)
    BY <1>4 DEF ApplyProviderAcceptance
  <2>2. row \in MessageRow
    BY <1>1, PrepareRow
  <2>3. /\ row.st = "sent" /\ row.at = "accepted" /\ row.lease = NoWorker
        /\ row.source = Row(w).source
    BY <1>1 DEF Settled, MessageRow
  <2>4. RowOK(row, accepted[m])
    BY <1>1, <1>2, <2>3 DEF RowOK, AttemptOf
  <2>5. ASSUME NEW v \in Workers, v # w, worker[v].pc \in Calling, worker[v].at = m PROVE FALSE
    BY <1>1, <1>4, <2>5, HolderAlone
  <2> HIDE DEF row
  <2> QED
    BY <1>1, <1>3, <2>1, <2>2, <2>3, <2>4, <2>5, SettleKnown
<1>5. CASE ~(Holds(w) /\ Row(w).st = "sending")
  <2>1. Goto(w, "unsure") /\ msg' = msg
    BY <1>5 DEF ApplyProviderAcceptance
  <2>2. /\ worker'[w].pc = "unsure" /\ worker'[w].at = m
        /\ \A v \in Workers : v # w => worker'[v] = worker[v]
    BY <2>1, GotoType
  <2>3. KnowsRow(w, "unsure", msg[m], accepted[m])
    BY <1>1 DEF KnowsRow, Calling
  <2>4. \A v \in Workers : v # w /\ worker[v].pc \in Busy /\ worker[v].at = m =>
           KnowsRow(v, worker[v].pc, msg[m], accepted[m])
    BY <1>1, OtherFacts
  <2>5. ASSUME NEW v \in Workers, worker[v].pc \in Calling, worker[v].at = m PROVE v = w
    BY <1>1, <2>5 DEF Known, Alone, Calling
  <2> HIDE DEF m
  <2> QED
    BY <1>1, <1>3, <2>1, <2>2, <2>3, <2>4, <2>5, WorkerFrame
<1> QED
  BY <1>4, <1>5

LEMMA UncertainKnown ==
    ASSUME TypeOK, Known, NEW w \in Workers, MarkUncertain(w)
    PROVE  Known'
<1> DEFINE m == worker[w].at
           row == Settled(Row(w), "uncertain", "uncertain")
<1>1. /\ m \in Messages /\ worker[w].pc \in Busy /\ worker[w].pc = "unsure"
      /\ RowOK(Row(w), accepted[m]) /\ KnowsRow(w, "unsure", Row(w), accepted[m])
      /\ Row(w) \in MessageRow
  BY RowFacts DEF MarkUncertain, At, Busy
<1>2. accepted' = accepted /\ Proceed(w)
  BY DEF MarkUncertain
<1>3. CASE Holds(w)
  <2>1. Save(m, row)
    BY <1>3 DEF MarkUncertain, UncertainOutcome
  <2>2. /\ row \in MessageRow /\ row.st = "uncertain" /\ row.at = "uncertain"
        /\ row.lease = NoWorker /\ row.ext = Row(w).ext /\ row.source = Row(w).source
    BY <1>1, SettledType, Statuses
  <2>3. Row(w).st \in {"sending", "uncertain"}
    BY <1>1 DEF KnowsRow, Calling
  <2>4. RowOK(row, accepted[m])
    BY <1>1, <2>2, <2>3 DEF RowOK, AttemptOf
  <2> HIDE DEF row
  <2> QED
    BY <1>1, <1>2, <2>1, <2>2, <2>4, SettleKnown
<1>4. CASE ~Holds(w)
  <2>1. msg' = msg
    BY <1>4 DEF MarkUncertain
  <2> QED
    BY <1>2, <2>1, OverKnown
<1> QED
  BY <1>3, <1>4

LEMMA FailedKnown ==
    ASSUME TypeOK, Known, NEW w \in Workers, MarkFailed(w)
    PROVE  Known'
<1> DEFINE m == worker[w].at
           row == Settled(Row(w), "failed", "failed")
<1>1. /\ m \in Messages /\ worker[w].pc \in Busy /\ worker[w].pc = "fail" /\ w # NoWorker
      /\ RowOK(Row(w), accepted[m]) /\ KnowsRow(w, "fail", Row(w), accepted[m])
      /\ Row(w) \in MessageRow
  BY RowFacts DEF MarkFailed, At, Busy
<1>2. accepted' = accepted /\ Proceed(w)
  BY DEF MarkFailed
<1>3. CASE Holds(w)
  <2>1. Save(m, row)
    BY <1>3 DEF MarkFailed
  <2>2. /\ row \in MessageRow /\ row.st = "failed" /\ row.at = "failed"
        /\ row.lease = NoWorker /\ row.ext = Row(w).ext /\ row.source = Row(w).source
    BY <1>1, SettledType, Statuses
  <2>3. accepted[m] = 0 /\ Row(w).st \in {"queued", "sending"} /\ Row(w).lease = w
    BY <1>1, <1>3 DEF KnowsRow, RowOK, Holds
  <2>4. RowOK(row, accepted[m])
    BY <1>1, <2>2, <2>3 DEF RowOK, AttemptOf
  <2>5. ASSUME NEW v \in Workers, v # w, worker[v].pc \in Calling, worker[v].at = m PROVE FALSE
    BY <1>1, <1>3, <2>5, HolderAlone
  <2> HIDE DEF row
  <2> QED
    BY <1>1, <1>2, <2>1, <2>2, <2>4, <2>5, SettleKnown
<1>4. CASE ~Holds(w)
  <2>1. msg' = msg
    BY <1>4 DEF MarkFailed
  <2> QED
    BY <1>2, <2>1, OverKnown
<1> QED
  BY <1>3, <1>4

LEMMA ReleaseKnown ==
    ASSUME TypeOK, Known, NEW w \in Workers, ReleaseDispatch(w)
    PROVE  Known'
<1> DEFINE m == worker[w].at
           row == [Settled(Row(w), "pending", "requested") EXCEPT !.waits = TRUE]
<1>1. /\ m \in Messages /\ worker[w].pc \in Busy /\ worker[w].pc = "release"
      /\ RowOK(Row(w), accepted[m]) /\ KnowsRow(w, "release", Row(w), accepted[m])
      /\ Row(w) \in MessageRow
  BY RowFacts DEF ReleaseDispatch, At, Busy
<1>2. accepted' = accepted /\ Proceed(w)
  BY DEF ReleaseDispatch
<1>3. CASE Holds(w)
  <2>1. Save(m, row)
    BY <1>3 DEF ReleaseDispatch
  <2>2. row \in MessageRow
    BY <1>1, PrepareRow
  <2>3. /\ row.st = "pending" /\ row.at = "requested"
        /\ row.lease = NoWorker /\ row.ext = Row(w).ext /\ row.source = Row(w).source
    BY <1>1 DEF Settled, MessageRow
  <2>4. accepted[m] = 0 /\ Row(w).st \in {"sending", "uncertain"}
    BY <1>1 DEF KnowsRow, Calling
  <2>5. RowOK(row, accepted[m])
    BY <1>1, <2>3, <2>4 DEF RowOK, AttemptOf
  <2>6. ASSUME NEW v \in Workers, v # w, worker[v].pc \in Calling, worker[v].at = m PROVE FALSE
    BY <1>1, <1>3, <2>6, HolderAlone
  <2> HIDE DEF row
  <2> QED
    BY <1>1, <1>2, <2>1, <2>2, <2>3, <2>5, <2>6, SettleKnown
<1>4. CASE ~Holds(w)
  <2>1. msg' = msg
    BY <1>4 DEF ReleaseDispatch
  <2> QED
    BY <1>2, <2>1, OverKnown
<1> QED
  BY <1>3, <1>4

LEMMA DiesKnown ==
    ASSUME TypeOK, Known, NEW w \in Workers, WorkerDies(w)
    PROVE  Known'
<1>1. worker'[w].pc = "idle" /\ \A v \in Workers : v # w => worker'[v] = worker[v]
  BY DEF WorkerDies, Idle, TypeOK
<1>2. msg' = msg /\ accepted' = accepted
  BY DEF WorkerDies
<1>3. worker'[w].pc \notin Busy
  BY <1>1 DEF Busy
<1> QED
  BY <1>1, <1>2, <1>3, IdleFrame

LEMMA WorkerKnown ==
    ASSUME TypeOK, Known, NEW w \in Workers, WorkerStep(w)
    PROVE  Known'
  BY SelectKnown, TakeKnown, ClaimKnown, LostKnown, RefusedKnown, PrepareKnown, FailKnown,
     SendKnown, AcceptKnown, UncertainKnown, FailedKnown, ReleaseKnown, DiesKnown
  DEF WorkerStep

\* A row written by nobody at it: the workers' knowledge survives when the row
\* keeps its status and lease, or had none of them at the provider.
LEMMA WrittenKnown ==
    ASSUME TypeOK, Known, NEW m \in Messages, NEW row \in MessageRow, Save(m, row),
           worker' = worker, accepted' = accepted,
           RowOK(row, accepted[m]),
           \/ row.st = msg[m].st /\ row.lease = msg[m].lease
           \/ msg[m].st \notin {"sending", "uncertain"} /\ row.lease = NoWorker
    PROVE  Known'
<1>1. msg'[m] = row /\ \A k \in Messages : k # m => msg'[k] = msg[k]
  BY SaveType
<1>2. ASSUME NEW v \in Workers, worker[v].pc \in Busy, worker[v].at = m
      PROVE  KnowsRow(v, worker[v].pc, row, accepted[m])
  BY <1>2, OtherFacts DEF KnowsRow, Calling
<1> QED
  BY <1>1, <1>2, RowFrame

LEMMA CreatedKnown ==
    ASSUME TypeOK, Known, NEW m \in Messages, NextMessage(m),
           NEW s \in Sources, NEW c \in Contacts, NEW auto \in BOOLEAN, NEW r \in Nat,
           Save(m, Created(s, c, auto, r)),
           worker' = worker, accepted' = accepted
    PROVE  Known'
<1> DEFINE row == Created(s, c, auto, r)
<1>1. /\ row \in MessageRow /\ row.st = "pending" /\ row.at = "requested"
      /\ row.lease = NoWorker /\ ~row.ext /\ row.source = s
  BY CreatedType
<1>2. msg[m].st = "none" /\ accepted[m] = 0
  BY DEF NextMessage, Known, RowsOK, RowOK
<1>3. RowOK(row, accepted[m])
  BY <1>1, <1>2 DEF RowOK, AttemptOf
<1>4. Save(m, row)
  OBVIOUS
<1> HIDE DEF row
<1> QED
  BY <1>1, <1>2, <1>3, <1>4, WrittenKnown

LEMMA MessageKnown ==
    ASSUME TypeOK, Known, NEW m \in Messages, MessageStep(m)
    PROVE  Known'
<1>1. msg[m] \in MessageRow /\ RowOK(msg[m], accepted[m])
  BY DEF TypeOK, Known, RowsOK
<1>2. ASSUME NEW s \in Sources, NEW c \in Contacts, CreateMessageFromCommand(s, c, m) PROVE Known'
  BY <1>2, CreatedKnown DEF CreateMessageFromCommand, Create
<1>3. CASE LeaseExpires(m)
  <2> DEFINE row == [msg[m] EXCEPT !.live = FALSE]
  <2>1. row \in MessageRow
    BY <1>1, MessageRowType
  <2>2. /\ row.st = msg[m].st /\ row.lease = msg[m].lease /\ row.at = msg[m].at
        /\ row.ext = msg[m].ext /\ row.auto = msg[m].auto /\ row.source = msg[m].source
    BY <1>1 DEF MessageRow
  <2>3. RowOK(row, accepted[m])
    BY <1>1, <2>2 DEF RowOK
  <2>4. Save(m, row) /\ worker' = worker /\ accepted' = accepted
    BY <1>3 DEF LeaseExpires
  <2> HIDE DEF row
  <2> QED
    BY <2>1, <2>2, <2>3, <2>4, WrittenKnown
<1>4. CASE BackoffElapses(m)
  <2> DEFINE row == [msg[m] EXCEPT !.waits = FALSE]
  <2>1. row \in MessageRow
    BY <1>1, MessageRowType
  <2>2. /\ row.st = msg[m].st /\ row.lease = msg[m].lease /\ row.at = msg[m].at
        /\ row.ext = msg[m].ext /\ row.auto = msg[m].auto /\ row.source = msg[m].source
    BY <1>1 DEF MessageRow
  <2>3. RowOK(row, accepted[m])
    BY <1>1, <2>2 DEF RowOK
  <2>4. Save(m, row) /\ worker' = worker /\ accepted' = accepted
    BY <1>4 DEF BackoffElapses
  <2> HIDE DEF row
  <2> QED
    BY <2>1, <2>2, <2>3, <2>4, WrittenKnown
<1>5. CASE CancelMessage(m)
  <2> DEFINE row == Settled(msg[m], "cancelled", "cancelled")
  <2>0. "cancelled" \in MessageStatus /\ "cancelled" \in AttemptStatus
    BY Statuses
  <2>1. /\ row \in MessageRow /\ row.st = "cancelled" /\ row.at = "cancelled"
        /\ row.lease = NoWorker /\ row.ext = msg[m].ext /\ row.source = msg[m].source
    BY <1>1, <2>0, SettledType
  <2>2. msg[m].st \in {"pending", "queued"}
    BY <1>5 DEF CancelMessage, Cancellable
  <2>3. msg[m].at = "requested" /\ accepted[m] = 0 /\ ~msg[m].ext
    BY <1>1, <2>2 DEF RowOK, AttemptOf, MessageRow
  <2>4. RowOK(row, accepted[m])
    BY <1>1, <2>1, <2>2, <2>3 DEF RowOK, AttemptOf
  <2>5. Save(m, row) /\ worker' = worker /\ accepted' = accepted
    BY <1>5, <2>3 DEF CancelMessage
  <2> HIDE DEF row
  <2> QED
    BY <2>1, <2>2, <2>4, <2>5, WrittenKnown
<1>6. ASSUME NEW target \in Evidence, NEW id \in RequestIds,
             ApplyDeliveryEvidence(m, target, id)
      PROVE  Known'
  <2> DEFINE row == WithEvidence(msg[m], target)
  <2>1. row \in MessageRow
    BY <1>1, MessageRowType
  <2>2. msg[m].st \in Evidence /\ accepted[m] = 1 /\ msg[m].ext
    BY <1>1, <1>6 DEF RowOK, ApplyDeliveryEvidence, Evidence
  <2>3. msg[m].lease = NoWorker
    BY <1>1, <2>2 DEF RowOK, Evidence
  <2>4. /\ row.st \in Evidence /\ row.at = AttemptOf(row.st) /\ row.lease = NoWorker
        /\ row.ext /\ row.source = msg[m].source
    <3>1. CASE msg[m].st \in Terminal \cup {target}
      BY <1>1, <2>2, <2>3, <3>1 DEF WithEvidence, RowOK
    <3>2. CASE msg[m].st \notin Terminal \cup {target}
      <4>1. row = [msg[m] EXCEPT !.st = target, !.at = AttemptFor(target)]
        BY <3>2 DEF WithEvidence
      <4>2. AttemptFor(target) = AttemptOf(target)
        BY DEF AttemptFor, AttemptOf, Evidence
      <4> HIDE DEF row
      <4> QED
        BY <1>1, <2>2, <2>3, <4>1, <4>2 DEF MessageRow
    <3> QED
      BY <3>1, <3>2
  <2>5. RowOK(row, accepted[m])
    BY <1>1, <2>2, <2>4 DEF RowOK, Evidence
  <2>6. Save(m, row) /\ worker' = worker /\ accepted' = accepted
    BY <1>6 DEF ApplyDeliveryEvidence
  <2> HIDE DEF row
  <2> QED
    BY <2>1, <2>2, <2>4, <2>5, <2>6, WrittenKnown DEF Evidence
<1> QED
  BY <1>2, <1>3, <1>4, <1>5, <1>6 DEF MessageStep

LEMMA ConsumerKnown ==
    ASSUME TypeOK, EventOK, Known, NEW c \in Consumers, ConsumerStep(c)
    PROVE  Known'
<1>1. ASSUME NEW m \in Messages, CreateMessageFromEvent(c, m) PROVE Known'
  <2>1. consumer[c].at \in Sources /\ consumer[c].rule \in Nat /\ primary \in Contacts
    BY <1>1 DEF CreateMessageFromEvent, EventOK, TypeOK, ConsumerState
  <2> QED
    BY <1>1, <2>1, CreatedKnown DEF CreateMessageFromEvent, Create
<1>2. CASE SelectSourceEvents(c) \/ (\E s \in Sources : ReadRules(c, s)) \/ NothingToCreate(c)
           \/ RecordSourceConsumed(c) \/ ConsumerFails(c)
  <2>1. UNCHANGED <<msg, worker, accepted>>
    BY <1>2 DEF SelectSourceEvents, ReadRules, NothingToCreate, RecordSourceConsumed,
                ConsumerFails, mvars
  <2> QED
    BY <2>1, SameFrame
<1> QED
  BY <1>1, <1>2 DEF ConsumerStep

LEMMA WorldKnown ==
    ASSUME Known, WorldStep \/ (\E b \in BOOLEAN : UpsertAutomationRule(b)) \/ UNCHANGED vars
    PROVE  Known'
<1>1. UNCHANGED <<msg, worker, accepted>>
  BY DEF WorldStep, SourceMoves, AddContact, MergeCustomers, DisableChannel, RecordPreference,
         SetProviderConnectionActive, UpsertAutomationRule, vars, mvars
<1> QED
  BY <1>1, SameFrame

LEMMA NextIInv == IInv /\ [Next]_vars => IInv'
<1> SUFFICES ASSUME IInv, [Next]_vars PROVE IInv'
  OBVIOUS
<1>1. TypeOK'
  BY TypeStep DEF IInv, Known
<1>2. EventOK'
  BY EventStep DEF IInv
<1>3. Known'
  <2>1. ASSUME MNext PROVE Known'
    BY <2>1, WorkerKnown, MessageKnown, WorldKnown DEF MNext, IInv
  <2> QED
    BY <2>1, ConsumerKnown, WorldKnown DEF Next, IInv
<1> QED
  BY <1>1, <1>2, <1>3 DEF IInv

LEMMA Invariance == Spec => []IInv
  BY InitIInv, NextIInv, PTL DEF Spec

(***************************************************************************)
(* Theorems                                                                *)
(***************************************************************************)

\* Every variable keeps its type, whatever workers, consumers, callbacks and
\* managers do.
THEOREM TypeCorrect == Spec => []TypeOK
<1>1. IInv => TypeOK
  BY DEF IInv
<1> QED
  BY <1>1, Invariance, PTL

\* No message is handed over twice, for any number of workers that die, stall
\* past their lease, lose the answer or are blocked.
THEOREM HandedOverOnce == Spec => []SentAtMostOnce
<1>1. IInv => SentAtMostOnce
  BY DEF IInv, Known, RowsOK, RowOK, SentAtMostOnce
<1> QED
  BY <1>1, Invariance, PTL

\* A row that says waiting, cancelled, failed, sent or delivered says what
\* happened at the provider.
THEOREM RowsTellTheTruth == Spec => []OutcomeIsTrue
<1>1. IInv => OutcomeIsTrue
  BY DEF IInv, Known, RowsOK, RowOK, OutcomeIsTrue
<1> QED
  BY <1>1, Invariance, PTL

\* The attempt is always in the status that goes with its message's.
THEOREM AttemptFollows == Spec => []AttemptFollowsMessage
<1>1. IInv => AttemptFollowsMessage
  BY DEF IInv, Known, RowsOK, RowOK, AttemptOf, AttemptFollowsMessage
<1> QED
  BY <1>1, Invariance, PTL

\* A message with an uncertain outcome never has a provider id: neither a callback
\* nor the reconciliation reaches it.
THEOREM UncertainStaysUnidentified == Spec => []UncertainHasNoId
<1>1. IInv => UncertainHasNoId
  BY DEF IInv, Known, RowsOK, RowOK, UncertainHasNoId
<1> QED
  BY <1>1, Invariance, PTL

(***************************************************************************)
(* How a row may change                                                    *)
(***************************************************************************)
Kept(old, new) ==
    /\ new.auto = old.auto /\ new.source = old.source
    /\ new.rule = old.rule /\ new.to = old.to
    /\ new.version = old.version /\ new.evidence = old.evidence
Moves(old, new) ==
    \/ new.st = old.st
    \/ /\ old.st \in {"pending", "queued", "sending"}
       /\ new.st = "sending" => Eligible(old)
    \/ old.st = "sent" /\ new.st \in {"delivered", "failed"}
Good(old, new) == Kept(old, new) /\ Moves(old, new)

LEMMA SameGood == \A row : Good(row, row)
  BY DEF Good, Kept, Moves

LEMMA OneGood ==
    ASSUME TypeOK, NEW m \in Messages, NEW row \in MessageRow, Save(m, row), Good(msg[m], row)
    PROVE  \A k \in Messages : Good(msg[k], msg'[k])
  BY SaveType, SameGood

LEMMA NoneGood ==
    ASSUME msg' = msg
    PROVE  \A k \in Messages : Good(msg[k], msg'[k])
  BY SameGood

\* The holder of a lease settles a row that is queued or being sent.
LEMMA SettledGood ==
    ASSUME NEW row \in MessageRow, NEW st \in MessageStatus, NEW at \in AttemptStatus,
           st # "sending", row.st \in {"pending", "queued", "sending"}
    PROVE  Good(row, Settled(row, st, at))
  BY SettledType DEF Good, Kept, Moves

LEMMA HeldRow ==
    ASSUME TypeOK, Known, NEW w \in Workers, worker[w].pc \in Busy, Holds(w)
    PROVE  Row(w).st \in {"queued", "sending"}
  BY RowFacts DEF RowOK, Holds

LEMMA WorkerGood ==
    ASSUME TypeOK, Known, NEW w \in Workers, WorkerStep(w)
    PROVE  \A k \in Messages : Good(msg[k], msg'[k])
<1> DEFINE Goal == \A k \in Messages : Good(msg[k], msg'[k])
<1>1. ASSUME SelectMessages(w) \/ (\E m \in Messages : TakeMessage(w, m)) \/ ClaimRefused(w)
             \/ PrepareFails(w) \/ PrepareRefused(w)
             \/ (\E answer \in Answers : SendText(w, answer)) \/ WorkerDies(w)
      PROVE  Goal
  <2>1. msg' = msg
    BY <1>1 DEF SelectMessages, TakeMessage, ClaimRefused, PrepareFails, PrepareRefused,
                SendText, WorkerDies
  <2> QED
    BY <2>1, NoneGood
<1> SUFFICES ASSUME worker[w].pc \in Busy,
                    \/ ClaimDispatch(w) \/ ClaimLostSender(w) \/ PrepareSendRequest(w)
                    \/ ApplyProviderAcceptance(w) \/ MarkUncertain(w) \/ MarkFailed(w)
                    \/ ReleaseDispatch(w)
             PROVE  Goal
  BY <1>1 DEF WorkerStep, ClaimDispatch, ClaimLostSender, PrepareSendRequest,
              ApplyProviderAcceptance, MarkUncertain, MarkFailed, ReleaseDispatch, At, Busy
<1>0. /\ worker[w].at \in Messages /\ Row(w) \in MessageRow /\ Row(w) = msg[worker[w].at]
      /\ RowOK(Row(w), accepted[worker[w].at])
  BY RowFacts
<1>2. CASE ClaimDispatch(w)
  <2>1. Good(Row(w), [Row(w) EXCEPT !.st = "queued", !.lease = w, !.live = TRUE])
    BY <1>0, <1>2 DEF Good, Kept, Moves, ClaimDispatch, Claimable, MessageRow
  <2> QED
    BY <1>0, <1>2, <2>1, PrepareRow, OneGood DEF ClaimDispatch
<1>3. CASE ClaimLostSender(w)
  <2>1. Row(w).st = "sending"
    BY <1>0, <1>3 DEF ClaimLostSender, SenderLost, RowOK, AttemptOf, MessageRow, MessageStatus
  <2>2. /\ Settled(Row(w), "uncertain", "uncertain") \in MessageRow
        /\ Good(Row(w), Settled(Row(w), "uncertain", "uncertain"))
    BY <1>0, <2>1, SettledType, SettledGood, Statuses
  <2> QED
    BY <1>0, <1>3, <2>2, OneGood DEF ClaimLostSender
<1>4. CASE PrepareSendRequest(w)
  <2>1. Good(Row(w), [Row(w) EXCEPT !.st = "sending", !.at = "sending", !.sendingRow = TRUE])
    BY <1>0, <1>4 DEF Good, Kept, Moves, PrepareSendRequest, ReadyToSend, MessageRow
  <2> QED
    BY <1>0, <1>4, <2>1, PrepareRow, OneGood DEF PrepareSendRequest
<1>5. CASE ApplyProviderAcceptance(w)
  <2>1. ASSUME Holds(w), Row(w).st = "sending" PROVE Goal
    <3>1. Good(Row(w), [Settled(Row(w), "sent", "accepted") EXCEPT !.ext = TRUE])
      BY <1>0, <2>1 DEF Good, Kept, Moves, Settled, MessageRow
    <3>2. Save(worker[w].at, [Settled(Row(w), "sent", "accepted") EXCEPT !.ext = TRUE])
      BY <1>5, <2>1 DEF ApplyProviderAcceptance
    <3> QED
      BY <1>0, <3>1, <3>2, PrepareRow, OneGood
  <2>2. ASSUME ~(Holds(w) /\ Row(w).st = "sending") PROVE Goal
    BY <1>5, <2>2, NoneGood DEF ApplyProviderAcceptance
  <2> QED
    BY <2>1, <2>2
<1>6. CASE MarkUncertain(w)
  <2>1. ASSUME Holds(w) PROVE Goal
    <3>0. Row(w).st \in {"queued", "sending"}
      BY <2>1, HeldRow
    <3>1. /\ Settled(Row(w), "uncertain", "uncertain") \in MessageRow
          /\ Good(Row(w), Settled(Row(w), "uncertain", "uncertain"))
      BY <1>0, <3>0, SettledType, SettledGood, Statuses
    <3> QED
      BY <1>0, <1>6, <2>1, <3>1, OneGood DEF MarkUncertain, UncertainOutcome
  <2> QED
    BY <1>6, <2>1, NoneGood DEF MarkUncertain
<1>7. CASE MarkFailed(w)
  <2>1. ASSUME Holds(w) PROVE Goal
    <3>0. Row(w).st \in {"queued", "sending"}
      BY <2>1, HeldRow
    <3>1. /\ Settled(Row(w), "failed", "failed") \in MessageRow
          /\ Good(Row(w), Settled(Row(w), "failed", "failed"))
      BY <1>0, <3>0, SettledType, SettledGood, Statuses
    <3> QED
      BY <1>0, <1>7, <2>1, <3>1, OneGood DEF MarkFailed
  <2> QED
    BY <1>7, <2>1, NoneGood DEF MarkFailed
<1>8. CASE ReleaseDispatch(w)
  <2>1. ASSUME Holds(w) PROVE Goal
    <3>1. Row(w).st \in {"queued", "sending"}
      BY <2>1, HeldRow
    <3>2. Good(Row(w), [Settled(Row(w), "pending", "requested") EXCEPT !.waits = TRUE])
      BY <1>0, <3>1 DEF Good, Kept, Moves, Settled, MessageRow
    <3> QED
      BY <1>0, <1>8, <2>1, <3>2, PrepareRow, OneGood DEF ReleaseDispatch
  <2> QED
    BY <1>8, <2>1, NoneGood DEF ReleaseDispatch
<1> QED
  BY <1>2, <1>3, <1>4, <1>5, <1>6, <1>7, <1>8

LEMMA MessageGood ==
    ASSUME TypeOK, Known, NEW m \in Messages,
           \/ LeaseExpires(m) \/ BackoffElapses(m) \/ CancelMessage(m)
           \/ \E target \in Evidence, id \in RequestIds : ApplyDeliveryEvidence(m, target, id)
    PROVE  \A k \in Messages : Good(msg[k], msg'[k])
<1>1. msg[m] \in MessageRow /\ RowOK(msg[m], accepted[m])
  BY DEF TypeOK, Known, RowsOK
<1>2. /\ Good(msg[m], [msg[m] EXCEPT !.live = FALSE])
      /\ Good(msg[m], [msg[m] EXCEPT !.waits = FALSE])
  BY <1>1 DEF Good, Kept, Moves, MessageRow
<1>3. CASE LeaseExpires(m)
  BY <1>1, <1>2, <1>3, MessageRowType, OneGood DEF LeaseExpires
<1>4. CASE BackoffElapses(m)
  BY <1>1, <1>2, <1>4, MessageRowType, OneGood DEF BackoffElapses
<1>5. CASE CancelMessage(m)
  <2>1. msg[m].st \in {"pending", "queued"} /\ msg[m].at = "requested"
    BY <1>1, <1>5 DEF CancelMessage, Cancellable, RowOK, AttemptOf, MessageRow
  <2>2. /\ Settled(msg[m], "cancelled", "cancelled") \in MessageRow
        /\ Good(msg[m], Settled(msg[m], "cancelled", "cancelled"))
    BY <1>1, <2>1, SettledType, SettledGood, Statuses
  <2> QED
    BY <1>1, <1>5, <2>1, <2>2, OneGood DEF CancelMessage
<1>6. ASSUME NEW target \in Evidence, NEW id \in RequestIds,
             ApplyDeliveryEvidence(m, target, id)
      PROVE  \A k \in Messages : Good(msg[k], msg'[k])
  <2>1. msg[m].st \in Evidence
    BY <1>1, <1>6 DEF RowOK, ApplyDeliveryEvidence, Evidence
  <2>2. Good(msg[m], WithEvidence(msg[m], target))
    <3>1. CASE msg[m].st \in Terminal \cup {target}
      BY <3>1, SameGood DEF WithEvidence
    <3>2. CASE msg[m].st \notin Terminal \cup {target}
      <4>1. WithEvidence(msg[m], target) = [msg[m] EXCEPT !.st = target, !.at = AttemptFor(target)]
        BY <3>2 DEF WithEvidence
      <4>2. msg[m].st = "sent" /\ target \in {"delivered", "failed"}
        BY <2>1, <3>2 DEF Evidence, Terminal
      <4> QED
        BY <1>1, <4>1, <4>2 DEF Good, Kept, Moves, MessageRow
    <3> QED
      BY <3>1, <3>2
  <2> QED
    BY <1>1, <1>6, <2>2, MessageRowType, OneGood DEF ApplyDeliveryEvidence
<1> QED
  BY <1>3, <1>4, <1>5, <1>6

\* A creation: the command's message, or one of an event that was not told.
Creates(m) ==
    \E s \in Sources, c \in Contacts, auto \in BOOLEAN, r \in Nat :
        /\ Create(s, c, m, auto, r)
        /\ auto => c = primary /\ ~AlreadyTold(s, r)

LEMMA StepGood ==
    ASSUME IInv, [Next]_vars
    PROVE  \/ \A k \in Messages : Good(msg[k], msg'[k])
           \/ \E m \in Messages : Creates(m)
<1> DEFINE Goal == \/ \A k \in Messages : Good(msg[k], msg'[k])
                   \/ \E m \in Messages : Creates(m)
<1>0. TypeOK /\ EventOK /\ Known
  BY DEF IInv
<1>1. ASSUME msg' = msg PROVE Goal
  BY <1>1, NoneGood
<1>2. ASSUME NEW m \in Messages, NEW s \in Sources, NEW c \in Contacts, CreateMessageFromCommand(s, c, m) PROVE Goal
  <2>1. Create(s, c, m, FALSE, 0) /\ 0 \in Nat
    BY <1>2 DEF CreateMessageFromCommand
  <2>2. Creates(m)
    BY <2>1 DEF Creates
  <2> QED
    BY <2>2
<1>3. ASSUME NEW m \in Messages, MessageStep(m) PROVE Goal
  BY <1>0, <1>2, <1>3, MessageGood DEF MessageStep
<1>4. ASSUME NEW w \in Workers, WorkerStep(w) PROVE Goal
  BY <1>0, <1>4, WorkerGood
<1>5. CASE WorldStep \/ (\E b \in BOOLEAN : UpsertAutomationRule(b)) \/ UNCHANGED vars
  <2>1. msg' = msg
    BY <1>5 DEF WorldStep, SourceMoves, AddContact, MergeCustomers, DisableChannel, RecordPreference,
                SetProviderConnectionActive, UpsertAutomationRule, vars, mvars
  <2> QED
    BY <1>1, <2>1
<1>6. ASSUME NEW c \in Consumers, ConsumerStep(c) PROVE Goal
  <2>1. ASSUME NEW m \in Messages, CreateMessageFromEvent(c, m) PROVE Goal
    <3>1. consumer[c].at \in Sources /\ consumer[c].rule \in Nat /\ primary \in Contacts
      BY <1>0, <2>1 DEF CreateMessageFromEvent, EventOK, TypeOK, ConsumerState
    <3>2. /\ Create(consumer[c].at, primary, m, TRUE, consumer[c].rule)
          /\ ~AlreadyTold(consumer[c].at, consumer[c].rule)
      BY <2>1 DEF CreateMessageFromEvent
    <3>3. Creates(m)
      BY <3>1, <3>2 DEF Creates
    <3> QED
      BY <3>3
  <2>2. CASE SelectSourceEvents(c) \/ (\E s \in Sources : ReadRules(c, s))
             \/ NothingToCreate(c) \/ RecordSourceConsumed(c) \/ ConsumerFails(c)
    <3>1. msg' = msg
      BY <2>2 DEF SelectSourceEvents, ReadRules, NothingToCreate, RecordSourceConsumed,
                  ConsumerFails, mvars
    <3> QED
      BY <1>1, <3>1
  <2> QED
    BY <1>6, <2>1, <2>2 DEF ConsumerStep
<1> QED
  BY <1>3, <1>4, <1>5, <1>6 DEF Next, MNext

LEMMA CreatesRow ==
    ASSUME TypeOK, NEW m \in Messages, Creates(m)
    PROVE  /\ msg[m].st = "none" /\ msg'[m].st = "pending"
           /\ \A k \in Messages : k # m => msg'[k] = msg[k]
           /\ msg'[m].auto => ~AlreadyTold(msg'[m].source, msg'[m].rule)
           /\ msg'[m].auto => msg'[m].to = primary
<1> PICK s \in Sources, c \in Contacts, auto \in BOOLEAN, r \in Nat :
        /\ NextMessage(m)
        /\ Save(m, Created(s, c, auto, r))
        /\ auto => c = primary /\ ~AlreadyTold(s, r)
  BY DEF Creates, Create
<1>1. /\ Created(s, c, auto, r) \in MessageRow /\ Created(s, c, auto, r).st = "pending"
      /\ Created(s, c, auto, r).auto = auto /\ Created(s, c, auto, r).source = s
      /\ Created(s, c, auto, r).rule = r /\ Created(s, c, auto, r).to = c
  BY CreatedType
<1>2. /\ msg'[m] = Created(s, c, auto, r)
      /\ \A k \in Messages : k # m => msg'[k] = msg[k]
  BY <1>1, SaveType
<1>3. msg[m].st = "none"
  BY DEF NextMessage
<1>4. msg'[m].auto => ~AlreadyTold(msg'[m].source, msg'[m].rule)
  <2>1. msg'[m].auto = auto /\ msg'[m].source = s /\ msg'[m].rule = r
    BY <1>1, <1>2
  <2> QED
    BY <2>1
<1>5. msg'[m].auto => msg'[m].to = primary
  BY <1>1, <1>2
<1> QED
  BY <1>1, <1>2, <1>3, <1>4, <1>5

\* Terminal statuses are kept, sent only gets its evidence and uncertain is left for
\* evidence alone: no late worker, callback or cancellation takes back what was recorded.
THEOREM StatusForward == Spec => StatusMovesForward
<1>1. ASSUME IInv, [Next]_vars
      PROVE  \A m \in Messages :
                 /\ msg[m].st \in Terminal => msg'[m].st = msg[m].st
                 /\ msg[m].st = "sent" => msg'[m].st \in {"sent", "delivered", "failed"}
                 /\ msg[m].st = "uncertain" =>
                       msg'[m].st = "uncertain" \/ (Reconcilable(m) /\ msg'[m].st \in Evidence)
  <2>1. CASE \A k \in Messages : Good(msg[k], msg'[k])
    BY <2>1 DEF Good, Moves, Terminal
  <2>2. ASSUME NEW n \in Messages, Creates(n)
        PROVE  \A k \in Messages : (k = n /\ msg[k].st = "none") \/ msg'[k] = msg[k]
    BY <1>1, <2>2, CreatesRow DEF IInv
  <2> QED
    BY <1>1, <2>1, <2>2, StepGood DEF Terminal
<1> QED
  BY <1>1, Invariance, PTL DEF Spec, StatusMovesForward

(***************************************************************************)
(* What a message was created with                                         *)
(*                                                                         *)
(* The row keeps a version and a number of the evidence; that they suffice *)
(* to tell whether anything changed is an invariant of the records they    *)
(* number: whatever changes a source or a permission gives it another      *)
(* number, a merge takes every contact away from where it was, and nothing *)
(* gives back a number or a place.                                         *)
(***************************************************************************)
PlacesOK ==
    /\ contact[FirstContact].known
    /\ \A k \in Contacts :
        /\ contact[k].place # "own" => Merged
        /\ contact[k].allowed => contact[k].known

SourceAsBorn(m) ==
    LET s == msg[m].source IN
    /\ born[m].source.version = msg[m].version
    /\ source[s].version >= msg[m].version
    /\ source[s].version = msg[m].version => source[s] = born[m].source
ContactAsBorn(m) ==
    LET k == msg[m].to IN
    /\ k \in Contacts
    /\ contact[k].known
    /\ contact[k].evidence >= msg[m].evidence
    /\ contact[k].evidence = msg[m].evidence /\ contact[k].place = "own" =>
          contact[k] = born[m].contact
BornOK == \A m \in Messages : msg[m].st # "none" => SourceAsBorn(m) /\ ContactAsBorn(m)

\* How sources and contacts may change.
Aged ==
    /\ \A s \in Sources :
        /\ source'[s].version >= source[s].version
        /\ source'[s].version = source[s].version => source'[s] = source[s]
    /\ \A k \in Contacts :
        /\ contact[k].known => contact'[k].known
        /\ contact'[k].evidence >= contact[k].evidence
        /\ contact[k].known /\ contact'[k].evidence = contact[k].evidence
           /\ contact'[k].place = "own" => contact'[k] = contact[k]

LEMMA SameAged ==
    ASSUME TypeOK, UNCHANGED <<source, contact>>
    PROVE  Aged /\ (PlacesOK => PlacesOK')
  BY DEF Aged, PlacesOK, Merged, TypeOK, SourceRow, ContactRow

LEMMA WorldAged ==
    ASSUME TypeOK, PlacesOK, WorldStep
    PROVE  Aged /\ PlacesOK'
<1>0. /\ \A s \in Sources : source[s] \in SourceRow
      /\ \A k \in Contacts : contact[k] \in ContactRow
  BY DEF TypeOK
<1>1. ASSUME NEW s \in Sources, NEW open \in BOOLEAN, SourceMoves(s, open)
      PROVE  Aged /\ PlacesOK'
  <2>1. source' = [source EXCEPT ![s] = [version |-> source[s].version + 1, open |-> open]]
        /\ contact' = contact
    BY <1>1 DEF SourceMoves
  <2>2. \A t \in Sources : t # s => source'[t] = source[t]
    BY <2>1 DEF TypeOK
  <2>3. source'[s].version = source[s].version + 1 /\ source[s].version \in Nat
    BY <1>0, <2>1 DEF TypeOK, SourceRow
  <2>4. \A t \in Sources : source[t].version \in Nat
    BY <1>0 DEF SourceRow
  <2>5. \A k \in Contacts : contact[k].evidence \in Nat
    BY <1>0 DEF ContactRow
  <2> QED
    BY <2>1, <2>2, <2>3, <2>4, <2>5 DEF Aged, PlacesOK, Merged
<1>2. ASSUME NEW j \in Contacts, contact' = [contact EXCEPT ![j] = contact'[j]], source' = source,
             contact'[j] \in ContactRow,
             contact'[j].place = contact[j].place,
             contact[j].known => contact'[j].known,
             contact'[j].known,
             contact'[j].evidence >= contact[j].evidence,
             contact[j].known => contact'[j].evidence > contact[j].evidence
      PROVE  Aged /\ PlacesOK'
  <2>1. \A k \in Contacts : k # j => contact'[k] = contact[k]
    BY <1>2 DEF TypeOK
  <2>2. \A k \in Contacts : contact[k].evidence \in Nat /\ contact'[k].evidence \in Nat
    BY <1>0, <1>2, <2>1 DEF ContactRow
  <2>3. \A s \in Sources : source[s].version \in Nat
    BY <1>0 DEF SourceRow
  <2>4. \A k \in Contacts : contact'[k].place = contact[k].place
    BY <1>2, <2>1
  <2> QED
    BY <1>2, <2>1, <2>2, <2>3, <2>4, ContactAssumption DEF Aged, PlacesOK, Merged
<1>3. ASSUME NEW k \in Contacts, NEW b \in BOOLEAN, AddContact(k, b) PROVE Aged /\ PlacesOK'
  <2>1. /\ contact' = [contact EXCEPT ![k] = [contact[k] EXCEPT !.known = TRUE]]
        /\ source' = source /\ ~contact[k].known
    BY <1>3 DEF AddContact
  <2>2. contact'[k] = [contact[k] EXCEPT !.known = TRUE]
    BY <2>1 DEF TypeOK
  <2>3. /\ contact'[k] \in ContactRow /\ contact'[k].known
        /\ contact'[k].place = contact[k].place /\ contact'[k].evidence = contact[k].evidence
        /\ contact[k].evidence \in Nat
    BY <1>0, <2>2 DEF ContactRow
  <2>4. contact' = [contact EXCEPT ![k] = contact'[k]]
    BY <2>1, <2>2
  <2>5. contact'[k].evidence >= contact[k].evidence
    BY <2>3
  <2> QED
    BY <1>2, <2>1, <2>3, <2>4, <2>5
<1>4. ASSUME NEW k \in Contacts, NEW b \in BOOLEAN, RecordPreference(k, b)
      PROVE  Aged /\ PlacesOK'
  <2> DEFINE row == [contact[k] EXCEPT !.evidence = contact[k].evidence + 1, !.allowed = b]
  <2>1. contact' = [contact EXCEPT ![k] = row] /\ source' = source /\ contact[k].known
    BY <1>4 DEF RecordPreference
  <2>2. /\ row \in ContactRow /\ row.known = contact[k].known /\ row.place = contact[k].place
        /\ row.evidence = contact[k].evidence + 1 /\ contact[k].evidence \in Nat
    <3>1. contact[k] \in ContactRow
      BY <1>0
    <3>2. contact[k].evidence \in Nat /\ contact[k].evidence + 1 \in Nat
      BY <3>1 DEF ContactRow
    <3>3. row.known = contact[k].known /\ row.place = contact[k].place
      BY <3>1 DEF ContactRow
    <3>4. row.evidence = contact[k].evidence + 1
      BY <3>1 DEF ContactRow
    <3>5. row \in ContactRow
      BY <3>1, <3>2 DEF ContactRow
    <3> QED
      BY <3>2, <3>3, <3>4, <3>5
  <2> HIDE DEF row
  <2>3. contact'[k] = row
    BY <2>1 DEF TypeOK
  <2>4. row.evidence >= contact[k].evidence /\ row.evidence > contact[k].evidence
    BY <2>2
  <2> QED
    BY <1>2, <2>1, <2>2, <2>3, <2>4
<1>5. ASSUME NEW kept \in SUBSET Contacts, MergeCustomers(kept) PROVE Aged /\ PlacesOK'
  <2>1. /\ source' = source
        /\ \A k \in Contacts : ~contact[k].known => contact'[k] = contact[k]
        /\ \A k \in Contacts : contact[k].known =>
              /\ contact'[k].place \in {"moved", "closed"}
              /\ contact'[k].known
              /\ contact'[k].evidence = contact[k].evidence
    BY <1>0, <1>5 DEF MergeCustomers, ContactRow
  <2>2. Merged' /\ contact'[FirstContact].known
    BY <2>1, ContactAssumption DEF Merged, PlacesOK
  <2>3. Aged
    BY <1>0, <2>1 DEF Aged, SourceRow, ContactRow
  <2> QED
    BY <2>1, <2>2, <2>3 DEF PlacesOK
<1>6. CASE DisableChannel \/ \E b \in BOOLEAN : SetProviderConnectionActive(b)
  BY <1>6, SameAged DEF DisableChannel, SetProviderConnectionActive
<1> QED
  BY <1>1, <1>3, <1>4, <1>5, <1>6 DEF WorldStep

\* A step creates a message, or changes rows as they may be changed while the world ages.
LEMMA StepAged ==
    ASSUME IInv, PlacesOK, [Next]_vars
    PROVE  /\ Aged /\ PlacesOK'
           /\ \/ born' = born /\ (\A k \in Messages : Good(msg[k], msg'[k]))
              \/ UNCHANGED <<source, contact>> /\ \E m \in Messages : Creates(m)
<1>0. TypeOK
  BY DEF IInv
<1>1. CASE WorldStep
  <2>1. msg' = msg /\ born' = born
    BY <1>1 DEF WorldStep, SourceMoves, AddContact, MergeCustomers, DisableChannel,
                RecordPreference, SetProviderConnectionActive
  <2> QED
    BY <1>0, <1>1, <2>1, WorldAged, NoneGood
<1>2. CASE ~WorldStep
  <2>1. UNCHANGED <<source, contact>>
    BY <1>2 DEF Next, MNext, MessageStep, CreateMessageFromCommand, Create, LeaseExpires,
                BackoffElapses, CancelMessage, ApplyDeliveryEvidence, WorkerStep, world,
                SelectMessages, TakeMessage, ClaimDispatch, ClaimLostSender, ClaimRefused,
                PrepareSendRequest, PrepareFails, PrepareRefused, SendText,
                ApplyProviderAcceptance, MarkUncertain, MarkFailed, ReleaseDispatch, WorkerDies,
                ConsumerStep, SelectSourceEvents, ReadRules, CreateMessageFromEvent,
                NothingToCreate, RecordSourceConsumed, ConsumerFails, UpsertAutomationRule,
                vars, mvars
  <2>2. born' = born \/ \E m \in Messages : msg[m].st = "none" /\ msg'[m].st = "pending"
    <3>1. ASSUME NEW m \in Messages, NEW s \in Sources, NEW c \in Contacts,
                 NEW auto \in BOOLEAN, NEW r \in Nat, Create(s, c, m, auto, r)
          PROVE  msg[m].st = "none" /\ msg'[m].st = "pending"
      <4>1. Created(s, c, auto, r) \in MessageRow /\ Created(s, c, auto, r).st = "pending"
        BY <1>0, CreatedType
      <4> QED
        BY <1>0, <3>1, <4>1, SaveType DEF Create, NextMessage
    <3>2. ASSUME NEW m \in Messages, NEW s \in Sources, NEW c \in Contacts,
                 CreateMessageFromCommand(s, c, m)
          PROVE  \E n \in Messages : msg[n].st = "none" /\ msg'[n].st = "pending"
      <4>1. Create(s, c, m, FALSE, 0) /\ 0 \in Nat
        BY <3>2 DEF CreateMessageFromCommand
      <4> QED
        BY <3>1, <4>1
    <3>3. ASSUME NEW c \in Consumers, NEW m \in Messages, CreateMessageFromEvent(c, m)
          PROVE  \E n \in Messages : msg[n].st = "none" /\ msg'[n].st = "pending"
      <4>1. consumer[c].at \in Sources /\ consumer[c].rule \in Nat /\ primary \in Contacts
        BY <3>3 DEF CreateMessageFromEvent, IInv, EventOK, TypeOK, ConsumerState
      <4>2. Create(consumer[c].at, primary, m, TRUE, consumer[c].rule)
        BY <3>3 DEF CreateMessageFromEvent
      <4> QED
        BY <3>1, <4>1, <4>2
    <3>4. ASSUME NEW w \in Workers, WorkerStep(w) PROVE born' = born
      BY <3>4 DEF WorkerStep, world,
                SelectMessages, TakeMessage, ClaimDispatch, ClaimLostSender, ClaimRefused,
                PrepareSendRequest, PrepareFails, PrepareRefused, SendText,
                ApplyProviderAcceptance, MarkUncertain, MarkFailed, ReleaseDispatch, WorkerDies
    <3> QED
      BY <1>2, <3>2, <3>3, <3>4
         DEF Next, MNext, MessageStep, LeaseExpires, BackoffElapses, CancelMessage,
             ApplyDeliveryEvidence, ConsumerStep, SelectSourceEvents, ReadRules,
             NothingToCreate, RecordSourceConsumed, ConsumerFails, UpsertAutomationRule,
             world, vars, mvars
  <2>3. ASSUME NEW m \in Messages, msg[m].st = "none", msg'[m].st = "pending"
        PROVE  ~Good(msg[m], msg'[m])
    BY <2>3 DEF Good, Moves
  <2> QED
    BY <1>0, <2>1, <2>2, <2>3, StepGood, SameAged
<1> QED
  BY <1>1, <1>2

LEMMA GoodKeepsBorn ==
    ASSUME TypeOK, RowsOK, BornOK, Aged, NEW m \in Messages, TypeOK',
           Good(msg[m], msg'[m]), born'[m] = born[m], msg'[m].st # "none"
    PROVE  SourceAsBorn(m)' /\ ContactAsBorn(m)'
<1>1. msg[m].st # "none"
  BY DEF Good, Moves
<1>2. /\ SourceAsBorn(m) /\ ContactAsBorn(m)
      /\ msg[m].source \in Sources /\ msg[m].to \in Contacts
  BY <1>1 DEF BornOK, RowsOK, RowOK, ContactAsBorn
<1>3. /\ msg'[m].source = msg[m].source /\ msg'[m].to = msg[m].to
      /\ msg'[m].version = msg[m].version /\ msg'[m].evidence = msg[m].evidence
  BY DEF Good, Kept
<1>4. /\ msg[m].version \in Nat /\ msg[m].evidence \in Nat
      /\ source[msg[m].source].version \in Nat /\ source'[msg[m].source].version \in Nat
      /\ contact[msg[m].to].evidence \in Nat /\ contact'[msg[m].to].evidence \in Nat
  BY <1>2 DEF TypeOK, MessageRow, SourceRow, ContactRow
<1>5. SourceAsBorn(m)'
  <2> DEFINE s == msg[m].source
  <2>1. /\ source'[s].version >= source[s].version
        /\ source'[s].version = source[s].version => source'[s] = source[s]
    BY <1>2 DEF Aged
  <2>2. /\ born[m].source.version = msg[m].version
        /\ source[s].version >= msg[m].version
        /\ source[s].version = msg[m].version => source[s] = born[m].source
    BY <1>2 DEF SourceAsBorn
  <2>3. source'[s].version >= msg[m].version
    BY <1>4, <2>1, <2>2
  <2>4. source'[s].version = msg[m].version => source'[s] = born[m].source
    BY <1>4, <2>1, <2>2
  <2> QED
    BY <1>3, <2>2, <2>3, <2>4 DEF SourceAsBorn
<1>6. ContactAsBorn(m)'
  <2> DEFINE k == msg[m].to
  <2>1. /\ contact'[k].known
        /\ contact'[k].evidence >= contact[k].evidence
        /\ contact'[k].evidence = contact[k].evidence /\ contact'[k].place = "own" =>
              contact'[k] = contact[k]
    BY <1>2 DEF Aged, ContactAsBorn
  <2>2. /\ contact[k].evidence >= msg[m].evidence
        /\ contact[k].evidence = msg[m].evidence /\ contact[k].place = "own" =>
              contact[k] = born[m].contact
    BY <1>2 DEF ContactAsBorn
  <2>3. contact'[k].evidence >= msg[m].evidence
    BY <1>4, <2>1, <2>2
  <2>4. ASSUME contact'[k].evidence = msg[m].evidence, contact'[k].place = "own"
        PROVE  contact'[k] = born[m].contact
    <3>1. contact'[k].evidence = contact[k].evidence
      BY <1>4, <2>1, <2>2, <2>4
    <3> QED
      BY <2>1, <2>2, <2>4, <3>1
  <2> QED
    BY <1>2, <1>3, <2>1, <2>3, <2>4 DEF ContactAsBorn
<1> QED
  BY <1>5, <1>6

LEMMA CreatesBorn ==
    ASSUME TypeOK, PlacesOK, BornOK, NEW n \in Messages, Creates(n), UNCHANGED <<source, contact>>
    PROVE  BornOK'
<1> PICK s \in Sources, c \in Contacts, auto \in BOOLEAN, r \in Nat : Create(s, c, n, auto, r)
  BY DEF Creates
<1>1. /\ Created(s, c, auto, r) \in MessageRow
      /\ Created(s, c, auto, r).source = s /\ Created(s, c, auto, r).to = c
      /\ Created(s, c, auto, r).version = source[s].version
      /\ Created(s, c, auto, r).evidence = contact[c].evidence
  BY CreatedType
<1>2. /\ msg'[n] = Created(s, c, auto, r)
      /\ \A k \in Messages : k # n => msg'[k] = msg[k]
  BY <1>1, SaveType DEF Create
<1>3. /\ born'[n] = [source |-> source[s], contact |-> contact[c]]
      /\ \A k \in Messages : k # n => born'[k] = born[k]
  BY DEF Create, TypeOK
<1>4. contact[c].known
  BY DEF Create, Admissible, PlacesOK
<1>5. source[s].version \in Nat /\ contact[c].evidence \in Nat
  BY DEF TypeOK, SourceRow, ContactRow
<1>6. SourceAsBorn(n)' /\ ContactAsBorn(n)'
  BY <1>1, <1>2, <1>3, <1>4, <1>5 DEF SourceAsBorn, ContactAsBorn
<1>7. ASSUME NEW k \in Messages, k # n, msg'[k].st # "none"
      PROVE  SourceAsBorn(k)' /\ ContactAsBorn(k)'
  BY <1>2, <1>3, <1>7 DEF BornOK, SourceAsBorn, ContactAsBorn
<1> QED
  BY <1>6, <1>7 DEF BornOK

LEMMA BornInvariance == Spec => [](PlacesOK /\ BornOK)
<1>1. Init => PlacesOK /\ BornOK
  BY ContactAssumption DEF Init, MInit, NoMessage, NewContact, PlacesOK, BornOK, Merged
<1>2. ASSUME IInv, IInv', PlacesOK, BornOK, [Next]_vars PROVE PlacesOK' /\ BornOK'
  <2>1. ASSUME born' = born, \A k \in Messages : Good(msg[k], msg'[k]), Aged PROVE BornOK'
    <3>1. TypeOK /\ RowsOK /\ TypeOK'
      BY <1>2 DEF IInv, Known
    <3>2. ASSUME NEW m \in Messages, msg'[m].st # "none"
          PROVE  SourceAsBorn(m)' /\ ContactAsBorn(m)'
      BY <1>2, <2>1, <3>1, <3>2, GoodKeepsBorn
    <3> QED
      BY <3>2 DEF BornOK
  <2>2. ASSUME NEW n \in Messages, Creates(n), UNCHANGED <<source, contact>> PROVE BornOK'
    BY <1>2, <2>2, CreatesBorn DEF IInv
  <2> QED
    BY <1>2, <2>1, <2>2, StepAged
<1> QED
  BY <1>1, <1>2, Invariance, PTL DEF Spec

\* No message starts to be sent whose source, contact or permission is not what it was
\* when the message was created, or while its channel or connection is off: the version
\* and the evidence that the row keeps tell every change apart, in any order of changes.
THEOREM SendsAsCreated == Spec => SentAsCreated
<1>1. ASSUME IInv, PlacesOK /\ BornOK, [Next]_vars
      PROVE  \A m \in Messages : msg[m].st # "sending" /\ msg'[m].st = "sending" =>
                 /\ source[msg[m].source] = born[m].source
                 /\ contact[msg[m].to] = born[m].contact
                 /\ channel.active
                 /\ channel.connected
  <2> SUFFICES ASSUME NEW m \in Messages, msg[m].st # "sending", msg'[m].st = "sending"
               PROVE  /\ source[msg[m].source] = born[m].source
                      /\ contact[msg[m].to] = born[m].contact
                      /\ channel.active
                      /\ channel.connected
    OBVIOUS
  <2>1. Good(msg[m], msg'[m])
    <3>1. ASSUME NEW n \in Messages, Creates(n)
          PROVE  msg'[m].st = "pending" \/ msg'[m] = msg[m]
      BY <1>1, <3>1, CreatesRow DEF IInv
    <3> QED
      BY <1>1, <3>1, StepGood
  <2>2. msg[m].st # "none" /\ Eligible(msg[m])
    BY <1>1, <2>1 DEF Good, Moves
  <2>3. SourceAsBorn(m) /\ ContactAsBorn(m)
    BY <1>1, <2>2 DEF BornOK
  <2>4. contact[msg[m].to].place = "own"
    BY <1>1, <2>2, <2>3 DEF Eligible, Admissible, PlacesOK, ContactAsBorn
  <2> QED
    BY <2>2, <2>3, <2>4 DEF Eligible, Admissible, SourceAsBorn, ContactAsBorn
<1> QED
  BY <1>1, Invariance, BornInvariance, PTL DEF Spec, SentAsCreated

\* An event polled again, by any consumer, after any crash, tells nothing twice.
THEOREM EventsToldOnce == Spec => []ReplayTellsNothing
<1>1. Init => ReplayTellsNothing
  BY DEF Init, MInit, NoMessage, ReplayTellsNothing
<1>2. ASSUME IInv, ReplayTellsNothing, [Next]_vars PROVE ReplayTellsNothing'
  <2>0. TypeOK /\ \A k \in Messages : msg[k].st = "none" => ~msg[k].auto
    BY <1>2 DEF IInv, Known, RowsOK, RowOK
  <2>1. CASE \A k \in Messages : Good(msg[k], msg'[k])
    BY <1>2, <2>1 DEF Good, Kept, ReplayTellsNothing
  <2>2. ASSUME NEW n \in Messages, Creates(n) PROVE ReplayTellsNothing'
    <3>1. /\ \A k \in Messages : k # n => msg'[k] = msg[k]
          /\ msg'[n].auto => ~AlreadyTold(msg'[n].source, msg'[n].rule)
          /\ msg'[n].auto => msg'[n].to = primary
      BY <2>0, <2>2, CreatesRow
    <3>2. ASSUME NEW k \in Messages, k # n, msg'[n].auto, msg'[k].auto,
                 msg'[k].source = msg'[n].source, msg'[k].rule = msg'[n].rule,
                 msg'[k].to = msg'[n].to
          PROVE  FALSE
      BY <3>1, <3>2 DEF AlreadyTold
    <3>3. ASSUME NEW k \in Messages, NEW l \in Messages, k # n, l # n
          PROVE  msg'[k] = msg[k] /\ msg'[l] = msg[l]
      BY <3>1, <3>3
    <3> QED
      BY <1>2, <3>2, <3>3 DEF ReplayTellsNothing, Messages
  <2> QED
    BY <1>2, <2>1, <2>2, StepGood
<1>3. ReplayTellsNothing /\ UNCHANGED vars => ReplayTellsNothing'
  BY DEF ReplayTellsNothing, vars, mvars
<1> QED
  BY <1>1, <1>2, <1>3, Invariance, PTL DEF Spec

(***************************************************************************)
(* Messaging implements Handover                                           *)
(***************************************************************************)
Seen == [Handed!Next]_(Handed!vars)

LEMMA Unseen ==
    ASSUME msg' = msg, accepted' = accepted
    PROVE  Seen
  BY DEF Seen, Handed!vars, PhaseOf

\* Writing one row moves one item from phase to phase.
LEMMA RowSeen ==
    ASSUME TypeOK, NEW m \in Messages, NEW row \in MessageRow, Save(m, row),
           accepted' = accepted
    PROVE  Handed!Moves(m, Phase(msg[m]), Phase(row))
<1>1. \A k \in Messages : msg'[k] = IF k = m THEN row ELSE msg[k]
  BY SaveType
<1>2. PhaseOf[m] = Phase(msg[m])
  BY DEF PhaseOf
<1>3. PhaseOf' = [PhaseOf EXCEPT ![m] = Phase(row)]
  BY <1>1 DEF PhaseOf
<1> QED
  BY <1>2, <1>3 DEF Handed!Moves

\* A row whose phase stays is no step.
LEMMA SamePhase ==
    ASSUME TypeOK, NEW m \in Messages, NEW row \in MessageRow, Save(m, row),
           accepted' = accepted, Phase(row) = Phase(msg[m])
    PROVE  Seen
<1>1. Handed!Moves(m, Phase(msg[m]), Phase(msg[m]))
  BY RowSeen
<1>2. PhaseOf' = PhaseOf
  BY <1>1 DEF Handed!Moves, PhaseOf
<1> QED
  BY <1>2 DEF Handed!vars, Seen

LEMMA PhaseNames ==
    ASSUME NEW row
    PROVE  /\ row.st = "none" => Phase(row) = "absent"
           /\ row.st \in {"pending", "queued"} => Phase(row) = "waiting"
           /\ row.st = "sending" => Phase(row) = "handing"
           /\ row.st = "uncertain" => Phase(row) = "uncertain"
           /\ row.st \in {"sent", "delivered", "failed", "cancelled"} =>
                 Phase(row) = IF row.ext THEN "done" ELSE "refused"
  BY DEF Phase

LEMMA StartSeen ==
    ASSUME TypeOK, Known, NEW w \in Workers, PrepareSendRequest(w)
    PROVE  Seen
<1> DEFINE m == worker[w].at
           row == [Row(w) EXCEPT !.st = "sending", !.at = "sending", !.sendingRow = TRUE]
<1>1. worker[w].pc \in Busy
  BY DEF PrepareSendRequest, At, Busy
<1>2. m \in Messages /\ Row(w) \in MessageRow /\ Row(w) = msg[m]
  BY <1>1, RowFacts
<1>3. row \in MessageRow /\ row.st = "sending"
  <2>1. row \in MessageRow
    BY <1>2, PrepareRow
  <2>2. row.st = "sending"
    BY <1>2 DEF MessageRow
  <2> QED
    BY <2>1, <2>2
<1>4. Save(m, row) /\ accepted' = accepted /\ msg[m].st = "queued"
  BY <1>2 DEF PrepareSendRequest, ReadyToSend
<1> HIDE DEF row
<1>5. Handed!Moves(m, "waiting", "handing")
  BY <1>2, <1>3, <1>4, RowSeen, PhaseNames
<1>6. Handed!Start(m)
  BY <1>5 DEF Handed!Start
<1> QED
  BY <1>2, <1>6 DEF Seen, Handed!Next

\* The provider accepts only what was not accepted before, even when the answer is lost
\* or another worker called the message uncertain meanwhile.
LEMMA TakeSeen ==
    ASSUME TypeOK, Known, NEW w \in Workers, NEW answer \in Answers, SendText(w, answer)
    PROVE  Seen
<1> DEFINE m == worker[w].at
<1>1. worker[w].pc = "call" /\ msg' = msg
  BY DEF SendText, At
<1>2. /\ m \in Messages /\ Row(w) = msg[m]
      /\ KnowsRow(w, "call", Row(w), accepted[m])
  BY <1>1, RowFacts DEF Busy
<1>3. msg[m].st \in {"sending", "uncertain"} /\ accepted[m] = 0
  BY <1>2 DEF KnowsRow, Calling
<1>4. CASE Taken(answer)
  <2>1. PhaseOf[m] \in {"handing", "uncertain"}
    BY <1>2, <1>3, PhaseNames DEF PhaseOf
  <2>2. UNCHANGED PhaseOf
    BY <1>1 DEF PhaseOf
  <2>3. accepted' = [accepted EXCEPT ![m] = 1]
    BY <1>3, <1>4 DEF SendText
  <2>4. Handed!Take(m)
    BY <1>3, <2>1, <2>2, <2>3 DEF Handed!Take
  <2> QED
    BY <1>2, <2>4 DEF Seen, Handed!Next
<1>5. CASE ~Taken(answer)
  BY <1>1, <1>5, Unseen DEF SendText
<1> QED
  BY <1>4, <1>5

LEMMA ConfirmSeen ==
    ASSUME TypeOK, Known, NEW w \in Workers, ApplyProviderAcceptance(w)
    PROVE  Seen
<1> DEFINE m == worker[w].at
           row == [Settled(Row(w), "sent", "accepted") EXCEPT !.ext = TRUE]
<1>1. worker[w].pc = "accept"
  BY DEF ApplyProviderAcceptance, At
<1>2. /\ m \in Messages /\ Row(w) \in MessageRow /\ Row(w) = msg[m]
      /\ KnowsRow(w, "accept", Row(w), accepted[m])
  BY <1>1, RowFacts DEF Busy
<1>3. CASE Holds(w) /\ Row(w).st = "sending"
  <2>1. row \in MessageRow
    BY <1>2, PrepareRow
  <2>2. row.st = "sent" /\ row.ext
    BY <1>2 DEF Settled, MessageRow
  <2>3. Save(m, row) /\ accepted' = accepted /\ accepted[m] = 1
    BY <1>2, <1>3 DEF ApplyProviderAcceptance, KnowsRow
  <2> HIDE DEF row
  <2>4. Handed!Moves(m, "handing", "done")
    BY <1>2, <1>3, <2>1, <2>2, <2>3, RowSeen, PhaseNames
  <2>5. Handed!Confirm(m)
    BY <2>3, <2>4 DEF Handed!Confirm
  <2> QED
    BY <1>2, <2>5 DEF Seen, Handed!Next
<1>4. CASE ~(Holds(w) /\ Row(w).st = "sending")
  BY <1>4, Unseen DEF ApplyProviderAcceptance
<1> QED
  BY <1>3, <1>4

\* A row that is being sent and becomes uncertain.
LEMMA DoubtSeen ==
    ASSUME TypeOK, NEW m \in Messages, msg[m].st = "sending", accepted' = accepted,
           Save(m, Settled(msg[m], "uncertain", "uncertain"))
    PROVE  Seen
<1> DEFINE row == Settled(msg[m], "uncertain", "uncertain")
<1>1. msg[m] \in MessageRow
  BY DEF TypeOK
<1>2. row \in MessageRow /\ row.st = "uncertain"
  BY <1>1, SettledType, Statuses
<1>3. Save(m, row)
  OBVIOUS
<1> HIDE DEF row
<1>4. Handed!Moves(m, "handing", "uncertain")
  BY <1>2, <1>3, RowSeen, PhaseNames
<1>5. PhaseOf' = [k \in Messages |-> IF k \in {m} THEN "uncertain" ELSE PhaseOf[k]]
  BY <1>4 DEF Handed!Moves, PhaseOf
<1>6. Handed!Doubt({m})
  BY <1>4, <1>5 DEF Handed!Doubt, Handed!Moves
<1> QED
  BY <1>6 DEF Seen, Handed!Next

LEMMA UnsureSeen ==
    ASSUME TypeOK, Known, NEW w \in Workers, ClaimLostSender(w) \/ MarkUncertain(w)
    PROVE  Seen
<1>1. worker[w].pc \in Busy
  BY DEF ClaimLostSender, MarkUncertain, At, Busy
<1>2. /\ worker[w].at \in Messages /\ Row(w) \in MessageRow /\ Row(w) = msg[worker[w].at]
      /\ RowOK(Row(w), accepted[worker[w].at])
      /\ KnowsRow(w, worker[w].pc, Row(w), accepted[worker[w].at])
  BY <1>1, RowFacts
<1>3. CASE ClaimLostSender(w)
  <2>1. Row(w).st = "sending"
    BY <1>2, <1>3 DEF ClaimLostSender, SenderLost, RowOK, AttemptOf, MessageRow, MessageStatus
  <2> QED
    BY <1>2, <1>3, <2>1, DoubtSeen DEF ClaimLostSender
<1>4. CASE MarkUncertain(w) /\ Holds(w)
  <2>1. Row(w).st = "sending"
    <3>1. Row(w).st \in {"queued", "sending"}
      BY <1>1, <1>4, HeldRow
    <3>2. Row(w).st \in {"sending", "uncertain"}
      BY <1>2, <1>4 DEF MarkUncertain, At, KnowsRow, Calling
    <3> QED
      BY <3>1, <3>2
  <2> QED
    BY <1>2, <1>4, <2>1, DoubtSeen DEF MarkUncertain, UncertainOutcome
<1>5. CASE MarkUncertain(w) /\ ~Holds(w)
  BY <1>5, Unseen DEF MarkUncertain
<1> QED
  BY <1>3, <1>4, <1>5

\* A refusal is recorded by the holder of the lease, who knows of no acceptance.
LEMMA RefuseSeen ==
    ASSUME TypeOK, Known, NEW w \in Workers, MarkFailed(w)
    PROVE  Seen
<1> DEFINE m == worker[w].at
           row == Settled(Row(w), "failed", "failed")
<1>1. worker[w].pc = "fail"
  BY DEF MarkFailed, At
<1>2. /\ m \in Messages /\ Row(w) \in MessageRow /\ Row(w) = msg[m]
      /\ RowOK(Row(w), accepted[m])
      /\ KnowsRow(w, "fail", Row(w), accepted[m])
  BY <1>1, RowFacts DEF Busy
<1>3. CASE Holds(w)
  <2>1. Row(w).st \in {"queued", "sending"} /\ accepted[m] = 0 /\ ~Row(w).ext
    BY <1>1, <1>2, <1>3, HeldRow DEF Busy, KnowsRow, Holds, RowOK
  <2>2. row \in MessageRow /\ row.st = "failed" /\ ~row.ext
    <3>1. "failed" \in MessageStatus /\ "failed" \in AttemptStatus
      BY Statuses
    <3> QED
      BY <1>2, <2>1, <3>1, SettledType
  <2>3. Save(m, row) /\ accepted' = accepted
    BY <1>3 DEF MarkFailed
  <2> HIDE DEF row
  <2>4. CASE Row(w).st = "queued"
    <3>1. Handed!Moves(m, "waiting", "refused")
      BY <1>2, <2>2, <2>3, <2>4, RowSeen, PhaseNames
    <3>2. Handed!Withdraw(m)
      BY <3>1 DEF Handed!Withdraw
    <3> QED
      BY <1>2, <3>2 DEF Seen, Handed!Next
  <2>5. CASE Row(w).st = "sending"
    <3>1. Handed!Moves(m, "handing", "refused")
      BY <1>2, <2>2, <2>3, <2>5, RowSeen, PhaseNames
    <3>2. Handed!Refuse(m)
      BY <2>1, <3>1 DEF Handed!Refuse
    <3> QED
      BY <1>2, <3>2 DEF Seen, Handed!Next
  <2> QED
    BY <2>1, <2>4, <2>5
<1>4. CASE ~Holds(w)
  BY <1>4, Unseen DEF MarkFailed
<1> QED
  BY <1>3, <1>4

\* A message whose call was not made goes back to the queue.
LEMMA ReleaseSeen ==
    ASSUME TypeOK, Known, NEW w \in Workers, ReleaseDispatch(w)
    PROVE  Seen
<1> DEFINE m == worker[w].at
           row == [Settled(Row(w), "pending", "requested") EXCEPT !.waits = TRUE]
<1>1. worker[w].pc = "release"
  BY DEF ReleaseDispatch, At
<1>2. /\ m \in Messages /\ Row(w) \in MessageRow /\ Row(w) = msg[m]
      /\ KnowsRow(w, "release", Row(w), accepted[m])
  BY <1>1, RowFacts DEF Busy
<1>3. CASE Holds(w)
  <2>1. Row(w).st \in {"queued", "sending"}
    BY <1>1, <1>3, HeldRow DEF Busy
  <2>2. Row(w).st \in {"sending", "uncertain"} /\ accepted[m] = 0
    BY <1>2 DEF KnowsRow, Calling
  <2>3. row \in MessageRow
    BY <1>2, PrepareRow
  <2>4. row.st = "pending"
    BY <1>2 DEF Settled, MessageRow
  <2>5. Save(m, row) /\ accepted' = accepted
    BY <1>3 DEF ReleaseDispatch
  <2> HIDE DEF row
  <2>6. Handed!Moves(m, "handing", "waiting")
    BY <1>2, <2>1, <2>2, <2>3, <2>4, <2>5, RowSeen, PhaseNames
  <2>7. Handed!Refuse(m)
    BY <2>2, <2>6 DEF Handed!Refuse
  <2> QED
    BY <1>2, <2>7 DEF Seen, Handed!Next
<1>4. CASE ~Holds(w)
  BY <1>4, Unseen DEF ReleaseDispatch
<1> QED
  BY <1>3, <1>4

LEMMA ClaimSeen ==
    ASSUME TypeOK, Known, NEW w \in Workers, ClaimDispatch(w)
    PROVE  Seen
<1> DEFINE m == worker[w].at
           row == [Row(w) EXCEPT !.st = "queued", !.lease = w, !.live = TRUE]
<1>1. worker[w].pc \in Busy
  BY DEF ClaimDispatch, At, Busy
<1>2. m \in Messages /\ Row(w) \in MessageRow /\ Row(w) = msg[m]
  BY <1>1, RowFacts
<1>3. row \in MessageRow /\ row.st = "queued"
  BY <1>2, PrepareRow DEF MessageRow
<1>4. Save(m, row) /\ accepted' = accepted /\ msg[m].st \in {"pending", "queued"}
  BY <1>2 DEF ClaimDispatch, Claimable
<1> HIDE DEF row
<1>5. Phase(row) = Phase(msg[m])
  BY <1>3, <1>4, PhaseNames
<1> QED
  BY <1>2, <1>3, <1>4, <1>5, SamePhase

LEMMA WorkerSeen ==
    ASSUME TypeOK, Known, NEW w \in Workers, WorkerStep(w)
    PROVE  Seen
<1>1. CASE SelectMessages(w) \/ (\E m \in Messages : TakeMessage(w, m)) \/ ClaimRefused(w)
           \/ PrepareFails(w) \/ PrepareRefused(w) \/ WorkerDies(w)
  <2>1. msg' = msg /\ accepted' = accepted
    BY <1>1 DEF SelectMessages, TakeMessage, ClaimRefused, PrepareFails, PrepareRefused,
                WorkerDies
  <2> QED
    BY <2>1, Unseen
<1>2. ASSUME NEW answer \in Answers, SendText(w, answer) PROVE Seen
  BY <1>2, TakeSeen
<1> QED
  BY <1>1, <1>2, ClaimSeen, UnsureSeen, StartSeen, ConfirmSeen, RefuseSeen, ReleaseSeen
  DEF WorkerStep

\* A callback reaches only messages that were handed over, and leaves them so.
LEMMA EvidenceSeen ==
    ASSUME TypeOK, Known, NEW m \in Messages, NEW target \in Evidence, NEW id \in RequestIds,
           ApplyDeliveryEvidence(m, target, id)
    PROVE  Seen
<1> DEFINE row == WithEvidence(msg[m], target)
<1>1. msg[m] \in MessageRow /\ RowOK(msg[m], accepted[m])
  BY DEF TypeOK, Known, RowsOK
<1>2. row \in MessageRow
  BY <1>1, MessageRowType
<1>3. msg[m].st \in Evidence /\ msg[m].ext
  BY <1>1 DEF RowOK, ApplyDeliveryEvidence, Evidence
<1>4. row.st \in Evidence /\ row.ext
  <2>1. CASE msg[m].st \in Terminal \cup {target}
    BY <1>3, <2>1 DEF WithEvidence
  <2>2. CASE msg[m].st \notin Terminal \cup {target}
    <3>1. row = [msg[m] EXCEPT !.st = target, !.at = AttemptFor(target)]
      BY <2>2 DEF WithEvidence
    <3> HIDE DEF row
    <3> QED
      BY <1>1, <1>3, <3>1 DEF MessageRow
  <2> QED
    BY <2>1, <2>2
<1>5. Save(m, row) /\ accepted' = accepted
  BY DEF ApplyDeliveryEvidence
<1> HIDE DEF row
<1>6. Phase(row) = Phase(msg[m])
  BY <1>3, <1>4, PhaseNames DEF Evidence
<1> QED
  BY <1>2, <1>5, <1>6, SamePhase

\* Time changes what a worker may do, not what became of the message.
LEMMA TimeSeen ==
    ASSUME TypeOK, NEW m \in Messages, LeaseExpires(m) \/ BackoffElapses(m)
    PROVE  Seen
<1>1. msg[m] \in MessageRow
  BY DEF TypeOK
<1>2. /\ [msg[m] EXCEPT !.live = FALSE] \in MessageRow
      /\ [msg[m] EXCEPT !.waits = FALSE] \in MessageRow
  BY <1>1, MessageRowType
<1>3. /\ Phase([msg[m] EXCEPT !.live = FALSE]) = Phase(msg[m])
      /\ Phase([msg[m] EXCEPT !.waits = FALSE]) = Phase(msg[m])
  BY <1>1 DEF Phase, MessageRow
<1>4. CASE LeaseExpires(m)
  BY <1>2, <1>3, <1>4, SamePhase DEF LeaseExpires
<1>5. CASE BackoffElapses(m)
  BY <1>2, <1>3, <1>5, SamePhase DEF BackoffElapses
<1> QED
  BY <1>4, <1>5

LEMMA CancelSeen ==
    ASSUME TypeOK, Known, NEW m \in Messages, CancelMessage(m)
    PROVE  Seen
<1> DEFINE row == Settled(msg[m], "cancelled", "cancelled")
<1>1. msg[m] \in MessageRow /\ RowOK(msg[m], accepted[m])
  BY DEF TypeOK, Known, RowsOK
<1>2. msg[m].st \in {"pending", "queued"}
  BY DEF CancelMessage, Cancellable
<1>3. msg[m].at = "requested" /\ ~msg[m].ext
  BY <1>1, <1>2 DEF RowOK, AttemptOf
<1>4. row \in MessageRow /\ row.st = "cancelled" /\ ~row.ext
  <2>1. "cancelled" \in MessageStatus /\ "cancelled" \in AttemptStatus
    BY Statuses
  <2> QED
    BY <1>1, <1>3, <2>1, SettledType
<1>5. Save(m, row) /\ accepted' = accepted
  BY <1>3 DEF CancelMessage
<1> HIDE DEF row
<1>6. Handed!Moves(m, "waiting", "refused")
  BY <1>2, <1>4, <1>5, RowSeen, PhaseNames
<1>7. Handed!Withdraw(m)
  BY <1>6 DEF Handed!Withdraw
<1> QED
  BY <1>7 DEF Seen, Handed!Next

LEMMA CreatedSeen ==
    ASSUME TypeOK, NEW m \in Messages, NextMessage(m),
           NEW s \in Sources, NEW c \in Contacts, NEW auto \in BOOLEAN, NEW r \in Nat,
           Save(m, Created(s, c, auto, r)), accepted' = accepted
    PROVE  Seen
<1> DEFINE row == Created(s, c, auto, r)
<1>1. row \in MessageRow /\ row.st = "pending"
  BY CreatedType
<1>2. msg[m].st = "none" /\ Save(m, row)
  BY DEF NextMessage
<1> HIDE DEF row
<1>3. Handed!Moves(m, "absent", "waiting")
  BY <1>1, <1>2, RowSeen, PhaseNames
<1>4. Handed!Plan(m)
  BY <1>3 DEF Handed!Plan
<1> QED
  BY <1>4 DEF Seen, Handed!Next

LEMMA ConsumerSeen ==
    ASSUME TypeOK, EventOK, NEW c \in Consumers, ConsumerStep(c)
    PROVE  Seen
<1>1. ASSUME NEW m \in Messages, CreateMessageFromEvent(c, m) PROVE Seen
  <2>1. consumer[c].at \in Sources /\ consumer[c].rule \in Nat /\ primary \in Contacts
    BY <1>1 DEF CreateMessageFromEvent, EventOK, TypeOK, ConsumerState
  <2> QED
    BY <1>1, <2>1, CreatedSeen DEF CreateMessageFromEvent, Create
<1>2. CASE SelectSourceEvents(c) \/ (\E s \in Sources : ReadRules(c, s)) \/ NothingToCreate(c)
           \/ RecordSourceConsumed(c) \/ ConsumerFails(c)
  <2>1. msg' = msg /\ accepted' = accepted
    BY <1>2 DEF SelectSourceEvents, ReadRules, NothingToCreate, RecordSourceConsumed,
                ConsumerFails, mvars
  <2> QED
    BY <2>1, Unseen
<1> QED
  BY <1>1, <1>2 DEF ConsumerStep

LEMMA StepSeen ==
    ASSUME IInv, [Next]_vars
    PROVE  Seen
<1>0. TypeOK /\ EventOK /\ Known
  BY DEF IInv
<1>1. ASSUME NEW m \in Messages, NEW s \in Sources, NEW c \in Contacts,
             CreateMessageFromCommand(s, c, m)
      PROVE  Seen
  <2>1. NextMessage(m) /\ Save(m, Created(s, c, FALSE, 0)) /\ accepted' = accepted
    BY <1>1 DEF CreateMessageFromCommand, Create
  <2> QED
    BY <1>0, <2>1, CreatedSeen
<1>2. ASSUME NEW m \in Messages, MessageStep(m) PROVE Seen
  BY <1>0, <1>1, <1>2, TimeSeen, CancelSeen, EvidenceSeen DEF MessageStep
<1>3. ASSUME NEW w \in Workers, WorkerStep(w) PROVE Seen
  BY <1>0, <1>3, WorkerSeen
<1>4. CASE WorldStep \/ (\E b \in BOOLEAN : UpsertAutomationRule(b)) \/ UNCHANGED vars
  <2>1. msg' = msg /\ accepted' = accepted
    BY <1>4 DEF WorldStep, SourceMoves, AddContact, MergeCustomers, DisableChannel,
                RecordPreference, SetProviderConnectionActive, UpsertAutomationRule, vars, mvars
  <2> QED
    BY <2>1, Unseen
<1>5. ASSUME NEW c \in Consumers, ConsumerStep(c) PROVE Seen
  BY <1>0, <1>5, ConsumerSeen
<1> QED
  BY <1>2, <1>3, <1>4, <1>5 DEF Next, MNext

\* Claims, refusals, lost answers, dead workers, cancellations and callbacks keep the
\* promises of Handover: nothing is sent again but what was not sent.
THEOREM ImplementsHandoverHolds == Spec => ImplementsHandover
<1>1. Init => Handed!Init
  BY PhaseNames DEF Init, MInit, NoMessage, Handed!Init, PhaseOf
<1> QED
  BY <1>1, StepSeen, Invariance, PTL DEF Spec, ImplementsHandover, Handed!Spec, Seen

=============================================================================
