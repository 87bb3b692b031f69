----------------------------- MODULE Messaging -----------------------------
(***************************************************************************)
(* apps/messaging: transactional messages, the one MessageDeliveryAttempt  *)
(* of each, the Celery workers that hand them over to a provider outside   *)
(* any transaction, the provider's delivery callbacks, and the records a   *)
(* message depends on: its source, the contact and its permission, the     *)
(* channel and its connection.                                             *)
(*                                                                         *)
(* Every service function is a transaction that locks the message and then *)
(* the attempt: one action.  dispatch_message is a chain of them with the  *)
(* provider call in the middle.                                            *)
(***************************************************************************)
EXTENDS Naturals, FiniteSets

CONSTANTS
    Sources,      \* orders, lots or payments that messages are about
    Contacts,     \* contact points of the customer
    FirstContact, \* the one there is at first
    Workers,      \* Celery workers running dispatch_message_events
    RequestIds,   \* request ids of the provider's callbacks
    Answers,      \* what send_text may come back with
    NoWorker,
    NoSource,
    NoContact,
    BatchLimit,   \* limit of dispatch_message_events, 20 in the code
    MaxMessages,  \* bound: messages created
    MaxChanges,   \* bound: changes of sources, contacts, customers, channels and rules
    MaxDeaths     \* bound: workers that die

ASSUME LimitsAssumption ==
    /\ BatchLimit \in Nat \ {0}
    /\ MaxMessages \in Nat
    /\ MaxChanges \in Nat
    /\ MaxDeaths \in Nat
ASSUME NothingAssumption ==
    NoWorker \notin Workers /\ NoSource \notin Sources /\ NoContact \notin Contacts
ASSUME ContactAssumption == FirstContact \in Contacts

AllAnswers == {"accepted", "unidentified", "rejected", "no_call", "no_answer", "blocked"}
ASSUME AnswersAssumption == Answers \subseteq AllAnswers

VARIABLES
    msg,       \* Message rows with their MessageDeliveryAttempt
    receipts,  \* MessageWebhookReceipt rows: message and request id
    worker,    \* dispatch_message_events: its batch and the message it sends
    source,    \* version and status of the aggregates of the sources
    contact,   \* ContactPoint rows, each with its active MessagingPreference; place:
               \* of the customer, or since its merge of another one, or deactivated
    primary,   \* the primary one
    channel,   \* the MessagingChannel and its connection
    changes,   \* how many changes were made
    born,      \* history: the source and the contact of each message when it was created
    deaths,    \* how many workers died
    accepted   \* how often the provider accepted a message (external)

world == <<source, contact, primary, channel, changes, born>>
mvars == <<msg, receipts, worker, world, deaths, accepted>>

Messages == 1 .. MaxMessages

MessageStatus == {"none", "pending", "queued", "sending", "sent", "delivered", "failed",
                  "cancelled", "uncertain"}
AttemptStatus == {"none", "requested", "sending", "accepted", "delivered", "failed",
                  "cancelled", "uncertain"}
Terminal == {"delivered", "failed", "cancelled"}
Evidence == {"sent", "delivered", "failed"}

\* lease and live: the lease token and whether it has not expired; waits: the
\* backoff has not elapsed; sendingRow: the history has its "<attempt>:sending" row.
MessageRow ==
    [st : MessageStatus, at : AttemptStatus, ext : BOOLEAN,
     lease : Workers \cup {NoWorker}, live : BOOLEAN, waits : BOOLEAN, sendingRow : BOOLEAN,
     source : Sources \cup {NoSource}, version : Nat,
     to : Contacts \cup {NoContact}, evidence : Nat,
     auto : BOOLEAN, rule : Nat]
ContactRow ==
    [known : BOOLEAN, evidence : Nat, allowed : BOOLEAN, place : {"own", "moved", "closed"}]
SourceRow == [version : Nat, open : BOOLEAN]
Birth == [source : SourceRow, contact : ContactRow]
NewContact == [known |-> FALSE, evidence |-> 0, allowed |-> FALSE, place |-> "own"]
Unborn == [source |-> [version |-> 0, open |-> FALSE], contact |-> NewContact]
NoMessage ==
    [st |-> "none", at |-> "none", ext |-> FALSE,
     lease |-> NoWorker, live |-> FALSE, waits |-> FALSE, sendingRow |-> FALSE,
     source |-> NoSource, version |-> 0, to |-> NoContact, evidence |-> 0,
     auto |-> FALSE, rule |-> 0]

Idle == [pc |-> "idle", todo |-> {}, at |-> 0]
\* The worker goes on with its batch.
Proceed(w) ==
    worker' = [worker EXCEPT ![w] =
        [pc |-> IF worker[w].todo = {} THEN "idle" ELSE "item", todo |-> worker[w].todo, at |-> 0]]
Goto(w, pc) == worker' = [worker EXCEPT ![w].pc = pc]
Save(m, row) == msg' = [msg EXCEPT ![m] = row]

MInit ==
    /\ msg = [m \in Messages |-> NoMessage]
    /\ receipts = {}
    /\ worker = [w \in Workers |-> Idle]
    /\ source = [s \in Sources |-> [version |-> 1, open |-> TRUE]]
    /\ contact = [k \in Contacts |->
            IF k = FirstContact
            THEN [known |-> TRUE, evidence |-> 1, allowed |-> TRUE, place |-> "own"]
            ELSE NewContact]
    /\ primary = FirstContact
    /\ channel = [active |-> TRUE, connected |-> TRUE]
    /\ changes = 0
    /\ born = [m \in Messages |-> Unborn]
    /\ deaths = 0
    /\ accepted = [m \in Messages |-> 0]

(***************************************************************************)
(* Creation                                                                *)
(***************************************************************************)

\* The first contact is always there, and a merge leaves none where it was.
Merged == contact[FirstContact].place # "own"

\* _resolve_source, _resolve_permission, _validate_template, _validate_channel
Admissible(s, k) ==
    /\ source[s].open
    /\ ~Merged
    /\ contact[k].allowed
    /\ channel.active
    /\ channel.connected

NextMessage(m) ==
    /\ msg[m].st = "none"
    /\ \A k \in 1 .. m - 1 : msg[k].st # "none"

Created(s, k, auto, rule) ==
    [NoMessage EXCEPT !.st = "pending", !.at = "requested", !.source = s,
                      !.version = source[s].version,
                      !.to = k, !.evidence = contact[k].evidence,
                      !.auto = auto, !.rule = rule]

Create(s, k, m, auto, rule) ==
    /\ NextMessage(m)
    /\ Admissible(s, k)
    /\ Save(m, Created(s, k, auto, rule))
    /\ born' = [born EXCEPT ![m] = [source |-> source[s], contact |-> contact[k]]]
    /\ UNCHANGED <<receipts, worker, source, contact, primary, channel, changes, deaths, accepted>>

\* A command sent twice finds its receipt.
CreateMessageFromCommand(s, k, m) == Create(s, k, m, FALSE, 0)

(***************************************************************************)
(* dispatch_message_events                                                 *)
(***************************************************************************)
Pending == {m \in Messages : msg[m].st = "pending"}
Oldest == {m \in Pending : Cardinality({k \in Pending : k < m}) < BatchLimit}

SelectMessages(w) ==
    /\ worker[w].pc = "idle"
    /\ Pending # {}
    /\ worker' = [worker EXCEPT ![w] = [pc |-> "item", todo |-> Oldest, at |-> 0]]
    /\ UNCHANGED <<msg, receipts, world, deaths, accepted>>

IsNext(w, m) == m \in worker[w].todo /\ \A k \in worker[w].todo : m <= k
Dispatchable(m) == msg[m].at = "requested" /\ ~msg[m].waits

\* The attempt is read without a lock, for each message of the batch.
TakeMessage(w, m) ==
    /\ worker[w].pc = "item"
    /\ IsNext(w, m)
    /\ LET rest == worker[w].todo \ {m} IN
       worker' = [worker EXCEPT ![w] =
            IF Dispatchable(m) THEN [pc |-> "claim", todo |-> rest, at |-> m]
            ELSE [pc |-> IF rest = {} THEN "idle" ELSE "item", todo |-> rest, at |-> 0]]
    /\ UNCHANGED <<msg, receipts, world, deaths, accepted>>

At(w, pc) == worker[w].pc = pc
Row(w) == msg[worker[w].at]
Holds(w) == Row(w).lease = w

\* A row that ends the attempt frees its lease.
Settled(row, st, at) ==
    [row EXCEPT !.st = st, !.at = at, !.lease = NoWorker, !.live = FALSE, !.waits = FALSE]

Claimable(row) ==
    /\ row.at = "requested"
    /\ row.st \in {"pending", "queued"}
    /\ ~row.waits
    /\ ~row.live
SenderLost(row) == row.at = "sending" /\ ~row.waits /\ ~row.live

ClaimDispatch(w) ==
    /\ At(w, "claim")
    /\ Claimable(Row(w))
    /\ Save(worker[w].at, [Row(w) EXCEPT !.st = "queued", !.lease = w, !.live = TRUE])
    /\ Goto(w, "prepare")
    /\ UNCHANGED <<receipts, world, deaths, accepted>>

\* worker_lost_after_send_started
ClaimLostSender(w) ==
    /\ At(w, "claim")
    /\ SenderLost(Row(w))
    /\ Save(worker[w].at, Settled(Row(w), "uncertain", "uncertain"))
    /\ Proceed(w)
    /\ UNCHANGED <<receipts, world, deaths, accepted>>

ClaimRefused(w) ==
    /\ At(w, "claim")
    /\ ~Claimable(Row(w))
    /\ ~SenderLost(Row(w))
    /\ Proceed(w)
    /\ UNCHANGED <<msg, receipts, world, deaths, accepted>>

\* Mutation: the version of the source is not compared.
EligibleInAnyVersion(row) ==
    /\ Admissible(row.source, row.to)
    /\ contact[row.to].evidence = row.evidence
\* _revalidate_dispatch_contract and _resolve_active_checkout_link
Eligible(row) ==
    /\ Admissible(row.source, row.to)
    /\ source[row.source].version = row.version
    /\ contact[row.to].evidence = row.evidence

ReadyToSend(w) == Holds(w) /\ Row(w).st = "queued" /\ Row(w).at = "requested"

\* Mutation: the call starts before the rows say so.
PrepareUnrecorded(w) ==
    /\ At(w, "prepare")
    /\ ReadyToSend(w)
    /\ Eligible(Row(w))
    /\ Goto(w, "call")
    /\ UNCHANGED <<msg, receipts, world, deaths, accepted>>
PrepareSendRequest(w) ==
    /\ At(w, "prepare")
    /\ ReadyToSend(w)
    /\ Eligible(Row(w))
    /\ ~Row(w).sendingRow
    /\ Save(worker[w].at, [Row(w) EXCEPT !.st = "sending", !.at = "sending",
                                         !.sendingRow = TRUE])
    /\ Goto(w, "call")
    /\ UNCHANGED <<receipts, world, deaths, accepted>>

\* The contact is looked up among those of the message's customer.
Moved(row) == contact[row.to].place = "moved"

\* ContactPoint.DoesNotExist, or the message was released before and its history
\* already has the row that this transaction inserts last, IntegrityError: neither
\* is a MessagingDomainError, and the claim stays.
PrepareFails(w) ==
    /\ At(w, "prepare")
    /\ ReadyToSend(w)
    /\ Moved(Row(w)) \/ (Eligible(Row(w)) /\ Row(w).sendingRow)
    /\ Proceed(w)
    /\ UNCHANGED <<msg, receipts, world, deaths, accepted>>

\* Mutation: the batch loop swallows the refusal.
PrepareRefusedSilently(w) ==
    /\ At(w, "prepare")
    /\ ~ReadyToSend(w) \/ ~Eligible(Row(w))
    /\ Proceed(w)
    /\ UNCHANGED <<msg, receipts, world, deaths, accepted>>
PrepareRefused(w) ==
    /\ At(w, "prepare")
    /\ ~ReadyToSend(w) \/ ~(Eligible(Row(w)) \/ Moved(Row(w)))
    /\ Goto(w, "fail")
    /\ UNCHANGED <<msg, receipts, world, deaths, accepted>>

(***************************************************************************)
(* The provider call: require_network_allowed and send_text                *)
(***************************************************************************)
AfterAnswer(answer) ==
    CASE answer = "accepted" -> "accept"
      [] answer = "rejected" -> "fail"
      [] answer = "blocked" -> "release"
      [] OTHER -> "unsure"
Taken(answer) == answer \in {"accepted", "unidentified", "no_answer"}

SendText(w, answer) ==
    /\ At(w, "call")
    /\ accepted' = IF Taken(answer)
                   THEN [accepted EXCEPT ![worker[w].at] = @ + 1] ELSE accepted
    /\ Goto(w, AfterAnswer(answer))
    /\ UNCHANGED <<msg, receipts, world, deaths>>

\* Mutation: the id of a late acceptance is kept.
AcceptanceKeepsId(w) ==
    /\ At(w, "accept")
    /\ IF Holds(w) /\ Row(w).st = "sending"
       THEN /\ Save(worker[w].at, [Settled(Row(w), "sent", "accepted") EXCEPT !.ext = TRUE])
            /\ Proceed(w)
       ELSE Goto(w, "unsure") /\ Save(worker[w].at, [Row(w) EXCEPT !.ext = TRUE])
    /\ UNCHANGED <<receipts, world, deaths, accepted>>
\* Refused, the acceptance is tried as an uncertain result, with the same lease.
ApplyProviderAcceptance(w) ==
    /\ At(w, "accept")
    /\ IF Holds(w) /\ Row(w).st = "sending"
       THEN /\ Save(worker[w].at, [Settled(Row(w), "sent", "accepted") EXCEPT !.ext = TRUE])
            /\ Proceed(w)
       ELSE Goto(w, "unsure") /\ UNCHANGED msg
    /\ UNCHANGED <<receipts, world, deaths, accepted>>

\* Mutation: a lost answer counts as a refusal.
UncertainIsFailed == [st |-> "failed", at |-> "failed"]
UncertainOutcome == [st |-> "uncertain", at |-> "uncertain"]

MarkUncertain(w) ==
    /\ At(w, "unsure")
    /\ IF Holds(w)
       THEN Save(worker[w].at, Settled(Row(w), UncertainOutcome.st, UncertainOutcome.at))
       ELSE UNCHANGED msg
    /\ Proceed(w)
    /\ UNCHANGED <<receipts, world, deaths, accepted>>

MarkFailed(w) ==
    /\ At(w, "fail")
    /\ IF Holds(w) THEN Save(worker[w].at, Settled(Row(w), "failed", "failed"))
       ELSE UNCHANGED msg
    /\ Proceed(w)
    /\ UNCHANGED <<receipts, world, deaths, accepted>>

ReleaseDispatch(w) ==
    /\ At(w, "release")
    /\ IF Holds(w)
       THEN Save(worker[w].at, [Settled(Row(w), "pending", "requested") EXCEPT !.waits = TRUE])
       ELSE UNCHANGED msg
    /\ Proceed(w)
    /\ UNCHANGED <<receipts, world, deaths, accepted>>

WorkerDies(w) ==
    /\ worker[w].pc # "idle"
    /\ deaths < MaxDeaths
    /\ deaths' = deaths + 1
    /\ worker' = [worker EXCEPT ![w] = Idle]
    /\ UNCHANGED <<msg, receipts, world, accepted>>

LeaseExpires(m) ==
    /\ msg[m].live
    /\ Save(m, [msg[m] EXCEPT !.live = FALSE])
    /\ UNCHANGED <<receipts, worker, world, deaths, accepted>>

BackoffElapses(m) ==
    /\ msg[m].waits
    /\ Save(m, [msg[m] EXCEPT !.waits = FALSE])
    /\ UNCHANGED <<receipts, worker, world, deaths, accepted>>

(***************************************************************************)
(* Callbacks and managers                                                  *)
(***************************************************************************)
AttemptFor(st) == IF st = "sent" THEN "accepted" ELSE st

\* Mutation: evidence is applied in the order it comes.
EvidenceInOrder(row, target) == [row EXCEPT !.st = target, !.at = AttemptFor(target)]
\* _apply_canonical_evidence
WithEvidence(row, target) ==
    IF row.st \in Terminal \cup {target} THEN row
    ELSE [row EXCEPT !.st = target, !.at = AttemptFor(target)]

\* The connection was read before the transaction, so its switches may be old ones:
\* nothing is asked of the present ones.
ApplyDeliveryEvidence(m, target, id) ==
    /\ msg[m].ext
    /\ <<m, id>> \notin receipts
    /\ Save(m, WithEvidence(msg[m], target))
    /\ receipts' = receipts \cup {<<m, id>>}
    /\ UNCHANGED <<worker, world, deaths, accepted>>

\* reconcile_uncertain asks the provider about an uncertain message by the provider's id.
Reconcilable(m) == msg[m].st = "uncertain" /\ msg[m].ext

\* Mutation: a message being sent is cancelled as well.
CancellableAnyOpen == {"pending", "queued", "sending"}
Cancellable == {"pending", "queued"}

CancelMessage(m) ==
    /\ msg[m].st \in Cancellable
    /\ Save(m, IF msg[m].at = "requested" THEN Settled(msg[m], "cancelled", "cancelled")
               ELSE [msg[m] EXCEPT !.st = "cancelled"])
    /\ UNCHANGED <<receipts, worker, world, deaths, accepted>>

(***************************************************************************)
(* What messages depend on                                                 *)
(***************************************************************************)
Change == changes < MaxChanges /\ changes' = changes + 1

\* The aggregate gets another version, in a status its messages may have or not.
SourceMoves(s, open) ==
    /\ Change
    /\ source' = [source EXCEPT ![s] = [version |-> source[s].version + 1, open |-> open]]
    /\ UNCHANGED <<msg, receipts, worker, contact, primary, channel, born, deaths, accepted>>

\* add_contact; a contact that is there already stays as it is.
AddContact(k, main) ==
    /\ Change
    /\ ~Merged
    /\ ~contact[k].known
    /\ contact' = [contact EXCEPT ![k].known = TRUE]
    /\ primary' = IF main THEN k ELSE primary
    /\ UNCHANGED <<msg, receipts, worker, source, channel, born, deaths, accepted>>

RecordPreference(k, allowed) ==
    /\ Change
    /\ contact[k].known
    /\ contact' = [contact EXCEPT ![k].evidence = @ + 1, ![k].allowed = allowed]
    /\ UNCHANGED <<msg, receipts, worker, source, primary, channel, born, deaths, accepted>>

\* merge_customers, away from the customer: contacts the target has as well are
\* deactivated, the others become the target's.
MergeCustomers(kept) ==
    /\ Change
    /\ ~Merged
    /\ contact' = [k \in Contacts |->
            IF ~contact[k].known THEN contact[k]
            ELSE [contact[k] EXCEPT !.place = IF k \in kept THEN "moved" ELSE "closed"]]
    /\ UNCHANGED <<msg, receipts, worker, source, primary, channel, born, deaths, accepted>>

DisableChannel ==
    /\ Change
    /\ channel' = [channel EXCEPT !.active = FALSE]
    /\ UNCHANGED <<msg, receipts, worker, source, contact, primary, born, deaths, accepted>>

SetProviderConnectionActive(active) ==
    /\ Change
    /\ channel.connected # active
    /\ channel' = [channel EXCEPT !.connected = active]
    /\ UNCHANGED <<msg, receipts, worker, source, contact, primary, born, deaths, accepted>>

WorkerStep(w) ==
    \/ SelectMessages(w)
    \/ \E m \in Messages : TakeMessage(w, m)
    \/ ClaimDispatch(w) \/ ClaimLostSender(w) \/ ClaimRefused(w)
    \/ PrepareSendRequest(w) \/ PrepareFails(w) \/ PrepareRefused(w)
    \/ \E answer \in Answers : SendText(w, answer)
    \/ ApplyProviderAcceptance(w) \/ MarkUncertain(w) \/ MarkFailed(w)
    \/ ReleaseDispatch(w) \/ WorkerDies(w)

MessageStep(m) ==
    \/ \E s \in Sources, k \in Contacts : CreateMessageFromCommand(s, k, m)
    \/ LeaseExpires(m) \/ BackoffElapses(m) \/ CancelMessage(m)
    \/ \E target \in Evidence, id \in RequestIds : ApplyDeliveryEvidence(m, target, id)

WorldStep ==
    \/ \E s \in Sources, open \in BOOLEAN : SourceMoves(s, open)
    \/ \E k \in Contacts, b \in BOOLEAN : AddContact(k, b) \/ RecordPreference(k, b)
    \/ \E kept \in SUBSET Contacts : MergeCustomers(kept)
    \/ DisableChannel
    \/ \E b \in BOOLEAN : SetProviderConnectionActive(b)

MNext ==
    \/ \E w \in Workers : WorkerStep(w)
    \/ \E m \in Messages : MessageStep(m)
    \/ WorldStep

=============================================================================
