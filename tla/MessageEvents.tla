--------------------------- MODULE MessageEvents ---------------------------
(***************************************************************************)
(* apps/messaging, second half: the Celery workers that turn the allowed   *)
(* outbox events of orders, lots and payments into messages, under the     *)
(* automation rules of the organization.  One event per source and one     *)
(* rule; both are read without a lock, each message is created in a        *)
(* transaction of its own and the consumption is recorded in another.      *)
(***************************************************************************)
EXTENDS Messaging

CONSTANTS
    Consumers   \* Celery workers running consume_source_events

VARIABLES
    rule,      \* the MessageAutomationRule of the event
    consumer,  \* consume_source_events: its batch and the event it consumes
    consumed   \* sources whose event has a completed receipt

WorkerState ==
    [pc : {"idle", "item", "claim", "prepare", "call", "accept", "unsure", "fail", "release"},
     todo : SUBSET Messages, at : Messages \cup {0}]
ConsumerState ==
    [pc : {"idle", "rules", "create", "receipt"}, todo : SUBSET Sources,
     at : Sources \cup {NoSource}, rule : Nat]

evars == <<rule, consumer, consumed>>
vars == <<mvars, evars>>

NotConsuming == [pc |-> "idle", todo |-> {}, at |-> NoSource, rule |-> 0]
\* The event is done with, or left for the next poll; the loop goes on.
NextEvent(c) ==
    LET rest == consumer[c].todo \ {consumer[c].at} IN
    consumer' = [consumer EXCEPT ![c] =
        [NotConsuming EXCEPT !.pc = IF rest = {} THEN "idle" ELSE "rules", !.todo = rest]]

Init ==
    /\ MInit
    /\ rule = [version |-> 1, enabled |-> TRUE]
    /\ consumer = [c \in Consumers |-> NotConsuming]
    /\ consumed = {}

SelectSourceEvents(c) ==
    /\ consumer[c].pc = "idle"
    /\ consumed # Sources
    /\ consumer' = [consumer EXCEPT ![c] =
            [NotConsuming EXCEPT !.pc = "rules", !.todo = Sources \ consumed]]
    /\ UNCHANGED <<mvars, rule, consumed>>

\* consume_source_event reads the enabled rules; without one nothing is created.
ReadRules(c, s) ==
    /\ consumer[c].pc = "rules"
    /\ s \in consumer[c].todo
    /\ consumer' = [consumer EXCEPT ![c].at = s, ![c].rule = rule.version,
                                    ![c].pc = IF rule.enabled THEN "create" ELSE "receipt"]
    /\ UNCHANGED <<mvars, rule, consumed>>

\* Mutation: the receipt of the event is the only one.
NeverTold(s, r) == FALSE
\* The command receipt under the digest of the event, the rule's version, the
\* template, the channel and the value of the primary contact.
AlreadyTold(s, r) ==
    \E m \in Messages :
        /\ msg[m].auto /\ msg[m].source = s
        /\ msg[m].rule = r
        /\ msg[m].to = primary

\* The event carries version 1 of its source.
EventHolds(s) == source[s].version = 1 /\ Admissible(s, primary)

CreateMessageFromEvent(c, m) ==
    LET s == consumer[c].at IN
    /\ consumer[c].pc = "create"
    /\ EventHolds(s)
    /\ ~AlreadyTold(s, consumer[c].rule)
    /\ Create(s, primary, m, TRUE, consumer[c].rule)
    /\ consumer' = [consumer EXCEPT ![c].pc = "receipt"]
    /\ UNCHANGED <<rule, consumed>>

\* Mutation: a refused event is left for the next poll.
RefusedIsRetried(c) ==
    /\ consumer[c].pc = "create"
    /\ ~EventHolds(consumer[c].at) \/ AlreadyTold(consumer[c].at, consumer[c].rule)
    /\ NextEvent(c)
    /\ UNCHANGED <<mvars, rule, consumed>>
\* Replayed, or refused by a domain error that the loop swallows.
NothingToCreate(c) ==
    /\ consumer[c].pc = "create"
    /\ ~EventHolds(consumer[c].at) \/ AlreadyTold(consumer[c].at, consumer[c].rule)
    /\ consumer' = [consumer EXCEPT ![c].pc = "receipt"]
    /\ UNCHANGED <<mvars, rule, consumed>>

RecordSourceConsumed(c) ==
    /\ consumer[c].pc = "receipt"
    /\ consumed' = consumed \cup {consumer[c].at}
    /\ NextEvent(c)
    /\ UNCHANGED <<mvars, rule>>

\* The process dies, or a database error skips the event until the next poll.
ConsumerFails(c) ==
    /\ consumer[c].pc # "idle"
    /\ deaths < MaxDeaths
    /\ deaths' = deaths + 1
    /\ \/ consumer' = [consumer EXCEPT ![c] = NotConsuming]
       \/ consumer[c].pc = "create" /\ NextEvent(c)
    /\ UNCHANGED <<msg, receipts, worker, world, accepted, rule, consumed>>

UpsertAutomationRule(enabled) ==
    /\ Change
    /\ rule' = [version |-> rule.version + 1, enabled |-> enabled]
    /\ UNCHANGED <<msg, receipts, worker, source, contact, primary, channel, born, deaths,
                   accepted, consumer, consumed>>

ConsumerStep(c) ==
    \/ SelectSourceEvents(c)
    \/ \E s \in Sources : ReadRules(c, s)
    \/ \E m \in Messages : CreateMessageFromEvent(c, m)
    \/ NothingToCreate(c) \/ RecordSourceConsumed(c) \/ ConsumerFails(c)

Next ==
    \/ MNext /\ UNCHANGED evars
    \/ \E c \in Consumers : ConsumerStep(c)
    \/ \E b \in BOOLEAN : UpsertAutomationRule(b)

Spec == Init /\ [][Next]_vars

\* The beat schedule starts consumers and workers every few seconds, and leases
\* and backoffs end with time.
Fairness ==
    /\ \A m \in Messages : WF_vars(LeaseExpires(m) /\ UNCHANGED evars)
    /\ \A m \in Messages : WF_vars(BackoffElapses(m) /\ UNCHANGED evars)
    /\ \A w \in Workers :
          WF_vars(WorkerStep(w) /\ UNCHANGED <<evars, deaths>>)
    /\ \A c \in Consumers : WF_vars(ConsumerStep(c) /\ UNCHANGED deaths)

FairSpec == Spec /\ Fairness

(***************************************************************************)
(* Properties                                                              *)
(***************************************************************************)

\* Every variable keeps its type; statuses stay within the check constraints of
\* messaging/models.py.
TypeOK ==
    /\ msg \in [Messages -> MessageRow]
    /\ receipts \subseteq Messages \X RequestIds
    /\ worker \in [Workers -> WorkerState]
    /\ source \in [Sources -> SourceRow]
    /\ contact \in [Contacts -> ContactRow]
    /\ primary \in Contacts
    /\ channel \in [active : BOOLEAN, connected : BOOLEAN]
    /\ changes \in 0 .. MaxChanges
    /\ born \in [Messages -> Birth]
    /\ deaths \in 0 .. MaxDeaths
    /\ accepted \in [Messages -> Nat]
    /\ rule \in [version : Nat, enabled : BOOLEAN]
    /\ consumer \in [Consumers -> ConsumerState]
    /\ consumed \subseteq Sources

\* No message is handed to the provider twice, whichever workers die, stall past
\* their lease, lose the answer or find the network blocked (MESSAGING.md:31, no
\* blind resending).
SentAtMostOnce == \A m \in Messages : accepted[m] <= 1

\* What the row says is what happened outside: waiting, cancelled and, unless the
\* provider itself reported the failure, failed messages were never accepted;
\* sent and delivered ones were.
OutcomeIsTrue ==
    \A m \in Messages :
        /\ msg[m].st \in {"pending", "queued", "cancelled"} => accepted[m] = 0
        /\ msg[m].st = "failed" /\ ~msg[m].ext => accepted[m] = 0
        /\ msg[m].st \in {"sent", "delivered"} => accepted[m] = 1

\* The attempt tells the same as its message, through every claim, release,
\* recovery, cancellation and callback; each transaction writes both rows.
AttemptFollowsMessage ==
    \A m \in Messages :
        msg[m].at = CASE msg[m].st \in {"pending", "queued"} -> "requested"
                      [] msg[m].st = "sent" -> "accepted"
                      [] OTHER -> msg[m].st

\* The code: an uncertain message never has the provider's id, which reconcile_uncertain
\* and the callbacks need, so its outcome is not learnt from the provider any more.  The docs
\* (MESSAGING.md:99-100) say that managers reconcile it, and the test of that writes the
\* provider's id into the attempt by hand (test_dispatch.py:468).
UncertainHasNoId == \A m \in Messages : msg[m].st = "uncertain" => ~msg[m].ext

\* However often an event is polled again after a crash or by two consumers, its
\* messages differ in the rule's version or the contact.
ReplayTellsNothing ==
    \A m, n \in Messages :
        msg[m].auto /\ msg[n].auto /\ msg[m].source = msg[n].source
        /\ msg[m].rule = msg[n].rule /\ msg[m].to = msg[n].to => m = n

\* Callbacks out of order, late workers and cancellations never take back what was
\* recorded: a terminal status stays, one that was sent gets its evidence, and an
\* uncertain one is left only for evidence about the id the provider gave it.  No uncertain
\* message has one (UncertainHasNoId), so none is left, by a manager's reconciliation either.
StatusMovesForward ==
    [][\A m \in Messages :
          /\ msg[m].st \in Terminal => msg'[m].st = msg[m].st
          /\ msg[m].st = "sent" => msg'[m].st \in {"sent", "delivered", "failed"}
          /\ msg[m].st = "uncertain" =>
                msg'[m].st = "uncertain" \/ (Reconcilable(m) /\ msg'[m].st \in Evidence)]_vars

\* The transaction that moves a message to sending decides (MESSAGING.md:105-113).  No
\* message starts to be sent whose source, contact or permission is not what it was when
\* the message was created, whatever moved, merged or was given back meanwhile, or while
\* its channel or connection is off.
SentAsCreated ==
    [][\A m \in Messages :
          msg[m].st # "sending" /\ msg'[m].st = "sending" =>
              /\ source[msg[m].source] = born[m].source
              /\ contact[msg[m].to] = born[m].contact
              /\ channel.active
              /\ channel.connected]_vars

\* Every pending message is concluded, unless a worker died, the network was
\* blocked when it was sent for the first time or its contact became another
\* customer's (dispatch_message_events looks for pending messages only, and
\* PrepareFails keeps the claim).
Concluded(m) == msg[m].st \in {"sent", "delivered", "failed", "cancelled", "uncertain"}
Released(m) == msg[m].sendingRow /\ msg[m].st \in {"pending", "queued"}
Lost(m) == msg[m].st = "queued" /\ Moved(msg[m])
PendingIsConcluded ==
    \A m \in Messages :
        msg[m].st = "pending" ~>
            \/ Concluded(m)
            \/ deaths > 0 \/ Released(m) \/ Lost(m)

\* Every event is consumed, whichever consumers die (the bound on messages aside).
EventIsConsumed ==
    \A s \in Sources :
        <>(s \in consumed \/ \A m \in Messages : msg[m].st # "none")

=============================================================================
