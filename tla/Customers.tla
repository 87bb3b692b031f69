----------------------------- MODULE Customers -----------------------------
(***************************************************************************)
(* apps/customers: customers with their contacts, addresses and notes, and *)
(* the merge of one customer into another.                                 *)
(*                                                                         *)
(* merge_customers locks both rows and reads them again.  Every other      *)
(* command believes the row that its request read before: _require_customer*)
(* looks at that copy, so a page, read in one action, and the command, a   *)
(* transaction, are two actions and a merge may come between them.  A new  *)
(* contact is looked for and inserted in two statements without a lock, so *)
(* these are two actions, too.                                             *)
(*                                                                         *)
(* Contacts of different kinds never meet, and neither do shipping and     *)
(* billing defaults: one kind and one default stand for all.  Roles,       *)
(* documents, reasons and audit rows are left out.                         *)
(***************************************************************************)
EXTENDS Naturals, FiniteSets

CONSTANTS
    CustomerIds, ContactIds, AddressIds, NoteIds,
    Values,    \* normalized values of contacts
    Profiles,  \* names, legal names and summaries
    Statuses,  \* statuses that users give
    Users,
    Nobody

ASSUME NobodyAssumption == Nobody \notin CustomerIds \cup Values
ASSUME ProfileAssumption == Profiles # {}

VARIABLES
    customer,  \* Customer rows: status, merged_into and profile
    contact,   \* ContactPoint rows
    address,   \* CustomerAddress rows
    note,      \* CustomerNote rows
    page       \* the customer each user's request has read, and the contact it adds

rows == <<customer, contact, address, note>>
vars == <<rows, page>>

Status == {"active", "inactive", "blocked"}
ASSUME StatusAssumption == Statuses \subseteq Status

CustomerRow == [st : Status \cup {"none"}, into : CustomerIds \cup {Nobody}, profile : Profiles]
ContactRow == [of : CustomerIds \cup {Nobody}, value : Values \cup {Nobody}, main : BOOLEAN, active : BOOLEAN]
AddressRow == [of : CustomerIds \cup {Nobody}, main : BOOLEAN]
NoteRow == [of : CustomerIds \cup {Nobody}, active : BOOLEAN]

\* A row of nobody does not exist.
SomeProfile == CHOOSE p \in Profiles : TRUE
NoCustomer == [st |-> "none", into |-> Nobody, profile |-> SomeProfile]
NoContact == [of |-> Nobody, value |-> Nobody, main |-> FALSE, active |-> FALSE]
NoAddress == [of |-> Nobody, main |-> FALSE]
NoNote == [of |-> Nobody, active |-> FALSE]
Page == [at : CustomerIds \cup {Nobody}, row : CustomerRow, adding : Values \cup {Nobody}]
NoPage == [at |-> Nobody, row |-> NoCustomer, adding |-> Nobody]

Init ==
    /\ customer = [c \in CustomerIds |-> NoCustomer]
    /\ contact = [k \in ContactIds |-> NoContact]
    /\ address = [a \in AddressIds |-> NoAddress]
    /\ note = [n \in NoteIds |-> NoNote]
    /\ page = [u \in Users |-> NoPage]

Unmerged(c) == customer[c].st # "none" /\ customer[c].into = Nobody

ActiveContacts(c) == {k \in ContactIds : contact[k].of = c /\ contact[k].active}
ActiveValues(c) == {contact[k].value : k \in ActiveContacts(c)}
HasMainContact(c) == \E k \in ActiveContacts(c) : contact[k].main
HasMainAddress(c) == \E a \in AddressIds : address[a].of = c /\ address[a].main

(***************************************************************************)
(* Commands of a request                                                   *)
(***************************************************************************)
Created == [NoCustomer EXCEPT !.st = "active"]

CreateCustomer(c) ==
    /\ customer[c].st = "none"
    /\ customer' = [customer EXCEPT ![c] = Created]
    /\ UNCHANGED <<contact, address, note, page>>

\* With an e-mail or a phone, the primary one of its kind.
CreateCustomerWithContact(c, k, v) ==
    /\ customer[c].st = "none"
    /\ contact[k].of = Nobody
    /\ customer' = [customer EXCEPT ![c] = Created]
    /\ contact' = [contact EXCEPT ![k] = [of |-> c, value |-> v, main |-> TRUE, active |-> TRUE]]
    /\ UNCHANGED <<address, note, page>>

\* Mutation: the request also finds merged customers.
ReadAnyCustomer(u, c) ==
    /\ page[u] = NoPage
    /\ customer[c].st # "none"
    /\ page' = [page EXCEPT ![u] = [at |-> c, row |-> customer[c], adding |-> Nobody]]
    /\ UNCHANGED rows
\* The request finds the customer, unmerged.
ReadCustomer(u, c) ==
    /\ page[u] = NoPage
    /\ Unmerged(c)
    /\ page' = [page EXCEPT ![u] = [at |-> c, row |-> customer[c], adding |-> Nobody]]
    /\ UNCHANGED rows

\* A command without effect: the copy already has the status or profile asked for, the
\* contact is there, or the request is refused: by a check, or by the constraint on the
\* values of contacts when one was inserted since the command looked for it.
Leave(u) ==
    /\ page[u] # NoPage
    /\ page' = [page EXCEPT ![u] = NoPage]
    /\ UNCHANGED rows

Commands(u, c, v) ==
    /\ page[u].at = c
    /\ page[u].adding = v
    /\ page' = [page EXCEPT ![u] = NoPage]

\* Both compare with the copy and write one field of the row, merged or not.
UpdateCustomer(u, c, p) ==
    /\ Commands(u, c, Nobody)
    /\ p # page[u].row.profile
    /\ customer' = [customer EXCEPT ![c].profile = p]
    /\ UNCHANGED <<contact, address, note>>

SetCustomerStatus(u, c, st) ==
    /\ Commands(u, c, Nobody)
    /\ st # page[u].row.st
    /\ customer' = [customer EXCEPT ![c].st = st]
    /\ UNCHANGED <<contact, address, note>>

\* Mutation: the primary contact there was stays one.
KeepsMain(c, main) == contact
\* A new primary contact replaces the one there was.
Demoted(c, main) ==
    [k \in ContactIds |-> IF main /\ k \in ActiveContacts(c)
                          THEN [contact[k] EXCEPT !.main = FALSE] ELSE contact[k]]

\* add_contact finds no active contact with the value.
LookForContact(u, c, v) ==
    /\ page[u].at = c
    /\ page[u].adding = Nobody
    /\ v \notin ActiveValues(c)
    /\ page' = [page EXCEPT ![u].adding = v]
    /\ UNCHANGED rows

\* It inserts the contact, primary or not, unless customer_contact_active_value_unique
\* refuses the value.
AddContact(u, c, k, v, main) ==
    /\ Commands(u, c, v)
    /\ contact[k].of = Nobody
    /\ v \notin ActiveValues(c)
    /\ contact' = [Demoted(c, main) EXCEPT ![k] =
                      [of |-> c, value |-> v, main |-> main, active |-> TRUE]]
    /\ UNCHANGED <<customer, address, note>>

AddAddress(u, c, a, main) ==
    /\ Commands(u, c, Nobody)
    /\ address[a].of = Nobody
    /\ address' = [b \in AddressIds |->
            IF b = a THEN [of |-> c, main |-> main]
            ELSE IF main /\ address[b].of = c THEN [address[b] EXCEPT !.main = FALSE]
            ELSE address[b]]
    /\ UNCHANGED <<customer, contact, note>>

AddNote(u, c, n) ==
    /\ Commands(u, c, Nobody)
    /\ note[n].of = Nobody
    /\ note' = [note EXCEPT ![n] = [of |-> c, active |-> TRUE]]
    /\ UNCHANGED <<customer, contact, address>>

RemoveNote(n) ==
    /\ note[n].active
    /\ note' = [note EXCEPT ![n].active = FALSE]
    /\ UNCHANGED <<customer, contact, address, page>>

(***************************************************************************)
(* merge_customers                                                         *)
(***************************************************************************)

\* Mutation: only the source is looked at again under the locks.
SourceMergeable(s, t) == s # t /\ Unmerged(s) /\ customer[t].st # "none"
Mergeable(s, t) == s # t /\ Unmerged(s) /\ Unmerged(t)

\* Mutation: a second primary contact counts as a duplicate.
DuplicateOrSecondMain(k, t) ==
    \/ contact[k].value \in ActiveValues(t)
    \/ contact[k].main /\ HasMainContact(t)
Duplicate(k, t) == contact[k].value \in ActiveValues(t)

MergedContact(k, s, t) ==
    IF k \notin ActiveContacts(s) THEN contact[k]
    ELSE IF Duplicate(k, t) THEN [contact[k] EXCEPT !.active = FALSE, !.main = FALSE]
    ELSE [contact[k] EXCEPT !.of = t, !.main = contact[k].main /\ ~HasMainContact(t)]

MergedAddress(a, s, t) ==
    IF address[a].of # s THEN address[a]
    ELSE [of |-> t, main |-> address[a].main /\ ~HasMainAddress(t)]

MergeCustomers(s, t) ==
    /\ Mergeable(s, t)
    /\ contact' = [k \in ContactIds |-> MergedContact(k, s, t)]
    /\ address' = [a \in AddressIds |-> MergedAddress(a, s, t)]
    /\ note' = [n \in NoteIds |-> IF note[n].of = s THEN [note[n] EXCEPT !.of = t] ELSE note[n]]
    /\ customer' = [customer EXCEPT ![s].st = "inactive", ![s].into = t]
    /\ UNCHANGED page

(***************************************************************************)
(* Specification                                                           *)
(***************************************************************************)
Creation ==
    \E c \in CustomerIds :
        \/ CreateCustomer(c)
        \/ \E k \in ContactIds, v \in Values : CreateCustomerWithContact(c, k, v)

UserStep(u) ==
    \/ Leave(u)
    \/ \E c \in CustomerIds :
        \/ ReadCustomer(u, c)
        \/ \E p \in Profiles : UpdateCustomer(u, c, p)
        \/ \E st \in Statuses : SetCustomerStatus(u, c, st)
        \/ \E v \in Values :
            \/ LookForContact(u, c, v)
            \/ \E k \in ContactIds, main \in BOOLEAN : AddContact(u, c, k, v, main)
        \/ \E a \in AddressIds, main \in BOOLEAN : AddAddress(u, c, a, main)
        \/ \E n \in NoteIds : AddNote(u, c, n)

Next ==
    \/ Creation
    \/ \E u \in Users : UserStep(u)
    \/ \E n \in NoteIds : RemoveNote(n)
    \/ \E s, t \in CustomerIds : MergeCustomers(s, t)

Spec == Init /\ [][Next]_vars

(***************************************************************************)
(* Properties                                                              *)
(***************************************************************************)

\* The rows have the shape of their tables, a merged customer exists and so does the
\* one it was merged into.
TypeOK ==
    /\ customer \in [CustomerIds -> CustomerRow]
    /\ contact \in [ContactIds -> ContactRow]
    /\ address \in [AddressIds -> AddressRow]
    /\ note \in [NoteIds -> NoteRow]
    /\ page \in [Users -> Page]
    /\ \A c \in CustomerIds : customer[c].into # Nobody =>
        customer[c].st # "none" /\ customer[customer[c].into].st # "none"

\* Merges, in whatever order they are asked for, make no circle: resolve_canonical
\* started anywhere arrives at a customer that is not merged.
MergesLeadSomewhere ==
    \A C \in SUBSET CustomerIds : C # {} => \E c \in C : customer[c].into \notin C

\* However customers are merged and edited, none has two active contacts with the same
\* value, two primary contacts or two default addresses, merged customers included. Only
\* add_contact leaves this to a constraint of the tables, the one on contact values: what
\* a merge moves, a new primary contact and a new default address keep it by themselves.
RowsStayUnique ==
    /\ \A c \in CustomerIds : \A j, k \in ActiveContacts(c) :
        j # k => contact[j].value # contact[k].value /\ ~(contact[j].main /\ contact[k].main)
    /\ \A a, b \in AddressIds :
        address[a].of = address[b].of /\ address[a].main /\ address[b].main => a = b

\* A merge loses no contact value, address or note: what either customer had, the
\* target has, and what is left at the source is inactive.
MergeKeepsAll ==
    [][\A s, t \in CustomerIds : customer[s].into = Nobody /\ customer'[s].into = t =>
        /\ ActiveValues(t)' = ActiveValues(s) \cup ActiveValues(t)
        /\ ActiveContacts(s)' = {}
        /\ \A a \in AddressIds : address[a].of \in {s, t} => address'[a].of = t
        /\ \A n \in NoteIds : note[n].of \in {s, t} => note'[n].of = t]_vars

\* A merged customer is written, or given a contact, an address or a note, only by a
\* request that read it before the merge.  Such a request also gives it a status again,
\* against CUSTOMERS.md:40-42, where a merged customer is inactive.
MergedLeftAlone ==
    [][\A c \in CustomerIds : customer[c].into # Nobody =>
        \/ /\ customer'[c] = customer[c]
           /\ ActiveContacts(c)' = ActiveContacts(c)
           /\ {a \in AddressIds : address'[a].of = c} = {a \in AddressIds : address[a].of = c}
           /\ {n \in NoteIds : note'[n].of = c} = {n \in NoteIds : note[n].of = c}
        \/ \E u \in Users : page[u].at = c /\ page[u].row.into = Nobody]_vars
=============================================================================
