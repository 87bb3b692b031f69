-------------------------- MODULE CustomersProofs --------------------------
(***************************************************************************)
(* Theorems of Customers, for any customers, rows and requests.  TypeOK    *)
(* and the invariant of pages are inductive by themselves, MergesLead-     *)
(* Somewhere and RowsStayUnique are with TypeOK, and the two action        *)
(* properties follow from what a step may be.                              *)
(***************************************************************************)
EXTENDS Customers, TLAPS

\* A request keeps a copy of a customer that was not merged when it read it.
PagesUnmerged == \A u \in Users : page[u].row.into = Nobody

(***************************************************************************)
(* Types                                                                   *)
(***************************************************************************)

LEMMA EmptyRows ==
    /\ NoCustomer \in CustomerRow
    /\ Created \in CustomerRow
    /\ NoContact \in ContactRow
    /\ NoAddress \in AddressRow
    /\ NoNote \in NoteRow
    /\ NoPage \in Page
<1>1. SomeProfile \in Profiles
    BY ProfileAssumption DEF SomeProfile
<1> QED
    BY <1>1 DEF NoCustomer, CustomerRow, Status, Created, NoContact, ContactRow,
                NoAddress, AddressRow, NoNote, NoteRow, NoPage, Page

LEMMA TypeInitially == Init => TypeOK
BY EmptyRows, NobodyAssumption DEF Init, TypeOK, NoCustomer

LEMMA MergeKeepsTypes ==
    ASSUME TypeOK, NEW s \in CustomerIds, NEW t \in CustomerIds, MergeCustomers(s, t)
    PROVE  TypeOK'
<1>1. contact' \in [ContactIds -> ContactRow]
    <2>1. \A k \in ContactIds : MergedContact(k, s, t) \in ContactRow
        <3> TAKE k \in ContactIds
        <3>1. contact[k] \in ContactRow
            BY DEF TypeOK
        <3>2. [contact[k] EXCEPT !.active = FALSE, !.main = FALSE] \in ContactRow
            BY <3>1 DEF ContactRow
        <3>3. (contact[k].main /\ ~HasMainContact(t)) \in BOOLEAN
            BY Zenon
        <3>4. \A b \in BOOLEAN : [contact[k] EXCEPT !.of = t, !.main = b] \in ContactRow
            BY <3>1 DEF ContactRow
        <3> QED
            BY <3>1, <3>2, <3>3, <3>4 DEF MergedContact
    <2> QED
        BY <2>1 DEF MergeCustomers
<1>2. address' \in [AddressIds -> AddressRow]
    <2>1. \A a \in AddressIds : MergedAddress(a, s, t) \in AddressRow
        BY DEF MergedAddress, TypeOK, AddressRow, HasMainAddress
    <2> QED
        BY <2>1 DEF MergeCustomers
<1>3. note' \in [NoteIds -> NoteRow]
    BY DEF MergeCustomers, TypeOK, NoteRow
<1>4. customer' \in [CustomerIds -> CustomerRow]
    <2>1. customer[s] \in CustomerRow
        BY DEF TypeOK
    <2>2. [customer[s] EXCEPT !.st = "inactive", !.into = t] \in CustomerRow
        BY <2>1 DEF CustomerRow, Status
    <2>3. customer' = [customer EXCEPT ![s] = [customer[s] EXCEPT !.st = "inactive", !.into = t]]
        BY DEF MergeCustomers
    <2> QED
        BY <2>2, <2>3 DEF TypeOK
<1>5. \A c \in CustomerIds : customer'[c].into # Nobody =>
        customer'[c].st # "none" /\ customer'[customer'[c].into].st # "none"
    BY NobodyAssumption DEF MergeCustomers, Mergeable, Unmerged, TypeOK, CustomerRow
<1>6. page' \in [Users -> Page]
    BY DEF MergeCustomers, TypeOK
<1> QED
    BY <1>1, <1>2, <1>3, <1>4, <1>5, <1>6 DEF TypeOK

LEMMA PageClosed ==
    ASSUME TypeOK, NEW u \in Users, page' = [page EXCEPT ![u] = NoPage]
    PROVE  page' \in [Users -> Page]
BY EmptyRows DEF TypeOK

LEMMA AddContactKeepsTypes ==
    ASSUME TypeOK, NEW u \in Users, NEW c \in CustomerIds, NEW k \in ContactIds,
           NEW v \in Values, NEW main \in BOOLEAN, AddContact(u, c, k, v, main)
    PROVE  TypeOK'
<1>1. Demoted(c, main) \in [ContactIds -> ContactRow]
    <2>1. ASSUME NEW j \in ContactIds
          PROVE contact[j] \in ContactRow /\ [contact[j] EXCEPT !.main = FALSE] \in ContactRow
        <3>1. contact[j] \in ContactRow
            BY DEF TypeOK
        <3> QED
            BY <3>1 DEF ContactRow
    <2> QED
        BY <2>1 DEF Demoted
<1>2. contact' \in [ContactIds -> ContactRow]
    BY <1>1 DEF AddContact, ContactRow
<1>3. page' \in [Users -> Page]
    BY PageClosed DEF AddContact, Commands
<1> QED
    BY <1>2, <1>3 DEF AddContact, TypeOK

LEMMA UserKeepsTypes ==
    ASSUME TypeOK, NEW u \in Users, UserStep(u)
    PROVE  TypeOK'
<1>1. CASE Leave(u)
    BY <1>1, PageClosed DEF Leave, rows, TypeOK
<1>2. ASSUME NEW c \in CustomerIds, ReadCustomer(u, c)
      PROVE  TypeOK'
    BY <1>2 DEF ReadCustomer, rows, TypeOK, Page
<1>7. ASSUME NEW c \in CustomerIds, NEW v \in Values, LookForContact(u, c, v)
      PROVE  TypeOK'
    <2>1. page[u] \in Page
        BY DEF TypeOK
    <2>2. [page[u] EXCEPT !.adding = v] \in Page
        BY <2>1 DEF Page
    <2>3. page' = [page EXCEPT ![u] = [page[u] EXCEPT !.adding = v]]
        BY <1>7 DEF LookForContact
    <2> QED
        BY <1>7, <2>2, <2>3 DEF LookForContact, rows, TypeOK
<1>3. ASSUME NEW c \in CustomerIds, NEW p \in Profiles, UpdateCustomer(u, c, p)
      PROVE  TypeOK'
    <2>1. page' \in [Users -> Page]
        BY <1>3, PageClosed DEF UpdateCustomer, Commands
    <2>2. /\ customer' \in [CustomerIds -> CustomerRow]
          /\ \A d \in CustomerIds :
                customer'[d].st = customer[d].st /\ customer'[d].into = customer[d].into
        BY <1>3 DEF UpdateCustomer, TypeOK, CustomerRow
    <2> QED
        BY <1>3, <2>1, <2>2 DEF UpdateCustomer, TypeOK, CustomerRow
<1>4. ASSUME NEW c \in CustomerIds, NEW st \in Statuses, SetCustomerStatus(u, c, st)
      PROVE  TypeOK'
    <2>1. page' \in [Users -> Page]
        BY <1>4, PageClosed DEF SetCustomerStatus, Commands
    <2>2. st \in Status /\ st # "none"
        BY StatusAssumption DEF Status
    <2>3. /\ customer' \in [CustomerIds -> CustomerRow]
          /\ \A d \in CustomerIds :
                /\ customer'[d].into = customer[d].into
                /\ customer[d].st # "none" => customer'[d].st # "none"
        BY <1>4, <2>2 DEF SetCustomerStatus, TypeOK, CustomerRow
    <2> QED
        BY <1>4, <2>1, <2>3 DEF SetCustomerStatus, TypeOK, CustomerRow
<1>5. ASSUME NEW c \in CustomerIds, NEW a \in AddressIds, NEW main \in BOOLEAN,
             AddAddress(u, c, a, main)
      PROVE  TypeOK'
    <2>1. page' \in [Users -> Page]
        BY <1>5, PageClosed DEF AddAddress, Commands
    <2>2. address' \in [AddressIds -> AddressRow]
        <3>1. [of |-> c, main |-> main] \in AddressRow
            BY DEF AddressRow
        <3>2. \A b \in AddressIds : [address[b] EXCEPT !.main = FALSE] \in AddressRow
            BY DEF TypeOK, AddressRow
        <3>3. \A b \in AddressIds : address[b] \in AddressRow
            BY DEF TypeOK
        <3> QED
            BY <1>5, <3>1, <3>2, <3>3 DEF AddAddress
    <2> QED
        BY <1>5, <2>1, <2>2 DEF AddAddress, TypeOK
<1>6. ASSUME NEW c \in CustomerIds, NEW n \in NoteIds, AddNote(u, c, n)
      PROVE  TypeOK'
    <2>1. page' \in [Users -> Page]
        BY <1>6, PageClosed DEF AddNote, Commands
    <2>2. note' \in [NoteIds -> NoteRow]
        BY <1>6 DEF AddNote, TypeOK, NoteRow
    <2> QED
        BY <1>6, <2>1, <2>2 DEF AddNote, TypeOK
<1> QED
    BY <1>1, <1>2, <1>3, <1>4, <1>5, <1>6, <1>7, AddContactKeepsTypes DEF UserStep

LEMMA TypeStep == TypeOK /\ [Next]_vars => TypeOK'
<1> SUFFICES ASSUME TypeOK, [Next]_vars PROVE TypeOK'
    OBVIOUS
<1>1. CASE Creation
    <2>1. ASSUME NEW c \in CustomerIds, CreateCustomer(c)
          PROVE  TypeOK'
        BY <2>1, EmptyRows DEF CreateCustomer, TypeOK, CustomerRow, Created, NoCustomer
    <2>2. ASSUME NEW c \in CustomerIds, NEW k \in ContactIds, NEW v \in Values,
                 CreateCustomerWithContact(c, k, v)
          PROVE  TypeOK'
        <3>1. contact' \in [ContactIds -> ContactRow]
            BY <2>2 DEF CreateCustomerWithContact, TypeOK, ContactRow
        <3> QED
            BY <2>2, <3>1, EmptyRows
               DEF CreateCustomerWithContact, TypeOK, CustomerRow, Created, NoCustomer
    <2> QED
        BY <1>1, <2>1, <2>2 DEF Creation
<1>2. CASE \E u \in Users : UserStep(u)
    BY <1>2, UserKeepsTypes
<1>3. ASSUME NEW n \in NoteIds, RemoveNote(n)
      PROVE  TypeOK'
    BY <1>3 DEF RemoveNote, TypeOK, NoteRow
<1>4. CASE UNCHANGED vars
    BY <1>4 DEF vars, rows, TypeOK
<1> QED
    BY <1>1, <1>2, <1>3, <1>4, MergeKeepsTypes DEF Next

\* Every behaviour of the customer commands keeps the tables in shape: a merged customer
\* exists, and so does its target.
THEOREM TypeCorrect == Spec => []TypeOK
<1>1. Init => TypeOK
    BY TypeInitially
<1>2. TypeOK /\ [Next]_vars => TypeOK'
    BY TypeStep
<1> QED
    BY <1>1, <1>2, PTL DEF Spec

(***************************************************************************)
(* What a step may do to the rows                                          *)
(***************************************************************************)

\* Only a merge changes where a customer leads.
LEMMA OnlyMergesLead ==
    ASSUME TypeOK, [Next]_vars
    PROVE  \/ \A c \in CustomerIds : customer'[c].into = customer[c].into
           \/ \E s, t \in CustomerIds : MergeCustomers(s, t)
<1>1. CASE Creation
    <2>1. ASSUME NEW d \in CustomerIds, customer[d].st = "none",
                 customer' = [customer EXCEPT ![d] = Created]
          PROVE  \A c \in CustomerIds : customer'[c].into = customer[c].into
        BY <2>1 DEF TypeOK, CustomerRow, Created, NoCustomer
    <2> QED
        BY <1>1, <2>1 DEF Creation, CreateCustomer, CreateCustomerWithContact
<1>2. ASSUME NEW u \in Users, UserStep(u)
      PROVE  \A c \in CustomerIds : customer'[c].into = customer[c].into
    BY <1>2 DEF UserStep, Leave, ReadCustomer, UpdateCustomer, SetCustomerStatus, LookForContact,
                AddContact, AddAddress, AddNote, rows, TypeOK, CustomerRow
<1>3. CASE \E n \in NoteIds : RemoveNote(n)
    BY <1>3 DEF RemoveNote
<1>4. CASE UNCHANGED vars
    BY <1>4 DEF vars, rows
<1> QED
    BY <1>1, <1>2, <1>3, <1>4 DEF Next

\* Contacts are changed by a merge, by being added, or not at all.
LEMMA ContactSteps ==
    ASSUME [Next]_vars
    PROVE  \/ contact' = contact
           \/ \E s, t \in CustomerIds : MergeCustomers(s, t)
           \/ \E u \in Users, c \in CustomerIds, k \in ContactIds, v \in Values, main \in BOOLEAN :
                AddContact(u, c, k, v, main)
           \/ \E c \in CustomerIds, k \in ContactIds, v \in Values :
                CreateCustomerWithContact(c, k, v)
<1>1. ASSUME NEW u \in Users, UserStep(u)
      PROVE  \/ contact' = contact
             \/ \E c \in CustomerIds, k \in ContactIds, v \in Values, main \in BOOLEAN :
                    AddContact(u, c, k, v, main)
    BY <1>1 DEF UserStep, Leave, ReadCustomer, UpdateCustomer, SetCustomerStatus, LookForContact,
                AddAddress, AddNote, rows
<1> QED
    BY <1>1 DEF Next, Creation, CreateCustomer, RemoveNote, vars, rows

\* So are addresses.
LEMMA AddressSteps ==
    ASSUME [Next]_vars
    PROVE  \/ address' = address
           \/ \E s, t \in CustomerIds : MergeCustomers(s, t)
           \/ \E u \in Users, c \in CustomerIds, a \in AddressIds, main \in BOOLEAN :
                AddAddress(u, c, a, main)
<1>1. ASSUME NEW u \in Users, UserStep(u)
      PROVE  \/ address' = address
             \/ \E c \in CustomerIds, a \in AddressIds, main \in BOOLEAN :
                    AddAddress(u, c, a, main)
    BY <1>1 DEF UserStep, Leave, ReadCustomer, UpdateCustomer, SetCustomerStatus, LookForContact,
                AddContact, AddNote, rows
<1> QED
    BY <1>1 DEF Next, Creation, CreateCustomer, CreateCustomerWithContact, RemoveNote, vars, rows

(***************************************************************************)
(* Merges make no circle                                                   *)
(***************************************************************************)

LEMMA MergesLeadInitially == Init => MergesLeadSomewhere
BY NobodyAssumption DEF Init, MergesLeadSomewhere, NoCustomer

\* A set that the merge closes would hold the target, which leads nowhere.
LEMMA MergesLeadStep ==
    ASSUME TypeOK, MergesLeadSomewhere, [Next]_vars
    PROVE  MergesLeadSomewhere'
<1>1. CASE \A c \in CustomerIds : customer'[c].into = customer[c].into
    BY <1>1 DEF MergesLeadSomewhere
<1>2. ASSUME NEW s \in CustomerIds, NEW t \in CustomerIds, MergeCustomers(s, t)
      PROVE  MergesLeadSomewhere'
    <2>1. /\ s # t
          /\ customer'[s].into = t
          /\ customer'[t].into = Nobody
          /\ \A c \in CustomerIds \ {s} : customer'[c].into = customer[c].into
        BY <1>2 DEF MergeCustomers, Mergeable, Unmerged, TypeOK, CustomerRow
    <2> SUFFICES ASSUME NEW C \in SUBSET CustomerIds, C # {}
                 PROVE  \E c \in C : customer'[c].into \notin C
        BY DEF MergesLeadSomewhere
    <2>2. CASE t \in C
        BY <2>1, <2>2, NobodyAssumption
    <2>3. CASE t \notin C /\ s \in C
        BY <2>1, <2>3
    <2>4. CASE s \notin C
        <3>1. PICK c \in C : customer[c].into \notin C
            BY DEF MergesLeadSomewhere
        <3> QED
            BY <2>1, <2>4, <3>1
    <2> QED
        BY <2>2, <2>3, <2>4
<1> QED
    BY <1>1, <1>2, OnlyMergesLead

\* Whatever is merged in whatever order by however many requests, there is no circle of
\* merged customers, so that resolve_canonical arrives.
THEOREM MergesLeadSomewhereHolds == Spec => []MergesLeadSomewhere
<1>1. Init => TypeOK /\ MergesLeadSomewhere
    BY TypeInitially, MergesLeadInitially
<1>2. TypeOK /\ MergesLeadSomewhere /\ [Next]_vars => TypeOK' /\ MergesLeadSomewhere'
    BY TypeStep, MergesLeadStep
<1> QED
    BY <1>1, <1>2, PTL DEF Spec

(***************************************************************************)
(* Unique rows                                                             *)
(***************************************************************************)
ContactsUnique ==
    \A c \in CustomerIds : \A j, k \in ActiveContacts(c) :
        j # k => contact[j].value # contact[k].value /\ ~(contact[j].main /\ contact[k].main)
AddressesUnique ==
    \A a, b \in AddressIds :
        address[a].of = address[b].of /\ address[a].main /\ address[b].main => a = b

LEMMA UniqueInitially == Init => ContactsUnique /\ AddressesUnique
BY NobodyAssumption
   DEF Init, ContactsUnique, AddressesUnique, ActiveContacts, NoContact, NoAddress

\* The contacts of a customer after a merge: the source has none, the target its own and
\* those of the source it did not have, and the others what they had.
LEMMA MergedContacts ==
    ASSUME TypeOK, NEW s \in CustomerIds, NEW t \in CustomerIds, MergeCustomers(s, t)
    PROVE  /\ ActiveContacts(s)' = {}
           /\ ActiveContacts(t)' =
                ActiveContacts(t) \cup {k \in ActiveContacts(s) : ~Duplicate(k, t)}
           /\ \A c \in CustomerIds \ {s, t} : ActiveContacts(c)' = ActiveContacts(c)
           /\ \A k \in ContactIds \ ActiveContacts(s) : contact'[k] = contact[k]
           /\ \A k \in ActiveContacts(s) :
                /\ contact'[k].value = contact[k].value
                /\ contact'[k].main => contact[k].main /\ ~HasMainContact(t)
<1>1. s # t
    BY DEF MergeCustomers, Mergeable
<1>2. \A k \in ContactIds : contact'[k] = MergedContact(k, s, t)
    BY DEF MergeCustomers
<1>3. \A k \in ContactIds \ ActiveContacts(s) : contact'[k] = contact[k]
    BY <1>2 DEF MergedContact
<1>4. ASSUME NEW k \in ActiveContacts(s)
      PROVE  /\ contact'[k].value = contact[k].value
             /\ contact'[k].main => contact[k].main /\ ~HasMainContact(t)
             /\ contact'[k].active <=> ~Duplicate(k, t)
             /\ contact'[k].active => contact'[k].of = t
    <2>1. k \in ContactIds /\ contact[k] \in ContactRow /\ contact[k].active
        BY DEF ActiveContacts, TypeOK
    <2>2. contact'[k] = IF Duplicate(k, t)
                        THEN [contact[k] EXCEPT !.active = FALSE, !.main = FALSE]
                        ELSE [contact[k] EXCEPT !.of = t,
                                                !.main = contact[k].main /\ ~HasMainContact(t)]
        BY <1>2, <2>1 DEF MergedContact
    <2> QED
        BY <2>1, <2>2 DEF ContactRow
<1>5. \A c \in CustomerIds : ActiveContacts(c)' =
        {k \in ContactIds : contact'[k].of = c /\ contact'[k].active}
    BY DEF ActiveContacts
<1>6. ActiveContacts(s)' = {}
    BY <1>1, <1>3, <1>4, <1>5 DEF ActiveContacts
<1>7. ActiveContacts(t)' =
        ActiveContacts(t) \cup {k \in ActiveContacts(s) : ~Duplicate(k, t)}
    BY <1>1, <1>3, <1>4, <1>5 DEF ActiveContacts
<1>8. \A c \in CustomerIds \ {s, t} : ActiveContacts(c)' = ActiveContacts(c)
    BY <1>1, <1>3, <1>4, <1>5 DEF ActiveContacts
<1> QED
    BY <1>3, <1>4, <1>6, <1>7, <1>8

LEMMA MergeKeepsContactsUnique ==
    ASSUME TypeOK, ContactsUnique,
           NEW s \in CustomerIds, NEW t \in CustomerIds, MergeCustomers(s, t)
    PROVE  ContactsUnique'
<1> SUFFICES ASSUME NEW c \in CustomerIds,
                    NEW j \in ActiveContacts(c)', NEW k \in ActiveContacts(c)', j # k
             PROVE  /\ contact'[j].value # contact'[k].value
                    /\ ~(contact'[j].main /\ contact'[k].main)
    BY DEF ContactsUnique
<1>1. s # t
    BY DEF MergeCustomers, Mergeable
<1>2. ActiveContacts(s) \cap ActiveContacts(t) = {}
    BY <1>1 DEF ActiveContacts
<1>3. CASE c \notin {s, t}
    <2>1. j \in ActiveContacts(c) /\ k \in ActiveContacts(c)
        BY <1>3, MergedContacts
    <2>2. contact'[j] = contact[j] /\ contact'[k] = contact[k]
        BY <2>1, <1>3, MergedContacts DEF ActiveContacts
    <2> QED
        BY <2>1, <2>2 DEF ContactsUnique
<1>4. CASE c = t
    <2>1. \A i \in ActiveContacts(t) : contact'[i] = contact[i]
        BY <1>2, MergedContacts DEF ActiveContacts
    <2>2. CASE j \in ActiveContacts(t) /\ k \in ActiveContacts(t)
        BY <2>1, <2>2 DEF ContactsUnique
    <2>3. CASE j \in ActiveContacts(s) /\ k \in ActiveContacts(s)
        <3>1. contact[j].value # contact[k].value /\ ~(contact[j].main /\ contact[k].main)
            BY <2>3 DEF ContactsUnique
        <3> QED
            BY <2>3, <3>1, MergedContacts
    <2>4. ASSUME NEW i \in ActiveContacts(t), NEW h \in ActiveContacts(s), ~Duplicate(h, t)
          PROVE  /\ contact'[i].value # contact'[h].value
                 /\ ~(contact'[i].main /\ contact'[h].main)
        <3>1. contact[i].value # contact[h].value
            BY <2>4 DEF Duplicate, ActiveValues
        <3>2. contact[i].main => HasMainContact(t)
            BY DEF HasMainContact
        <3> QED
            BY <2>1, <3>1, <3>2, MergedContacts
    <2>5. /\ j \in ActiveContacts(t) \cup {i \in ActiveContacts(s) : ~Duplicate(i, t)}
          /\ k \in ActiveContacts(t) \cup {i \in ActiveContacts(s) : ~Duplicate(i, t)}
        BY <1>4, MergedContacts
    <2> QED
        BY <2>2, <2>3, <2>4, <2>5
<1> QED
    BY <1>3, <1>4, MergedContacts

LEMMA AddKeepsContactsUnique ==
    ASSUME TypeOK, ContactsUnique, NEW u \in Users, NEW c \in CustomerIds,
           NEW k \in ContactIds, NEW v \in Values, NEW main \in BOOLEAN,
           AddContact(u, c, k, v, main)
    PROVE  ContactsUnique'
<1>1. /\ contact[k].of = Nobody
      /\ v \notin ActiveValues(c)
      /\ contact'[k] = [of |-> c, value |-> v, main |-> main, active |-> TRUE]
      /\ \A j \in ContactIds \ {k} :
            contact'[j] = IF main /\ j \in ActiveContacts(c)
                          THEN [contact[j] EXCEPT !.main = FALSE] ELSE contact[j]
    BY DEF AddContact, Demoted
<1>2. \A j \in ContactIds \ {k} :
        /\ contact'[j].of = contact[j].of
        /\ contact'[j].active = contact[j].active
        /\ contact'[j].value = contact[j].value
        /\ contact'[j].main => contact[j].main
        /\ main /\ j \in ActiveContacts(c) => ~contact'[j].main
    <2> TAKE j \in ContactIds \ {k}
    <2>1. contact[j] \in ContactRow
        BY DEF TypeOK
    <2>2. CASE main /\ j \in ActiveContacts(c)
        <3>1. contact'[j] = [contact[j] EXCEPT !.main = FALSE]
            BY <1>1, <2>2
        <3> QED
            BY <2>1, <3>1 DEF ContactRow
    <2>3. CASE ~(main /\ j \in ActiveContacts(c))
        <3>1. contact'[j] = contact[j]
            BY <1>1, <2>3
        <3> QED
            BY <2>3, <3>1
    <2> QED
        BY <2>2, <2>3
<1>3. \A d \in CustomerIds : k \notin ActiveContacts(d)
    BY <1>1, NobodyAssumption DEF ActiveContacts
<1>4. /\ ActiveContacts(c)' = ActiveContacts(c) \cup {k}
      /\ \A d \in CustomerIds \ {c} : ActiveContacts(d)' = ActiveContacts(d)
    BY <1>1, <1>2, <1>3 DEF ActiveContacts
<1>5. ASSUME NEW j \in ActiveContacts(c)
      PROVE  contact'[j].value # v /\ ~(contact'[j].main /\ main)
    <2>1. j \in ContactIds \ {k} /\ contact[j].value \in ActiveValues(c)
        BY <1>3 DEF ActiveContacts, ActiveValues
    <2> QED
        BY <1>1, <1>2, <2>1
<1>6. ASSUME NEW d \in CustomerIds, NEW i \in ActiveContacts(d), NEW j \in ActiveContacts(d), i # j
      PROVE  contact'[i].value # contact'[j].value /\ ~(contact'[i].main /\ contact'[j].main)
    <2>1. i \in ContactIds \ {k} /\ j \in ContactIds \ {k}
        BY <1>3 DEF ActiveContacts
    <2>2. contact[i].value # contact[j].value /\ ~(contact[i].main /\ contact[j].main)
        BY <1>6 DEF ContactsUnique
    <2> QED
        BY <1>2, <2>1, <2>2
<1> SUFFICES ASSUME NEW d \in CustomerIds,
                    NEW i \in ActiveContacts(d)', NEW j \in ActiveContacts(d)', i # j
             PROVE  /\ contact'[i].value # contact'[j].value
                    /\ ~(contact'[i].main /\ contact'[j].main)
    BY DEF ContactsUnique
<1>7. CASE d # c
    BY <1>4, <1>6, <1>7
<1>8. CASE d = c
    <2>1. CASE i = k
        BY <1>1, <1>4, <1>5, <1>8, <2>1
    <2>2. CASE j = k
        BY <1>1, <1>4, <1>5, <1>8, <2>2
    <2>3. CASE i # k /\ j # k
        BY <1>4, <1>6, <1>8, <2>3
    <2> QED
        BY <2>1, <2>2, <2>3
<1> QED
    BY <1>7, <1>8

LEMMA CreateKeepsContactsUnique ==
    ASSUME TypeOK, ContactsUnique, NEW c \in CustomerIds, NEW k \in ContactIds, NEW v \in Values,
           CreateCustomerWithContact(c, k, v),
           \A j \in ContactIds : contact[j].of # c
    PROVE  ContactsUnique'
<1>1. /\ contact[k].of = Nobody
      /\ contact'[k].of = c
      /\ \A j \in ContactIds \ {k} : contact'[j] = contact[j]
    BY DEF CreateCustomerWithContact, TypeOK
<1>2. ActiveContacts(c)' \subseteq {k}
    BY <1>1 DEF ActiveContacts
<1>3. \A d \in CustomerIds \ {c} :
        /\ ActiveContacts(d)' = ActiveContacts(d)
        /\ \A j \in ActiveContacts(d) : contact'[j] = contact[j]
    BY <1>1, NobodyAssumption DEF ActiveContacts
<1> SUFFICES ASSUME NEW d \in CustomerIds,
                    NEW i \in ActiveContacts(d)', NEW j \in ActiveContacts(d)', i # j
             PROVE  /\ contact'[i].value # contact'[j].value
                    /\ ~(contact'[i].main /\ contact'[j].main)
    BY DEF ContactsUnique
<1>4. d # c
    BY <1>2
<1> QED
    BY <1>3, <1>4 DEF ContactsUnique

\* Contacts and pages are of customers there are.
OwnersExist ==
    /\ \A k \in ContactIds : contact[k].of # Nobody => customer[contact[k].of].st # "none"
    /\ \A u \in Users : page[u].at # Nobody => customer[page[u].at].st # "none"

\* No customer is ever deleted.
LEMMA CustomersStay ==
    ASSUME TypeOK, [Next]_vars
    PROVE  \A c \in CustomerIds : customer[c].st # "none" => customer'[c].st # "none"
<1>1. CASE Creation
    <2>1. ASSUME NEW d \in CustomerIds, customer' = [customer EXCEPT ![d] = Created]
          PROVE  \A c \in CustomerIds : customer[c].st # "none" => customer'[c].st # "none"
        BY <2>1 DEF TypeOK, Created, NoCustomer
    <2> QED
        BY <1>1, <2>1 DEF Creation, CreateCustomer, CreateCustomerWithContact
<1>2. ASSUME NEW u \in Users, UserStep(u)
      PROVE  \A c \in CustomerIds : customer[c].st # "none" => customer'[c].st # "none"
    BY <1>2, StatusAssumption
       DEF UserStep, Leave, ReadCustomer, LookForContact, UpdateCustomer, SetCustomerStatus,
           AddContact, AddAddress, AddNote, rows, TypeOK, CustomerRow, Status
<1>3. CASE \E n \in NoteIds : RemoveNote(n)
    BY <1>3 DEF RemoveNote
<1>4. CASE \E s, t \in CustomerIds : MergeCustomers(s, t)
    BY <1>4 DEF MergeCustomers, TypeOK, CustomerRow
<1>5. CASE UNCHANGED vars
    BY <1>5 DEF vars, rows
<1> QED
    BY <1>1, <1>2, <1>3, <1>4, <1>5 DEF Next

\* A page is of a customer there is, or of one it held before.
LEMMA PagesExist ==
    ASSUME TypeOK, OwnersExist, [Next]_vars, NEW w \in Users, page'[w].at # Nobody
    PROVE  customer'[page'[w].at].st # "none"
<1>0. CASE page'[w].at = page[w].at
    <2>1. page[w].at \in CustomerIds
        BY <1>0 DEF TypeOK, Page
    <2> QED
        BY <1>0, <2>1, CustomersStay DEF OwnersExist
<1>1. CASE page' = page
    BY <1>0, <1>1
<1>2. ASSUME NEW u \in Users, UserStep(u)
      PROVE  customer'[page'[w].at].st # "none"
    <2>1. CASE \E c \in CustomerIds : ReadCustomer(u, c)
        <3>1. PICK c \in CustomerIds : ReadCustomer(u, c)
            BY <2>1
        <3>2. w # u => page'[w] = page[w]
            BY <3>1 DEF ReadCustomer, TypeOK
        <3>3. w = u => page'[w].at = c /\ customer[c].st # "none"
            BY <3>1 DEF ReadCustomer, Unmerged, TypeOK
        <3> QED
            BY <1>0, <3>2, <3>3, CustomersStay
    <2>2. CASE \E c \in CustomerIds, v \in Values : LookForContact(u, c, v)
        <3>1. page'[w].at = page[w].at
            BY <2>2 DEF LookForContact, TypeOK, Page
        <3> QED
            BY <1>0, <3>1
    <2>3. CASE page' = [page EXCEPT ![u] = NoPage]
        <3>1. page'[w] = page[w]
            BY <2>3 DEF TypeOK, NoPage
        <3> QED
            BY <1>0, <3>1
    <2> QED
        BY <1>2, <2>1, <2>2, <2>3
           DEF UserStep, Leave, Commands, UpdateCustomer, SetCustomerStatus, AddContact,
               AddAddress, AddNote
<1> QED
    BY <1>1, <1>2
       DEF Next, Creation, CreateCustomer, CreateCustomerWithContact, RemoveNote,
           MergeCustomers, vars

LEMMA OwnersStep ==
    ASSUME TypeOK, OwnersExist, [Next]_vars
    PROVE  OwnersExist'
<1> SUFFICES ASSUME NEW k \in ContactIds, contact'[k].of # Nobody
             PROVE  customer'[contact'[k].of].st # "none"
    BY PagesExist DEF OwnersExist
<1>1. CASE contact'[k].of = contact[k].of
    <2>1. contact[k].of \in CustomerIds
        BY <1>1 DEF TypeOK, ContactRow
    <2> QED
        BY <1>1, <2>1, CustomersStay DEF OwnersExist
<1>2. ASSUME NEW s \in CustomerIds, NEW t \in CustomerIds, MergeCustomers(s, t)
      PROVE  customer'[contact'[k].of].st # "none"
    <2>1. customer'[t].st # "none"
        BY <1>2, CustomersStay DEF MergeCustomers, Mergeable, Unmerged
    <2>2. contact'[k].of \in {contact[k].of, t}
        BY <1>2 DEF MergeCustomers, MergedContact, TypeOK, ContactRow
    <2> QED
        BY <1>1, <2>1, <2>2
<1>3. ASSUME NEW u \in Users, NEW c \in CustomerIds, NEW j \in ContactIds, NEW v \in Values,
             NEW main \in BOOLEAN, AddContact(u, c, j, v, main)
      PROVE  customer'[contact'[k].of].st # "none"
    <2>1. customer'[c].st # "none"
        BY <1>3, CustomersStay, NobodyAssumption DEF AddContact, Commands, OwnersExist
    <2>2. contact'[k].of \in {contact[k].of, c}
        BY <1>3 DEF AddContact, Demoted, TypeOK, ContactRow
    <2> QED
        BY <1>1, <2>1, <2>2
<1>4. ASSUME NEW c \in CustomerIds, NEW j \in ContactIds, NEW v \in Values,
             CreateCustomerWithContact(c, j, v)
      PROVE  customer'[contact'[k].of].st # "none"
    <2>1. customer'[c].st # "none"
        BY <1>4 DEF CreateCustomerWithContact, Created, TypeOK
    <2>2. contact'[k].of \in {contact[k].of, c}
        BY <1>4 DEF CreateCustomerWithContact, TypeOK
    <2> QED
        BY <1>1, <2>1, <2>2
<1> QED
    BY <1>1, <1>2, <1>3, <1>4, ContactSteps

LEMMA ContactsUniqueStep ==
    ASSUME TypeOK, OwnersExist, ContactsUnique, [Next]_vars
    PROVE  ContactsUnique'
<1>1. CASE contact' = contact
    BY <1>1 DEF ContactsUnique, ActiveContacts
<1>2. ASSUME NEW c \in CustomerIds, NEW k \in ContactIds, NEW v \in Values,
             CreateCustomerWithContact(c, k, v)
      PROVE  ContactsUnique'
    <2>1. \A j \in ContactIds : contact[j].of # c
        BY <1>2, NobodyAssumption DEF CreateCustomerWithContact, OwnersExist
    <2> QED
        BY <1>2, <2>1, CreateKeepsContactsUnique
<1> QED
    BY <1>1, <1>2, ContactSteps, MergeKeepsContactsUnique, AddKeepsContactsUnique

LEMMA AddressesUniqueStep ==
    ASSUME TypeOK, AddressesUnique, [Next]_vars
    PROVE  AddressesUnique'
<1>1. CASE address' = address
    BY <1>1 DEF AddressesUnique
<1>2. ASSUME NEW s \in CustomerIds, NEW t \in CustomerIds, MergeCustomers(s, t)
      PROVE  AddressesUnique'
    <2>1. \A a \in AddressIds : address'[a] = MergedAddress(a, s, t)
        BY <1>2 DEF MergeCustomers
    <2>2. ASSUME NEW a \in AddressIds, address'[a].main
          PROVE  /\ address[a].main
                 /\ address'[a].of = IF address[a].of = s THEN t ELSE address[a].of
                 /\ address[a].of = s => ~HasMainAddress(t)
        <3>1. CASE address[a].of = s
            <4>1. address'[a] = [of |-> t, main |-> address[a].main /\ ~HasMainAddress(t)]
                BY <2>1, <3>1 DEF MergedAddress
            <4>2. address'[a].main = (address[a].main /\ ~HasMainAddress(t)) /\ address'[a].of = t
                BY <4>1
            <4> QED
                BY <2>2, <3>1, <4>2
        <3>2. CASE address[a].of # s
            BY <2>1, <2>2, <3>2 DEF MergedAddress
        <3> QED
            BY <3>1, <3>2
    <2> SUFFICES ASSUME NEW a \in AddressIds, NEW b \in AddressIds,
                        address'[a].of = address'[b].of, address'[a].main, address'[b].main
                 PROVE  a = b
        BY DEF AddressesUnique
    <2>3. address[a].of = t => HasMainAddress(t)
        BY <2>2 DEF HasMainAddress
    <2>4. address[b].of = t => HasMainAddress(t)
        BY <2>2 DEF HasMainAddress
    <2>5. address[a].of = address[b].of
        BY <2>2, <2>3, <2>4
    <2> QED
        BY <2>2, <2>5 DEF AddressesUnique
<1>3. ASSUME NEW u \in Users, NEW c \in CustomerIds, NEW d \in AddressIds, NEW main \in BOOLEAN,
             AddAddress(u, c, d, main)
      PROVE  AddressesUnique'
    <2>1. /\ address'[d] = [of |-> c, main |-> main]
          /\ \A a \in AddressIds \ {d} :
                address'[a] = IF main /\ address[a].of = c THEN [address[a] EXCEPT !.main = FALSE]
                              ELSE address[a]
        BY <1>3 DEF AddAddress
    <2>2. \A a \in AddressIds \ {d} :
            /\ address'[a].of = address[a].of
            /\ address'[a].main => address[a].main /\ ~(main /\ address[a].of = c)
        BY <2>1 DEF TypeOK, AddressRow
    <2> SUFFICES ASSUME NEW a \in AddressIds, NEW b \in AddressIds,
                        address'[a].of = address'[b].of, address'[a].main, address'[b].main
                 PROVE  a = b
        BY DEF AddressesUnique
    <2>3. CASE a # d /\ b # d
        BY <2>2, <2>3 DEF AddressesUnique
    <2>4. CASE a = d \/ b = d
        BY <2>1, <2>2, <2>4
    <2> QED
        BY <2>3, <2>4
<1> QED
    BY <1>1, <1>2, <1>3, AddressSteps

\* No sequence of merges, new contacts and new addresses leaves a customer, merged or not,
\* with two primary contacts, two active contacts of one value or two default addresses.
THEOREM RowsStayUniqueHolds == Spec => []RowsStayUnique
<1> DEFINE Unique == TypeOK /\ OwnersExist /\ ContactsUnique /\ AddressesUnique
<1>1. Init => Unique
    <2>1. Init => OwnersExist
        BY DEF Init, OwnersExist, NoContact, NoPage
    <2> QED
        BY <2>1, TypeInitially, UniqueInitially
<1>2. Unique /\ [Next]_vars => Unique'
    BY TypeStep, OwnersStep, ContactsUniqueStep, AddressesUniqueStep
<1>3. Unique => RowsStayUnique
    BY DEF RowsStayUnique, ContactsUnique, AddressesUnique
<1> QED
    BY <1>1, <1>2, <1>3, PTL DEF Spec

(***************************************************************************)
(* What merges do                                                          *)
(***************************************************************************)

LEMMA MergeKeepsValues ==
    ASSUME TypeOK, NEW s \in CustomerIds, NEW t \in CustomerIds, MergeCustomers(s, t)
    PROVE  ActiveValues(t)' = ActiveValues(s) \cup ActiveValues(t)
<1>1. s # t
    BY DEF MergeCustomers, Mergeable
<1>2. ActiveValues(t)' = {contact'[k].value : k \in ActiveContacts(t)'}
    BY DEF ActiveValues
<1>3. \A k \in ContactIds : contact'[k].value = contact[k].value
    BY MergedContacts
<1>4. ActiveContacts(t)' = ActiveContacts(t) \cup {k \in ActiveContacts(s) : ~Duplicate(k, t)}
    BY MergedContacts
<1>5. /\ ActiveContacts(s) \subseteq ContactIds
      /\ ActiveContacts(t) \subseteq ContactIds
    BY DEF ActiveContacts
<1>6. \A k \in ActiveContacts(s) : Duplicate(k, t) => contact[k].value \in ActiveValues(t)
    BY DEF Duplicate
<1>7. ActiveValues(t)' \subseteq ActiveValues(s) \cup ActiveValues(t)
    BY <1>2, <1>3, <1>4, <1>5 DEF ActiveValues
<1>8. ActiveValues(t) \subseteq ActiveValues(t)'
    BY <1>2, <1>3, <1>4, <1>5 DEF ActiveValues
<1>9. ASSUME NEW k \in ActiveContacts(s)
      PROVE  contact[k].value \in ActiveValues(t)'
    <2>1. CASE Duplicate(k, t)
        BY <1>6, <1>8, <2>1
    <2>2. CASE ~Duplicate(k, t)
        BY <1>2, <1>3, <1>4, <1>5, <2>2
    <2> QED
        BY <2>1, <2>2
<1> QED
    BY <1>7, <1>8, <1>9 DEF ActiveValues

\* Whatever the two customers had, the target of a merge has it afterwards, and nothing
\* active stays at the source.
THEOREM MergeKeepsAllHolds == Spec => MergeKeepsAll
<1> DEFINE Keeps == \A s, t \in CustomerIds : customer[s].into = Nobody /\ customer'[s].into = t =>
        /\ ActiveValues(t)' = ActiveValues(s) \cup ActiveValues(t)
        /\ ActiveContacts(s)' = {}
        /\ \A a \in AddressIds : address[a].of \in {s, t} => address'[a].of = t
        /\ \A n \in NoteIds : note[n].of \in {s, t} => note'[n].of = t
<1>1. TypeOK /\ [Next]_vars => Keeps
    <2> SUFFICES ASSUME TypeOK, [Next]_vars, NEW s \in CustomerIds, NEW t \in CustomerIds,
                        customer[s].into = Nobody, customer'[s].into = t
                 PROVE  /\ ActiveValues(t)' = ActiveValues(s) \cup ActiveValues(t)
                        /\ ActiveContacts(s)' = {}
                        /\ \A a \in AddressIds : address[a].of \in {s, t} => address'[a].of = t
                        /\ \A n \in NoteIds : note[n].of \in {s, t} => note'[n].of = t
        OBVIOUS
    <2>1. PICK q \in CustomerIds, r \in CustomerIds : MergeCustomers(q, r)
        BY OnlyMergesLead, NobodyAssumption
    <2>2. q = s /\ r = t
        BY <2>1, NobodyAssumption DEF MergeCustomers, TypeOK, CustomerRow
    <2>3. MergeCustomers(s, t)
        BY <2>1, <2>2
    <2>4. \A a \in AddressIds : address[a].of \in {s, t} => address'[a].of = t
        BY <2>3 DEF MergeCustomers, MergedAddress
    <2>5. \A n \in NoteIds : note[n].of \in {s, t} => note'[n].of = t
        BY <2>3 DEF MergeCustomers, TypeOK, NoteRow
    <2> QED
        BY <2>3, <2>4, <2>5, MergedContacts, MergeKeepsValues
<1> HIDE DEF Keeps
<1>2. Spec => [][Keeps]_vars
    BY <1>1, TypeCorrect, PTL DEF Spec
<1> QED
    BY <1>2 DEF Keeps, MergeKeepsAll

(***************************************************************************)
(* What is written to a merged customer                                    *)
(***************************************************************************)
SameRows(c) ==
    /\ customer'[c] = customer[c]
    /\ ActiveContacts(c)' = ActiveContacts(c)
    /\ {a \in AddressIds : address'[a].of = c} = {a \in AddressIds : address[a].of = c}
    /\ {n \in NoteIds : note'[n].of = c} = {n \in NoteIds : note[n].of = c}

LEMMA PagesUnmergedStep ==
    ASSUME TypeOK, PagesUnmerged, [Next]_vars
    PROVE  PagesUnmerged'
<1>1. ASSUME NEW u \in Users, UserStep(u)
      PROVE  PagesUnmerged'
    <2>1. CASE \E c \in CustomerIds : ReadCustomer(u, c)
        BY <2>1 DEF ReadCustomer, Unmerged, PagesUnmerged, TypeOK
    <2>2. CASE page' = [page EXCEPT ![u] = NoPage]
        BY <2>2 DEF PagesUnmerged, NoPage, NoCustomer, TypeOK
    <2>3. CASE \E c \in CustomerIds, v \in Values : LookForContact(u, c, v)
        BY <2>3 DEF LookForContact, PagesUnmerged, TypeOK, Page
    <2> QED
        BY <1>1, <2>1, <2>2, <2>3
           DEF UserStep, Leave, Commands, UpdateCustomer, SetCustomerStatus, AddContact,
               AddAddress, AddNote
<1> QED
    BY <1>1
       DEF Next, Creation, CreateCustomer, CreateCustomerWithContact, RemoveNote,
           MergeCustomers, PagesUnmerged, vars

LEMMA OthersKeepRows ==
    ASSUME TypeOK, NEW u \in Users, UserStep(u), NEW c \in CustomerIds, page[u].at # c
    PROVE  SameRows(c)
<1>1. CASE UNCHANGED rows
    BY <1>1 DEF SameRows, ActiveContacts, rows
<1>2. ASSUME NEW d \in CustomerIds, Commands(u, d, Nobody),
             \/ \E p \in Profiles : UpdateCustomer(u, d, p)
             \/ \E st \in Statuses : SetCustomerStatus(u, d, st)
      PROVE  SameRows(c)
    <2>1. d # c /\ customer'[c] = customer[c] /\ UNCHANGED <<contact, address, note>>
        BY <1>2 DEF Commands, UpdateCustomer, SetCustomerStatus, TypeOK
    <2> QED
        BY <2>1 DEF SameRows, ActiveContacts
<1>3. ASSUME NEW d \in CustomerIds, NEW k \in ContactIds, NEW v \in Values, NEW main \in BOOLEAN,
             AddContact(u, d, k, v, main)
      PROVE  SameRows(c)
    <2>1. d # c /\ contact[k].of # c /\ contact'[k].of = d /\ UNCHANGED <<customer, address, note>>
        BY <1>3, NobodyAssumption DEF AddContact, Commands, Demoted
    <2>2. \A j \in ContactIds \ {k} :
            contact'[j].of = contact[j].of /\ contact'[j].active = contact[j].active
        BY <1>3 DEF AddContact, Demoted, TypeOK, ContactRow
    <2> QED
        BY <2>1, <2>2 DEF SameRows, ActiveContacts
<1>4. ASSUME NEW d \in CustomerIds, NEW b \in AddressIds, NEW main \in BOOLEAN,
             AddAddress(u, d, b, main)
      PROVE  SameRows(c)
    <2>1. d # c /\ address[b].of # c /\ address'[b].of = d /\ UNCHANGED <<customer, contact, note>>
        BY <1>4, NobodyAssumption DEF AddAddress, Commands
    <2>2. \A a \in AddressIds \ {b} : address'[a].of = address[a].of
        BY <1>4 DEF AddAddress, TypeOK, AddressRow
    <2> QED
        BY <2>1, <2>2 DEF SameRows, ActiveContacts
<1>5. ASSUME NEW d \in CustomerIds, NEW n \in NoteIds, AddNote(u, d, n)
      PROVE  SameRows(c)
    <2>1. d # c /\ note[n].of # c /\ note'[n].of = d /\ UNCHANGED <<customer, contact, address>>
        BY <1>5, NobodyAssumption DEF AddNote, Commands, TypeOK
    <2>2. \A o \in NoteIds \ {n} : note'[o] = note[o]
        BY <1>5 DEF AddNote, TypeOK
    <2> QED
        BY <2>1, <2>2 DEF SameRows, ActiveContacts
<1> QED
    BY <1>1, <1>2, <1>3, <1>4, <1>5
       DEF UserStep, Leave, ReadCustomer, LookForContact, UpdateCustomer, SetCustomerStatus

LEMMA OtherStepsKeepMergedRows ==
    ASSUME TypeOK, [Next]_vars, NEW c \in CustomerIds, customer[c].into # Nobody,
           ~\E u \in Users : UserStep(u)
    PROVE  SameRows(c)
<1>1. customer[c].st # "none"
    BY DEF TypeOK
<1>2. ASSUME NEW s \in CustomerIds, NEW t \in CustomerIds, MergeCustomers(s, t)
      PROVE  SameRows(c)
    <2>1. c # s /\ c # t
        BY <1>2 DEF MergeCustomers, Mergeable, Unmerged
    <2>2. customer'[c] = customer[c] /\ ActiveContacts(c)' = ActiveContacts(c)
        <3>1. customer'[c] = customer[c]
            BY <1>2, <2>1 DEF MergeCustomers, TypeOK
        <3>2. ActiveContacts(c)' = ActiveContacts(c)
            BY <1>2, <2>1, MergedContacts
        <3> QED
            BY <3>1, <3>2
    <2>3. \A a \in AddressIds : address'[a].of = c <=> address[a].of = c
        BY <1>2, <2>1 DEF MergeCustomers, MergedAddress
    <2>4. \A n \in NoteIds : note'[n].of = c <=> note[n].of = c
        BY <1>2, <2>1 DEF MergeCustomers, TypeOK, NoteRow
    <2> QED
        BY <2>2, <2>3, <2>4 DEF SameRows
<1>3. CASE Creation
    <2>1. ASSUME NEW d \in CustomerIds, customer[d].st = "none",
                 customer' = [customer EXCEPT ![d] = Created]
          PROVE  d # c /\ customer'[c] = customer[c]
        BY <1>1, <2>1 DEF TypeOK
    <2>2. ASSUME NEW d \in CustomerIds, CreateCustomer(d)
          PROVE  SameRows(c)
        BY <2>1, <2>2 DEF CreateCustomer, SameRows, ActiveContacts
    <2>3. ASSUME NEW d \in CustomerIds, NEW k \in ContactIds, NEW v \in Values,
                 CreateCustomerWithContact(d, k, v)
          PROVE  SameRows(c)
        <3>1. d # c /\ customer'[c] = customer[c] /\ UNCHANGED <<address, note>>
            BY <2>1, <2>3 DEF CreateCustomerWithContact
        <3>2. contact[k].of = Nobody /\ contact'[k].of = d
            BY <2>3 DEF CreateCustomerWithContact, TypeOK
        <3>3. \A j \in ContactIds \ {k} : contact'[j] = contact[j]
            BY <2>3 DEF CreateCustomerWithContact, TypeOK
        <3>4. ActiveContacts(c)' = ActiveContacts(c)
            BY <3>1, <3>2, <3>3, NobodyAssumption DEF ActiveContacts
        <3> QED
            BY <3>1, <3>4 DEF SameRows
    <2> QED
        BY <1>3, <2>2, <2>3 DEF Creation
<1>4. ASSUME NEW n \in NoteIds, RemoveNote(n)
      PROVE  SameRows(c)
    <2>1. \A o \in NoteIds : note'[o].of = note[o].of
        BY <1>4 DEF RemoveNote, TypeOK, NoteRow
    <2> QED
        BY <1>4, <2>1 DEF RemoveNote, SameRows, ActiveContacts
<1>5. CASE UNCHANGED vars
    BY <1>5 DEF vars, rows, SameRows, ActiveContacts
<1> QED
    BY <1>2, <1>3, <1>4, <1>5 DEF Next

\* Only a request that read the customer before its merge can still write to it, so that
\* the check of the copy leaves no other way to touch a merged customer.
THEOREM MergedLeftAloneHolds == Spec => MergedLeftAlone
<1> DEFINE Alone == \A c \in CustomerIds : customer[c].into # Nobody =>
        \/ /\ customer'[c] = customer[c]
           /\ ActiveContacts(c)' = ActiveContacts(c)
           /\ {a \in AddressIds : address'[a].of = c} = {a \in AddressIds : address[a].of = c}
           /\ {n \in NoteIds : note'[n].of = c} = {n \in NoteIds : note[n].of = c}
        \/ \E u \in Users : page[u].at = c /\ page[u].row.into = Nobody
<1>1. TypeOK /\ PagesUnmerged /\ [Next]_vars => Alone
    <2> SUFFICES ASSUME TypeOK, PagesUnmerged, [Next]_vars,
                        NEW c \in CustomerIds, customer[c].into # Nobody
                 PROVE  SameRows(c) \/ \E u \in Users : page[u].at = c /\ page[u].row.into = Nobody
        BY DEF SameRows
    <2>1. ASSUME NEW u \in Users, UserStep(u)
          PROVE  SameRows(c) \/ (page[u].at = c /\ page[u].row.into = Nobody)
        BY <2>1, OthersKeepRows DEF PagesUnmerged
    <2> QED
        BY <2>1, OtherStepsKeepMergedRows
<1>2. Init => PagesUnmerged
    BY DEF Init, PagesUnmerged, NoPage, NoCustomer
<1>3. TypeOK /\ PagesUnmerged /\ [Next]_vars => PagesUnmerged'
    BY PagesUnmergedStep
<1> QED
    BY <1>1, <1>2, <1>3, TypeCorrect, PTL DEF Spec, MergedLeftAlone
=============================================================================
