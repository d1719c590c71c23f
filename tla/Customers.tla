-------------------------------- MODULE Customers --------------------------------
(***************************************************************************)
(* One person and the Customers ERPNext has for their email: pushed when   *)
(* the store's customer is saved, by the retry of a failed push, by the    *)
(* hourly recovery and for an order that needs a Customer, each finding    *)
(* the document through its link or, without one, by email; and the one    *)
(* address of their address book with its Address documents.               *)
(*                                                                         *)
(* What the documents say (names, contacts, tax numbers) is left out: a    *)
(* write repeated is a write.  The mapping's trigger is the store's        *)
(* approval of the customer, it may create and update, and it does not     *)
(* skip unchanged payloads (OutboundPush has that gate).  Two events of    *)
(* the person that wait count as one.  A behaviour has an order or an      *)
(* address book: the two meet in the pushes only, and with an address book *)
(* the pushes take turns.                                                  *)
(***************************************************************************)
EXTENDS Integers, Sequences, FiniteSets

CONSTANTS
    CustomerPushers,   \* pushes that can be under way at once
    MaxCustomerFaults  \* bound: refused calls, lost answers, deletions and restarts

ASSUME CustomerFaultsAreBounded == MaxCustomerFaults \in Nat

VARIABLES
    living,       \* the person's Customers in ERPNext: which there still are
    customers,    \* Customers made so far: 1..customers
    custLinks,    \* erpnext_link rows: [doc, who]
    approved,     \* does the customer meet the mapping's trigger?
    address,      \* the address in the store's address book
    addrDocs,     \* its Address documents in ERPNext: is each enabled?
    addrLinks,    \* the Address documents the link table knows
    removal,      \* the announcement of the address's deletion
    saves,        \* is a customer.created or customer.updated waiting?
    failedSave,   \* the push the retry job will repeat, with the addresses it read
    order,        \* an order of the person's: who asks, and the Customer it got
    push,         \* per push: where it is, and what it works with
    custFaults

customerVars == <<living, customers, custLinks, approved, address, addrDocs, addrLinks, removal,
                  saves, failedSave, order, push, custFaults>>
person == <<approved, address, removal>>
addressBook == <<addrDocs, addrLinks>>
documents == <<living, customers, custLinks>>

Askers == {"customer", "guest", "nobody"}
\* blind: it decides on what ERPNext did not say, or no longer says.
NoCustomerPush == [pc |-> "off", for |-> "save", doc |-> 0, listed |-> FALSE, blind |-> FALSE]

CustomerTypes ==
    /\ customers \in Nat /\ living \subseteq 1..customers
    /\ custLinks \subseteq [doc: 1..customers, who: Askers]
    /\ approved \in BOOLEAN
    /\ address \in {"none", "kept", "deleted"}
    /\ addrDocs \in Seq(BOOLEAN) /\ addrLinks \subseteq DOMAIN addrDocs
    /\ removal \in {"none", "due", "done"}
    /\ saves \in BOOLEAN
    /\ failedSave \in {"none", "listed", "bare"}
    /\ order \in [by: Askers, state: {"none", "waits", "has"}, doc: 0..customers]
    /\ push \in [CustomerPushers ->
                    [pc: {"off", "look", "read", "write", "link", "address", "linkAddress"},
                     for: {"save", "order", "orderOnly"}, doc: Nat,
                     listed: BOOLEAN, blind: BOOLEAN]]
    /\ custFaults \in 0..MaxCustomerFaults

CustomersInit ==
    /\ living = {} /\ customers = 0 /\ custLinks = {}
    /\ order \in [by: Askers, state: {"none"}, doc: {0}] \* nobody: there will be no order
    /\ approved = (order.by = "nobody") /\ saves = approved /\ failedSave = "none"
    /\ address = "none" /\ removal = "none" /\ addrDocs = <<>> /\ addrLinks = {}
    /\ push = [w \in CustomerPushers |-> NoCustomerPush]
    /\ custFaults = 0

CustomerReply == {"ok"} \cup IF custFaults < MaxCustomerFaults THEN {"refused", "lost"} ELSE {}
AnsweredBy(ans) ==
    /\ ans \in CustomerReply
    /\ custFaults' = IF ans = "ok" THEN custFaults ELSE custFaults + 1

-----------------------------------------------------------------------------
(* The person, and ERPNext's staff *)

Approve ==
    /\ ~approved /\ approved' = TRUE /\ saves' = TRUE
    /\ UNCHANGED <<address, removal, documents, addressBook, failedSave, order, push, custFaults>>

\* customer-addresses.ts announces a customer whose address book changed.
KeepAddress ==
    /\ order.by = "nobody"
    /\ address = "none" /\ address' = "kept" /\ saves' = TRUE
    /\ UNCHANGED <<approved, removal, documents, addressBook, failedSave, order, push, custFaults>>

DropAddress ==
    /\ address = "kept" /\ address' = "deleted" /\ removal' = "due"
    /\ UNCHANGED <<approved, documents, addressBook, saves, failedSave, order, push, custFaults>>

PlaceOrder ==
    /\ order.by # "nobody"
    /\ order.state = "none" /\ order' = [order EXCEPT !.state = "waits"]
    /\ UNCHANGED <<person, documents, addressBook, saves, failedSave, push, custFaults>>

StaffDelete(d) ==
    /\ custFaults < MaxCustomerFaults /\ custFaults' = custFaults + 1
    /\ d \in living /\ living' = living \ {d}
    /\ UNCHANGED <<customers, custLinks, person, addressBook, saves, failedSave, order, push>>

-----------------------------------------------------------------------------
(* The start of a push *)

\* With an address book, one push at a time.
FreeToPush(w) ==
    /\ push[w].pc = "off"
    /\ order.by = "nobody" => \A v \in CustomerPushers : push[v].pc = "off"

Begins(w, for) ==
    push' = [push EXCEPT ![w] = [NoCustomerPush EXCEPT !.pc = "look", !.for = for,
                                                       !.listed = address = "kept"]]

\* An event's handler reads the record, and its row outranks an older failed one.
\* Before the approval the trigger stops it.
HearSave(w) ==
    /\ FreeToPush(w) /\ saves /\ saves' = FALSE
    /\ IF approved THEN Begins(w, "save") /\ failedSave' = "none"
       ELSE UNCHANGED <<push, failedSave>>
    /\ UNCHANGED <<person, documents, addressBook, order, custFaults>>

\* The retry job repeats the push with the record its row holds.
RetrySave(w) ==
    /\ FreeToPush(w) /\ failedSave # "none" /\ failedSave' = "none"
    /\ push' = [push EXCEPT ![w] = [NoCustomerPush EXCEPT !.pc = "look",
                                                          !.listed = failedSave = "listed"]]
    /\ UNCHANGED <<person, documents, addressBook, saves, order, custFaults>>

\* recoverMissingCustomersOnFrappe: approved, and their email is not in ERPNext.
Recover(w) ==
    /\ FreeToPush(w) /\ approved /\ living = {}
    /\ Begins(w, "save") /\ failedSave' = "none"
    /\ UNCHANGED <<person, documents, addressBook, saves, order, custFaults>>

Known == {l.doc : l \in {k \in custLinks : k.who = "customer"}}
OrderGets(d) == order' = [order EXCEPT !.state = "has", !.doc = d]

\* ensureCustomerForOrder: the link, else the customer's own push, else a Customer
\* made for the order.
StartOrder(w) ==
    /\ FreeToPush(w) /\ order.state = "waits"
    /\ \A v \in CustomerPushers : push[v].for = "save" \* one push of an order at a time
    /\ IF order.by = "customer" /\ Known # {}
       THEN (\E d \in Known : OrderGets(d)) /\ UNCHANGED <<push, failedSave>>
       ELSE /\ IF order.by = "customer" /\ approved
               THEN Begins(w, "order") /\ failedSave' = "none"
               ELSE Begins(w, "orderOnly") /\ UNCHANGED failedSave
            /\ UNCHANGED order
    /\ UNCHANGED <<person, documents, addressBook, saves, custFaults>>

-----------------------------------------------------------------------------
(* pushCustomerDoc, and the same steps for a Customer made for an order *)

Mapped(w) == push[w].for # "orderOnly"
Ends(w) == push' = [push EXCEPT ![w] = NoCustomerPush]
KeepForRetry(w) == failedSave' = IF ~Mapped(w) THEN failedSave
                           ELSE IF push[w].listed THEN "listed" ELSE "bare"
Fails(w) == Ends(w) /\ KeepForRetry(w) /\ UNCHANGED order

\* Fault: without a link, the email is not looked for.
NoOne == {}

\* The Customers a search for the email finds.
FoundByEmail == living

\* The link's document, else the one found by email.  A search ERPNext does not
\* answer counts as one that found nothing.
LookUp(w, ans) ==
    LET linked == IF Mapped(w) THEN Known ELSE {}
        found == IF linked # {} THEN linked ELSE IF ans = "ok" THEN FoundByEmail ELSE {}
    IN
    /\ push[w].pc = "look"
    /\ AnsweredBy(ans)
    /\ IF ~Mapped(w) /\ found # {}
       THEN (\E d \in found : OrderGets(d)) /\ Ends(w)
       ELSE /\ UNCHANGED order
            /\ \E d \in IF found = {} THEN {0} ELSE found :
                  push' = [push EXCEPT ![w].pc = IF d = 0 THEN "write" ELSE "read",
                                       ![w].doc = d, ![w].blind = (found = {} /\ ans # "ok")]
    /\ UNCHANGED <<person, documents, addressBook, saves, failedSave>>

\* Fault: a document that is gone is still taken for the customer's.
KeepsGone(d) == d

\* A document that is gone is as good as none; no search by email follows.
NoneIfGone(d) == IF d \in living THEN d ELSE 0

\* With the document, its primary Contact is brought in line.
ReadCustomer(w, ans) ==
    LET d == IF ans = "ok" THEN NoneIfGone(push[w].doc) ELSE push[w].doc IN
    /\ push[w].pc = "read"
    /\ AnsweredBy(ans)
    /\ push' = [push EXCEPT ![w].pc = "write", ![w].doc = d, ![w].blind = (d = 0)]
    /\ UNCHANGED <<person, documents, addressBook, saves, failedSave, order>>

\* Who is about to write without having seen the Customer just made.
Outdated(w) == {v \in CustomerPushers \ {w} : push[v].pc \in {"read", "write"}}

\* PUT of a document there is, or POST.
WriteCustomer(w, ans) ==
    LET new == push[w].doc = 0
        taken == ans # "refused" /\ (new \/ push[w].doc \in living)
    IN
    /\ push[w].pc = "write"
    /\ AnsweredBy(ans)
    /\ IF taken /\ new THEN customers' = customers + 1 /\ living' = living \cup {customers'}
       ELSE UNCHANGED <<customers, living>>
    /\ push' = [v \in CustomerPushers |->
                  IF v = w
                  THEN IF taken /\ ans = "ok"
                       THEN [push[w] EXCEPT !.pc = "link", !.doc = IF new THEN customers' ELSE @]
                       ELSE NoCustomerPush
                  ELSE [push[v] EXCEPT !.blind = @ \/ (taken /\ new /\ v \in Outdated(w))]]
    /\ IF taken /\ ans = "ok" THEN UNCHANGED failedSave ELSE KeepForRetry(w)
    /\ UNCHANGED <<custLinks, person, addressBook, saves, order>>

\* recordLink: the document's row is made or passed to whom it is for now; another
\* document's row stays.
LinkCustomer(w) ==
    LET who == IF Mapped(w) THEN "customer" ELSE order.by
        d == push[w].doc
    IN
    /\ push[w].pc = "link"
    /\ custLinks' = {l \in custLinks : l.doc # d} \cup {[doc |-> d, who |-> who]}
    /\ IF Mapped(w)
       THEN /\ push' = [push EXCEPT ![w].pc = "address"]
            /\ UNCHANGED order
       ELSE OrderGets(d) /\ Ends(w)
    /\ UNCHANGED <<living, customers, person, addressBook, saves, failedSave, custFaults>>

\* The push is a success, and the order behind it takes the Customer linked now.
Succeeds(w) ==
    /\ Ends(w)
    /\ IF push[w].for = "order" THEN \E d \in Known : OrderGets(d) ELSE UNCHANGED order

\* Fault: a written Address is an enabled one.
Enables(d) == [addrDocs EXCEPT ![d] = TRUE]

\* PUT of an Address says nothing of whether it is enabled.
Rewritten(d) == addrDocs

\* syncAddress: a refusal, or a lost answer, is a note on a push that succeeds.
SyncAddress(w, ans) ==
    /\ push[w].pc = "address"
    /\ AnsweredBy(ans)
    /\ IF ~push[w].listed
       THEN ans = "ok" /\ Succeeds(w) /\ UNCHANGED addrDocs
       ELSE \E d \in IF addrLinks = {} THEN {0} ELSE addrLinks :
              /\ addrDocs' = IF ans = "refused" THEN addrDocs
                             ELSE IF d = 0 THEN Append(addrDocs, TRUE) ELSE Rewritten(d)
              /\ IF ans = "ok"
                 THEN /\ push' = [push EXCEPT ![w].pc = "linkAddress",
                                              ![w].doc = IF d = 0 THEN Len(addrDocs') ELSE d]
                      /\ UNCHANGED order
                 ELSE Succeeds(w)
    /\ UNCHANGED <<person, documents, addrLinks, saves, failedSave>>

LinkAddress(w) ==
    /\ push[w].pc = "linkAddress"
    /\ addrLinks' = addrLinks \cup {push[w].doc}
    /\ Succeeds(w)
    /\ UNCHANGED <<person, documents, addrDocs, saves, failedSave, custFaults>>

\* addressRemoved: the Address is disabled through its link, and the customer pushed;
\* a refusal is only logged.
RetireAddress(ans) ==
    /\ removal = "due" /\ removal' = "done"
    /\ AnsweredBy(ans)
    /\ IF addrLinks = {} \/ ans = "refused" THEN UNCHANGED addrDocs
       ELSE \E d \in addrLinks : addrDocs' = [addrDocs EXCEPT ![d] = FALSE]
    /\ saves' = TRUE
    /\ UNCHANGED <<approved, address, documents, addrLinks, failedSave, order, push>>

\* The process dies: events in memory are lost, and a push leaves a row the retry job
\* takes up.
CustomerCrash ==
    /\ custFaults < MaxCustomerFaults /\ custFaults' = custFaults + 1
    /\ push' = [w \in CustomerPushers |-> NoCustomerPush]
    /\ saves' = FALSE
    /\ removal' = IF removal = "due" THEN "done" ELSE removal
    /\ LET cut == {w \in CustomerPushers : push[w].pc # "off" /\ Mapped(w)} IN
       IF cut = {} THEN UNCHANGED failedSave
       ELSE \E w \in cut : KeepForRetry(w)
    /\ UNCHANGED <<approved, address, documents, addressBook, order>>

-----------------------------------------------------------------------------
CustomerStep(w) ==
    \/ \E ans \in CustomerReply : LookUp(w, ans) \/ ReadCustomer(w, ans) \/ WriteCustomer(w, ans)
    \/ LinkCustomer(w) \/ LinkAddress(w)
    \/ \E ans \in CustomerReply : SyncAddress(w, ans)

CustomersNext ==
    \/ Approve \/ KeepAddress \/ DropAddress \/ PlaceOrder
    \/ \E d \in living : StaffDelete(d)
    \/ \E w \in CustomerPushers :
          HearSave(w) \/ RetrySave(w) \/ Recover(w) \/ StartOrder(w) \/ CustomerStep(w)
    \/ \E ans \in CustomerReply : RetireAddress(ans)
    \/ CustomerCrash

CustomersSpec == CustomersInit /\ [][CustomersNext]_customerVars

-----------------------------------------------------------------------------
(* Properties *)

\* A second Customer for an email ERPNext has one of is never made by a push that
\* took its turn, was answered, and was not led astray by a link to a document that is
\* gone: a lost answer or a restart before the link was recorded makes none.
SecondNeedsReason ==
    [][customers' # customers /\ living # {} =>
          \E w \in CustomerPushers : push[w].pc = "write" /\ push'[w] # push[w] /\ push[w].blind
      ]_customerVars

\* An approved customer has a Customer in the end, whatever was deleted, refused or
\* lost.
ApprovedComeBack == <>[](approved => living # {})

\* An Address disabled when the store's was deleted is not enabled again by a push
\* that had read the address before.
RetiredStaysOff == [][\A d \in DOMAIN addrDocs : ~addrDocs[d] => ~addrDocs'[d]]_customerVars
=============================================================================
