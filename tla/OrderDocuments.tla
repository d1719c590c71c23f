---------------------------- MODULE OrderDocuments ----------------------------
(***************************************************************************)
(* What ERPNext's books say about one store order: the Sales Order, the    *)
(* Sales Invoice and a Payment Entry per captured payment that             *)
(* pushSalesDocument makes and submits, and that cancelOrderDocuments      *)
(* takes out again, with the event rows, the retry job and the lock that   *)
(* gives each order one push at a time.                                    *)
(*                                                                         *)
(* One order and one mapping are enough: no step reads another order's     *)
(* documents, links or rows, and the lock is per order.  Both documents    *)
(* are wanted and the mapping allows creating them.  The customer, the     *)
(* addresses, the lines and the taxes decide nothing here but whether      *)
(* ERPNext accepts a document.  ERPNext answers every read.  What it would *)
(* refuse by its own rules is not refused here, so that KeepsBooks says    *)
(* the code never asks for it.  Giving rows up is OutboundPush's subject:  *)
(* failures are fewer than the attempts a row has.                         *)
(***************************************************************************)
EXTENDS Integers, Sequences, FiniteSets

CONSTANTS
    Payments,       \* the order's payments; captured together they cover its total
    InStep,         \* does a push reach the lock before the next is taken up?
    LostLinks,      \* can a push end between the making, or the deleting, of an
                    \* order or invoice and the writing of its link?
    MaxEvents,      \* bound: events of the order
    MaxFailures,    \* bound: calls to ERPNext refused, or whose answer is lost
    MaxCrashes      \* bound: restarts of the store's process

ASSUME OrderBoundsAreNaturals ==
    MaxEvents \in Nat \ {0} /\ MaxFailures \in Nat /\ MaxCrashes \in Nat
ASSUME OrderSwitchesAreBoolean ==
    {InStep, LostLinks} \subseteq BOOLEAN
ASSUME PaymentsAreNotOrders == Payments \cap {"SO", "SI"} = {}

VARIABLES
    order,   \* the order in the store
    emitted, \* its events, oldest first
    due,     \* events not yet handed to the subscriber
    gates,   \* pushes that have read the order and not reached the lock
    queue,   \* pushes at the lock; the first holds it
    job,     \* how far the push that holds the lock is
    row,     \* per event: its erpnext_sync_event row
    docs,    \* per kind: the documents ERPNext made, oldest first
    links,   \* per kind: the documents erpnext_link knows
    failures, crashes

vars == <<order, emitted, due, gates, queue, job, row, docs, links, failures, crashes>>
store == <<order, emitted, due>>

Kinds == {"SO", "SI"} \cup Payments   \* a payment's kind is its Payment Entry
Events == 1..MaxEvents
EventNames == {"placed", "captured", "refunded", "canceled"}

\* Are payments recorded in ERPNext (erpnext_setting.record_payments), and is
\* this order paid to a gateway or in cash when it is delivered?
Terms == {"unrecorded", "gateway", "cash"}

\* A push carries the payments as they were when the record was read.
Push == [ev: Events, cap: SUBSET Payments, ref: SUBSET Payments]

SyncRow == [st: {"none", "pending", "failed", "success", "skipped"},
            born: 0..MaxEvents, cap: SUBSET Payments, ref: SUBSET Payments]
NoSyncRow == [st |-> "none", born |-> 0, cap |-> {}, ref |-> {}]

Statuses == {"draft", "submitted", "cancelled", "deleted"}
Live(x) == {n \in DOMAIN docs[x] : docs[x][n] \in {"draft", "submitted"}}

Job == [pc: {"idle", "so", "linkSO", "submitSO", "si", "linkSI", "submitSI", "pay",
             "linkPay", "submitPay", "undoPay", "undoSI", "undoSO", "unlink"},
        undo: BOOLEAN,            \* a cancellation's push
        doc: Nat,                 \* the document in hand
        kind: Kinds \cup {"none"},
        pays: SUBSET Payments,    \* payments still to book
        todo: SUBSET (Kinds \X Nat), \* links still to unwind at this stage
        next: {"undoPay", "undoSI", "undoSO"},
        err: BOOLEAN]             \* one of them was refused
Idle == [pc |-> "idle", undo |-> FALSE, doc |-> 0, kind |-> "none", pays |-> {},
         todo |-> {}, next |-> "undoPay", err |-> FALSE]

\* Types; the lock is held by a push in the queue, and a link names a document.
TypeOK ==
    /\ order \in [terms: Terms, canceled: BOOLEAN,
                  captured: SUBSET Payments, refunded: SUBSET Payments]
    /\ order.refunded \subseteq order.captured
    /\ emitted \in Seq(EventNames) /\ Len(emitted) <= MaxEvents
    /\ due \subseteq 1..Len(emitted)
    /\ gates \subseteq Push
    /\ queue \in Seq(Push)
    /\ job \in Job
    /\ job.pc # "idle" => queue # <<>>
    /\ row \in [Events -> SyncRow]
    /\ docs \in [Kinds -> Seq(Statuses)]
    /\ \A x \in Kinds : links[x] \subseteq DOMAIN docs[x]
    /\ failures \in 0..MaxFailures
    /\ crashes \in 0..MaxCrashes

Init ==
    /\ order \in [terms: Terms, canceled: {FALSE}, captured: {{}}, refunded: {{}}]
    /\ emitted = <<"placed">>
    /\ due = {1}
    /\ gates = {}
    /\ queue = <<>>
    /\ job = Idle
    /\ row = [k \in Events |-> NoSyncRow]
    /\ docs = [x \in Kinds |-> <<>>]
    /\ links = [x \in Kinds |-> {}]
    /\ failures = 0 /\ crashes = 0

-----------------------------------------------------------------------------
(* The store *)

Emit(name, change) ==
    /\ Len(emitted) < MaxEvents
    /\ order' = change
    /\ emitted' = Append(emitted, name)
    /\ due' = due \cup {Len(emitted) + 1}
    /\ UNCHANGED <<gates, queue, job, row, docs, links, failures, crashes>>

Capture(p) ==
    /\ ~order.canceled /\ order.refunded = {} /\ p \notin order.captured
    /\ Emit("captured", [order EXCEPT !.captured = @ \cup {p}])

\* A payment is given back in full, or not at all.
Refund(p) ==
    /\ p \in order.captured \ order.refunded
    /\ Emit("refunded", [order EXCEPT !.refunded = @ \cup {p}])

Cancel ==
    /\ ~order.canceled
    /\ Emit("canceled", [order EXCEPT !.canceled = TRUE])

-----------------------------------------------------------------------------
(* On the way to the lock *)

\* The subscriber gets event k and reads the order and its captured payments.
Deliver(k) ==
    /\ k \in due
    /\ InStep => gates = {} /\ \A j \in due : k <= j
    /\ due' = due \ {k}
    /\ gates' = gates \cup {[ev |-> k, cap |-> order.captured, ref |-> order.refunded]}
    /\ UNCHANGED <<order, emitted, queue, job, row, docs, links, failures, crashes>>

Made(k) == row[k].st # "none"

\* The row says pending, and the push stands in line.
Enter(g) ==
    /\ g \in gates
    /\ gates' = gates \ {g}
    /\ row' = [row EXCEPT ![g.ev] =
                  [st |-> "pending", cap |-> g.cap, ref |-> g.ref,
                   born |-> IF Made(g.ev) THEN @.born
                            ELSE 1 + Cardinality({k \in Events : Made(k)})]]
    /\ queue' = Append(queue, g)
    /\ UNCHANGED <<order, emitted, due, job, docs, links, failures, crashes>>

OrderPushes == {"placed", "captured"}

\* orderEventSupersedes
Supersedes(later, earlier) ==
    \/ later = earlier \/ later = "canceled"
    \/ later \in OrderPushes /\ earlier \in OrderPushes

\* Fault: a row is given up for an older one too.
SupersededByAny(k) ==
    \E j \in Events \ {k} : Made(j) /\ Supersedes(emitted[j], emitted[k])

\* supersededByLater
Superseded(k) ==
    \E j \in Events : /\ Made(j) /\ row[j].born > row[k].born
                      /\ Supersedes(emitted[j], emitted[k])

UnderWay(k) == (\E g \in gates : g.ev = k) \/ (\E i \in DOMAIN queue : queue[i].ev = k)

\* The retry job comes to a row whose push is over; no push takes longer than
\* auto_retry_min_interval_minutes.
Retry(k) ==
    /\ row[k].st \in {"failed", "pending"} /\ ~UnderWay(k)
    /\ InStep => gates = {}
    /\ IF Superseded(k)
       THEN row' = [row EXCEPT ![k].st = "skipped"] /\ UNCHANGED gates
       ELSE gates' = gates \cup {[ev |-> k, cap |-> row[k].cap, ref |-> row[k].ref]}
            /\ UNCHANGED row
    /\ UNCHANGED <<order, emitted, due, queue, job, docs, links, failures, crashes>>

-----------------------------------------------------------------------------
(* The push that holds the lock *)

Head1 == queue[1]
Name == emitted[Head1.ev]

\* Fault: the lock is not given on as it was found.
OverHolding(st) ==
    /\ row' = [row EXCEPT ![Head1.ev].st = st]
    /\ queue' = Tail(queue)
    /\ UNCHANGED job

\* The push ends, and the next in line gets the lock.
Over(st) ==
    /\ row' = [row EXCEPT ![Head1.ev].st = st]
    /\ queue' = Tail(queue)
    /\ job' = Idle

Goto(pc) == job' = [job EXCEPT !.pc = pc]
At(pc) == job.pc = pc /\ UNCHANGED <<order, emitted, due, gates, crashes>>
Stays == UNCHANGED <<row, queue>>

\* A call to ERPNext is answered, refused, or done and its answer lost.
Answers == {"ok"} \cup IF failures < MaxFailures THEN {"refused", "lost"} ELSE {}
Call(ans, done) ==
    /\ ans \in Answers
    /\ docs' = IF ans = "refused" THEN docs ELSE done
    /\ failures' = IF ans = "ok" THEN failures ELSE failures + 1
NoCall == UNCHANGED <<docs, failures>>

With(x, n, st) == [docs EXCEPT ![x][n] = st]
New(x) == [docs EXCEPT ![x] = Append(@, "draft")]
LinkOf(x) == IF links[x] = {} THEN {0} ELSE links[x]
StatusOf(x, n) == IF n = 0 THEN "deleted" ELSE docs[x][n]

RecordPayments == order.terms # "unrecorded"
CashOnDelivery == order.terms = "cash"
Paid == job.undo \/ Head1.cap = Payments

\* planOrderAccounting
Plan == IF ~RecordPayments THEN "none"
        ELSE IF CashOnDelivery THEN "submit-order"
        ELSE IF Head1.cap = {} \/ ~Paid THEN "none" ELSE "record-payments"

\* Fault: a paid order is booked first only if it has no document at all.
BookFirstIfBare == RecordPayments /\ Head1.cap # {} /\ links["SO"] = {}

\* bookBeforeCancel
BookFirst ==
    /\ RecordPayments /\ Head1.cap # {}
    /\ \/ links["SO"] = {}
       \/ ~CashOnDelivery /\ (links["SI"] = {} \/ \E p \in Head1.cap : links[p] = {})

\* paymentEntryLinks: by the order's payments, and by what pays its invoice.
EntryLinks ==
    UNION {{<<p, n>> : n \in links[p]} :
              p \in IF links["SI"] = {} THEN Head1.cap ELSE Payments}

Undoing == [Idle EXCEPT !.pc = "undoPay", !.undo = TRUE, !.todo = EntryLinks]

\* refundState
Returned == IF Head1.cap = {} \/ Head1.ref = {} THEN "none"
            ELSE IF Head1.ref = Head1.cap THEN "full" ELSE "partial"

Start ==
    /\ At("idle") /\ queue # <<>>
    /\ CASE Name \in OrderPushes ->
                job' = [Idle EXCEPT !.pc = "so"] /\ Stays
         [] Name = "refunded" /\ (~RecordPayments \/ Returned = "none") -> Over("skipped")
         [] Name = "refunded" /\ RecordPayments /\ Returned = "partial" -> Over("success")
         [] OTHER ->
                /\ job' = IF BookFirst THEN [Idle EXCEPT !.pc = "so", !.undo = TRUE] ELSE Undoing
                /\ Stays
    /\ NoCall /\ UNCHANGED links

\* pushSalesDocument has done what there was to do.
SalesDone == IF job.undo THEN job' = Undoing /\ Stays ELSE Over("success")

AfterSO(n) == job' = [job EXCEPT !.doc = n, !.kind = "SO",
                                 !.pc = IF Plan = "none" THEN "si" ELSE "submitSO"]

\* The Sales Order the link table knows, or a new one.
WriteSO(ans) ==
    /\ At("so") /\ UNCHANGED links
    /\ \E n \in LinkOf("SO") :
          \/ /\ StatusOf("SO", n) \in {"submitted", "cancelled"} /\ ans = "ok"
             /\ AfterSO(n) /\ Stays /\ NoCall
          \/ /\ StatusOf("SO", n) = "draft"
             /\ Call(ans, docs)
             /\ IF ans = "ok" THEN AfterSO(n) /\ Stays ELSE Over("failed")
          \/ /\ StatusOf("SO", n) = "deleted" /\ (ans = "lost" => LostLinks)
             /\ Call(ans, New("SO"))
             /\ IF ans = "ok"
                THEN job' = [job EXCEPT !.pc = "linkSO", !.doc = Len(docs["SO"]) + 1] /\ Stays
                ELSE Over("failed")

Known(x) == links' = [links EXCEPT ![x] = @ \cup {job.doc}]

LinkSO == At("linkSO") /\ Known("SO") /\ AfterSO(job.doc) /\ Stays /\ NoCall

\* submitDocument: a draft is submitted, a submitted document left as it is.
Submitted(x, n) == IF docs[x][n] = "draft" THEN With(x, n, "submitted") ELSE docs

SubmitSO(ans) ==
    /\ At("submitSO") /\ UNCHANGED links
    /\ Call(ans, Submitted("SO", job.doc))
    /\ IF ans # "ok" THEN Over("failed")
       ELSE IF docs["SO"][job.doc] = "cancelled" THEN SalesDone
       ELSE Goto("si") /\ Stays

AfterSI(n) ==
    IF Plan = "record-payments"
    THEN job' = [job EXCEPT !.pc = "submitSI", !.doc = n, !.kind = "SI"] /\ Stays
    ELSE SalesDone

\* The Sales Invoice, once the order is paid in full.  ERPNext takes none for a
\* cancelled order.  Without payments to book, a refusal is only noted.
WriteSI(ans) ==
    /\ At("si") /\ UNCHANGED links
    /\ IF ~Paid THEN ans = "ok" /\ SalesDone /\ NoCall
       ELSE \E n \in LinkOf("SI") :
          \/ /\ StatusOf("SI", n) \in {"submitted", "cancelled"} /\ ans = "ok"
             /\ AfterSI(n) /\ NoCall
          \/ /\ StatusOf("SI", n) = "draft"
             /\ Call(ans, docs)
             /\ IF ans = "ok" THEN AfterSI(n)
                ELSE IF Plan = "record-payments" THEN Over("failed") ELSE SalesDone
          \/ /\ StatusOf("SI", n) = "deleted" /\ (ans = "lost" => LostLinks)
             /\ IF docs["SO"][job.doc] = "cancelled"
                THEN ans = "ok" /\ SalesDone /\ NoCall
                ELSE /\ Call(ans, New("SI"))
                     /\ IF ans = "ok"
                        THEN job' = [job EXCEPT !.pc = "linkSI", !.doc = Len(docs["SI"]) + 1]
                             /\ Stays
                        ELSE IF Plan = "record-payments" THEN Over("failed") ELSE SalesDone

LinkSI == At("linkSI") /\ Known("SI") /\ AfterSI(job.doc) /\ NoCall

SubmitSI(ans) ==
    /\ At("submitSI") /\ UNCHANGED links
    /\ Call(ans, Submitted("SI", job.doc))
    /\ IF ans # "ok" THEN Over("failed")
       ELSE IF docs["SI"][job.doc] = "cancelled" THEN SalesDone
       ELSE job' = [job EXCEPT !.pc = "pay", !.pays = Head1.cap] /\ Stays

\* Fault: an entry no link knows is not looked for.
NoneByReference(p) == {}

\* findPaymentEntry
ByReference(p) == Live(p)

\* bookPayment, up to the entry's name.
BookPayment(p, ans) ==
    /\ At("pay") /\ p \in job.pays
    /\ \E n \in LinkOf(p) :
          \/ /\ StatusOf(p, n) = "cancelled" /\ ans = "ok"
             /\ job' = [job EXCEPT !.pays = @ \ {p}]
             /\ Stays /\ NoCall /\ UNCHANGED links
          \/ /\ StatusOf(p, n) \in {"draft", "submitted"} /\ ans = "ok"
             /\ job' = [job EXCEPT !.pc = "submitPay", !.kind = p, !.doc = n]
             /\ Stays /\ NoCall /\ UNCHANGED links
          \/ /\ StatusOf(p, n) = "deleted"
             /\ links' = [links EXCEPT ![p] = @ \ {n}]
             /\ IF ByReference(p) # {}
                THEN /\ ans = "ok" /\ Stays /\ NoCall
                     /\ \E m \in ByReference(p) :
                           job' = [job EXCEPT !.pc = "linkPay", !.kind = p, !.doc = m]
                ELSE /\ Call(ans, New(p))
                     /\ IF ans = "ok"
                        THEN job' = [job EXCEPT !.pc = "linkPay", !.kind = p,
                                                !.doc = Len(docs[p]) + 1] /\ Stays
                        ELSE Over("failed")

LinkPayment == At("linkPay") /\ Known(job.kind) /\ Goto("submitPay") /\ Stays /\ NoCall

SubmitPayment(ans) ==
    /\ At("submitPay") /\ UNCHANGED links
    /\ Call(ans, Submitted(job.kind, job.doc))
    /\ IF ans = "ok" THEN job' = [job EXCEPT !.pc = "pay", !.pays = @ \ {job.kind}] /\ Stays
                     ELSE Over("failed")

AllBooked == At("pay") /\ job.pays = {} /\ SalesDone /\ NoCall /\ UNCHANGED links

-----------------------------------------------------------------------------
(* Cancelling: CANCEL_ORDER, cancelOrderDocuments, unwindDocument *)

Stages == {"undoPay", "undoSI", "undoSO"}

\* A draft is deleted, a submitted document cancelled.
Unwound(x, n) ==
    CASE docs[x][n] = "draft" -> With(x, n, "deleted")
      [] docs[x][n] = "submitted" -> With(x, n, "cancelled")
      [] OTHER -> docs

Unwind(l, ans) ==
    /\ job.pc \in Stages /\ At(job.pc) /\ l \in job.todo /\ UNCHANGED links
    /\ (ans = "lost" /\ l[1] \notin Payments /\ docs[l[1]][l[2]] = "draft") => LostLinks
    /\ Call(ans, Unwound(l[1], l[2])) /\ Stays
    /\ job' = IF ans = "ok" /\ docs[l[1]][l[2]] = "draft"
              THEN [job EXCEPT !.todo = @ \ {l}, !.pc = "unlink", !.next = job.pc,
                               !.kind = l[1], !.doc = l[2]]
              ELSE [job EXCEPT !.todo = @ \ {l}, !.err = @ \/ ans # "ok"]

\* The link of a deleted draft goes.
Unlink ==
    /\ At("unlink") /\ Goto(job.next) /\ Stays /\ NoCall
    /\ links' = [links EXCEPT ![job.kind] = @ \ {job.doc}]

\* Fault: the order first, then its invoice, then its entries.
OrderFirst(stage) == CASE stage = "undoPay" -> "SO" [] stage = "undoSI" -> "SI" [] OTHER -> "done"

\* What is unwound after a stage: the invoice, then the order.
NextKind(stage) == CASE stage = "undoPay" -> "SI" [] stage = "undoSI" -> "SO" [] OTHER -> "done"

\* Fault: a refused step does not stop the ones after it.
NotRefused == TRUE
NoneRefused == ~job.err

NextStage ==
    /\ job.pc \in Stages /\ At(job.pc) /\ job.todo = {} /\ NoCall /\ UNCHANGED links
    /\ IF ~NoneRefused THEN Over("failed")
       ELSE IF NextKind(job.pc) = "done" THEN Over("success")
       ELSE /\ Stays
            /\ \E n \in LinkOf(NextKind(job.pc)) :
                  job' = [job EXCEPT !.pc = IF job.pc = "undoPay" THEN "undoSI" ELSE "undoSO",
                                     !.todo = IF n = 0 THEN {} ELSE {<<NextKind(job.pc), n>>}]

-----------------------------------------------------------------------------
\* An order's or invoice's document has been made or deleted, and its link not.
LinkIsDue == \/ job.pc \in {"linkSO", "linkSI"}
             \/ job.pc = "unlink" /\ job.kind \notin Payments

\* The process dies.  An event bus in memory dies with it.
Crash ==
    /\ crashes < MaxCrashes /\ crashes' = crashes + 1
    /\ LinkIsDue => LostLinks
    /\ gates' = {} /\ queue' = <<>> /\ job' = Idle
    /\ due' \in {due, {}}
    /\ UNCHANGED <<order, emitted, row, docs, links, failures>>

JobStep ==
    \/ Start \/ LinkSO \/ LinkSI \/ LinkPayment \/ AllBooked \/ Unlink \/ NextStage
    \/ \E ans \in Answers :
          \/ WriteSO(ans) \/ SubmitSO(ans) \/ WriteSI(ans) \/ SubmitSI(ans)
          \/ SubmitPayment(ans)
          \/ \E p \in Payments : BookPayment(p, ans)
          \/ \E l \in job.todo : Unwind(l, ans)

Next ==
    \/ \E p \in Payments : Capture(p) \/ Refund(p)
    \/ Cancel
    \/ \E k \in Events : Deliver(k) \/ Retry(k)
    \/ \E g \in gates : Enter(g)
    \/ JobStep
    \/ Crash

Spec == Init /\ [][Next]_vars

\* A push that was taken up runs on and the retry job comes round to every row.
Fairness ==
    /\ WF_vars(\E g \in gates : Enter(g))
    /\ WF_vars(JobStep)
    /\ \A k \in Events : SF_vars(Retry(k))

FairSpec == Spec /\ Fairness

-----------------------------------------------------------------------------
(* Properties *)

Has(x, st) == \E n \in DOMAIN docs[x] : docs[x][n] = st

\* Has a push been told that the order is cancelled, or all its money back?
GivenUp ==
    \E k \in 1..Len(emitted) :
        /\ Made(k)
        /\ \/ emitted[k] = "canceled"
           \/ /\ emitted[k] = "refunded" /\ order.terms = "gateway"
              /\ row[k].cap # {} /\ row[k].ref = row[k].cap

\* Has a push seen the order paid in full?
SeenPaid ==
    \E k \in 1..Len(emitted) :
        Made(k) /\ emitted[k] \in OrderPushes /\ row[k].cap = Payments

\* "Nothing is made twice" (OPERATIONS.md): retries, restarts and pushes that
\* arrive together never leave an order with two live documents of a kind.
NothingMadeTwice == \A x \in Kinds : Cardinality(Live(x)) <= 1

\* A payment is booked against a submitted invoice only, and an invoice stands on a
\* submitted order.
BooksInOrder ==
    /\ \A p \in Payments : Has(p, "submitted") => Has("SI", "submitted")
    /\ Has("SI", "submitted") => Has("SO", "submitted")

\* The one paper of a kind that stands, a cancelled one too.
Standing(papers) == {n \in DOMAIN papers : papers[n] # "deleted"}
PaperOf(papers) ==
    CASE Standing(papers) = {} -> "none"
      [] \E n \in Standing(papers) : Standing(papers) = {n}
           -> papers[CHOOSE n \in Standing(papers) : TRUE]
      [] OTHER -> "several"

Sale == INSTANCE SaleBooks WITH Entries <- Payments,
                                paper <- [x \in Kinds |-> PaperOf(docs[x])]

\* The books stand in the order ERPNext insists on at every step by which
\* pushSalesDocument builds them up and cancelOrderDocuments takes them down, whatever
\* fails, is retried or dies on the way: they behave as SaleBooks says.
KeepsBooks == Sale!BooksSpec

\* bookBeforeCancel: a cancellation that succeeded of an order paid to a gateway
\* has left a cancelled sale in ERPNext, however little had been booked before.
SaleLeavesTrace ==
    \A k \in 1..Len(emitted) :
        /\ emitted[k] = "canceled" /\ row[k].st = "success" /\ row[k].cap # {}
        /\ order.terms = "gateway"
        => Has("SO", "cancelled") /\ Has("SI", "cancelled")

\* Once a push was told the order is over, cancelOrderDocuments and the retry job
\* leave none of its documents standing in the end, whatever failed on the way.
OverIsUnwound == <>[](GivenUp => \A x \in Kinds : Live(x) = {})

\* Once a push has seen an order paid in full, pushSalesDocument and the retry job
\* have everything submitted and booked in the end, unless the order is over.
PaidIsBooked ==
    order.terms = "gateway" =>
        <>[](SeenPaid /\ ~GivenUp => \A x \in Kinds : Has(x, "submitted"))
=============================================================================
