------------------------------ MODULE InvoiceCopies ------------------------------
(***************************************************************************)
(* The customer's copy of one order's Sales Invoice: a row of              *)
(* erpnext_invoice with its status, and ERPNext's PDF in private storage.  *)
(* Three handlers keep it: the webhook of the invoice's submit or cancel,  *)
(* the hourly refresh, and the push that submits or cancels the invoice    *)
(* itself and then marks its row.                                          *)
(*                                                                         *)
(* Customers are sent ERPNext's invoices, and the order of the invoice is  *)
(* known.  In half of the behaviours (inStep) the handlers take turns and  *)
(* the webhook of a cancel comes after that of the submit; in the others   *)
(* they cross.                                                             *)
(***************************************************************************)
EXTENDS Naturals

CONSTANTS
    MaxCopyFaults  \* bound: calls not answered, files lost

ASSUME CopyFaultsAreBounded == MaxCopyFaults \in Nat

VARIABLES
    inStep,   \* do the handlers take turns in this behaviour?
    invoice,  \* the Sales Invoice in ERPNext
    copy,     \* the row: its status, and has its PDF been stored?
    stored,   \* is the file still where the row says?
    news,     \* per webhook of the invoice: its event row
    hearer,   \* the webhook's handler
    hourly,   \* the hourly refresh
    marking,  \* what the push is about to mark the row as
    copyFaults

copyVars == <<inStep, invoice, copy, stored, news, hearer, hourly, marking, copyFaults>>

Events == {"on_submit", "on_cancel"}
NoCopy == [st |-> "none", pdf |-> FALSE]
Waits == [pc |-> "off", with |-> "none"]

CopyTypes ==
    /\ inStep \in BOOLEAN
    /\ invoice \in {"none", "draft", "submitted", "cancelled", "deleted"}
    /\ copy \in [st: {"none", "draft", "submitted", "cancelled", "deleted"}, pdf: BOOLEAN]
    /\ stored \in BOOLEAN /\ marking \in {"nothing", "submitted", "cancelled"}
    /\ news \in [Events -> {"none", "due", "failed", "done", "passed over"}]
    /\ hearer \in [pc: {"off", "save", "fetch"}, with: Events \cup {"none"}]
    /\ hourly \in [pc: {"off", "write", "fetch"},
                   with: {"none", "draft", "submitted", "cancelled", "deleted"}]
    /\ copyFaults \in 0..MaxCopyFaults

CopyInit ==
    /\ inStep \in BOOLEAN
    /\ invoice = "none" /\ copy = NoCopy /\ stored = FALSE
    /\ news = [ev \in Events |-> "none"]
    /\ hearer = Waits /\ hourly = Waits /\ marking = "nothing"
    /\ copyFaults = 0

-----------------------------------------------------------------------------
(* ERPNext and storage *)

\* makeSalesInvoice records the draft it raised; one that staff raise has no row yet.
Raise(st) ==
    /\ invoice = "none" /\ invoice' = "draft"
    /\ st \in {"none", "draft"} /\ copy' = [copy EXCEPT !.st = st]
    /\ UNCHANGED <<inStep, stored, news, hearer, hourly, marking, copyFaults>>

\* Submitted by staff, or by the push of the paid order, which then marks the row.
Submit(byPush) ==
    /\ invoice = "draft" /\ invoice' = "submitted"
    /\ byPush => copy.st # "none"
    /\ marking' = IF byPush THEN "submitted" ELSE "nothing"
    /\ news' = [news EXCEPT !.on_submit = "due"]
    /\ UNCHANGED <<inStep, copy, stored, hearer, hourly, copyFaults>>

\* Cancelled or deleted by staff, or by the push of the cancelled order, which then
\* marks the row of an invoice it cancelled.  (The order's lock lets it do so only when
\* the push before has ended.)
Withdraw(byPush) ==
    /\ byPush => marking = "nothing"
    /\ \/ /\ invoice = "submitted" /\ invoice' = "cancelled"
          /\ news' = [news EXCEPT !.on_cancel = "due"]
          /\ marking' = IF byPush THEN "cancelled" ELSE marking
       \/ /\ invoice = "draft" /\ invoice' = "deleted" /\ UNCHANGED <<news, marking>>
    /\ UNCHANGED <<inStep, copy, stored, hearer, hourly, copyFaults>>

FileLost ==
    /\ copyFaults < MaxCopyFaults /\ copyFaults' = copyFaults + 1
    /\ stored /\ stored' = FALSE
    /\ UNCHANGED <<inStep, invoice, copy, news, hearer, hourly, marking>>

-----------------------------------------------------------------------------
(* fetchInvoicePdf *)

Reply == {TRUE} \cup IF copyFaults < MaxCopyFaults THEN {FALSE} ELSE {}
GotReply(ok) == ok \in Reply /\ copyFaults' = IF ok THEN copyFaults ELSE copyFaults + 1

\* The row, of status st by now, with the PDF if it came.
Fetched(ok, st) ==
    /\ copy' = [st |-> st, pdf |-> copy.pdf \/ ok]
    /\ stored' = (stored \/ ok)

MyTurn == inStep => hearer.pc = "off" /\ hourly.pc = "off" /\ marking = "nothing"

-----------------------------------------------------------------------------
(* The webhook: applySalesInvoiceEvent *)

Has(ev, st) == news' = [news EXCEPT ![ev] = st]

HearInvoice(ev) ==
    /\ hearer.pc = "off" /\ MyTurn /\ news[ev] = "due"
    /\ inStep /\ ev = "on_cancel" => news["on_submit"] # "due"
    /\ hearer' = [pc |-> "save", with |-> ev]
    /\ UNCHANGED <<inStep, invoice, copy, stored, news, hourly, marking, copyFaults>>

\* Fault: the webhook of a cancellation is taken for any other.
StatusAnyway(ev) == "submitted"

\* invoiceStatusOf
StatusOf(ev) == IF ev = "on_cancel" THEN "cancelled" ELSE "submitted"

SaveInvoice ==
    LET ev == hearer.with IN
    /\ hearer.pc = "save"
    /\ copy' = [copy EXCEPT !.st = StatusOf(ev)]
    /\ IF StatusOf(ev) = "submitted" THEN hearer' = [hearer EXCEPT !.pc = "fetch"] /\ UNCHANGED news
       ELSE hearer' = Waits /\ Has(ev, "done")
    /\ UNCHANGED <<inStep, invoice, stored, hourly, marking, copyFaults>>

FetchHeard(ok) ==
    /\ hearer.pc = "fetch" /\ GotReply(ok)
    /\ Fetched(ok, copy.st)
    /\ hearer' = Waits /\ Has(hearer.with, IF ok THEN "done" ELSE "failed")
    /\ UNCHANGED <<inStep, invoice, hourly, marking>>

\* The retry job replays the row as a document of a mapping; none is of this DocType,
\* nothing is done, and the row is a success.
ReplayInvoice(ev) ==
    /\ news[ev] = "failed" /\ Has(ev, "passed over")
    /\ UNCHANGED <<inStep, invoice, copy, stored, hearer, hourly, marking, copyFaults>>

-----------------------------------------------------------------------------
(* The hourly refresh, and the push's own mark *)

\* A row that is not submitted is asked about; a document that is gone is answered.
ReadInvoice(ok) ==
    /\ hourly.pc = "off" /\ MyTurn
    /\ copy.st \notin {"none", "submitted"} /\ GotReply(ok)
    /\ hourly' = IF ok THEN [pc |-> "write", with |-> invoice] ELSE Waits
    /\ UNCHANGED <<inStep, invoice, copy, stored, news, hearer, marking>>

WriteStatus ==
    /\ hourly.pc = "write"
    /\ copy' = [copy EXCEPT !.st = hourly.with]
    /\ hourly' = IF hourly.with = "submitted" THEN [hourly EXCEPT !.pc = "fetch"] ELSE Waits
    /\ UNCHANGED <<inStep, invoice, stored, news, hearer, marking, copyFaults>>

FetchHourly(ok) ==
    /\ hourly.pc = "fetch" /\ GotReply(ok)
    /\ Fetched(ok, copy.st)
    /\ hourly' = Waits
    /\ UNCHANGED <<inStep, invoice, news, hearer, marking>>

\* markInvoiceSubmitted: without its PDF the row stays for the hourly refresh.
Marked(ok) == IF ok THEN "submitted" ELSE copy.st

Marks(st) ==
    /\ marking = st /\ marking' = "nothing"
    /\ inStep => hearer.pc = "off" /\ hourly.pc = "off"
    /\ UNCHANGED <<inStep, invoice, news, hearer, hourly>>

MarkSubmitted(ok) ==
    /\ Marks("submitted")
    /\ IF copy.st = "submitted" THEN ok /\ UNCHANGED <<copy, stored, copyFaults>>
       ELSE GotReply(ok) /\ Fetched(ok, Marked(ok))

\* markInvoiceCancelled, if the invoice has a row.
MarkCancelled ==
    /\ Marks("cancelled")
    /\ copy' = IF copy.st = "none" THEN copy ELSE [copy EXCEPT !.st = "cancelled"]
    /\ UNCHANGED <<stored, copyFaults>>

Offered == copy.st = "submitted" /\ copy.pdf

\* Fault: a file that is gone is not fetched again.
OpensNothing(ok) == Offered /\ ~stored /\ ok /\ UNCHANGED copyVars

\* openInvoice: a file that is gone is fetched again when the customer asks.
OpenInvoice(ok) ==
    /\ Offered /\ ~stored /\ GotReply(ok)
    /\ stored' = ok
    /\ UNCHANGED <<inStep, invoice, copy, news, hearer, hourly, marking>>

-----------------------------------------------------------------------------
HearerStep ==
    \/ \E ev \in Events : HearInvoice(ev) \/ ReplayInvoice(ev)
    \/ SaveInvoice
    \/ \E ok \in Reply : FetchHeard(ok)

HourlyStep == WriteStatus \/ \E ok \in Reply : ReadInvoice(ok) \/ FetchHourly(ok)
MarkStep == MarkCancelled \/ \E ok \in Reply : MarkSubmitted(ok)
OpenStep == \E ok \in Reply : OpenInvoice(ok)

CopyNext ==
    \/ \E st \in {"none", "draft"} : Raise(st)
    \/ \E byPush \in BOOLEAN : Submit(byPush) \/ Withdraw(byPush)
    \/ FileLost
    \/ HearerStep \/ HourlyStep \/ MarkStep \/ OpenStep

CopySpec == CopyInit /\ [][CopyNext]_copyVars

-----------------------------------------------------------------------------
(* Properties *)

AtRest == MyTurn /\ \A ev \in Events : news[ev] # "due"

\* "Cancelling it withdraws the download", and a draft is never offered: with every
\* webhook through, the customer is offered an invoice only while it is submitted.
OfferedIsIssued ==
    /\ Offered => invoice \in {"submitted", "cancelled"}
    /\ inStep /\ AtRest /\ Offered => invoice = "submitted"

\* A submitted invoice is offered in the end and its file is there, whichever of the
\* three handlers came to it first and whatever failed, unless the PDF of its webhook
\* failed and the retry passed that over.
IssuedIsOffered ==
    <>[](invoice = "submitted" => (Offered /\ stored) \/ news["on_submit"] = "passed over")
=============================================================================
