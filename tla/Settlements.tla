------------------------------ MODULE Settlements ------------------------------
(***************************************************************************)
(* One settlement of a payment gateway: the fee as a Purchase Invoice and  *)
(* the payout as a Journal Entry, made, submitted and, when the gateway    *)
(* corrects its statement, written again, under a lock per settlement,     *)
(* with one event row that every emission of the settlement updates.       *)
(*                                                                         *)
(* Booking settlements is on, and gateway, mode of payment, company and    *)
(* bank account are configured; whether ERPNext knows them is part of the  *)
(* checks, which may be refused.  Amounts are whole rupees.  A handler is  *)
(* in line before the next one starts.  Every statement has charges and a  *)
(* payout; the payout's reference may change from one to the next (the UTR *)
(* is told later).  A search that is not answered counts as "nothing       *)
(* found", as in the code.                                                 *)
(***************************************************************************)
EXTENDS Integers, Sequences, FiniteSets

CONSTANTS
    Statements,   \* what the gateway says of the settlement, one after the other
    GstTolerance, \* how far ERPNext's GST may be from the gateway's
    MaxGatewayFaults, \* bound: refused calls, lost answers and restarts
    MaxMeddles    \* bound: documents cancelled or deleted by hand, presses of Replay

ASSUME StatementsAreFigures ==
    /\ Statements \in Seq([gross: Int, refund: Int, fee: Int, tax: Int, adjustment: Int, net: Int,
                            ref: Int])
    /\ GstTolerance \in Nat

ASSUME GatewayTroubleIsBounded == MaxGatewayFaults \in Nat /\ MaxMeddles \in Nat

VARIABLES
    said,     \* statements emitted so far
    heard,    \* statements the subscriber has still to take up
    gateRow,  \* the settlement's event row: its status and the statement in it
    line,     \* statements being booked; the first holds the lock
    clerk,    \* how far the first of them is
    books,    \* per kind: its documents, oldest first
    bookLinks,\* per kind: the documents erpnext_link knows
    gstOff,   \* by how much ERPNext's GST on the fee differs from the gateway's
    missed,   \* history: kinds of which a paper stood that a search did not show
    forsaken, \* history: statements a restart took out of line with "success" on their row
    gatewayFaults, meddles

gatewayVars == <<said, heard, gateRow, line, clerk, books, bookLinks, gstOff,
                 missed, forsaken, gatewayFaults, meddles>>
gateway == <<said, heard, gstOff, forsaken, meddles>>

Invoice == "Purchase Invoice"
Payout == "Journal Entry"
Papers == {Invoice, Payout}
Off == [pc |-> "off", at |-> Invoice, doc |-> 0]

SettlementTypes ==
    /\ said \in 0..Len(Statements)
    /\ heard \in Seq(1..said)
    /\ gateRow \in [st: {"none", "pending", "failed", "success"}, of: 0..said]
    /\ line \in Seq(1..said)
    /\ clerk.pc \in {"off", "find", "write", "link", "submit"} /\ clerk.at \in Papers
    /\ clerk.doc \in 0..Len(books[clerk.at])
    /\ clerk.pc # "off" => line # <<>>
    /\ \A k \in Papers :
          /\ \A n \in DOMAIN books[k] :
                books[k][n].st \in {"draft", "submitted", "cancelled", "deleted"}
          /\ bookLinks[k] \subseteq DOMAIN books[k]
    /\ missed \subseteq Papers /\ forsaken \subseteq 1..said
    /\ gatewayFaults \in 0..MaxGatewayFaults /\ meddles \in 0..MaxMeddles

SettlementInit ==
    /\ said = 0 /\ heard = <<>>
    /\ gateRow = [st |-> "none", of |-> 0]
    /\ line = <<>> /\ clerk = Off
    /\ books = [k \in Papers |-> <<>>] /\ bookLinks = [k \in Papers |-> {}]
    /\ gstOff \in 0..GstTolerance + 1
    /\ missed = {} /\ forsaken = {}
    /\ gatewayFaults = 0 /\ meddles = 0

-----------------------------------------------------------------------------
(* The gateway, and the people at the books *)

\* The settlement is emitted, or emitted again, corrected.
Emit ==
    /\ said < Len(Statements)
    /\ said' = said + 1 /\ heard' = Append(heard, said + 1)
    /\ UNCHANGED <<gateRow, line, clerk, books, bookLinks, gstOff, missed, forsaken,
                   gatewayFaults, meddles>>

\* The supplier's GSTIN and address are put right.
FixSupplier ==
    /\ gstOff > GstTolerance
    /\ gstOff' \in 0..GstTolerance
    /\ UNCHANGED <<said, heard, gateRow, line, clerk, books, bookLinks, missed, forsaken,
                   gatewayFaults, meddles>>

\* A submitted document is cancelled by hand, a draft deleted.
Meddle(k, n) ==
    /\ meddles < MaxMeddles /\ meddles' = meddles + 1
    /\ books[k][n].st \in {"draft", "submitted"}
    /\ books' = [books EXCEPT ![k][n].st = IF @ = "draft" THEN "deleted" ELSE "cancelled"]
    /\ UNCHANGED <<said, heard, gateRow, line, clerk, bookLinks, gstOff, missed, forsaken,
                   gatewayFaults>>

-----------------------------------------------------------------------------
(* bookSettlement, up to the lock *)

\* planSettlement: can it be booked as fee and payout?
AddsUp(s) ==
    /\ s.adjustment = 0
    /\ s.gross - s.refund - s.fee - s.tax + s.adjustment = s.net

\* The statement goes into the row, and its booking stands in line.
Record(v) ==
    /\ \/ /\ AddsUp(Statements[v])
          /\ gateRow' = [st |-> "pending", of |-> v]
          /\ line' = Append(line, v)
       \/ /\ ~AddsUp(Statements[v])
          /\ gateRow' = [st |-> "failed", of |-> v]
          /\ UNCHANGED line
    /\ forsaken' = forsaken \ {v}
    /\ UNCHANGED <<said, clerk, books, bookLinks, gstOff, missed, gatewayFaults>>

Hear ==
    /\ heard # <<>>
    /\ heard' = Tail(heard) /\ Record(Head(heard))
    /\ UNCHANGED meddles

\* The retry job books the statement the row holds; so does the Replay button, whatever
\* the row says and whatever is in line.
RetrySettlement ==
    /\ gateRow.st \in {"failed", "pending"} /\ line = <<>>
    /\ Record(gateRow.of)
    /\ UNCHANGED <<heard, meddles>>

PressReplay ==
    /\ gateRow.st # "none"
    /\ meddles < MaxMeddles /\ meddles' = meddles + 1
    /\ Record(gateRow.of)
    /\ UNCHANGED heard

-----------------------------------------------------------------------------
(* bookSettlementDocuments, under the lock *)

Statement == Statements[Head(line)]
AtDesk(pc) == line # <<>> /\ clerk.pc = pc /\ UNCHANGED gateway

Replies == {"ok"} \cup IF gatewayFaults < MaxGatewayFaults THEN {"refused", "lost"} ELSE {}
Replied(re) ==
    /\ re \in Replies
    /\ gatewayFaults' = IF re = "ok" THEN gatewayFaults ELSE gatewayFaults + 1

\* The row gets its verdict, whatever statement it holds by now.
Done(st) ==
    /\ gateRow' = [gateRow EXCEPT !.st = st]
    /\ line' = Tail(line) /\ clerk' = Off
Moves(pc, k, n) == clerk' = [pc |-> pc, at |-> k, doc |-> n] /\ UNCHANGED <<gateRow, line>>

\* A failure of either document ends the booking.
GiveUp(k) == Done("failed")

\* The fee is settled, then the payout.
Settled(k) == IF k = Invoice THEN Moves("find", Payout, 0) ELSE Done("success")

\* The clearing account, the bank account and the supplier are read first.
Check(re) ==
    /\ AtDesk("off") /\ Replied(re)
    /\ IF re = "ok" THEN Moves("find", Invoice, 0) ELSE Done("failed")
    /\ UNCHANGED <<books, bookLinks, missed>>

Magnitude(n) == IF n < 0 THEN 0 - n ELSE n

\* Fault: an invoice is taken for the fee's whatever its figures.
AnyFigures(k, d) == TRUE

\* purchaseInvoiceDiffers, journalEntryDiffers
Agrees(k, d) ==
    IF k = Invoice THEN d.fee = Statement.fee /\ Magnitude(d.tax - Statement.tax) <= GstTolerance
    ELSE d.net = Statement.net

\* Fault: only the link table is asked.
NotSearched(k) == {}

\* The search by bill number, the settlement's own, or by cheque number, the payout's.
Standing(k) == {n \in DOMAIN books[k] : books[k][n].st \in {"draft", "submitted"}}
Search(k) == {n \in Standing(k) : k = Payout => books[k][n].ref = Statement.ref}

\* Fault: a link whose document is gone is kept.
LinksKept(k) == bookLinks[k]

\* existingDoc: by the link table (a link whose document is gone is dropped), else
\* by the document's own reference.
LinkedPapers(k) == {n \in bookLinks[k] : books[k][n].st # "deleted"}
Candidates(k) == IF LinkedPapers(k) # {} THEN LinkedPapers(k)
                 ELSE IF Search(k) # {} THEN Search(k) ELSE {0}

\* Nothing was found: a new one will be made, and these stood all the same.
Anew(k, overlooked) ==
    /\ Moves("write", k, 0)
    /\ bookLinks' = [bookLinks EXCEPT ![k] = {}]
    /\ missed' = IF overlooked = {} THEN missed ELSE missed \cup {k}

Take(k, n) ==
    /\ bookLinks' = [bookLinks EXCEPT ![k] = IF LinkedPapers(k) # {} THEN @ ELSE {n}]
    /\ UNCHANGED missed
    /\ CASE books[k][n].st = "draft" -> Moves("write", k, n)
         [] books[k][n].st = "cancelled" -> Settled(k)
         [] OTHER -> IF Agrees(k, books[k][n]) THEN Settled(k) ELSE GiveUp(k)

\* A linked or found document that cannot be read ends the booking; a search that is not
\* answered does not.
FindPaper(re) ==
    LET k == clerk.at IN
    /\ AtDesk("find") /\ Replied(re) /\ UNCHANGED books
    /\ \/ re = "ok" /\ \E n \in Candidates(k) : n # 0 /\ Take(k, n)
       \/ re = "ok" /\ 0 \in Candidates(k)
             /\ Anew(k, {n \in Standing(k) : k = Payout /\ books[k][n].ref # Statement.ref})
       \/ re # "ok" /\ LinkedPapers(k) = {} /\ Anew(k, Standing(k))
       \/ re # "ok" /\ bookLinks[k] \cup Search(k) # {} /\ GiveUp(k)
             /\ UNCHANGED <<bookLinks, missed>>

\* What ERPNext makes of the payload: the GST is its own.
Filled(st) == [st |-> st, fee |-> Statement.fee, tax |-> Statement.tax + gstOff,
               net |-> Statement.net, ref |-> Statement.ref]

\* writeDraft: a draft is written over, a new document inserted as a draft.
WritePaper(re) ==
    LET k == clerk.at
        n == clerk.doc
        done == re # "refused" /\ (n = 0 \/ books[k][n].st = "draft")
    IN
    /\ AtDesk("write") /\ Replied(re) /\ UNCHANGED <<bookLinks, missed>>
    /\ books' = IF ~done THEN books
                ELSE IF n = 0 THEN [books EXCEPT ![k] = Append(@, Filled("draft"))]
                ELSE [books EXCEPT ![k][n] = Filled("draft")]
    /\ IF ~done \/ re # "ok" THEN GiveUp(k)
       ELSE IF n = 0 THEN Moves("link", k, Len(books[k]) + 1) ELSE Moves("submit", k, n)

LinkPaper ==
    /\ AtDesk("link") /\ Moves("submit", clerk.at, clerk.doc)
    /\ bookLinks' = [bookLinks EXCEPT ![clerk.at] = @ \cup {clerk.doc}]
    /\ UNCHANGED <<books, missed, gatewayFaults>>

\* An invoice with GST too far from the gateway's stays a draft.
GstAgrees(d) == Magnitude(d.tax - Statement.tax) <= GstTolerance

\* The invoice is marked paid, and the document submitted unless it already is.
SubmitPaper(re) ==
    LET k == clerk.at
        d == books[k][clerk.doc]
    IN
    /\ AtDesk("submit") /\ UNCHANGED <<bookLinks, missed>>
    /\ IF k = Invoice /\ ~GstAgrees(d)
       THEN re = "ok" /\ GiveUp(k) /\ UNCHANGED <<books, gatewayFaults>>
       ELSE /\ Replied(re)
            /\ books' = IF re # "refused" /\ d.st = "draft"
                        THEN [books EXCEPT ![k][clerk.doc].st = "submitted"] ELSE books
            /\ IF re = "ok" /\ d.st # "deleted" THEN Settled(k) ELSE GiveUp(k)

\* A restart: what stood in line is gone.  A row that has the verdict of an earlier
\* statement keeps it, and nobody comes back to the correction it holds.
GatewayCrash ==
    /\ gatewayFaults < MaxGatewayFaults /\ gatewayFaults' = gatewayFaults + 1
    /\ line # <<>>
    /\ line' = <<>> /\ clerk' = Off
    /\ forsaken' = IF gateRow.st = "success" THEN forsaken \cup {gateRow.of} ELSE forsaken
    /\ UNCHANGED <<said, heard, gateRow, books, bookLinks, gstOff, missed, meddles>>

-----------------------------------------------------------------------------
ClerkStep ==
    \/ LinkPaper
    \/ \E re \in Replies : Check(re) \/ FindPaper(re) \/ WritePaper(re) \/ SubmitPaper(re)

SettlementNext ==
    \/ Emit \/ FixSupplier \/ Hear \/ RetrySettlement \/ PressReplay \/ ClerkStep \/ GatewayCrash
    \/ \E k \in Papers : \E n \in DOMAIN books[k] : Meddle(k, n)

SettlementSpec == SettlementInit /\ [][SettlementNext]_gatewayVars

-----------------------------------------------------------------------------
(* Properties *)

SubmittedPapers(k) == {n \in DOMAIN books[k] : books[k][n].st = "submitted"}
ByHand(k) == \E n \in DOMAIN books[k] : books[k][n].st = "cancelled"

\* Retries, replays, restarts, refusals, lost answers and corrections leave a settlement
\* with one standing invoice and one standing payout at most.  The one way to a second is a
\* search that did not show the first: it was not answered, or went by a reference the
\* payout had not been booked under (existingDoc takes both for "nothing found").  And the
\* payout is never booked without its fee: the Journal Entry is made after an invoice was
\* submitted, and one stands unless it was cancelled by hand.
BookedInTurn ==
    /\ \A k \in Papers \ missed : Cardinality(Standing(k)) <= 1
    /\ books[Payout] # <<>> => SubmittedPapers(Invoice) # {} \/ ByHand(Invoice)

\* A settlement whose row says success of a statement that adds up has taken what that
\* statement paid in, less its refunds, out of the clearing account, once, to within the
\* GST tolerance.  Not so where a search missed a paper (it may be booked twice), where
\* people cancelled one, and where a restart took the booking of a correction out of line
\* when its row already had the verdict of the statement before it (index.ts:4576): that
\* success is of figures nobody booked.  (A verdict can also stand on a statement that
\* does not add up: see Done.)
ClearsTheAccount ==
    LET s == Statements[gateRow.of] IN
    /\ gateRow.st = "success" /\ AddsUp(s) /\ line = <<>>
    /\ ~ByHand(Invoice) /\ ~ByHand(Payout)
    /\ missed = {} /\ gateRow.of \notin forsaken
    => \E i \in DOMAIN books[Invoice], j \in DOMAIN books[Payout] :
           /\ SubmittedPapers(Invoice) = {i} /\ SubmittedPapers(Payout) = {j}
           /\ Magnitude(books[Invoice][i].fee + books[Invoice][i].tax + books[Payout][j].net
                   - (s.gross - s.refund)) <= GstTolerance

\* The last statement is in the row in the end, and called booked if it adds up (what that
\* means, and when it does not hold, is ClearsTheAccount's), unless an earlier one was
\* submitted with other figures or ERPNext's GST stays wrong.
SettlementIsBooked ==
    <>[](\/ said = 0
         \/ gateRow = [st |-> "success", of |-> said]
         \/ ~AddsUp(Statements[said])
         \/ gstOff > GstTolerance
         \/ \E n \in SubmittedPapers(Invoice) :
               \/ books[Invoice][n].fee # Statements[said].fee
               \/ Magnitude(books[Invoice][n].tax - Statements[said].tax) > GstTolerance
         \/ \E n \in SubmittedPapers(Payout) : books[Payout][n].net # Statements[said].net)
=============================================================================
