------------------------- MODULE OrderDocumentsProofs -------------------------
(***************************************************************************)
(* What is proved about OrderDocuments for any payments, events, failures  *)
(* and restarts: where no link is lost, an order never has two live        *)
(* documents of a kind, its documents stand in the order ERPNext insists   *)
(* on, a paid sale that was cancelled has left its trace, and all of its   *)
(* papers behave as SaleBooks says.                                        *)
(*                                                                         *)
(* The invariant says what the link table knows (every Sales Order and     *)
(* invoice that is not deleted, every submitted entry), what the push that *)
(* holds the lock may rely on while it books, and what it has left behind  *)
(* while it unwinds; and what an order that is over keeps of its sale.     *)
(***************************************************************************)
EXTENDS OrderDocuments, FiniteSetTheorems, TLAPS

USE OrderBoundsAreNaturals, OrderSwitchesAreBoolean, PaymentsAreNotOrders

Sales == {"SO", "SI"}
LinkPc(x) == IF x = "SO" THEN "linkSO" ELSE "linkSI"

Order == [terms: Terms, canceled: BOOLEAN,
          captured: SUBSET Payments, refunded: SUBSET Payments]

\* Types, as far as the books depend on them.
Shapes ==
    /\ order \in Order
    /\ queue \in Seq(Push) /\ (job.pc # "idle" => queue # <<>>)
    /\ job \in Job
    /\ docs \in [Kinds -> Seq(Statuses)]
    /\ links \in [Kinds -> SUBSET Nat]
    /\ \A x \in Kinds : links[x] \subseteq DOMAIN docs[x]

-----------------------------------------------------------------------------
(* The documents and their links *)

Stands(x, n) == n \in DOMAIN docs[x] /\ docs[x][n] # "deleted"

\* A Sales Order or invoice is made only where none stands; an entry where none is live.
OneEach ==
    /\ \A x \in Sales : \A m, n \in DOMAIN docs[x] : Stands(x, m) /\ Stands(x, n) => m = n
    /\ \A p \in Payments : \A m, n \in Live(p) : m = n

\* Every document that stands is linked, but the one whose link is due.
StandingIsLinked ==
    \A x \in Sales : \A n \in DOMAIN docs[x] :
        Stands(x, n) => n \in links[x] \/ (job.pc = LinkPc(x) /\ job.doc = n)

\* Every link is of a document that stands, but the one about to go.
LinkedStands ==
    \A x \in Sales : \A n \in links[x] :
        \/ Stands(x, n)
        \/ job.pc = "unlink" /\ job.kind = x /\ job.doc = n

\* An entry is submitted only when it is linked.
EntryIsLinked ==
    \A p \in Payments : \A n \in DOMAIN docs[p] : docs[p][n] = "submitted" => n \in links[p]

Books == OneEach /\ StandingIsLinked /\ LinkedStands /\ EntryIsLinked /\ BooksInOrder

-----------------------------------------------------------------------------
(* The push that holds the lock *)

\* The document it has in hand.
InHand ==
    /\ \A x \in Sales : job.pc = LinkPc(x) =>
          job.doc \in DOMAIN docs[x] /\ docs[x][job.doc] = "draft" /\ links[x] = {}
    /\ job.pc = "submitSO" => job.doc \in links["SO"]
    /\ job.pc = "submitSI" => job.doc \in links["SI"]
    /\ job.pc = "linkPay" => job.kind \in Payments /\ job.doc \in DOMAIN docs[job.kind]
    /\ job.pc = "submitPay" => job.kind \in Payments /\ job.doc \in links[job.kind]
    /\ job.pc = "unlink" => /\ job.kind \in Kinds /\ job.doc \in DOMAIN docs[job.kind]
                            /\ docs[job.kind][job.doc] = "deleted"
                            /\ <<job.kind, job.doc>> \notin job.todo
    /\ \A l \in job.todo : l[2] \in links[l[1]]
    /\ job.todo # {} => job.pc \in Stages \cup {"unlink"}

\* What is booked before what.
Booking ==
    /\ job.pc \in {"si", "linkSI"} /\ Plan = "record-payments" => Has("SO", "submitted")
    /\ job.pc = "submitSI" => Has("SO", "submitted")
    /\ job.pc \in {"pay", "linkPay", "submitPay"} => Has("SI", "submitted")

Stage == IF job.pc = "unlink" THEN job.next ELSE job.pc

\* What is unwound before what: what is still booked is on the list, unless ERPNext
\* refused to take it back.
Unwinding ==
    /\ Stage = "undoPay" =>
          /\ \A l \in job.todo : l[1] \in Payments
          /\ job.err \/ \A p \in Payments : \A n \in DOMAIN docs[p] :
                           docs[p][n] = "submitted" => <<p, n>> \in job.todo
    /\ Stage = "undoSI" =>
          /\ \A l \in job.todo : l[1] = "SI"
          /\ \A p \in Payments : ~Has(p, "submitted")
          /\ job.err \/ \A n \in DOMAIN docs["SI"] :
                           docs["SI"][n] = "submitted" => <<"SI", n>> \in job.todo
    /\ Stage = "undoSO" =>
          /\ \A l \in job.todo : l[1] = "SO"
          /\ \A p \in Payments : ~Has(p, "submitted")
          /\ ~Has("SI", "submitted")
          /\ job.err \/ \A n \in DOMAIN docs["SO"] :
                           docs["SO"][n] = "submitted" => <<"SO", n>> \in job.todo

Inv == Shapes /\ Books /\ InHand /\ Booking /\ Unwinding

-----------------------------------------------------------------------------
(* Lemmas about documents, links and the job *)

\* A link or its document is about to change.
Loose == job.pc \in {"linkSO", "linkSI", "unlink"}

LEMMA KindsAre ==
    /\ "SO" \in Kinds /\ "SI" \in Kinds /\ Sales \subseteq Kinds /\ Payments \subseteq Kinds
    /\ Kinds = Sales \cup Payments /\ Sales \cap Payments = {}
    /\ "SO" \notin Payments /\ "SI" \notin Payments
BY DEF Kinds, Sales

\* With: one document gets another status.
LEMMA WithIs ==
    ASSUME Shapes, NEW x \in Kinds, NEW n \in DOMAIN docs[x], NEW st \in Statuses,
           docs' = With(x, n, st)
    PROVE  /\ docs' \in [Kinds -> Seq(Statuses)]
           /\ \A y \in Kinds : DOMAIN docs'[y] = DOMAIN docs[y]
           /\ docs'[x][n] = st /\ \A y \in Kinds : y # x => docs'[y] = docs[y]
           /\ \A y \in Kinds : \A m \in DOMAIN docs[y] :
                 (y # x \/ m # n) => docs'[y][m] = docs[y][m]
<1>1. docs \in [Kinds -> Seq(Statuses)] /\ docs[x] \in Seq(Statuses)
    BY DEF Shapes
<1>2. docs' = [docs EXCEPT ![x] = [docs[x] EXCEPT ![n] = st]]
    BY <1>1 DEF With
<1>3. [docs[x] EXCEPT ![n] = st] \in Seq(Statuses)
    BY <1>1
<1> DEFINE d == [docs[x] EXCEPT ![n] = st]
<1>4. DOMAIN d = DOMAIN docs[x] /\ d[n] = st /\ \A m \in DOMAIN docs[x] : m # n => d[m] = docs[x][m]
    BY <1>1
<1> HIDE DEF d
<1>5. docs'[x] = d /\ \A y \in Kinds : y # x => docs'[y] = docs[y]
    BY <1>1, <1>2 DEF d
<1>6. docs' \in [Kinds -> Seq(Statuses)]
    BY <1>1, <1>2, <1>3
<1> QED
    BY <1>4, <1>5, <1>6

\* New: one draft more.
LEMMA NewIs ==
    ASSUME Shapes, NEW x \in Kinds, docs' = New(x)
    PROVE  /\ docs' \in [Kinds -> Seq(Statuses)]
           /\ \A y \in Kinds : y # x => docs'[y] = docs[y]
           /\ DOMAIN docs'[x] = DOMAIN docs[x] \cup {Len(docs[x]) + 1}
           /\ docs'[x][Len(docs[x]) + 1] = "draft"
           /\ \A m \in DOMAIN docs[x] : docs'[x][m] = docs[x][m]
           /\ Len(docs[x]) + 1 \in Nat /\ Len(docs[x]) + 1 \notin DOMAIN docs[x]
<1>1. docs \in [Kinds -> Seq(Statuses)] /\ docs[x] \in Seq(Statuses)
    BY DEF Shapes
<1>2. "draft" \in Statuses
    BY DEF Statuses
<1> DEFINE d == Append(docs[x], "draft")
<1>3. /\ d \in Seq(Statuses) /\ DOMAIN d = DOMAIN docs[x] \cup {Len(docs[x]) + 1}
      /\ d[Len(docs[x]) + 1] = "draft" /\ \A m \in DOMAIN docs[x] : d[m] = docs[x][m]
      /\ Len(docs[x]) + 1 \in Nat /\ Len(docs[x]) + 1 \notin DOMAIN docs[x]
    BY <1>1, <1>2
<1> HIDE DEF d
<1>4. docs' = [docs EXCEPT ![x] = d]
    BY DEF New, d
<1>5. docs'[x] = d /\ \A y \in Kinds : y # x => docs'[y] = docs[y]
    BY <1>1, <1>4
<1>6. docs' \in [Kinds -> Seq(Statuses)]
    BY <1>1, <1>3, <1>4
<1> QED
    BY <1>3, <1>5, <1>6

\* Links name documents, which are numbered from 1.
LEMMA LinksAre ==
    ASSUME Shapes, NEW x \in Kinds, NEW n \in LinkOf(x)
    PROVE  /\ StatusOf(x, n) # "deleted" => n \in links[x] /\ docs[x][n] = StatusOf(x, n)
           /\ n \in links[x] => n \in Nat /\ n # 0 /\ n \in DOMAIN docs[x]
           /\ n \notin links[x] => links[x] = {} /\ n = 0
<1>1. docs[x] \in Seq(Statuses) /\ links[x] \subseteq DOMAIN docs[x]
    BY DEF Shapes
<1>2. \A m \in DOMAIN docs[x] : m \in Nat /\ m # 0
    BY <1>1
<1> QED
    BY <1>1, <1>2 DEF LinkOf, StatusOf

\* EntryLinks: entries of the order, and all that are linked once there is an invoice.
LEMMA EntryLinksAre ==
    ASSUME Shapes, queue # <<>>
    PROVE  /\ EntryLinks \in SUBSET (Kinds \X Nat)
           /\ \A l \in EntryLinks : l[1] \in Payments /\ l[2] \in links[l[1]]
           /\ links["SI"] # {} => \A p \in Payments : \A n \in links[p] : <<p, n>> \in EntryLinks
<1>1. Head1.cap \subseteq Payments
    <2>1. queue[1] \in Push
        BY DEF Shapes
    <2> QED
        BY <2>1 DEF Push, Head1
<1>2. \A p \in Payments : links[p] \subseteq Nat
    BY KindsAre DEF Shapes
<1> QED
    BY <1>1, <1>2, KindsAre DEF EntryLinks

\* Idle and Undoing, the jobs that are not made from the one before.
LEMMA FreshJobs ==
    ASSUME Shapes, queue # <<>>
    PROVE  /\ Idle \in Job /\ Idle.pc = "idle" /\ Idle.todo = {}
           /\ \A u \in BOOLEAN : LET j == [Idle EXCEPT !.pc = "so", !.undo = u]
                                 IN  j \in Job /\ j.pc = "so" /\ j.todo = {}
           /\ [Idle EXCEPT !.pc = "so"] \in Job /\ [Idle EXCEPT !.pc = "so"].pc = "so"
           /\ [Idle EXCEPT !.pc = "so"].todo = {}
           /\ Undoing \in Job /\ Undoing.pc = "undoPay" /\ Undoing.todo = EntryLinks
<1>1. EntryLinks \in SUBSET (Kinds \X Nat)
    BY EntryLinksAre
<1> QED
    BY <1>1 DEF Idle, Undoing, Job

LEMMA IdleIs == Idle \in Job /\ Idle.pc = "idle" /\ Idle.todo = {}
BY DEF Idle, Job

\* What a push plans depends on the order's terms and on itself.
LEMMA PlanStays ==
    ASSUME order'.terms = order.terms, queue'[1] = queue[1], job'.undo = job.undo
    PROVE  Plan' = Plan
BY DEF Plan, Paid, RecordPayments, CashOnDelivery, Head1

\* The books depend on the job only while a link is due.
LEMMA QuietBooks ==
    ASSUME Books, UNCHANGED <<docs, links>>, job' = job \/ ~Loose
    PROVE  Books'
<1>1. OneEach' /\ EntryIsLinked' /\ BooksInOrder'
    BY DEF Books, OneEach, EntryIsLinked, BooksInOrder, Stands, Live, Has
<1>2. StandingIsLinked' /\ LinkedStands'
    <2>1. CASE job' = job
        BY <2>1 DEF Books, StandingIsLinked, LinkedStands, Stands
    <2>2. CASE ~Loose
        BY <2>2 DEF Books, StandingIsLinked, LinkedStands, Stands, Loose, LinkPc
    <2> QED
        BY <2>1, <2>2
<1> QED
    BY <1>1, <1>2 DEF Books

LEMMA ShapesKept ==
    ASSUME Shapes, order' = order, queue' = queue, queue # <<>>, job' \in Job,
           docs' \in [Kinds -> Seq(Statuses)], links' \in [Kinds -> SUBSET Nat],
           \A x \in Kinds : links'[x] \subseteq DOMAIN docs'[x]
    PROVE  Shapes'
BY DEF Shapes

\* A push that ends owes nothing but the books.
LEMMA Ends ==
    ASSUME Shapes, order' = order, queue # <<>>, NEW st, Over(st),
           docs' \in [Kinds -> Seq(Statuses)], links' \in [Kinds -> SUBSET Nat],
           \A x \in Kinds : links'[x] \subseteq DOMAIN docs'[x]
    PROVE  Shapes' /\ InHand' /\ Booking' /\ Unwinding'
<1>1. job' \in Job /\ job'.pc = "idle" /\ job'.todo = {}
    BY IdleIs DEF Over
<1>2. queue' \in Seq(Push)
    BY DEF Over, Shapes
<1>3. Shapes'
    BY <1>1, <1>2 DEF Shapes
<1>4. InHand'
    BY <1>1 DEF InHand, Sales, LinkPc
<1>5. Booking' /\ Unwinding'
    BY <1>1 DEF Booking, Unwinding, Stage
<1> QED
    BY <1>3, <1>4, <1>5

\* ... and where no document or link changed it has kept those.
LEMMA QuietEnd ==
    ASSUME Inv, ~Loose, order' = order, queue # <<>>, NEW st, Over(st), UNCHANGED <<docs, links>>
    PROVE  Inv'
<1>1. Books'
    BY QuietBooks DEF Inv
<1>2. docs' \in [Kinds -> Seq(Statuses)] /\ links' \in [Kinds -> SUBSET Nat]
      /\ \A x \in Kinds : links'[x] \subseteq DOMAIN docs'[x]
    BY DEF Inv, Shapes
<1> QED
    BY <1>1, <1>2, Ends DEF Inv

-----------------------------------------------------------------------------
(* Pushes on their way, and the start and end of booking *)

\* Whatever happens outside the lock leaves the job and the books alone.
LEMMA OutsideKeeps ==
    ASSUME Inv, UNCHANGED <<docs, links, job>>, order' \in Order, order'.terms = order.terms,
           queue' \in Seq(Push), queue # <<>> => queue' # <<>> /\ queue'[1] = queue[1]
    PROVE  Inv'
<1>1. Books'
    BY QuietBooks DEF Inv
<1>2. Shapes'
    BY DEF Inv, Shapes
<1>3. InHand' /\ Unwinding'
    BY DEF Inv, InHand, Unwinding, Stage, Has
<1>4. Booking'
    <2>1. CASE job.pc = "idle"
        BY <2>1 DEF Booking
    <2>2. CASE job.pc # "idle"
        <3>1. Plan' = Plan
            BY <2>2, PlanStays DEF Inv, Shapes
        <3> QED
            BY <3>1 DEF Inv, Booking, Has
    <2> QED
        BY <2>1, <2>2
<1> QED
    BY <1>1, <1>2, <1>3, <1>4 DEF Inv

\* Unwinding starts with every booked entry on its list.
LEMMA UndoingKeeps ==
    ASSUME Inv, ~Loose, UNCHANGED <<docs, links, order, queue>>, queue # <<>>, job' = Undoing
    PROVE  Inv'
<1>1. Books'
    BY QuietBooks DEF Inv
<1>2. job' \in Job /\ job'.pc = "undoPay" /\ job'.todo = EntryLinks
    BY FreshJobs DEF Inv
<1>3. Shapes'
    BY <1>2, ShapesKept DEF Inv, Shapes
<1>4. \A l \in EntryLinks : l[1] \in Payments /\ l[2] \in links[l[1]]
    BY EntryLinksAre DEF Inv
<1>5. InHand'
    BY <1>2, <1>4 DEF InHand, Sales, LinkPc, Stages
<1>6. \A p \in Payments : \A n \in DOMAIN docs[p] :
          docs[p][n] = "submitted" => <<p, n>> \in EntryLinks
    <2> SUFFICES ASSUME NEW p \in Payments, NEW n \in DOMAIN docs[p], docs[p][n] = "submitted"
                 PROVE  <<p, n>> \in EntryLinks
        OBVIOUS
    <2>1. n \in links[p] /\ Has("SI", "submitted")
        BY DEF Inv, Books, EntryIsLinked, BooksInOrder, Has
    <2>2. links["SI"] # {}
        BY <2>1 DEF Inv, Books, StandingIsLinked, Stands, Has, Loose, LinkPc, Sales
    <2> QED
        BY <2>1, <2>2, EntryLinksAre DEF Inv
<1>7. Unwinding' /\ Booking'
    BY <1>2, <1>4, <1>6 DEF Unwinding, Booking, Stage
<1> QED
    BY <1>1, <1>3, <1>5, <1>7 DEF Inv

\* pushSalesDocument is through: the push ends, or goes on to unwind.
LEMMA SalesDoneKeeps ==
    ASSUME Inv, ~Loose, UNCHANGED <<docs, links, order>>, queue # <<>>, SalesDone
    PROVE  Inv'
<1>1. CASE job.undo
    BY <1>1, UndoingKeeps DEF SalesDone, Stays
<1>2. CASE ~job.undo
    BY <1>2, QuietEnd DEF SalesDone
<1> QED
    BY <1>1, <1>2

\* A push that goes on at a step of the booking.
LEMMA BookingGoesOn ==
    ASSUME Inv, ~Loose, UNCHANGED <<docs, links, order, queue>>, queue # <<>>, job' \in Job,
           job'.pc \in {"so", "submitSO", "si", "submitSI", "pay", "submitPay"}, job'.todo = {},
           job'.pc = "submitSO" => job'.doc \in links["SO"],
           job'.pc = "submitSI" => job'.doc \in links["SI"] /\ Has("SO", "submitted"),
           job'.pc = "submitPay" => job'.kind \in Payments /\ job'.doc \in links[job'.kind],
           job'.pc = "si" => Plan' # "record-payments" \/ Has("SO", "submitted"),
           job'.pc \in {"pay", "submitPay"} => Has("SI", "submitted")
    PROVE  Inv'
<1>1. Books'
    BY QuietBooks DEF Inv
<1>2. Shapes'
    BY ShapesKept DEF Inv, Shapes
<1>3. InHand'
    BY DEF InHand, Sales, LinkPc
<1>4. Booking' /\ Unwinding'
    BY DEF Booking, Unwinding, Stage, Has
<1> QED
    BY <1>1, <1>2, <1>3, <1>4 DEF Inv

LEMMA StartKeeps == ASSUME Inv, Start PROVE Inv'
<1>1. queue # <<>> /\ job.pc = "idle" /\ UNCHANGED <<docs, links, order>>
    BY DEF Start, At, NoCall
<1>2. ~Loose
    BY <1>1 DEF Loose
<1>3. \/ job' = [Idle EXCEPT !.pc = "so"] /\ queue' = queue
      \/ job' = [Idle EXCEPT !.pc = "so", !.undo = TRUE] /\ queue' = queue
      \/ job' = Undoing /\ queue' = queue
      \/ Over("skipped") \/ Over("success")
    BY DEF Start, Stays
<1>4. CASE Over("skipped") \/ Over("success")
    BY <1>1, <1>2, <1>4, QuietEnd
<1>5. CASE job' = Undoing /\ queue' = queue
    BY <1>1, <1>2, <1>5, UndoingKeeps
<1>6. CASE \/ job' = [Idle EXCEPT !.pc = "so"] /\ queue' = queue
           \/ job' = [Idle EXCEPT !.pc = "so", !.undo = TRUE] /\ queue' = queue
    <2>1. job' \in Job /\ job'.pc = "so" /\ job'.todo = {}
        BY <1>1, <1>6, FreshJobs DEF Inv
    <2> QED
        BY <1>1, <1>2, <1>6, <2>1, BookingGoesOn
<1> QED
    BY <1>3, <1>4, <1>5, <1>6

-----------------------------------------------------------------------------
(* Making an order or an invoice, and linking it *)

\* A document that is made while none stands.
LEMMA MadeKeeps ==
    ASSUME Inv, NEW x \in Sales, docs' = New(x), links[x] = {}, UNCHANGED <<links, order, queue>>,
           queue # <<>>, ~Loose, job.todo = {},
           job' = [job EXCEPT !.pc = LinkPc(x), !.doc = Len(docs[x]) + 1],
           x = "SI" => job.pc = "si"
    PROVE  Inv'
<1> DEFINE k == Len(docs[x]) + 1
<1>1. x \in Kinds
    BY KindsAre
<1>2. /\ docs' \in [Kinds -> Seq(Statuses)]
      /\ \A y \in Kinds : y # x => docs'[y] = docs[y]
      /\ DOMAIN docs'[x] = DOMAIN docs[x] \cup {k}
      /\ docs'[x][k] = "draft"
      /\ \A m \in DOMAIN docs[x] : docs'[x][m] = docs[x][m]
      /\ k \in Nat /\ k \notin DOMAIN docs[x]
    BY <1>1, NewIs DEF Inv
<1> HIDE DEF k
<1>3. /\ job' \in Job /\ job'.pc = LinkPc(x) /\ job'.doc = k /\ job'.todo = {}
      /\ job'.undo = job.undo
    <2>1. job' = [job EXCEPT !.pc = LinkPc(x), !.doc = k] /\ job \in Job
        BY DEF k, Inv, Shapes
    <2>2. LinkPc(x) \in {"linkSO", "linkSI"}
        BY DEF LinkPc
    <2> QED
        BY <1>2, <2>1, <2>2 DEF Job
<1>4. Shapes'
    <2>1. \A y \in Kinds : links'[y] \subseteq DOMAIN docs'[y]
        BY <1>2 DEF Inv, Shapes
    <2> QED
        BY <1>2, <1>3, <2>1, ShapesKept DEF Inv, Shapes
<1>5. \A m \in DOMAIN docs[x] : docs[x][m] = "deleted"
    <2>1. \A m \in DOMAIN docs[x] : Stands(x, m) => m \in links[x]
        BY DEF Inv, Books, StandingIsLinked, Loose, LinkPc
    <2> QED
        BY <2>1 DEF Stands
<1>6. \A y \in Kinds : \A st \in {"submitted"} : Has(y, st)' <=> Has(y, st)
    BY <1>2, <1>5 DEF Has
<1>7. OneEach'
    <2>1. \A y \in Sales : \A m, n \in DOMAIN docs'[y] : Stands(y, m)' /\ Stands(y, n)' => m = n
        <3>1. CASE x = "SO"
            BY <1>2, <1>5, <3>1, KindsAre DEF Inv, Books, OneEach, Stands, Sales
        <3>2. CASE x = "SI"
            BY <1>2, <1>5, <3>2, KindsAre DEF Inv, Books, OneEach, Stands, Sales
        <3> QED
            BY <3>1, <3>2 DEF Sales
    <2>2. \A p \in Payments : docs'[p] = docs[p]
        BY <1>2, KindsAre DEF Sales
    <2> QED
        BY <2>1, <2>2 DEF Inv, Books, OneEach, Live
<1>8. StandingIsLinked'
    <2> SUFFICES ASSUME NEW y \in Sales, NEW n \in DOMAIN docs'[y], Stands(y, n)'
                 PROVE  n \in links'[y] \/ (job'.pc = LinkPc(y) /\ job'.doc = n)
        BY DEF StandingIsLinked
    <2>1. CASE y = x
        BY <1>2, <1>3, <1>5, <2>1 DEF Stands
    <2>2. CASE y # x
        BY <1>2, <2>2, KindsAre DEF Inv, Books, StandingIsLinked, Stands, Loose, LinkPc
    <2> QED
        BY <2>1, <2>2
<1>9. LinkedStands'
    <2> SUFFICES ASSUME NEW y \in Sales, NEW n \in links[y] PROVE Stands(y, n)'
        BY DEF LinkedStands
    <2>1. y # x /\ Stands(y, n)
        BY DEF Inv, Books, LinkedStands, Loose
    <2> QED
        BY <1>2, <2>1, KindsAre DEF Stands
<1>10. EntryIsLinked' /\ BooksInOrder'
    BY <1>2, <1>6, KindsAre DEF Inv, Books, EntryIsLinked, BooksInOrder, Sales
<1>11. InHand'
    BY <1>2, <1>3 DEF InHand, Sales, LinkPc
<1>12. Booking' /\ Unwinding'
    <2>1. Plan' = Plan
        BY <1>3, PlanStays
    <2> QED
        BY <1>3, <1>6, <2>1, KindsAre DEF Inv, Booking, Unwinding, Stage, LinkPc, Sales
<1> QED
    BY <1>4, <1>7, <1>8, <1>9, <1>10, <1>11, <1>12 DEF Inv, Books

\* AfterSO and AfterSI take the document in hand.
LEMMA TakesInHand ==
    ASSUME job \in Job, NEW n \in Nat, NEW x \in Sales,
           NEW pc \in {"si", "submitSO", "submitSI"},
           job' = [job EXCEPT !.doc = n, !.kind = x, !.pc = pc]
    PROVE  /\ job' \in Job /\ job'.doc = n /\ job'.pc = pc /\ job'.todo = job.todo
           /\ job'.undo = job.undo
BY DEF Job, Kinds, Sales

LEMMA AfterSOIs ==
    ASSUME job \in Job, NEW n \in Nat, AfterSO(n)
    PROVE  /\ job' \in Job /\ job'.doc = n /\ job'.pc \in {"si", "submitSO"}
           /\ job'.pc = "si" => Plan = "none"
           /\ job'.todo = job.todo /\ job'.undo = job.undo
<1>1. PICK pc \in {"si", "submitSO"} :
          /\ job' = [job EXCEPT !.doc = n, !.kind = "SO", !.pc = pc]
          /\ pc = "si" => Plan = "none"
    BY DEF AfterSO
<1> QED
    BY <1>1, TakesInHand DEF Sales

LEMMA WriteSOKeeps ==
    ASSUME ~LostLinks, Inv, NEW ans \in Answers, WriteSO(ans) PROVE Inv'
<1>1. /\ job.pc = "so" /\ ~Loose /\ queue # <<>> /\ UNCHANGED <<links, order>>
      /\ job \in Job /\ Shapes /\ job.todo = {}
    BY DEF WriteSO, At, Loose, Inv, Shapes, InHand, Stages
<1>2. PICK n \in LinkOf("SO") :
          \/ /\ StatusOf("SO", n) # "deleted" /\ docs' = docs
             /\ (AfterSO(n) /\ queue' = queue) \/ Over("failed")
          \/ /\ StatusOf("SO", n) = "deleted" /\ docs' = New("SO") /\ queue' = queue
             /\ job' = [job EXCEPT !.pc = "linkSO", !.doc = Len(docs["SO"]) + 1]
          \/ docs' = docs /\ Over("failed")
    BY <1>1 DEF WriteSO, Call, NoCall, Stays, Answers
<1>3. /\ n \in Nat
      /\ StatusOf("SO", n) # "deleted" => n \in links["SO"]
      /\ StatusOf("SO", n) = "deleted" => links["SO"] = {}
    <2>1. n \in links["SO"] \/ (n = 0 /\ links["SO"] = {})
        BY <1>1, KindsAre, LinksAre
    <2>2. CASE n \in links["SO"]
        <3>1. Stands("SO", n) /\ n # 0 /\ n \in Nat
            BY <1>1, <2>2, KindsAre, LinksAre DEF Inv, Books, LinkedStands, Loose, Sales
        <3> QED
            BY <2>2, <3>1 DEF Stands, StatusOf
    <2>3. CASE n = 0 /\ links["SO"] = {}
        BY <2>3 DEF StatusOf
    <2> QED
        BY <2>1, <2>2, <2>3
<1>4. CASE docs' = docs /\ Over("failed")
    BY <1>1, <1>4, QuietEnd
<1>5. CASE StatusOf("SO", n) # "deleted" /\ docs' = docs /\ AfterSO(n) /\ queue' = queue
    <2>1. /\ job' \in Job /\ job'.doc = n /\ job'.pc \in {"si", "submitSO"}
          /\ job'.pc = "si" => Plan = "none"
          /\ job'.todo = {} /\ job'.undo = job.undo
        BY <1>1, <1>3, <1>5, AfterSOIs
    <2>2. Plan' = Plan
        BY <1>1, <1>5, <2>1, PlanStays
    <2> QED
        BY <1>1, <1>3, <1>5, <2>1, <2>2, BookingGoesOn
<1>6. CASE /\ StatusOf("SO", n) = "deleted" /\ docs' = New("SO") /\ queue' = queue
           /\ job' = [job EXCEPT !.pc = "linkSO", !.doc = Len(docs["SO"]) + 1]
    BY <1>1, <1>3, <1>6, MadeKeeps DEF Sales, LinkPc
<1> QED
    BY <1>2, <1>4, <1>5, <1>6

\* The link that was due is recorded.
LEMMA LinkedBooks ==
    ASSUME Inv, NEW x \in Sales, job.pc = LinkPc(x), UNCHANGED docs,
           links' = [links EXCEPT ![x] = @ \cup {job.doc}]
    PROVE  /\ Books' /\ links' \in [Kinds -> SUBSET Nat] /\ links'[x] = {job.doc}
           /\ \A y \in Kinds : links'[y] \subseteq DOMAIN docs[y]
           /\ \A y \in Kinds : y # x => links'[y] = links[y]
           /\ job.doc \in Nat /\ docs[x][job.doc] = "draft" /\ ~Has(x, "submitted")
<1>1. x \in Kinds /\ links \in [Kinds -> SUBSET Nat] /\ job.doc \in Nat
    BY KindsAre DEF Inv, Shapes, Job
<1>2. job.doc \in DOMAIN docs[x] /\ docs[x][job.doc] = "draft" /\ links[x] = {}
    BY DEF Inv, InHand
<1>3. links'[x] = {job.doc} /\ \A y \in Kinds : y # x => links'[y] = links[y]
    BY <1>1, <1>2
<1>4. links' \in [Kinds -> SUBSET Nat] /\ \A y \in Kinds : links'[y] \subseteq DOMAIN docs[y]
    BY <1>1, <1>2, <1>3 DEF Inv, Shapes
<1>5. \A m \in DOMAIN docs[x] : Stands(x, m) => m = job.doc
    BY <1>2 DEF Inv, Books, OneEach, Stands
<1>6. OneEach' /\ BooksInOrder'
    BY DEF Inv, Books, OneEach, BooksInOrder, Stands, Live, Has
<1>7. EntryIsLinked'
    BY <1>3, KindsAre DEF Inv, Books, EntryIsLinked
<1>8. StandingIsLinked'
    <2> SUFFICES ASSUME NEW y \in Sales, NEW n \in DOMAIN docs[y], Stands(y, n)
                 PROVE  n \in links'[y]
        BY DEF StandingIsLinked, Stands
    <2>1. CASE y = x
        BY <1>3, <1>5, <2>1
    <2>2. CASE y # x
        BY <1>3, <2>2, KindsAre DEF Inv, Books, StandingIsLinked, LinkPc, Sales
    <2> QED
        BY <2>1, <2>2
<1>9. LinkedStands'
    <2> SUFFICES ASSUME NEW y \in Sales, NEW n \in links'[y] PROVE Stands(y, n)
        BY DEF LinkedStands, Stands
    <2>1. CASE y = x
        BY <1>2, <1>3, <2>1 DEF Stands
    <2>2. CASE y # x
        BY <1>3, <2>2, KindsAre DEF Inv, Books, LinkedStands, LinkPc, Sales
    <2> QED
        BY <2>1, <2>2
<1>10. ~Has(x, "submitted")
    BY <1>2, <1>5 DEF Has, Stands
<1> QED
    BY <1>1, <1>2, <1>3, <1>4, <1>6, <1>7, <1>8, <1>9, <1>10 DEF Books

LEMMA LinkSOKeeps == ASSUME Inv, LinkSO PROVE Inv'
<1>1. /\ job.pc = LinkPc("SO") /\ queue # <<>> /\ UNCHANGED <<docs, order, queue>>
      /\ job \in Job /\ Shapes /\ job.todo = {}
      /\ links' = [links EXCEPT !["SO"] = @ \cup {job.doc}]
    BY DEF LinkSO, At, Known, Stays, NoCall, Inv, Shapes, InHand, Stages, LinkPc
<1>2. /\ Books' /\ links' \in [Kinds -> SUBSET Nat] /\ links'["SO"] = {job.doc}
      /\ \A y \in Kinds : links'[y] \subseteq DOMAIN docs[y]
      /\ job.doc \in Nat
    BY <1>1, LinkedBooks DEF Sales
<1>3. /\ job' \in Job /\ job'.doc = job.doc /\ job'.pc \in {"si", "submitSO"}
      /\ job'.pc = "si" => Plan = "none"
      /\ job'.todo = {} /\ job'.undo = job.undo
    BY <1>1, <1>2, AfterSOIs DEF LinkSO
<1>4. Plan' = Plan
    BY <1>1, <1>3, PlanStays
<1>5. Shapes'
    BY <1>1, <1>2, <1>3, ShapesKept DEF Shapes
<1>6. InHand' /\ Booking' /\ Unwinding'
    BY <1>2, <1>3, <1>4 DEF InHand, Booking, Unwinding, Stage, Sales, LinkPc
<1> QED
    BY <1>2, <1>5, <1>6 DEF Inv

\* Submitting a linked draft, on top of what it stands on.
LEMMA SubmittedBooks ==
    ASSUME Inv, ~Loose, NEW x \in Kinds, NEW n \in links[x], UNCHANGED links,
           docs' = docs \/ docs' = Submitted(x, n),
           x \in Payments => Has("SI", "submitted"), x = "SI" => Has("SO", "submitted")
    PROVE  /\ Books' /\ docs' \in [Kinds -> Seq(Statuses)]
           /\ \A y \in Kinds : links'[y] \subseteq DOMAIN docs'[y]
           /\ \A y \in Kinds : Has(y, "submitted") => Has(y, "submitted")'
           /\ docs' = Submitted(x, n) /\ docs[x][n] \notin {"cancelled", "deleted"}
                 => Has(x, "submitted")'
<1>1. n \in DOMAIN docs[x] /\ docs[x][n] \in Statuses
    BY DEF Inv, Shapes
<1>2. CASE docs' = docs
    <2>1. Books'
        BY <1>2, QuietBooks DEF Inv
    <2>2. docs' = Submitted(x, n) /\ docs[x][n] \notin {"cancelled", "deleted"}
              => docs[x][n] = "submitted"
        <3>1. CASE docs[x][n] = "draft" /\ docs' = Submitted(x, n)
            <4>1. docs' = With(x, n, "submitted")
                BY <3>1 DEF Submitted
            <4>2. docs'[x][n] = "submitted"
                BY <1>1, <4>1, WithIs DEF Inv, Statuses
            <4> QED
                BY <1>2, <4>2
        <3> QED
            BY <1>1, <3>1 DEF Statuses
    <2> QED
        BY <1>1, <1>2, <2>1, <2>2 DEF Has, Inv, Shapes
<1>3. CASE docs' # docs
    <2>1. docs[x][n] = "draft" /\ docs' = With(x, n, "submitted")
        BY <1>3 DEF Submitted
    <2>2. /\ docs' \in [Kinds -> Seq(Statuses)]
          /\ \A y \in Kinds : DOMAIN docs'[y] = DOMAIN docs[y]
          /\ docs'[x][n] = "submitted"
          /\ \A y \in Kinds : \A m \in DOMAIN docs[y] :
                (y # x \/ m # n) => docs'[y][m] = docs[y][m]
        BY <1>1, <2>1, WithIs DEF Inv, Statuses
    <2>3. \A y \in Kinds : \A m \in DOMAIN docs[y] :
              docs[y][m] = "submitted" => docs'[y][m] = "submitted"
        BY <2>1, <2>2
    <2>4. \A y \in Kinds : Has(y, "submitted") => Has(y, "submitted")'
        BY <2>2, <2>3 DEF Has
    <2>5. \A y \in Kinds : y # x /\ Has(y, "submitted")' => Has(y, "submitted")
        BY <2>2 DEF Has
    <2>6. Has(x, "submitted")'
        BY <1>1, <2>2 DEF Has
    <2>7. \A y \in Kinds : \A m : Stands(y, m)' <=> Stands(y, m)
        BY <2>1, <2>2 DEF Stands
    <2>8. \A y \in Kinds : Live(y)' = Live(y)
        BY <2>1, <2>2 DEF Live
    <2>9. OneEach'
        BY <2>2, <2>7, <2>8, KindsAre DEF Inv, Books, OneEach
    <2>10. StandingIsLinked' /\ LinkedStands'
        BY <2>2, <2>7, KindsAre DEF Inv, Books, StandingIsLinked, LinkedStands, Loose, LinkPc
    <2>11. EntryIsLinked'
        BY <2>2, KindsAre DEF Inv, Books, EntryIsLinked
    <2>12. BooksInOrder'
        BY <2>4, <2>5, <2>6, KindsAre DEF Inv, Books, BooksInOrder, Sales
    <2> QED
        BY <2>2, <2>4, <2>6, <2>9, <2>10, <2>11, <2>12 DEF Books, Inv, Shapes
<1> QED
    BY <1>2, <1>3

LEMMA SubmitSOKeeps == ASSUME Inv, NEW ans \in Answers, SubmitSO(ans) PROVE Inv'
<1>1. /\ job.pc = "submitSO" /\ ~Loose /\ queue # <<>> /\ UNCHANGED <<links, order>>
      /\ job \in Job /\ Shapes /\ job.todo = {} /\ job.doc \in links["SO"]
    BY DEF SubmitSO, At, Loose, Inv, Shapes, InHand, Stages
<1>2. docs' = docs \/ docs' = Submitted("SO", job.doc)
    BY DEF SubmitSO, Call
<1>3. /\ Books' /\ docs' \in [Kinds -> Seq(Statuses)]
      /\ \A y \in Kinds : links'[y] \subseteq DOMAIN docs'[y]
      /\ docs' = Submitted("SO", job.doc) /\ docs["SO"][job.doc] \notin {"cancelled", "deleted"}
            => Has("SO", "submitted")'
    BY <1>1, <1>2, KindsAre, SubmittedBooks DEF Sales
<1>4. CASE ans # "ok"
    BY <1>1, <1>3, <1>4, Ends DEF Inv, Shapes, SubmitSO
<1>5. CASE ans = "ok" /\ docs["SO"][job.doc] = "cancelled"
    <2>1. docs' = docs /\ SalesDone
        BY <1>5 DEF SubmitSO, Call, Submitted
    <2> QED
        BY <1>1, <2>1, SalesDoneKeeps
<1>6. CASE ans = "ok" /\ docs["SO"][job.doc] # "cancelled"
    <2>1. docs' = Submitted("SO", job.doc) /\ queue' = queue /\ job' = [job EXCEPT !.pc = "si"]
        BY <1>6 DEF SubmitSO, Call, Goto, Stays
    <2>2. job' \in Job /\ job'.pc = "si" /\ job'.todo = {}
        BY <1>1, <2>1 DEF Job
    <2>3. Stands("SO", job.doc)
        BY <1>1 DEF Inv, Books, LinkedStands, Sales
    <2>4. Has("SO", "submitted")'
        BY <1>3, <1>6, <2>1, <2>3 DEF Stands
    <2>5. Shapes'
        BY <1>1, <1>3, <2>1, <2>2, ShapesKept DEF Shapes
    <2>6. InHand' /\ Booking' /\ Unwinding'
        BY <2>2, <2>4 DEF InHand, Booking, Unwinding, Stage, Sales, LinkPc
    <2> QED
        BY <1>3, <2>5, <2>6 DEF Inv
<1> QED
    BY <1>4, <1>5, <1>6

LEMMA AfterSIKeeps ==
    ASSUME Inv, job.pc = "si", job.todo = {}, queue # <<>>, UNCHANGED <<docs, links, order>>,
           NEW n \in links["SI"], AfterSI(n)
    PROVE  Inv'
<1>1. ~Loose /\ job \in Job /\ n \in Nat
    BY KindsAre DEF Loose, Inv, Shapes
<1>2. CASE Plan = "record-payments"
    <2>1. job' = [job EXCEPT !.pc = "submitSI", !.doc = n, !.kind = "SI"] /\ queue' = queue
        BY <1>2 DEF AfterSI, Stays
    <2>2. job' = [job EXCEPT !.doc = n, !.kind = "SI", !.pc = "submitSI"]
        BY <1>1, <2>1 DEF Job
    <2>3. job' \in Job /\ job'.pc = "submitSI" /\ job'.doc = n /\ job'.todo = {}
        BY <1>1, <2>2, TakesInHand DEF Sales
    <2>4. Has("SO", "submitted")
        BY <1>2 DEF Inv, Booking
    <2> QED
        BY <1>1, <2>1, <2>3, <2>4, BookingGoesOn
<1>3. CASE Plan # "record-payments"
    BY <1>1, <1>3, SalesDoneKeeps DEF AfterSI
<1> QED
    BY <1>2, <1>3

LEMMA WriteSIKeeps ==
    ASSUME ~LostLinks, Inv, NEW ans \in Answers, WriteSI(ans) PROVE Inv'
<1>1. /\ job.pc = "si" /\ ~Loose /\ queue # <<>> /\ UNCHANGED <<links, order>>
      /\ job \in Job /\ Shapes /\ job.todo = {}
    BY DEF WriteSI, At, Loose, Inv, Shapes, InHand, Stages
<1>2. \/ docs' = docs /\ SalesDone
      \/ docs' = docs /\ Over("failed")
      \/ \E n \in LinkOf("SI") :
            \/ StatusOf("SI", n) # "deleted" /\ docs' = docs /\ AfterSI(n)
            \/ /\ StatusOf("SI", n) = "deleted" /\ docs' = New("SI") /\ queue' = queue
               /\ job' = [job EXCEPT !.pc = "linkSI", !.doc = Len(docs["SI"]) + 1]
    BY <1>1 DEF WriteSI, Call, NoCall, Stays, Answers
<1>3. \A n \in LinkOf("SI") :
          /\ StatusOf("SI", n) # "deleted" => n \in links["SI"]
          /\ StatusOf("SI", n) = "deleted" => links["SI"] = {}
    <2> SUFFICES ASSUME NEW n \in LinkOf("SI")
                 PROVE  /\ StatusOf("SI", n) # "deleted" => n \in links["SI"]
                        /\ StatusOf("SI", n) = "deleted" => links["SI"] = {}
        OBVIOUS
    <2>1. n \in links["SI"] \/ (n = 0 /\ links["SI"] = {})
        BY <1>1, KindsAre, LinksAre
    <2>2. CASE n \in links["SI"]
        <3>1. Stands("SI", n) /\ n # 0
            BY <1>1, <2>2, KindsAre, LinksAre DEF Inv, Books, LinkedStands, Loose, Sales
        <3> QED
            BY <2>2, <3>1 DEF Stands, StatusOf
    <2>3. CASE n = 0 /\ links["SI"] = {}
        BY <2>3 DEF StatusOf
    <2> QED
        BY <2>1, <2>2, <2>3
<1>4. CASE docs' = docs /\ SalesDone
    BY <1>1, <1>4, SalesDoneKeeps
<1>5. CASE docs' = docs /\ Over("failed")
    BY <1>1, <1>5, QuietEnd
<1>6. ASSUME NEW n \in LinkOf("SI"), StatusOf("SI", n) # "deleted", docs' = docs, AfterSI(n)
      PROVE  Inv'
    BY <1>1, <1>3, <1>6, AfterSIKeeps
<1>7. ASSUME NEW n \in LinkOf("SI"), StatusOf("SI", n) = "deleted", docs' = New("SI"),
             queue' = queue, job' = [job EXCEPT !.pc = "linkSI", !.doc = Len(docs["SI"]) + 1]
      PROVE  Inv'
    BY <1>1, <1>3, <1>7, MadeKeeps DEF Sales, LinkPc
<1> QED
    BY <1>2, <1>4, <1>5, <1>6, <1>7

LEMMA LinkSIKeeps == ASSUME Inv, LinkSI PROVE Inv'
<1>1. /\ job.pc = "linkSI" /\ job.pc = LinkPc("SI") /\ queue # <<>> /\ UNCHANGED <<docs, order>>
      /\ job \in Job /\ Shapes /\ job.todo = {}
      /\ links' = [links EXCEPT !["SI"] = @ \cup {job.doc}]
    BY DEF LinkSI, At, Known, NoCall, Inv, Shapes, InHand, Stages, LinkPc
<1>2. /\ Books' /\ links' \in [Kinds -> SUBSET Nat] /\ links'["SI"] = {job.doc}
      /\ \A y \in Kinds : links'[y] \subseteq DOMAIN docs[y]
      /\ \A y \in Kinds : y # "SI" => links'[y] = links[y]
      /\ job.doc \in Nat /\ ~Has("SI", "submitted")
    BY <1>1, LinkedBooks DEF Sales
<1>3. docs' \in [Kinds -> Seq(Statuses)] /\ \A x \in Kinds : links'[x] \subseteq DOMAIN docs'[x]
    BY <1>1, <1>2 DEF Shapes
<1>4. CASE Plan = "record-payments"
    <2>1. job' = [job EXCEPT !.pc = "submitSI", !.doc = job.doc, !.kind = "SI"] /\ queue' = queue
        BY <1>4 DEF LinkSI, AfterSI, Stays
    <2>2. job' = [job EXCEPT !.doc = job.doc, !.kind = "SI", !.pc = "submitSI"]
        BY <1>1, <2>1 DEF Job
    <2>3. job' \in Job /\ job'.pc = "submitSI" /\ job'.doc = job.doc /\ job'.todo = {}
        BY <1>1, <1>2, <2>2, TakesInHand DEF Sales
    <2>4. Has("SO", "submitted")'
        BY <1>1, <1>4 DEF Inv, Booking, Has
    <2>5. Shapes'
        BY <1>1, <1>2, <1>3, <2>1, <2>3, ShapesKept
    <2>6. InHand' /\ Booking' /\ Unwinding'
        BY <1>2, <2>3, <2>4 DEF InHand, Booking, Unwinding, Stage, Sales, LinkPc
    <2> QED
        BY <1>2, <2>5, <2>6 DEF Inv
<1>5. CASE Plan # "record-payments" /\ job.undo
    <2>1. job' = Undoing /\ queue' = queue
        BY <1>5 DEF LinkSI, AfterSI, SalesDone, Stays
    <2>2. job' \in Job /\ job'.pc = "undoPay" /\ job'.todo = EntryLinks
        BY <1>1, <2>1, FreshJobs
    <2>3. \A l \in EntryLinks : l[1] \in Payments /\ l[2] \in links'[l[1]]
        BY <1>1, <1>2, EntryLinksAre, KindsAre
    <2>4. \A p \in Payments : ~Has(p, "submitted")'
        BY <1>1, <1>2 DEF Inv, Books, BooksInOrder, Has
    <2>5. Shapes'
        BY <1>1, <1>2, <1>3, <2>1, <2>2, ShapesKept
    <2>6. InHand' /\ Booking'
        BY <2>2, <2>3 DEF InHand, Booking, Sales, LinkPc, Stages
    <2>7. Unwinding'
        BY <2>2, <2>3, <2>4 DEF Unwinding, Stage, Has
    <2> QED
        BY <1>2, <2>5, <2>6, <2>7 DEF Inv
<1>6. CASE Plan # "record-payments" /\ ~job.undo
    <2>1. Over("success")
        BY <1>6 DEF LinkSI, AfterSI, SalesDone
    <2> QED
        BY <1>1, <1>2, <1>3, <2>1, Ends DEF Inv
<1> QED
    BY <1>4, <1>5, <1>6

LEMMA SubmitSIKeeps == ASSUME Inv, NEW ans \in Answers, SubmitSI(ans) PROVE Inv'
<1>1. /\ job.pc = "submitSI" /\ ~Loose /\ queue # <<>> /\ UNCHANGED <<links, order>>
      /\ job \in Job /\ Shapes /\ job.todo = {} /\ job.doc \in links["SI"]
      /\ Has("SO", "submitted")
    BY DEF SubmitSI, At, Loose, Inv, Shapes, InHand, Stages, Booking
<1>2. docs' = docs \/ docs' = Submitted("SI", job.doc)
    BY DEF SubmitSI, Call
<1>3. /\ Books' /\ docs' \in [Kinds -> Seq(Statuses)]
      /\ \A y \in Kinds : links'[y] \subseteq DOMAIN docs'[y]
      /\ docs' = Submitted("SI", job.doc) /\ docs["SI"][job.doc] \notin {"cancelled", "deleted"}
            => Has("SI", "submitted")'
    BY <1>1, <1>2, KindsAre, SubmittedBooks DEF Sales
<1>4. CASE ans # "ok"
    BY <1>1, <1>3, <1>4, Ends DEF Inv, Shapes, SubmitSI
<1>5. CASE ans = "ok" /\ docs["SI"][job.doc] = "cancelled"
    <2>1. docs' = docs /\ SalesDone
        BY <1>5 DEF SubmitSI, Call, Submitted
    <2> QED
        BY <1>1, <2>1, SalesDoneKeeps
<1>6. CASE ans = "ok" /\ docs["SI"][job.doc] # "cancelled"
    <2>1. /\ docs' = Submitted("SI", job.doc) /\ queue' = queue
          /\ job' = [job EXCEPT !.pc = "pay", !.pays = Head1.cap]
        BY <1>6 DEF SubmitSI, Call, Stays
    <2>2. Head1.cap \in SUBSET Payments
        <3>1. queue[1] \in Push
            BY <1>1 DEF Shapes
        <3> QED
            BY <3>1 DEF Push, Head1
    <2>3. job' \in Job /\ job'.pc = "pay" /\ job'.todo = {}
        BY <1>1, <2>1, <2>2 DEF Job
    <2>4. Stands("SI", job.doc)
        BY <1>1 DEF Inv, Books, LinkedStands, Sales
    <2>5. Has("SI", "submitted")'
        BY <1>3, <1>6, <2>1, <2>4 DEF Stands
    <2>6. Shapes'
        BY <1>1, <1>3, <2>1, <2>3, ShapesKept DEF Shapes
    <2>7. InHand' /\ Booking' /\ Unwinding'
        BY <2>3, <2>5 DEF InHand, Booking, Unwinding, Stage, Sales, LinkPc
    <2> QED
        BY <1>3, <2>6, <2>7 DEF Inv
<1> QED
    BY <1>4, <1>5, <1>6

-----------------------------------------------------------------------------
(* Booking a payment *)

\* The link of an entry that is gone is dropped; another entry may be made.
LEMMA EntryBooks ==
    ASSUME Inv, ~Loose, NEW p \in Payments,
           links' = links \/ \E n : (n = 0 \/ docs[p][n] = "deleted")
                                    /\ links' = [links EXCEPT ![p] = @ \ {n}],
           docs' = docs \/ (docs' = New(p) /\ Live(p) = {})
    PROVE  /\ Books' /\ docs' \in [Kinds -> Seq(Statuses)] /\ links' \in [Kinds -> SUBSET Nat]
           /\ \A y \in Kinds : links'[y] \subseteq DOMAIN docs'[y]
           /\ Has("SI", "submitted")' <=> Has("SI", "submitted")
<1>1. p \in Kinds /\ links \in [Kinds -> SUBSET Nat] /\ docs \in [Kinds -> Seq(Statuses)]
      /\ \A y \in Kinds : links[y] \subseteq DOMAIN docs[y]
    BY KindsAre DEF Inv, Shapes
<1>2. /\ links' \in [Kinds -> SUBSET Nat] /\ links'[p] \subseteq links[p]
      /\ \A y \in Kinds : y # p => links'[y] = links[y]
      /\ \A m \in links[p] : docs[p][m] = "submitted" => m \in links'[p]
    <2>1. CASE links' = links
        BY <1>1, <2>1
    <2>2. ASSUME NEW n, n = 0 \/ docs[p][n] = "deleted", links' = [links EXCEPT ![p] = @ \ {n}]
          PROVE  /\ links' \in [Kinds -> SUBSET Nat] /\ links'[p] = links[p] \ {n}
                 /\ \A y \in Kinds : y # p => links'[y] = links[y]
                 /\ \A m \in links[p] : docs[p][m] = "submitted" => m # n
        <3>1. 0 \notin links[p]
            BY <1>1
        <3> QED
            BY <1>1, <2>2, <3>1
    <2> QED
        BY <2>1, <2>2
<1>3. /\ docs' \in [Kinds -> Seq(Statuses)]
      /\ \A y \in Kinds : y # p => docs'[y] = docs[y]
      /\ DOMAIN docs[p] \subseteq DOMAIN docs'[p]
      /\ \A m \in DOMAIN docs[p] : docs'[p][m] = docs[p][m]
      /\ \A m \in DOMAIN docs'[p] : m \notin DOMAIN docs[p] => docs'[p][m] = "draft"
      /\ \A m, n \in DOMAIN docs'[p] :
            m \notin DOMAIN docs[p] /\ n \notin DOMAIN docs[p] => m = n
    <2>1. CASE docs' = docs
        BY <1>1, <2>1
    <2>2. CASE docs' = New(p)
        BY <1>1, <2>2, NewIs DEF Inv
    <2> QED
        BY <2>1, <2>2
<1>4. \A y \in Kinds : Has(y, "submitted")' <=> Has(y, "submitted")
    BY <1>3 DEF Has
<1>5. OneEach'
    <2>1. \A y \in Sales : docs'[y] = docs[y]
        BY <1>3, KindsAre
    <2>2. \A q \in Payments : q # p => Live(q)' = Live(q)
        BY <1>3, KindsAre DEF Live
    <2>3. \A m, n \in Live(p)' : m = n
        <3>1. CASE docs' = docs
            BY <3>1 DEF Live, Inv, Books, OneEach
        <3>2. CASE Live(p) = {}
            BY <1>3, <3>2 DEF Live
        <3> QED
            BY <3>1, <3>2
    <2> QED
        BY <2>1, <2>2, <2>3 DEF Inv, Books, OneEach, Stands
<1>6. StandingIsLinked' /\ LinkedStands'
    <2>1. \A y \in Sales : docs'[y] = docs[y] /\ links'[y] = links[y]
        BY <1>2, <1>3, KindsAre
    <2>2. \A y \in Sales : \A n \in DOMAIN docs[y] : Stands(y, n) => n \in links[y]
        BY DEF Inv, Books, StandingIsLinked, Loose, LinkPc
    <2>3. \A y \in Sales : \A n \in links[y] : Stands(y, n)
        BY DEF Inv, Books, LinkedStands, Loose
    <2> QED
        BY <2>1, <2>2, <2>3 DEF StandingIsLinked, LinkedStands, Stands
<1>7. EntryIsLinked'
    <2> SUFFICES ASSUME NEW q \in Payments, NEW n \in DOMAIN docs'[q], docs'[q][n] = "submitted"
                 PROVE  n \in links'[q]
        BY DEF EntryIsLinked
    <2>1. n \in DOMAIN docs[q] /\ docs[q][n] = "submitted"
        BY <1>3, KindsAre
    <2>2. n \in links[q]
        BY <2>1 DEF Inv, Books, EntryIsLinked
    <2> QED
        BY <1>2, <2>1, <2>2, KindsAre
<1>8. BooksInOrder'
    BY <1>4, KindsAre DEF Inv, Books, BooksInOrder
<1>9. \A y \in Kinds : links'[y] \subseteq DOMAIN docs'[y]
    BY <1>1, <1>2, <1>3
<1> QED
    BY <1>2, <1>3, <1>4, <1>5, <1>6, <1>7, <1>8, <1>9, KindsAre DEF Books

\* The job's fields while entries are booked.
LEMMA EntryJobs ==
    ASSUME job \in Job, NEW p \in Payments
    PROVE  /\ job' = [job EXCEPT !.pays = @ \ {p}] =>
                 job' \in Job /\ job'.pc = job.pc /\ job'.todo = job.todo
           /\ job' = [job EXCEPT !.pc = "submitPay"] =>
                 /\ job' \in Job /\ job'.pc = "submitPay" /\ job'.kind = job.kind
                 /\ job'.doc = job.doc /\ job'.todo = job.todo
           /\ job' = [job EXCEPT !.pc = "pay", !.pays = @ \ {job.kind}] =>
                 job' \in Job /\ job'.pc = "pay" /\ job'.todo = job.todo
<1> DEFINE left == job.pays \ {p}
           rest == job.pays \ {job.kind}
<1>1. left \in SUBSET Payments /\ rest \in SUBSET Payments
    BY DEF Job
<1>2. /\ job' = [job EXCEPT !.pays = @ \ {p}] => job' = [job EXCEPT !.pays = left]
      /\ job' = [job EXCEPT !.pc = "pay", !.pays = @ \ {job.kind}]
            => job' = [job EXCEPT !.pc = "pay", !.pays = rest]
    BY DEF Job
<1> HIDE DEF left, rest
<1>3. job' = [job EXCEPT !.pays = left] =>
          job' \in Job /\ job'.pc = job.pc /\ job'.todo = job.todo
    BY <1>1 DEF Job
<1>4. job' = [job EXCEPT !.pc = "pay", !.pays = rest] =>
          job' \in Job /\ job'.pc = "pay" /\ job'.todo = job.todo
    BY <1>1 DEF Job
<1>5. job' = [job EXCEPT !.pc = "submitPay"] =>
          /\ job' \in Job /\ job'.pc = "submitPay" /\ job'.kind = job.kind
          /\ job'.doc = job.doc /\ job'.todo = job.todo
    BY DEF Job
<1> QED
    BY <1>2, <1>3, <1>4, <1>5

LEMMA EntryInHand ==
    ASSUME job \in Job, NEW p \in Payments, NEW n \in Nat, NEW pc \in {"linkPay", "submitPay"},
           job' = [job EXCEPT !.pc = pc, !.kind = p, !.doc = n]
    PROVE  /\ job' \in Job /\ job'.pc = pc /\ job'.kind = p /\ job'.doc = n
           /\ job'.todo = job.todo
BY KindsAre DEF Job

LEMMA BookPaymentKeeps ==
    ASSUME Inv, NEW ans \in Answers, NEW p \in Payments, BookPayment(p, ans) PROVE Inv'
<1>1. /\ job.pc = "pay" /\ ~Loose /\ queue # <<>> /\ UNCHANGED order
      /\ job \in Job /\ Shapes /\ job.todo = {} /\ Has("SI", "submitted") /\ p \in Kinds
    BY KindsAre DEF BookPayment, At, Loose, Inv, Shapes, InHand, Stages, Booking
<1>2. PICK n \in LinkOf(p) :
          \/ /\ job' = [job EXCEPT !.pays = @ \ {p}]
             /\ UNCHANGED <<queue, docs, links>>
          \/ /\ StatusOf(p, n) \in {"draft", "submitted"} /\ UNCHANGED <<queue, docs, links>>
             /\ job' = [job EXCEPT !.pc = "submitPay", !.kind = p, !.doc = n]
          \/ /\ StatusOf(p, n) = "deleted" /\ links' = [links EXCEPT ![p] = @ \ {n}]
             /\ \/ /\ UNCHANGED <<queue, docs>>
                   /\ \E m \in Live(p) :
                         job' = [job EXCEPT !.pc = "linkPay", !.kind = p, !.doc = m]
                \/ /\ Live(p) = {} /\ docs' = New(p) /\ queue' = queue
                   /\ job' = [job EXCEPT !.pc = "linkPay", !.kind = p, !.doc = Len(docs[p]) + 1]
                \/ /\ Live(p) = {} /\ (docs' = New(p) \/ docs' = docs) /\ Over("failed")
    BY DEF BookPayment, ByReference, Stays, NoCall, Call
<1>3. CASE job' = [job EXCEPT !.pays = @ \ {p}] /\ UNCHANGED <<queue, docs, links>>
    <2>1. job' \in Job /\ job'.pc = "pay" /\ job'.todo = {}
        BY <1>1, <1>3, EntryJobs
    <2> QED
        BY <1>1, <1>3, <2>1, BookingGoesOn
<1>4. CASE /\ StatusOf(p, n) \in {"draft", "submitted"} /\ UNCHANGED <<queue, docs, links>>
           /\ job' = [job EXCEPT !.pc = "submitPay", !.kind = p, !.doc = n]
    <2>1. n \in links[p] /\ n \in Nat
        BY <1>1, <1>4, LinksAre
    <2>2. job' \in Job /\ job'.pc = "submitPay" /\ job'.kind = p /\ job'.doc = n /\ job'.todo = {}
        BY <1>1, <1>4, <2>1, EntryInHand
    <2> QED
        BY <1>1, <1>4, <2>1, <2>2, BookingGoesOn
<1>5. CASE /\ StatusOf(p, n) = "deleted" /\ links' = [links EXCEPT ![p] = @ \ {n}]
           /\ \/ /\ UNCHANGED <<queue, docs>>
                 /\ \E m \in Live(p) :
                       job' = [job EXCEPT !.pc = "linkPay", !.kind = p, !.doc = m]
              \/ /\ Live(p) = {} /\ docs' = New(p) /\ queue' = queue
                 /\ job' = [job EXCEPT !.pc = "linkPay", !.kind = p, !.doc = Len(docs[p]) + 1]
              \/ /\ Live(p) = {} /\ (docs' = New(p) \/ docs' = docs) /\ Over("failed")
    <2>1. n = 0 \/ docs[p][n] = "deleted"
        BY <1>5 DEF StatusOf
    <2>2. docs' = docs \/ (docs' = New(p) /\ Live(p) = {})
        BY <1>5
    <2>3. /\ Books' /\ docs' \in [Kinds -> Seq(Statuses)] /\ links' \in [Kinds -> SUBSET Nat]
          /\ \A y \in Kinds : links'[y] \subseteq DOMAIN docs'[y]
          /\ Has("SI", "submitted")'
        BY <1>1, <1>5, <2>1, <2>2, EntryBooks
    <2>4. CASE Over("failed")
        BY <1>1, <2>3, <2>4, Ends DEF Inv
    <2>5. CASE ~Over("failed")
        <3>1. PICK m \in Nat : /\ m \in DOMAIN docs'[p] /\ queue' = queue
                               /\ job' = [job EXCEPT !.pc = "linkPay", !.kind = p, !.doc = m]
            <4>1. CASE /\ UNCHANGED <<queue, docs>>
                       /\ \E m \in Live(p) :
                             job' = [job EXCEPT !.pc = "linkPay", !.kind = p, !.doc = m]
                <5>1. \A m \in Live(p) : m \in DOMAIN docs[p] /\ m \in Nat
                    BY <1>1 DEF Live, Shapes
                <5> QED
                    BY <4>1, <5>1
            <4>2. CASE /\ Live(p) = {} /\ docs' = New(p) /\ queue' = queue
                       /\ job' = [job EXCEPT !.pc = "linkPay", !.kind = p,
                                             !.doc = Len(docs[p]) + 1]
                <5>1. Len(docs[p]) + 1 \in Nat /\ Len(docs[p]) + 1 \in DOMAIN docs'[p]
                    BY <1>1, <4>2, NewIs
                <5> QED
                    BY <4>2, <5>1
            <4> QED
                BY <1>5, <2>5, <4>1, <4>2
        <3>2. /\ job' \in Job /\ job'.pc = "linkPay" /\ job'.kind = p /\ job'.doc = m
              /\ job'.todo = {}
            BY <1>1, <3>1, EntryInHand
        <3>3. Shapes'
            BY <1>1, <2>3, <3>1, <3>2, ShapesKept
        <3>4. InHand' /\ Booking' /\ Unwinding'
            BY <2>3, <3>1, <3>2 DEF InHand, Booking, Unwinding, Stage, Sales, LinkPc
        <3> QED
            BY <2>3, <3>3, <3>4 DEF Inv
    <2> QED
        BY <2>4, <2>5
<1> QED
    BY <1>2, <1>3, <1>4, <1>5

LEMMA LinkPaymentKeeps == ASSUME Inv, LinkPayment PROVE Inv'
<1>1. /\ job.pc = "linkPay" /\ ~Loose /\ queue # <<>> /\ UNCHANGED <<order, docs, queue>>
      /\ job \in Job /\ Shapes /\ job.todo = {} /\ Has("SI", "submitted")
      /\ job.kind \in Payments /\ job.doc \in DOMAIN docs[job.kind]
      /\ links' = [links EXCEPT ![job.kind] = @ \cup {job.doc}]
      /\ job' = [job EXCEPT !.pc = "submitPay"]
    BY DEF LinkPayment, At, Known, Goto, Stays, NoCall, Loose, Inv, Shapes, InHand, Stages, Booking
<1> DEFINE p == job.kind
<1>2. p \in Payments /\ p \in Kinds /\ job.doc \in Nat
    BY <1>1, KindsAre DEF Job
<1>3. /\ job' \in Job /\ job'.pc = "submitPay" /\ job'.kind = p /\ job'.doc = job.doc
      /\ job'.todo = {}
    BY <1>1, <1>2, EntryJobs
<1>4. /\ links' \in [Kinds -> SUBSET Nat] /\ links'[p] = links[p] \cup {job.doc}
      /\ \A y \in Kinds : y # p => links'[y] = links[y]
    BY <1>1, <1>2 DEF Shapes
<1> HIDE DEF p
<1>5. \A y \in Kinds : links'[y] \subseteq DOMAIN docs'[y]
    BY <1>1, <1>4 DEF Shapes, p
<1>6. OneEach' /\ BooksInOrder'
    BY <1>1 DEF Inv, Books, OneEach, BooksInOrder, Stands, Live, Has
<1>7. StandingIsLinked' /\ LinkedStands' /\ EntryIsLinked'
    BY <1>1, <1>2, <1>4, KindsAre
    DEF Inv, Books, StandingIsLinked, LinkedStands, EntryIsLinked, Stands, Loose, LinkPc
<1>8. Shapes'
    BY <1>1, <1>3, <1>4, <1>5, ShapesKept DEF Shapes
<1>9. InHand' /\ Booking' /\ Unwinding'
    BY <1>1, <1>2, <1>3, <1>4 DEF InHand, Booking, Unwinding, Stage, Sales, LinkPc, Has
<1> QED
    BY <1>6, <1>7, <1>8, <1>9 DEF Inv, Books

LEMMA SubmitPaymentKeeps == ASSUME Inv, NEW ans \in Answers, SubmitPayment(ans) PROVE Inv'
<1>1. /\ job.pc = "submitPay" /\ ~Loose /\ queue # <<>> /\ UNCHANGED <<links, order>>
      /\ job \in Job /\ Shapes /\ job.todo = {} /\ Has("SI", "submitted")
      /\ job.kind \in Payments /\ job.doc \in links[job.kind]
    BY DEF SubmitPayment, At, Loose, Inv, Shapes, InHand, Stages, Booking
<1>2. docs' = docs \/ docs' = Submitted(job.kind, job.doc)
    BY DEF SubmitPayment, Call
<1>3. /\ Books' /\ docs' \in [Kinds -> Seq(Statuses)]
      /\ \A y \in Kinds : links'[y] \subseteq DOMAIN docs'[y]
      /\ Has("SI", "submitted")'
    <2>1. job.kind \in Kinds /\ job.kind # "SI" /\ "SI" \in Kinds
        BY <1>1, KindsAre
    <2> QED
        BY <1>1, <1>2, <2>1, SubmittedBooks
<1>4. CASE ans # "ok"
    BY <1>1, <1>3, <1>4, Ends DEF Inv, Shapes, SubmitPayment
<1>5. CASE ans = "ok"
    <2>1. job' = [job EXCEPT !.pc = "pay", !.pays = @ \ {job.kind}] /\ queue' = queue
        BY <1>5 DEF SubmitPayment, Stays
    <2>2. job.doc \in Nat
        BY <1>1 DEF Job
    <2>3. job' \in Job /\ job'.pc = "pay" /\ job'.todo = {}
        BY <1>1, <2>1, <2>2, EntryJobs
    <2>4. Shapes'
        BY <1>1, <1>3, <2>1, <2>3, ShapesKept DEF Shapes
    <2>5. InHand' /\ Booking' /\ Unwinding'
        BY <1>3, <2>3 DEF InHand, Booking, Unwinding, Stage, Sales, LinkPc
    <2> QED
        BY <1>3, <2>4, <2>5 DEF Inv
<1> QED
    BY <1>4, <1>5

LEMMA AllBookedKeeps == ASSUME Inv, AllBooked PROVE Inv'
<1>1. job.pc = "pay" /\ ~Loose /\ queue # <<>> /\ UNCHANGED <<docs, links, order>> /\ SalesDone
    BY DEF AllBooked, At, NoCall, Loose, Inv, Shapes
<1> QED
    BY <1>1, SalesDoneKeeps

-----------------------------------------------------------------------------
(* Unwinding *)

\* What a stage unwinds next, and the job's fields on the way.
LEMMA UnwindJobs ==
    ASSUME job \in Job, NEW l \in job.todo, NEW x \in Kinds, NEW n \in Nat, job.pc \in Stages,
           NEW err \in BOOLEAN
    PROVE  /\ job' = [job EXCEPT !.todo = @ \ {l}, !.pc = "unlink", !.next = job.pc,
                                 !.kind = x, !.doc = n] =>
                 /\ job' \in Job /\ job'.pc = "unlink" /\ job'.next = job.pc /\ job'.kind = x
                 /\ job'.doc = n /\ job'.todo = job.todo \ {l} /\ job'.err = job.err
           /\ job' = [job EXCEPT !.todo = @ \ {l}, !.err = err] =>
                 /\ job' \in Job /\ job'.pc = job.pc /\ job'.todo = job.todo \ {l}
                 /\ job'.err = err
<1> DEFINE rest == job.todo \ {l}
<1>1. rest \in SUBSET (Kinds \X Nat)
    BY DEF Job
<1>2. /\ job' = [job EXCEPT !.todo = @ \ {l}, !.pc = "unlink", !.next = job.pc,
                            !.kind = x, !.doc = n]
            => job' = [job EXCEPT !.todo = rest, !.pc = "unlink", !.next = job.pc,
                                  !.kind = x, !.doc = n]
      /\ job' = [job EXCEPT !.todo = @ \ {l}, !.err = err]
            => job' = [job EXCEPT !.todo = rest, !.err = err]
    BY DEF Job
<1> HIDE DEF rest
<1>3. job' = [job EXCEPT !.todo = rest, !.pc = "unlink", !.next = job.pc, !.kind = x, !.doc = n] =>
          /\ job' \in Job /\ job'.pc = "unlink" /\ job'.next = job.pc /\ job'.kind = x
          /\ job'.doc = n /\ job'.todo = rest /\ job'.err = job.err
    BY <1>1 DEF Job, Stages
<1>4. job' = [job EXCEPT !.todo = rest, !.err = err] =>
          job' \in Job /\ job'.pc = job.pc /\ job'.todo = rest /\ job'.err = err
    BY <1>1 DEF Job
<1>5. rest = job.todo \ {l}
    BY DEF rest
<1> QED
    BY <1>2, <1>3, <1>4, <1>5

\* Unwound: the document is deleted, cancelled or as it was.
LEMMA UnwoundIs ==
    ASSUME Shapes, NEW x \in Kinds, NEW n \in DOMAIN docs[x],
           docs' = docs \/ docs' = Unwound(x, n)
    PROVE  /\ docs' \in [Kinds -> Seq(Statuses)]
           /\ \A y \in Kinds : DOMAIN docs'[y] = DOMAIN docs[y]
           /\ \A y \in Kinds : \A m \in DOMAIN docs[y] :
                 \/ docs'[y][m] = docs[y][m]
                 \/ /\ y = x /\ m = n
                    /\ \/ docs[x][n] = "draft" /\ docs'[x][n] = "deleted"
                       \/ docs[x][n] = "submitted" /\ docs'[x][n] = "cancelled"
           /\ \A y \in Kinds : y # x => docs'[y] = docs[y]
           /\ docs' = Unwound(x, n) => docs'[x][n] \in {"deleted", "cancelled"}
           /\ docs' = Unwound(x, n) /\ docs[x][n] = "draft" => docs'[x][n] = "deleted"
<1>1. docs[x][n] \in Statuses
    BY DEF Shapes
<1>2. CASE docs' = docs /\ docs[x][n] \notin {"draft", "submitted"}
    BY <1>1, <1>2 DEF Shapes, Unwound, Statuses
<1>3. CASE docs' = Unwound(x, n) /\ docs[x][n] = "draft"
    <2>1. docs' = With(x, n, "deleted")
        BY <1>3 DEF Unwound
    <2>2. "deleted" \in Statuses
        BY DEF Statuses
    <2> QED
        BY <1>3, <2>1, <2>2, WithIs
<1>4. CASE docs' = Unwound(x, n) /\ docs[x][n] = "submitted"
    <2>1. docs' = With(x, n, "cancelled")
        BY <1>4 DEF Unwound
    <2>2. "cancelled" \in Statuses
        BY DEF Statuses
    <2> QED
        BY <1>4, <2>1, <2>2, WithIs
<1>5. CASE docs' = docs /\ docs' # Unwound(x, n)
    BY <1>5 DEF Shapes
<1>6. CASE docs' = docs /\ docs' = Unwound(x, n)
    BY <1>1, <1>3, <1>4, <1>6 DEF Unwound, Statuses, Shapes
<1>7. CASE docs' = Unwound(x, n) /\ docs[x][n] \notin {"draft", "submitted"}
    BY <1>1, <1>7, <1>2 DEF Unwound
<1> QED
    BY <1>3, <1>4, <1>5, <1>6, <1>7

LEMMA UnwindKeeps ==
    ASSUME ~LostLinks, Inv, NEW l \in job.todo, NEW ans \in Answers, Unwind(l, ans) PROVE Inv'
<1> DEFINE x == l[1]
           n == l[2]
<1>1. /\ job.pc \in Stages /\ ~Loose /\ queue # <<>> /\ UNCHANGED <<links, order, queue>>
      /\ job \in Job /\ Shapes /\ Stage = job.pc
    BY DEF Unwind, At, Stays, Stages, Loose, Inv, Shapes, Stage
<1>2. l = <<x, n>> /\ x \in Kinds /\ n \in Nat /\ n \in links[x] /\ n \in DOMAIN docs[x]
    BY <1>1 DEF Job, Inv, InHand, Shapes
<1> HIDE DEF x, n
<1>3. /\ docs' = docs \/ docs' = Unwound(x, n)
      /\ ans = "ok" => docs' = Unwound(x, n)
      /\ ans # "ok" /\ x \in Sales => docs' = docs \/ docs[x][n] # "draft"
    BY <1>2, KindsAre DEF Unwind, Call, Answers, x, n
<1>4. /\ docs' \in [Kinds -> Seq(Statuses)]
      /\ \A y \in Kinds : DOMAIN docs'[y] = DOMAIN docs[y]
      /\ \A y \in Kinds : \A m \in DOMAIN docs[y] :
            \/ docs'[y][m] = docs[y][m]
            \/ /\ y = x /\ m = n
               /\ \/ docs[x][n] = "draft" /\ docs'[x][n] = "deleted"
                  \/ docs[x][n] = "submitted" /\ docs'[x][n] = "cancelled"
      /\ \A y \in Kinds : y # x => docs'[y] = docs[y]
      /\ ans = "ok" => docs'[x][n] \in {"deleted", "cancelled"}
      /\ ans = "ok" /\ docs[x][n] = "draft" => docs'[x][n] = "deleted"
    BY <1>1, <1>2, <1>3, UnwoundIs
<1>5. \/ /\ ans = "ok" /\ docs[x][n] = "draft"
         /\ job' \in Job /\ job'.pc = "unlink" /\ job'.next = job.pc /\ job'.kind = x
         /\ job'.doc = n /\ job'.todo = job.todo \ {l} /\ job'.err = job.err
      \/ /\ ~(ans = "ok" /\ docs[x][n] = "draft")
         /\ job' \in Job /\ job'.pc = job.pc /\ job'.todo = job.todo \ {l}
         /\ ans = "ok" => job'.err = job.err
         /\ ans # "ok" => job'.err
    <2>1. CASE ans = "ok" /\ docs[x][n] = "draft"
        <3>1. job' = [job EXCEPT !.todo = @ \ {l}, !.pc = "unlink", !.next = job.pc,
                                 !.kind = x, !.doc = n]
            BY <2>1 DEF Unwind, x, n
        <3> QED
            BY <1>1, <1>2, <2>1, <3>1, UnwindJobs
    <2>2. CASE ~(ans = "ok" /\ docs[x][n] = "draft")
        <3> DEFINE err == job.err \/ ans # "ok"
        <3>1. job' = [job EXCEPT !.todo = @ \ {l}, !.err = err]
            BY <1>1, <2>2 DEF Unwind, x, n, Job
        <3>2. err \in BOOLEAN /\ job.err \in BOOLEAN
            BY <1>1 DEF Job
        <3>3. (ans = "ok" => err = job.err) /\ (ans # "ok" => err = TRUE)
            BY <3>2
        <3> HIDE DEF err
        <3>4. job' \in Job /\ job'.pc = job.pc /\ job'.todo = job.todo \ {l} /\ job'.err = err
            BY <1>1, <1>2, <3>1, <3>2, UnwindJobs
        <3> QED
            BY <2>2, <3>3, <3>4
    <2> QED
        BY <2>1, <2>2
<1>6. \A y \in Kinds : \A m \in DOMAIN docs'[y] :
          docs'[y][m] = "submitted" => docs[y][m] = "submitted" /\ (ans = "ok" => <<y, m>> # l)
    BY <1>2, <1>4
<1>7. \A y \in Kinds : Has(y, "submitted")' => Has(y, "submitted")
    BY <1>4, <1>6 DEF Has
<1>8. \A y \in Kinds : \A m : Stands(y, m)' => Stands(y, m)
    BY <1>4 DEF Stands
<1>9. \A y \in Kinds : y # x => docs'[y] = docs[y]
    BY <1>4
<1>10. OneEach' /\ StandingIsLinked' /\ EntryIsLinked'
    <2>1. \A y \in Kinds : Live(y)' \subseteq Live(y)
        BY <1>4 DEF Live
    <2>2. OneEach'
        BY <1>4, <1>8, <2>1, KindsAre DEF Inv, Books, OneEach
    <2>3. StandingIsLinked'
        BY <1>1, <1>4, <1>8, KindsAre DEF Inv, Books, StandingIsLinked, Loose, LinkPc
    <2>4. EntryIsLinked'
        BY <1>1, <1>4, <1>6, KindsAre DEF Inv, Books, EntryIsLinked
    <2> QED
        BY <2>2, <2>3, <2>4
<1>11. LinkedStands'
    <2> SUFFICES ASSUME NEW y \in Sales, NEW m \in links[y], ~Stands(y, m)'
                 PROVE  job'.pc = "unlink" /\ job'.kind = y /\ job'.doc = m
        BY <1>1 DEF LinkedStands
    <2>1. Stands(y, m) /\ y \in Kinds
        BY <1>1, KindsAre DEF Inv, Books, LinkedStands, Loose
    <2>2. y = x /\ m = n /\ docs[x][n] = "draft" /\ docs'[x][n] = "deleted"
        BY <1>4, <2>1 DEF Stands
    <2>3. ans = "ok"
        BY <1>3, <2>2
    <2> QED
        BY <1>5, <2>2, <2>3
<1>12. BooksInOrder'
    <2>1. CASE job.pc = "undoPay"
        <3>1. x \in Payments
            BY <1>1, <2>1 DEF Inv, Unwinding, x
        <3>2. docs'["SI"] = docs["SI"] /\ docs'["SO"] = docs["SO"]
            BY <1>9, <3>1, KindsAre
        <3> QED
            BY <1>7, <3>2, KindsAre DEF Inv, Books, BooksInOrder, Has
    <2>2. CASE job.pc = "undoSI"
        <3>1. x = "SI" /\ \A p \in Payments : ~Has(p, "submitted")
            BY <1>1, <2>2 DEF Inv, Unwinding, x
        <3>2. docs'["SO"] = docs["SO"]
            BY <1>9, <3>1, KindsAre
        <3> QED
            BY <1>7, <3>1, <3>2, KindsAre DEF Inv, Books, BooksInOrder, Has
    <2>3. CASE job.pc = "undoSO"
        <3>1. ~Has("SI", "submitted") /\ \A p \in Payments : ~Has(p, "submitted")
            BY <1>1, <2>3 DEF Inv, Unwinding
        <3> QED
            BY <1>7, <3>1, KindsAre DEF BooksInOrder
    <2> QED
        BY <1>1, <2>1, <2>2, <2>3 DEF Stages
<1>13. Shapes'
    <2>1. job' \in Job
        BY <1>5
    <2> QED
        BY <1>1, <1>4, <2>1, ShapesKept DEF Shapes
<1>14. InHand'
    <2>1. \A k \in job'.todo : k[2] \in links'[k[1]]
        BY <1>1, <1>5 DEF Inv, InHand
    <2>2. job'.pc \in Stages \cup {"unlink"}
        BY <1>1, <1>5
    <2>3. job'.pc = "unlink" => /\ job'.kind \in Kinds /\ job'.doc \in DOMAIN docs'[job'.kind]
                                /\ docs'[job'.kind][job'.doc] = "deleted"
                                /\ <<job'.kind, job'.doc>> \notin job'.todo
        BY <1>1, <1>2, <1>4, <1>5 DEF Stages
    <2> QED
        BY <2>1, <2>2, <2>3 DEF InHand, Sales, LinkPc, Stages
<1>15. Stage' = Stage /\ job'.todo = job.todo \ {l} /\ (job.err => job'.err)
       /\ (job'.err \/ (ans = "ok" /\ ~job.err))
    BY <1>1, <1>5 DEF Stage, Stages, Job
<1>16. Unwinding'
    <2>1. \A p \in Payments : Has(p, "submitted")' => Has(p, "submitted")
        BY <1>7, KindsAre
    <2>2. \A y \in Kinds :
             (job.err \/ \A m \in DOMAIN docs[y] :
                            docs[y][m] = "submitted" => <<y, m>> \in job.todo)
             => (job'.err \/ \A m \in DOMAIN docs'[y] :
                                docs'[y][m] = "submitted" => <<y, m>> \in job'.todo)
        BY <1>4, <1>6, <1>15
    <2>3. (Stage = "undoPay" =>
              /\ \A k \in job.todo : k[1] \in Payments
              /\ job.err \/ \A p \in Payments : \A m \in DOMAIN docs[p] :
                               docs[p][m] = "submitted" => <<p, m>> \in job.todo)
        BY DEF Inv, Unwinding
    <2>4. Stage = "undoPay" =>
              /\ \A k \in job'.todo : k[1] \in Payments
              /\ job'.err \/ \A p \in Payments : \A m \in DOMAIN docs'[p] :
                                docs'[p][m] = "submitted" => <<p, m>> \in job'.todo
        BY <1>4, <1>6, <1>15, <2>3, KindsAre
    <2>5. Stage = "undoSI" =>
              /\ \A k \in job'.todo : k[1] = "SI"
              /\ \A p \in Payments : ~Has(p, "submitted")'
              /\ job'.err \/ \A m \in DOMAIN docs'["SI"] :
                                docs'["SI"][m] = "submitted" => <<"SI", m>> \in job'.todo
        BY <1>15, <2>1, <2>2, KindsAre DEF Inv, Unwinding
    <2>6. Stage = "undoSO" =>
              /\ \A k \in job'.todo : k[1] = "SO"
              /\ \A p \in Payments : ~Has(p, "submitted")'
              /\ ~Has("SI", "submitted")'
              /\ job'.err \/ \A m \in DOMAIN docs'["SO"] :
                                docs'["SO"][m] = "submitted" => <<"SO", m>> \in job'.todo
        BY <1>7, <1>15, <2>1, <2>2, KindsAre DEF Inv, Unwinding
    <2> QED
        BY <1>15, <2>4, <2>5, <2>6 DEF Unwinding
<1>17. Booking'
    BY <1>1, <1>5 DEF Booking, Stages
<1> QED
    BY <1>10, <1>11, <1>12, <1>13, <1>14, <1>16, <1>17 DEF Inv, Books

LEMMA UnlinkKeeps == ASSUME Inv, Unlink PROVE Inv'
<1> DEFINE x == job.kind
           n == job.doc
<1>1. /\ job.pc = "unlink" /\ queue # <<>> /\ UNCHANGED <<docs, order, queue>>
      /\ job \in Job /\ Shapes /\ Stage = job.next
    BY DEF Unlink, At, Stays, NoCall, Inv, Shapes, Stage
<1>2. /\ x \in Kinds /\ n \in DOMAIN docs[x] /\ docs[x][n] = "deleted"
      /\ <<x, n>> \notin job.todo
    BY <1>1 DEF Inv, InHand
<1>3. links' = [links EXCEPT ![x] = links[x] \ {n}] /\ links \in [Kinds -> SUBSET Nat]
    BY <1>1 DEF Unlink, Shapes
<1>4. /\ job' \in Job /\ job'.pc = job.next /\ job.next \in Stages /\ job'.todo = job.todo
      /\ job'.err = job.err
    BY <1>1 DEF Unlink, Goto, Job, Stages
<1> HIDE DEF x, n
<1>5. /\ links' \in [Kinds -> SUBSET Nat] /\ links'[x] = links[x] \ {n}
      /\ \A y \in Kinds : y # x => links'[y] = links[y]
    BY <1>2, <1>3
<1>6. \A y \in Kinds : links'[y] \subseteq DOMAIN docs'[y]
    BY <1>1, <1>5 DEF Shapes
<1>7. \A y \in Kinds : \A m \in links[y] : <<y, m>> # <<x, n>> => m \in links'[y]
    BY <1>5
<1>8. StandingIsLinked'
    <2> SUFFICES ASSUME NEW y \in Sales, NEW m \in DOMAIN docs[y], Stands(y, m)
                 PROVE  m \in links'[y]
        BY <1>1 DEF StandingIsLinked, Stands
    <2>1. m \in links[y] /\ y \in Kinds
        BY <1>1, KindsAre DEF Inv, Books, StandingIsLinked, LinkPc
    <2> QED
        BY <1>2, <1>7, <2>1 DEF Stands
<1>9. LinkedStands'
    <2> SUFFICES ASSUME NEW y \in Sales, NEW m \in links'[y] PROVE Stands(y, m)
        BY <1>1 DEF LinkedStands, Stands
    <2>1. m \in links[y] /\ ~(y = x /\ m = n)
        BY <1>5, KindsAre
    <2> QED
        BY <2>1 DEF Inv, Books, LinkedStands, x, n
<1>10. EntryIsLinked'
    BY <1>1, <1>2, <1>7, KindsAre DEF Inv, Books, EntryIsLinked
<1>11. OneEach' /\ BooksInOrder'
    BY <1>1 DEF Inv, Books, OneEach, BooksInOrder, Stands, Live, Has
<1>12. Shapes'
    BY <1>1, <1>4, <1>5, <1>6, ShapesKept DEF Shapes
<1>13. InHand'
    <2>1. \A l \in job.todo : l = <<l[1], l[2]>> /\ l[1] \in Kinds /\ l[2] \in links[l[1]]
        BY <1>1 DEF Job, Inv, InHand
    <2>2. \A l \in job'.todo : l[2] \in links'[l[1]]
        BY <1>2, <1>4, <1>7, <2>1
    <2> QED
        BY <1>4, <2>2 DEF InHand, Sales, LinkPc, Stages
<1>14. Unwinding' /\ Booking'
    <2>1. Stage' = Stage
        BY <1>1, <1>4 DEF Stage, Stages
    <2> QED
        BY <1>1, <1>4, <2>1 DEF Inv, Unwinding, Booking, Has, Stages
<1> QED
    BY <1>8, <1>9, <1>10, <1>11, <1>12, <1>13, <1>14 DEF Inv, Books

\* A stage is entered when nothing of the one before is left to take back.
LEMMA NextStageKeeps == ASSUME Inv, NextStage PROVE Inv'
<1>1. /\ job.pc \in Stages /\ ~Loose /\ queue # <<>> /\ UNCHANGED <<docs, links, order>>
      /\ job \in Job /\ Shapes /\ Stage = job.pc /\ job.todo = {}
    BY DEF NextStage, At, NoCall, Stages, Loose, Inv, Shapes, Stage
<1>2. CASE Over("failed") \/ Over("success")
    BY <1>1, <1>2, QuietEnd
<1>3. CASE ~(Over("failed") \/ Over("success"))
    <2> DEFINE k == NextKind(job.pc)
               pc == IF job.pc = "undoPay" THEN "undoSI" ELSE "undoSO"
    <2>1. ~job.err /\ k # "done" /\ queue' = queue
        BY <1>3 DEF NextStage, NoneRefused, Stays
    <2>2. \/ job.pc = "undoPay" /\ k = "SI" /\ pc = "undoSI"
          \/ job.pc = "undoSI" /\ k = "SO" /\ pc = "undoSO"
        BY <1>1, <2>1 DEF Stages, NextKind
    <2>3. PICK n \in LinkOf(k) :
              job' = [job EXCEPT !.pc = pc, !.todo = IF n = 0 THEN {} ELSE {<<k, n>>}]
        BY <1>3 DEF NextStage
    <2> HIDE DEF k, pc
    <2> DEFINE todo == IF n = 0 THEN {} ELSE {<<k, n>>}
    <2>4. k \in Sales /\ k \in Kinds /\ pc \in Stages
        BY <2>2, KindsAre DEF Sales, Stages
    <2>5. /\ n \in links[k] => n \in Nat /\ n # 0
          /\ n \notin links[k] => links[k] = {} /\ n = 0
        BY <1>1, <2>4, LinksAre
    <2>6. /\ todo \in SUBSET (Kinds \X Nat)
          /\ \A l \in todo : l[1] = k /\ l[2] \in links[k]
          /\ \A m \in links[k] : m = n => <<k, m>> \in todo
        BY <2>4, <2>5
    <2> HIDE DEF todo
    <2>7. job' \in Job /\ job'.pc = pc /\ job'.todo = todo /\ job'.err = job.err
        <3>1. job' = [job EXCEPT !.pc = pc, !.todo = todo]
            BY <2>3 DEF todo
        <3> QED
            BY <1>1, <2>4, <2>6, <3>1 DEF Job, Stages
    <2>8. Books'
        BY <1>1, QuietBooks DEF Inv
    <2>9. Shapes'
        BY <1>1, <2>1, <2>7, ShapesKept DEF Shapes
    <2>10. InHand'
        BY <1>1, <2>4, <2>6, <2>7 DEF InHand, Sales, LinkPc, Stages
    <2>11. \A m \in DOMAIN docs[k] : docs[k][m] = "submitted" => <<k, m>> \in todo
        <3> SUFFICES ASSUME NEW m \in DOMAIN docs[k], docs[k][m] = "submitted"
                     PROVE  <<k, m>> \in todo
            OBVIOUS
        <3>1. Stands(k, m) /\ m \in links[k]
            BY <1>1, <2>4 DEF Inv, Books, StandingIsLinked, Stands, Loose, LinkPc
        <3>2. n \in links[k] /\ Stands(k, n)
            BY <1>1, <2>4, <2>5, <3>1 DEF Inv, Books, LinkedStands, Loose
        <3>3. m = n
            BY <2>4, <3>1, <3>2 DEF Inv, Books, OneEach, Stands
        <3> QED
            BY <2>6, <3>1, <3>3
    <2>12. CASE job.pc = "undoPay"
        <3>1. \A p \in Payments : ~Has(p, "submitted")
            BY <1>1, <2>1, <2>12 DEF Inv, Unwinding, Has
        <3>2. job'.pc = "undoSI" /\ k = "SI"
            BY <2>2, <2>7, <2>12
        <3>3. Unwinding' /\ Booking'
            BY <1>1, <2>6, <2>7, <2>11, <3>1, <3>2 DEF Unwinding, Booking, Stage, Has
        <3> QED
            BY <2>8, <2>9, <2>10, <3>3 DEF Inv
    <2>13. CASE job.pc = "undoSI"
        <3>1. ~Has("SI", "submitted") /\ \A p \in Payments : ~Has(p, "submitted")
            BY <1>1, <2>1, <2>13 DEF Inv, Unwinding, Has
        <3>2. job'.pc = "undoSO" /\ k = "SO"
            BY <2>2, <2>7, <2>13
        <3>3. Unwinding' /\ Booking'
            BY <1>1, <2>6, <2>7, <2>11, <3>1, <3>2 DEF Unwinding, Booking, Stage, Has
        <3> QED
            BY <2>8, <2>9, <2>10, <3>3 DEF Inv
    <2> QED
        BY <2>2, <2>12, <2>13
<1> QED
    BY <1>2, <1>3

-----------------------------------------------------------------------------
(* Outside the lock *)

\* What events and rows carry to the pushes.
Carried ==
    /\ order.refunded \subseteq order.captured
    /\ emitted \in Seq(EventNames) /\ Len(emitted) <= MaxEvents
    /\ due \subseteq 1..Len(emitted)
    /\ gates \subseteq Push
    /\ row \in [Events -> SyncRow]
    /\ failures \in 0..MaxFailures
    /\ crashes \in 0..MaxCrashes

LEMMA TypesAre == Shapes /\ Carried => TypeOK
BY DEF Shapes, Carried, TypeOK, Order

\* A crash may strike anywhere but between a document and its link.
LEMMA CrashKeeps == ASSUME ~LostLinks, Inv, Crash PROVE Inv'
<1>1. ~LinkIsDue /\ job' = Idle /\ queue' = <<>> /\ UNCHANGED <<docs, links, order>>
    BY DEF Crash
<1>2. job' \in Job /\ job'.pc = "idle" /\ job'.todo = {}
    BY <1>1, IdleIs
<1>3. Shapes'
    BY <1>1, <1>2 DEF Inv, Shapes
<1>4. OneEach' /\ EntryIsLinked' /\ BooksInOrder'
    BY <1>1 DEF Inv, Books, OneEach, EntryIsLinked, BooksInOrder, Stands, Live, Has
<1>5. StandingIsLinked' /\ LinkedStands'
    BY <1>1, KindsAre DEF Inv, Books, StandingIsLinked, LinkedStands, Stands, LinkIsDue,
                          LinkPc, Sales
<1>6. InHand' /\ Booking' /\ Unwinding'
    BY <1>2 DEF InHand, Booking, Unwinding, Stage, Sales, LinkPc
<1> QED
    BY <1>3, <1>4, <1>5, <1>6 DEF Inv, Books

\* The store changes an order, never its terms.
LEMMA StoreChanges ==
    ASSUME order \in Order, Carried, NEW name \in EventNames, NEW change \in Order,
           change.terms = order.terms, change.refunded \subseteq change.captured,
           Emit(name, change)
    PROVE  /\ UNCHANGED <<gates, queue, job, row, docs, links>> /\ order' \in Order
           /\ order'.terms = order.terms /\ Carried'
<1>1. /\ emitted' \in Seq(EventNames) /\ Len(emitted') = Len(emitted) + 1
      /\ Len(emitted') <= MaxEvents
    BY DEF Emit, Carried
<1>2. due' \subseteq 1..Len(emitted')
    <2>1. Len(emitted) \in Nat /\ due' = due \cup {Len(emitted) + 1}
          /\ due \subseteq 1..Len(emitted)
        BY DEF Emit, Carried
    <2>2. \A i \in 1..Len(emitted) : i \in 1..Len(emitted')
        BY <1>1, <2>1
    <2>3. Len(emitted) + 1 \in 1..Len(emitted')
        BY <1>1, <2>1
    <2> QED
        BY <2>1, <2>2, <2>3
<1> QED
    BY <1>1, <1>2 DEF Emit, Carried

LEMMA StoreKeeps ==
    ASSUME Inv, Carried, Cancel \/ \E p \in Payments : Capture(p) \/ Refund(p)
    PROVE  Inv' /\ Carried'
<1>1. order \in Order
    BY DEF Inv, Shapes
<1>2. UNCHANGED <<queue, job, docs, links>> /\ order' \in Order /\ order'.terms = order.terms
      /\ Carried'
    <2>1. CASE Cancel
        <3>1. Emit("canceled", [order EXCEPT !.canceled = TRUE])
            BY <2>1 DEF Cancel
        <3>2. /\ [order EXCEPT !.canceled = TRUE] \in Order
              /\ [order EXCEPT !.canceled = TRUE].terms = order.terms
              /\ [order EXCEPT !.canceled = TRUE].refunded
                    \subseteq [order EXCEPT !.canceled = TRUE].captured
            BY <1>1 DEF Order, Carried
        <3> QED
            BY <1>1, <3>1, <3>2, StoreChanges DEF EventNames
    <2>2. ASSUME NEW p \in Payments, Capture(p)
          PROVE  UNCHANGED <<queue, job, docs, links>> /\ order' \in Order
                 /\ order'.terms = order.terms /\ Carried'
        <3> DEFINE change == [order EXCEPT !.captured = @ \cup {p}]
        <3>1. Emit("captured", change)
            BY <2>2 DEF Capture
        <3>2. change \in Order /\ change.terms = order.terms
              /\ change.refunded \subseteq change.captured
            BY <1>1 DEF Order, Carried
        <3> QED
            BY <1>1, <3>1, <3>2, StoreChanges DEF EventNames
    <2>3. ASSUME NEW p \in Payments, Refund(p)
          PROVE  UNCHANGED <<queue, job, docs, links>> /\ order' \in Order
                 /\ order'.terms = order.terms /\ Carried'
        <3> DEFINE change == [order EXCEPT !.refunded = @ \cup {p}]
        <3>1. Emit("refunded", change)
            BY <2>3 DEF Refund
        <3>2. change \in Order /\ change.terms = order.terms
              /\ change.refunded \subseteq change.captured
            BY <1>1, <2>3 DEF Order, Carried, Refund
        <3> QED
            BY <1>1, <3>1, <3>2, StoreChanges DEF EventNames
    <2> QED
        BY <2>1, <2>2, <2>3
<1> QED
    BY <1>2, OutsideKeeps DEF Inv, Shapes

\* A new row is numbered after the rows there are, and its own is not among them.
LEMMA RowsAreCounted ==
    ASSUME NEW k \in Events, ~Made(k)
    PROVE  1 + Cardinality({j \in Events : Made(j)}) \in 0..MaxEvents
<1> DEFINE S == {j \in Events : Made(j)}
<1>1. IsFiniteSet(Events) /\ Cardinality(Events) = MaxEvents /\ MaxEvents \in Nat
    BY FS_Interval DEF Events
<1>2. S \in SUBSET Events /\ S # Events
    OBVIOUS
<1> HIDE DEF S
<1>3. IsFiniteSet(S) /\ Cardinality(S) \in Nat
    BY <1>1, <1>2, FS_Subset, FS_CardinalityType
<1>4. Cardinality(S) <= MaxEvents /\ Cardinality(S) # MaxEvents
    BY <1>1, <1>2, FS_Subset
<1>5. 1 + Cardinality(S) \in 0..MaxEvents
    BY <1>1, <1>3, <1>4
<1> QED
    BY <1>5 DEF S

LEMMA DeliverKeeps ==
    ASSUME Inv, Carried, NEW k \in Events, Deliver(k) PROVE Inv' /\ Carried'
<1>1. [ev |-> k, cap |-> order.captured, ref |-> order.refunded] \in Push
    BY DEF Push, Inv, Shapes, Order
<1>2. Carried'
    BY <1>1 DEF Deliver, Carried
<1>3. Inv'
    BY OutsideKeeps DEF Deliver, Inv, Shapes
<1> QED
    BY <1>2, <1>3

LEMMA EnterKeeps ==
    ASSUME Inv, Carried, NEW g \in gates, Enter(g) PROVE Inv' /\ Carried'
<1>1. g \in Push /\ g.ev \in Events /\ g.cap \in SUBSET Payments /\ g.ref \in SUBSET Payments
    BY DEF Carried, Push
<1>2. queue' \in Seq(Push) /\ (queue # <<>> => queue' # <<>> /\ queue'[1] = queue[1])
    BY <1>1 DEF Enter, Inv, Shapes
<1>3. Inv'
    BY <1>2, OutsideKeeps DEF Enter, Inv, Shapes
<1>4. row' \in [Events -> SyncRow]
    <2> DEFINE born == IF Made(g.ev) THEN row[g.ev].born
                       ELSE 1 + Cardinality({k \in Events : Made(k)})
    <2>1. row' = [row EXCEPT ![g.ev] = [st |-> "pending", cap |-> g.cap, ref |-> g.ref,
                                        born |-> born]]
        BY DEF Enter
    <2>2. born \in 0..MaxEvents
        BY <1>1, RowsAreCounted DEF Carried, SyncRow
    <2> HIDE DEF born
    <2>3. [st |-> "pending", cap |-> g.cap, ref |-> g.ref, born |-> born] \in SyncRow
        BY <1>1, <2>2 DEF SyncRow
    <2> QED
        BY <2>1, <2>3 DEF Carried
<1> QED
    BY <1>3, <1>4 DEF Enter, Carried

LEMMA RetryKeeps ==
    ASSUME Inv, Carried, NEW k \in Events, Retry(k) PROVE Inv' /\ Carried'
<1>1. row[k] \in SyncRow
    BY DEF Carried
<1>2. [ev |-> k, cap |-> row[k].cap, ref |-> row[k].ref] \in Push
    BY <1>1 DEF Push, SyncRow
<1>3. [row EXCEPT ![k].st = "skipped"] \in [Events -> SyncRow]
    BY <1>1 DEF Carried, SyncRow
<1>4. Carried'
    BY <1>2, <1>3 DEF Retry, Carried
<1>5. Inv'
    BY OutsideKeeps DEF Retry, Inv, Shapes
<1> QED
    BY <1>4, <1>5

\* A step of the push with the lock decides its own row's status, and no more of it.
RowGoes == \/ row' = row
           \/ \E st \in {"failed", "success", "skipped"} : row' = [row EXCEPT ![Head1.ev].st = st]
Counts == failures' = failures \/ (failures < MaxFailures /\ failures' = failures + 1)

LEMMA JobCarries ==
    ASSUME Shapes, Carried, queue # <<>>, RowGoes, Counts,
           UNCHANGED <<order, emitted, due, gates, crashes>>
    PROVE  Carried'
<1>1. Head1.ev \in Events
    <2>1. queue[1] \in Push
        BY DEF Shapes
    <2> QED
        BY <2>1 DEF Push, Head1
<1>2. row[Head1.ev] \in SyncRow
    BY <1>1 DEF Carried
<1>3. ASSUME NEW st \in {"failed", "success", "skipped"}
      PROVE  [row EXCEPT ![Head1.ev].st = st] \in [Events -> SyncRow]
    <2>1. [row[Head1.ev] EXCEPT !.st = st] \in SyncRow
        BY <1>2 DEF SyncRow
    <2> QED
        BY <2>1 DEF Carried
<1>4. row' \in [Events -> SyncRow]
    BY <1>3 DEF RowGoes, Carried
<1>5. failures' \in 0..MaxFailures
    BY DEF Counts, Carried
<1> QED
    BY <1>4, <1>5 DEF Carried

LEMMA CallCounts == ASSUME NEW ans, NEW done, Call(ans, done) PROVE Counts
BY DEF Call, Counts, Answers

LEMMA SalesDoneGoes == ASSUME SalesDone PROVE RowGoes
BY DEF SalesDone, Over, Stays, RowGoes

LEMMA AfterSIGoes == ASSUME NEW n, AfterSI(n) PROVE RowGoes
BY SalesDoneGoes DEF AfterSI, Stays, RowGoes

\* Every step of the push that holds the lock.
LEMMA JobKeeps ==
    ASSUME ~LostLinks, Inv, Carried, JobStep PROVE Inv' /\ Carried'
<1>1. Shapes /\ (job.pc # "idle" => queue # <<>>)
    BY DEF Inv, Shapes
<1>2. CASE Start
    <2>1. queue # <<>> /\ UNCHANGED <<order, emitted, due, gates, crashes>> /\ RowGoes /\ Counts
        BY <1>2 DEF Start, At, Stays, Over, NoCall, RowGoes, Counts
    <2> QED
        BY <1>1, <1>2, <2>1, StartKeeps, JobCarries
<1>3. CASE LinkSO
    <2>1. queue # <<>> /\ UNCHANGED <<order, emitted, due, gates, crashes>> /\ RowGoes /\ Counts
        BY <1>1, <1>3 DEF LinkSO, At, Stays, NoCall, RowGoes, Counts
    <2> QED
        BY <1>1, <1>3, <2>1, LinkSOKeeps, JobCarries
<1>4. CASE LinkSI
    <2>1. queue # <<>> /\ UNCHANGED <<order, emitted, due, gates, crashes>> /\ RowGoes /\ Counts
        BY <1>1, <1>4, AfterSIGoes DEF LinkSI, At, NoCall, Counts
    <2> QED
        BY <1>1, <1>4, <2>1, LinkSIKeeps, JobCarries
<1>5. CASE LinkPayment
    <2>1. queue # <<>> /\ UNCHANGED <<order, emitted, due, gates, crashes>> /\ RowGoes /\ Counts
        BY <1>1, <1>5 DEF LinkPayment, At, Stays, NoCall, RowGoes, Counts
    <2> QED
        BY <1>1, <1>5, <2>1, LinkPaymentKeeps, JobCarries
<1>6. CASE AllBooked
    <2>1. queue # <<>> /\ UNCHANGED <<order, emitted, due, gates, crashes>> /\ RowGoes /\ Counts
        BY <1>1, <1>6, SalesDoneGoes DEF AllBooked, At, NoCall, Counts
    <2> QED
        BY <1>1, <1>6, <2>1, AllBookedKeeps, JobCarries
<1>7. CASE Unlink
    <2>1. queue # <<>> /\ UNCHANGED <<order, emitted, due, gates, crashes>> /\ RowGoes /\ Counts
        BY <1>1, <1>7 DEF Unlink, At, Stays, NoCall, RowGoes, Counts
    <2> QED
        BY <1>1, <1>7, <2>1, UnlinkKeeps, JobCarries
<1>8. CASE NextStage
    <2>1. queue # <<>> /\ UNCHANGED <<order, emitted, due, gates, crashes>> /\ RowGoes /\ Counts
        BY <1>1, <1>8 DEF NextStage, Stages, At, Stays, Over, NoCall, RowGoes, Counts
    <2> QED
        BY <1>1, <1>8, <2>1, NextStageKeeps, JobCarries
<1>9. ASSUME NEW ans \in Answers, WriteSO(ans) PROVE Inv' /\ Carried'
    <2>1. queue # <<>> /\ UNCHANGED <<order, emitted, due, gates, crashes>>
        BY <1>1, <1>9 DEF WriteSO, At
    <2>2. RowGoes
        BY <1>9 DEF WriteSO, Stays, Over, RowGoes
    <2>3. Counts
        BY <1>9, CallCounts DEF WriteSO, NoCall, Counts
    <2> QED
        BY <1>1, <1>9, <2>1, <2>2, <2>3, WriteSOKeeps, JobCarries
<1>10. ASSUME NEW ans \in Answers, SubmitSO(ans) PROVE Inv' /\ Carried'
    <2>1. queue # <<>> /\ UNCHANGED <<order, emitted, due, gates, crashes>>
        BY <1>1, <1>10 DEF SubmitSO, At
    <2>2. RowGoes
        BY <1>10, SalesDoneGoes DEF SubmitSO, Stays, Over, RowGoes
    <2>3. Counts
        BY <1>10, CallCounts DEF SubmitSO
    <2> QED
        BY <1>1, <1>10, <2>1, <2>2, <2>3, SubmitSOKeeps, JobCarries
<1>11. ASSUME NEW ans \in Answers, WriteSI(ans) PROVE Inv' /\ Carried'
    <2>1. queue # <<>> /\ UNCHANGED <<order, emitted, due, gates, crashes>>
        BY <1>1, <1>11 DEF WriteSI, At
    <2>2. RowGoes
        BY <1>11, SalesDoneGoes, AfterSIGoes DEF WriteSI, Stays, Over, RowGoes
    <2>3. Counts
        BY <1>11, CallCounts DEF WriteSI, NoCall, Counts
    <2> QED
        BY <1>1, <1>11, <2>1, <2>2, <2>3, WriteSIKeeps, JobCarries
<1>12. ASSUME NEW ans \in Answers, SubmitSI(ans) PROVE Inv' /\ Carried'
    <2>1. queue # <<>> /\ UNCHANGED <<order, emitted, due, gates, crashes>>
        BY <1>1, <1>12 DEF SubmitSI, At
    <2>2. RowGoes
        BY <1>12, SalesDoneGoes DEF SubmitSI, Stays, Over, RowGoes
    <2>3. Counts
        BY <1>12, CallCounts DEF SubmitSI
    <2> QED
        BY <1>1, <1>12, <2>1, <2>2, <2>3, SubmitSIKeeps, JobCarries
<1>13. ASSUME NEW ans \in Answers, SubmitPayment(ans) PROVE Inv' /\ Carried'
    <2>1. queue # <<>> /\ UNCHANGED <<order, emitted, due, gates, crashes>>
        BY <1>1, <1>13 DEF SubmitPayment, At
    <2>2. RowGoes
        BY <1>13 DEF SubmitPayment, Stays, Over, RowGoes
    <2>3. Counts
        BY <1>13, CallCounts DEF SubmitPayment
    <2> QED
        BY <1>1, <1>13, <2>1, <2>2, <2>3, SubmitPaymentKeeps, JobCarries
<1>14. ASSUME NEW ans \in Answers, NEW p \in Payments, BookPayment(p, ans)
       PROVE  Inv' /\ Carried'
    <2>1. queue # <<>> /\ UNCHANGED <<order, emitted, due, gates, crashes>>
        BY <1>1, <1>14 DEF BookPayment, At
    <2>2. RowGoes
        BY <1>14 DEF BookPayment, Stays, Over, RowGoes
    <2>3. Counts
        BY <1>14, CallCounts DEF BookPayment, NoCall, Counts
    <2> QED
        BY <1>1, <1>14, <2>1, <2>2, <2>3, BookPaymentKeeps, JobCarries
<1>15. ASSUME NEW ans \in Answers, NEW l \in job.todo, Unwind(l, ans)
       PROVE  Inv' /\ Carried'
    <2>1. queue # <<>> /\ UNCHANGED <<order, emitted, due, gates, crashes>>
        BY <1>1, <1>15 DEF Unwind, At, Stages
    <2>2. RowGoes /\ Counts
        BY <1>15, CallCounts DEF Unwind, Stays, RowGoes
    <2> QED
        BY <1>1, <1>15, <2>1, <2>2, UnwindKeeps, JobCarries
<1> QED
    BY <1>2, <1>3, <1>4, <1>5, <1>6, <1>7, <1>8, <1>9, <1>10, <1>11, <1>12, <1>13, <1>14,
       <1>15 DEF JobStep

-----------------------------------------------------------------------------
(* The invariant *)

LEMMA InvInit == Init => Inv /\ Carried
<1> SUFFICES ASSUME Init PROVE Inv /\ Carried
    OBVIOUS
<1>1. job = Idle /\ job \in Job /\ job.pc = "idle" /\ job.todo = {}
    BY IdleIs DEF Init
<1>2. /\ docs = [x \in Kinds |-> <<>>] /\ links = [x \in Kinds |-> {}]
      /\ \A x \in Kinds : DOMAIN docs[x] = {}
    BY DEF Init
<1>3. Shapes
    <2>1. order \in Order
        BY DEF Init, Order
    <2>2. <<>> \in Seq(Statuses) /\ <<>> \in Seq(Push)
        OBVIOUS
    <2>3. docs \in [Kinds -> Seq(Statuses)] /\ links \in [Kinds -> SUBSET Nat]
          /\ \A x \in Kinds : links[x] = {}
        BY <1>2, <2>2
    <2>4. queue \in Seq(Push)
        BY <2>2 DEF Init
    <2> QED
        BY <1>1, <2>1, <2>3, <2>4 DEF Shapes
<1>4. Books
    BY <1>2, KindsAre DEF Books, OneEach, StandingIsLinked, LinkedStands, EntryIsLinked,
                          BooksInOrder, Stands, Live, Has, Sales
<1>5. InHand /\ Booking /\ Unwinding
    BY <1>1 DEF InHand, Booking, Unwinding, Stage, Sales, LinkPc
<1>6. Carried
    <2>1. NoSyncRow \in SyncRow
        BY DEF NoSyncRow, SyncRow
    <2>2. row \in [Events -> SyncRow]
        BY <2>1 DEF Init
    <2>3. emitted \in Seq(EventNames) /\ Len(emitted) = 1 /\ due = {1}
        BY DEF Init, EventNames
    <2> QED
        BY <2>2, <2>3 DEF Init, Carried
<1> QED
    BY <1>3, <1>4, <1>5, <1>6 DEF Inv

LEMMA InvNext ==
    ASSUME ~LostLinks, Inv, Carried, [Next]_vars PROVE Inv' /\ Carried'
<1>1. CASE Cancel \/ \E p \in Payments : Capture(p) \/ Refund(p)
    BY <1>1, StoreKeeps
<1>2. ASSUME NEW k \in Events, Deliver(k) PROVE Inv' /\ Carried'
    BY <1>2, DeliverKeeps
<1>3. ASSUME NEW k \in Events, Retry(k) PROVE Inv' /\ Carried'
    BY <1>3, RetryKeeps
<1>4. ASSUME NEW g \in gates, Enter(g) PROVE Inv' /\ Carried'
    BY <1>4, EnterKeeps
<1>5. CASE JobStep
    BY <1>5, JobKeeps
<1>6. CASE Crash
    <2>1. crashes' \in 0..MaxCrashes
        BY <1>6 DEF Crash, Carried
    <2>2. gates' \subseteq Push /\ due' \subseteq 1..Len(emitted)
        BY <1>6 DEF Crash, Carried
    <2>3. Carried'
        BY <1>6, <2>1, <2>2 DEF Crash, Carried
    <2> QED
        BY <1>6, <2>3, CrashKeeps
<1>7. CASE UNCHANGED vars
    <2>1. Inv'
        BY <1>7, OutsideKeeps DEF vars, Inv, Shapes
    <2> QED
        BY <1>7, <2>1 DEF vars, Carried
<1> QED
    BY <1>1, <1>2, <1>3, <1>4, <1>5, <1>6, <1>7 DEF Next

LEMMA InvHolds == ASSUME ~LostLinks PROVE Spec => [](Inv /\ Carried)
<1>1. Init => Inv /\ Carried
    BY InvInit
<1>2. (Inv /\ Carried) /\ [Next]_vars => (Inv /\ Carried)'
    BY InvNext
<1> QED
    BY <1>1, <1>2, PTL DEF Spec

-----------------------------------------------------------------------------
(* The theorems *)

\* The order, its events, pushes, rows, documents and links keep their types, and the
\* lock is held by a push in line.
THEOREM TypeOKHolds == ASSUME ~LostLinks PROVE Spec => []TypeOK
<1>1. Inv /\ Carried => TypeOK
    BY TypesAre DEF Inv
<1> QED
    BY <1>1, InvHolds, PTL

\* However pushes, retries, refusals and restarts interleave, pushSalesDocument makes no
\* document of a kind the order has a live one of, as long as no link is lost.
THEOREM NothingIsMadeTwice == ASSUME ~LostLinks PROVE Spec => []NothingMadeTwice
<1>1. ASSUME Inv PROVE NothingMadeTwice
    <2> SUFFICES ASSUME NEW x \in Kinds PROVE Cardinality(Live(x)) <= 1
        BY DEF NothingMadeTwice
    <2>1. \A m, n \in Live(x) : m = n
        <3>1. CASE x \in Payments
            BY <1>1, <3>1 DEF Inv, Books, OneEach
        <3>2. CASE x \in Sales
            BY <1>1, <3>2 DEF Inv, Books, OneEach, Live, Stands
        <3> QED
            BY <3>1, <3>2, KindsAre
    <2>2. Live(x) = {} \/ \E n : Live(x) = {n}
        BY <2>1
    <2>3. CASE Live(x) = {}
        BY <2>3, FS_EmptySet
    <2>4. ASSUME NEW n, Live(x) = {n} PROVE Cardinality(Live(x)) <= 1
        <3>1. Cardinality({n}) = 1
            BY FS_Singleton
        <3> QED
            BY <2>4, <3>1
    <2> QED
        BY <2>2, <2>3, <2>4
<1>2. Inv => NothingMadeTwice
    BY <1>1
<1> QED
    BY <1>2, InvHolds, PTL

\* Built up, taken down, refused half way or cut off: no payment is booked without a
\* submitted invoice, and no invoice without a submitted order.
THEOREM BooksStandInOrder == ASSUME ~LostLinks PROVE Spec => []BooksInOrder
<1>1. Inv => BooksInOrder
    BY DEF Inv, Books
<1> QED
    BY <1>1, InvHolds, PTL

-----------------------------------------------------------------------------
(* What a cancellation leaves behind *)

\* The order takes no more payments.
Closed == order.canceled \/ order.refunded # {}

\* A push that takes documents out again carries all the order was ever paid.
Told ==
    /\ \A k \in DOMAIN emitted : emitted[k] \notin OrderPushes => Closed
    /\ \A g \in gates : g.ev \in DOMAIN emitted
                        /\ (emitted[g.ev] \notin OrderPushes => g.cap = order.captured)
    /\ \A i \in DOMAIN queue :
          queue[i].ev \in DOMAIN emitted /\ Made(queue[i].ev)
          /\ (emitted[queue[i].ev] \notin OrderPushes => queue[i].cap = order.captured)
    /\ \A k \in Events : Made(k) =>
          k \in DOMAIN emitted
          /\ (emitted[k] \notin OrderPushes => row[k].cap = order.captured)

Unwinds == job.pc \in Stages \cup {"unlink"}
UndoesWhatIsOver ==
    /\ job.pc # "idle" => (job.undo <=> Name \notin OrderPushes)
    /\ Unwinds => job.undo
    /\ job.pc = "si" => job.doc \in DOMAIN docs["SO"]

\* It was submitted once.
Sold(x) == Has(x, "submitted") \/ Has(x, "cancelled")
PaidSale == order.terms = "gateway" /\ order.captured # {}

\* Nothing is taken out of a paid sale that was not booked before.
SoldFirst ==
    /\ \A x \in Sales : Has(x, "cancelled") => Closed
    /\ \A p \in Payments : links[p] # {} => Sold("SI")
    /\ Sold("SI") => Sold("SO")
    /\ PaidSale /\ (Unwinds \/ \E x \in Sales : Has(x, "cancelled")) => Sold("SO") /\ Sold("SI")

TraceInv == Told /\ UndoesWhatIsOver /\ SoldFirst /\ SaleLeavesTrace
-----------------------------------------------------------------------------
(* Documents go on, and what was sold or cancelled stays so *)

\* A document's next state.
Turns(old, new) ==
    \/ new = old
    \/ old = "draft" /\ new \in {"submitted", "deleted"}
    \/ old = "submitted" /\ new = "cancelled"

DocsGoOn ==
    \A x \in Kinds :
        /\ \A n \in DOMAIN docs[x] : n \in DOMAIN docs'[x] /\ Turns(docs[x][n], docs'[x][n])
        /\ \A n \in DOMAIN docs'[x] : n \in DOMAIN docs[x] \/ docs'[x][n] = "draft"

\* ... and while a push books, none is cancelled.
Booked ==
    /\ DocsGoOn
    /\ \A x \in Kinds : \A n \in DOMAIN docs[x] :
          docs[x][n] = "submitted" => docs'[x][n] = "submitted"

LEMMA CancelledStays ==
    ASSUME DocsGoOn, NEW x \in Kinds
    PROVE  /\ Has(x, "cancelled") => Has(x, "cancelled")'
           /\ Sold(x) => Sold(x)'
           /\ Has(x, "cancelled")' => Sold(x)
<1>1. Has(x, "cancelled") => Has(x, "cancelled")'
    BY DEF DocsGoOn, Turns, Has
<1>2. Has(x, "submitted") => Has(x, "submitted")' \/ Has(x, "cancelled")'
    BY DEF DocsGoOn, Turns, Has
<1>3. Has(x, "cancelled")' => Has(x, "submitted") \/ Has(x, "cancelled")
    BY DEF DocsGoOn, Turns, Has
<1> QED
    BY <1>1, <1>2, <1>3 DEF Sold

LEMMA BookedCancelsNone ==
    ASSUME Booked, NEW x \in Kinds
    PROVE  Has(x, "cancelled")' => Has(x, "cancelled")
BY DEF Booked, DocsGoOn, Turns, Has

LEMMA QuietDocs == ASSUME UNCHANGED docs PROVE Booked
BY DEF Booked, DocsGoOn, Turns

LEMMA NewBooks ==
    ASSUME Shapes, NEW x \in Kinds, docs' = docs \/ docs' = New(x)
    PROVE  Booked /\ \A y \in Kinds : Sold(y)' => Sold(y)
<1>1. CASE docs' = docs
    BY <1>1, QuietDocs DEF Sold, Has
<1>2. CASE docs' = New(x)
    <2>1. /\ \A y \in Kinds : y # x => docs'[y] = docs[y]
          /\ DOMAIN docs'[x] = DOMAIN docs[x] \cup {Len(docs[x]) + 1}
          /\ docs'[x][Len(docs[x]) + 1] = "draft"
          /\ \A m \in DOMAIN docs[x] : docs'[x][m] = docs[x][m]
        BY <1>2, NewIs
    <2>2. Booked
        BY <2>1 DEF Booked, DocsGoOn, Turns
    <2>3. \A y \in Kinds : \A st \in {"submitted", "cancelled"} : Has(y, st)' => Has(y, st)
        BY <2>1 DEF Has
    <2> QED
        BY <2>2, <2>3 DEF Sold
<1> QED
    BY <1>1, <1>2

LEMMA SubmittedBooked ==
    ASSUME Shapes, NEW x \in Kinds, NEW n \in DOMAIN docs[x],
           docs' = docs \/ docs' = Submitted(x, n)
    PROVE  Booked /\ \A y \in Kinds : y # x => (Sold(y)' => Sold(y))
<1>1. CASE docs' = docs
    BY <1>1, QuietDocs DEF Sold, Has
<1>2. CASE docs' # docs
    <2>1. docs' = With(x, n, "submitted") /\ docs[x][n] = "draft" /\ "submitted" \in Statuses
        BY <1>2 DEF Submitted, Statuses
    <2>2. /\ \A y \in Kinds : DOMAIN docs'[y] = DOMAIN docs[y]
          /\ docs'[x][n] = "submitted" /\ \A y \in Kinds : y # x => docs'[y] = docs[y]
          /\ \A y \in Kinds : \A m \in DOMAIN docs[y] :
                (y # x \/ m # n) => docs'[y][m] = docs[y][m]
        BY <2>1, WithIs
    <2>3. Booked
        BY <2>1, <2>2 DEF Booked, DocsGoOn, Turns
    <2> QED
        BY <2>2, <2>3 DEF Sold, Has
<1> QED
    BY <1>1, <1>2

LEMMA UnwoundGoesOn ==
    ASSUME Shapes, NEW x \in Kinds, NEW n \in DOMAIN docs[x],
           docs' = docs \/ docs' = Unwound(x, n)
    PROVE  DocsGoOn /\ \A y \in Kinds : Sold(y)' => Sold(y)
<1>1. /\ \A y \in Kinds : DOMAIN docs'[y] = DOMAIN docs[y]
      /\ \A y \in Kinds : \A m \in DOMAIN docs[y] :
            \/ docs'[y][m] = docs[y][m]
            \/ docs[y][m] = "draft" /\ docs'[y][m] = "deleted"
            \/ docs[y][m] = "submitted" /\ docs'[y][m] = "cancelled"
    BY UnwoundIs
<1>2. DocsGoOn
    BY <1>1 DEF DocsGoOn, Turns
<1>3. \A y \in Kinds : /\ Has(y, "submitted")' => Has(y, "submitted")
                       /\ Has(y, "cancelled")' => Sold(y)
    BY <1>1 DEF Has, Sold
<1> QED
    BY <1>2, <1>3 DEF Sold

-----------------------------------------------------------------------------
(* How a step of the push ends, for what it leaves behind *)

\* What is said of the books: after a step that cancels only what was booked before.
LEMMA SoldFirstKept ==
    ASSUME TraceInv, DocsGoOn, UNCHANGED order, Booked \/ Unwinds,
           Closed \/ ~Unwinds,
           Sold("SI")' => Sold("SO")',
           \A p \in Payments : links'[p] # {} => links[p] # {} \/ Sold("SI"),
           PaidSale /\ Unwinds' => Sold("SO") /\ Sold("SI")
    PROVE  SoldFirst'
<1>1. \A x \in Sales : Has(x, "cancelled")' => Has(x, "cancelled") \/ Unwinds
    BY BookedCancelsNone, KindsAre
<1>2. \A x \in Sales : Has(x, "cancelled")' => Closed'
    BY <1>1 DEF TraceInv, SoldFirst, Closed
<1>3. (Sold("SO") => Sold("SO")') /\ (Sold("SI") => Sold("SI")')
    BY CancelledStays, KindsAre
<1>4. \A p \in Payments : links'[p] # {} => Sold("SI")'
    BY <1>3 DEF TraceInv, SoldFirst
<1>5. PaidSale' <=> PaidSale
    BY DEF PaidSale
<1>6. PaidSale /\ (\E x \in Sales : Has(x, "cancelled")') => Sold("SO") /\ Sold("SI")
    BY <1>1 DEF TraceInv, SoldFirst
<1>7. PaidSale' /\ (Unwinds' \/ \E x \in Sales : Has(x, "cancelled")') => Sold("SO")' /\ Sold("SI")'
    BY <1>3, <1>5, <1>6
<1> QED
    BY <1>2, <1>4, <1>7 DEF SoldFirst

\* A verdict is changed of no cancellation but one that left its trace.
LEMMA TraceKept ==
    ASSUME TraceInv, DocsGoOn, order'.terms = order.terms, row \in [Events -> SyncRow],
           \A k \in DOMAIN emitted : k \in DOMAIN emitted' /\ emitted'[k] = emitted[k],
           emitted \in Seq(EventNames), emitted' \in Seq(EventNames), Len(emitted') <= MaxEvents,
           \A k \in Events : row'[k].st = "success" =>
               \/ row[k].st = "success" /\ row'[k].cap = row[k].cap
               \/ /\ k \in DOMAIN emitted
                  /\ (emitted[k] = "canceled" /\ row'[k].cap # {} /\ order.terms = "gateway"
                      => Has("SO", "cancelled")' /\ Has("SI", "cancelled")')
    PROVE  SaleLeavesTrace'
<1> SUFFICES ASSUME NEW k \in 1..Len(emitted'), emitted'[k] = "canceled",
                    row'[k].st = "success", row'[k].cap # {}, order.terms = "gateway"
             PROVE  Has("SO", "cancelled")' /\ Has("SI", "cancelled")'
    BY DEF SaleLeavesTrace
<1>1. k \in Events /\ k \in DOMAIN emitted'
    BY DEF Events
<1>2. CASE row[k].st = "success" /\ row'[k].cap = row[k].cap
    <2>1. k \in DOMAIN emitted
        BY <1>1, <1>2 DEF TraceInv, Told, Made
    <2>2. k \in 1..Len(emitted) /\ emitted[k] = "canceled"
        BY <2>1
    <2>3. Has("SO", "cancelled") /\ Has("SI", "cancelled")
        BY <1>2, <2>2 DEF TraceInv, SaleLeavesTrace
    <2> QED
        BY <2>3, CancelledStays, KindsAre
<1>3. CASE /\ k \in DOMAIN emitted
           /\ (emitted[k] = "canceled" /\ row'[k].cap # {} /\ order.terms = "gateway"
               => Has("SO", "cancelled")' /\ Has("SI", "cancelled")')
    BY <1>3
<1> QED
    BY <1>1, <1>2, <1>3

\* Only a push that is told the order is over takes documents out.
LEMMA UnwindsWhatIsClosed ==
    ASSUME Inv, TraceInv, job.pc # "idle", job.undo PROVE Closed
<1>1. queue # <<>> /\ queue \in Seq(Push)
    BY DEF Inv, Shapes
<1>2. 1 \in DOMAIN queue
    BY <1>1
<1> QED
    BY <1>2 DEF TraceInv, Told, UndoesWhatIsOver, Name, Head1

LEMMA ToldWhenOver ==
    ASSUME Inv, Carried, Told, queue # <<>>, UNCHANGED <<order, emitted, gates>>,
           NEW st \in {"failed", "success", "skipped"}, Over(st)
    PROVE  /\ Told'
           /\ \A k \in Events : row'[k].st = "success" =>
                \/ row[k].st = "success" /\ row'[k].cap = row[k].cap
                \/ k = Head1.ev /\ k \in DOMAIN emitted /\ st = "success"
                   /\ emitted[k] = Name
                   /\ (emitted[k] \notin OrderPushes => row'[k].cap = Head1.cap)
<1>1. /\ queue \in Seq(Push) /\ queue' = Tail(queue)
      /\ row' = [row EXCEPT ![Head1.ev].st = st] /\ row \in [Events -> SyncRow]
    BY DEF Over, Inv, Shapes, Carried
<1>2. /\ 1 \in DOMAIN queue
      /\ \A i \in DOMAIN queue' : i + 1 \in DOMAIN queue /\ queue'[i] = queue[i + 1]
    BY <1>1
<1>3. Head1.ev \in Events /\ Head1.ev \in DOMAIN emitted /\ Made(Head1.ev)
      /\ (emitted[Head1.ev] \notin OrderPushes => Head1.cap = order.captured)
    <2>1. queue[1] \in Push
        BY <1>1, <1>2
    <2> QED
        BY <1>2, <2>1 DEF Told, Head1, Push
<1>4. \A k \in Events : row'[k].cap = row[k].cap /\ (k # Head1.ev => row'[k] = row[k])
                        /\ row'[Head1.ev].st = st
    BY <1>1, <1>3 DEF SyncRow
<1>5. emitted[Head1.ev] \notin OrderPushes => row[Head1.ev].cap = Head1.cap
    BY <1>3 DEF Told
<1>6. \A k \in Events : Made(k)' <=> Made(k)
    BY <1>3, <1>4 DEF Made
<1>7. Told'
    <2>1. \A k \in Events : Made(k)' =>
              /\ k \in DOMAIN emitted
              /\ (emitted[k] \notin OrderPushes => row'[k].cap = order.captured)
        BY <1>4, <1>6 DEF Told
    <2>2. \A i \in DOMAIN queue' :
              queue'[i].ev \in DOMAIN emitted /\ row'[queue'[i].ev].st # "none"
              /\ (emitted[queue'[i].ev] \notin OrderPushes => queue'[i].cap = order.captured)
        <3> SUFFICES ASSUME NEW i \in DOMAIN queue'
                     PROVE  queue'[i].ev \in DOMAIN emitted /\ row'[queue'[i].ev].st # "none"
                            /\ (emitted[queue'[i].ev] \notin OrderPushes
                                => queue'[i].cap = order.captured)
            OBVIOUS
        <3>1. PICK g \in Push : g = queue'[i] /\ g = queue[i + 1] /\ i + 1 \in DOMAIN queue
            BY <1>1, <1>2
        <3>2. g.ev \in Events /\ g.ev \in DOMAIN emitted /\ Made(g.ev)
              /\ (emitted[g.ev] \notin OrderPushes => g.cap = order.captured)
            BY <3>1 DEF Told, Push
        <3> QED
            BY <1>6, <3>1, <3>2 DEF Made
    <2> QED
        BY <2>1, <2>2 DEF Told, Closed, Made
<1> QED
    BY <1>3, <1>4, <1>5, <1>7 DEF Name

LEMMA TraceGoesOn ==
    ASSUME Inv, Carried, TraceInv, queue # <<>>, UNCHANGED <<order, emitted, gates, row, queue>>,
           DocsGoOn, Booked \/ (Unwinds /\ job.pc # "idle"),
           Sold("SI")' => Sold("SO")',
           \A p \in Payments : links'[p] # {} => links[p] # {} \/ Sold("SI"),
           job' \in Job, job'.pc # "idle", job'.undo <=> Name \notin OrderPushes,
           Unwinds' => job'.undo,
           job'.pc = "si" => job'.doc \in DOMAIN docs'["SO"],
           PaidSale /\ Unwinds' => Sold("SO") /\ Sold("SI")
    PROVE  TraceInv'
<1>1. Told'
    BY DEF TraceInv, Told, Made, Closed
<1>2. Name' = Name
    BY DEF Name, Head1
<1>3. UndoesWhatIsOver'
    BY <1>2 DEF UndoesWhatIsOver
<1>4. Unwinds => job.pc # "idle" /\ job.undo
    BY DEF TraceInv, UndoesWhatIsOver, Unwinds, Stages
<1>5. Closed \/ ~Unwinds
    BY <1>4, UnwindsWhatIsClosed
<1>6. SoldFirst'
    BY <1>5, SoldFirstKept
<1>7. SaleLeavesTrace'
    BY TraceKept DEF Carried
<1> QED
    BY <1>1, <1>3, <1>6, <1>7 DEF TraceInv

LEMMA TraceEnds ==
    ASSUME Inv, Carried, TraceInv, queue # <<>>, UNCHANGED <<order, emitted, gates>>,
           NEW st \in {"failed", "success", "skipped"}, Over(st),
           DocsGoOn, Booked \/ Unwinds, Sold("SI")' => Sold("SO")',
           \A p \in Payments : links'[p] # {} => links[p] # {} \/ Sold("SI"),
           st = "success" /\ Name = "canceled" /\ PaidSale =>
               Has("SO", "cancelled")' /\ Has("SI", "cancelled")'
    PROVE  TraceInv'
<1>1. /\ Told'
      /\ \A k \in Events : row'[k].st = "success" =>
           \/ row[k].st = "success" /\ row'[k].cap = row[k].cap
           \/ k = Head1.ev /\ k \in DOMAIN emitted /\ st = "success"
              /\ emitted[k] = Name
              /\ (emitted[k] \notin OrderPushes => row'[k].cap = Head1.cap)
    BY ToldWhenOver DEF TraceInv
<1>2. job'.pc = "idle"
    BY IdleIs DEF Over
<1>3. UndoesWhatIsOver' /\ ~Unwinds'
    BY <1>2 DEF UndoesWhatIsOver, Unwinds, Stages
<1>4. Unwinds => job.pc # "idle" /\ job.undo
    BY DEF TraceInv, UndoesWhatIsOver, Unwinds, Stages
<1>5. Closed \/ ~Unwinds
    BY <1>4, UnwindsWhatIsClosed
<1>6. SoldFirst'
    BY <1>3, <1>5, SoldFirstKept
<1>7. "canceled" \notin OrderPushes
    BY DEF OrderPushes
<1>8. Name \notin OrderPushes => Head1.cap = order.captured
    <2>1. queue \in Seq(Push) /\ 1 \in DOMAIN queue
        BY DEF Inv, Shapes
    <2> QED
        BY <2>1 DEF TraceInv, Told, Name, Head1
<1>9. \A k \in Events : row'[k].st = "success" =>
          \/ row[k].st = "success" /\ row'[k].cap = row[k].cap
          \/ /\ k \in DOMAIN emitted
             /\ (emitted[k] = "canceled" /\ row'[k].cap # {} /\ order.terms = "gateway"
                 => Has("SO", "cancelled")' /\ Has("SI", "cancelled")')
    BY <1>1, <1>7, <1>8 DEF PaidSale
<1>10. SaleLeavesTrace'
    BY <1>9, TraceKept DEF Carried
<1> QED
    BY <1>1, <1>3, <1>6, <1>10 DEF TraceInv

-----------------------------------------------------------------------------
(* The push's steps *)

\* A step that only books, or changes nothing, and ends the push or hands it on.
LEMMA QuietSold ==
    ASSUME TraceInv, UNCHANGED <<docs, links>>
    PROVE  /\ DocsGoOn /\ Booked /\ (Sold("SI")' => Sold("SO")')
           /\ \A p \in Payments : links'[p] # {} => links[p] # {} \/ Sold("SI")
<1>1. Sold("SI")' => Sold("SO")'
    BY DEF TraceInv, SoldFirst, Sold, Has
<1> QED
    BY <1>1, QuietDocs DEF Booked

\* What a cancellation of a paid sale finds when it starts to unwind.
LEMMA SalesDoneTraces ==
    ASSUME Inv, Carried, TraceInv, queue # <<>>, job.pc # "idle", SalesDone,
           UNCHANGED <<order, emitted, gates>>,
           DocsGoOn, Booked, Sold("SI")' => Sold("SO")',
           \A p \in Payments : links'[p] # {} => links[p] # {} \/ Sold("SI"),
           PaidSale /\ job.undo => Sold("SO") /\ Sold("SI")
    PROVE  TraceInv'
<1>1. CASE job.undo
    <2>1. job' = Undoing /\ UNCHANGED <<row, queue>>
        BY <1>1 DEF SalesDone, Stays
    <2>2. job' \in Job /\ job'.pc = "undoPay" /\ job'.undo
        BY <2>1, FreshJobs DEF Inv, Undoing, Idle
    <2>3. Name \notin OrderPushes
        BY <1>1 DEF TraceInv, UndoesWhatIsOver
    <2> QED
        BY <1>1, <2>1, <2>2, <2>3, TraceGoesOn
<1>2. CASE ~job.undo
    <2>1. Over("success")
        BY <1>2 DEF SalesDone
    <2>2. Name # "canceled"
        BY <1>2 DEF TraceInv, UndoesWhatIsOver, OrderPushes
    <2> QED
        BY <2>1, <2>2, TraceEnds
<1> QED
    BY <1>1, <1>2

\* A step that books goes on for whom it began.
LEMMA UndoStays ==
    ASSUME job \in Job, NEW a, NEW b, NEW c
    PROVE  /\ LET j == [job EXCEPT !.doc = a, !.kind = b, !.pc = c]
              IN  j.undo = job.undo /\ j.pc = c /\ j.doc = a
           /\ LET j == [job EXCEPT !.pc = c, !.doc = a, !.kind = b]
              IN  j.undo = job.undo /\ j.pc = c /\ j.doc = a
           /\ LET j == [job EXCEPT !.pc = c, !.kind = b, !.doc = a]
              IN  j.undo = job.undo /\ j.pc = c /\ j.doc = a
           /\ LET j == [job EXCEPT !.pc = c, !.doc = a]
              IN  j.undo = job.undo /\ j.pc = c /\ j.doc = a
           /\ LET j == [job EXCEPT !.pc = c, !.pays = a] IN j.undo = job.undo /\ j.pc = c
           /\ LET j == [job EXCEPT !.pays = a] IN j.undo = job.undo /\ j.pc = job.pc
           /\ LET j == [job EXCEPT !.pc = c] IN j.undo = job.undo /\ j.pc = c /\ j.doc = job.doc
BY DEF Job

LEMMA BooksOn ==
    ASSUME Inv, Inv', Carried, TraceInv, job.pc # "idle",
           UNCHANGED <<order, emitted, gates, row, queue>>,
           DocsGoOn, Booked, Sold("SI")' => Sold("SI") \/ Sold("SO"),
           \A p \in Payments : links'[p] # {} => links[p] # {} \/ Sold("SI"),
           job'.undo = job.undo,
           job'.pc \in {"so", "linkSO", "submitSO", "si", "linkSI", "submitSI", "pay",
                        "linkPay", "submitPay"},
           job'.pc = "si" => job'.doc \in DOMAIN docs'["SO"]
    PROVE  TraceInv'
<1>1. Sold("SI")' => Sold("SO")'
    BY CancelledStays, KindsAre DEF TraceInv, SoldFirst
<1>2. queue # <<>> /\ job' \in Job
    BY DEF Inv, Shapes
<1>3. job'.undo <=> Name \notin OrderPushes
    BY DEF TraceInv, UndoesWhatIsOver
<1>4. ~Unwinds' /\ job'.pc # "idle"
    BY DEF Unwinds, Stages
<1> QED
    BY <1>1, <1>2, <1>3, <1>4, TraceGoesOn

\* A push that is refused, or ends unheard, leaves no trace and claims none.
LEMMA FailsQuietly ==
    ASSUME Inv, Carried, TraceInv, queue # <<>>, UNCHANGED <<order, emitted, gates>>,
           Over("failed"), DocsGoOn, Booked, Sold("SI")' => Sold("SI") \/ Sold("SO"),
           \A p \in Payments : links'[p] # {} => links[p] # {} \/ Sold("SI")
    PROVE  TraceInv'
<1>1. Sold("SI")' => Sold("SO")'
    BY CancelledStays, KindsAre DEF TraceInv, SoldFirst
<1> QED
    BY <1>1, TraceEnds

LEMMA StartTraces ==
    ASSUME Inv, Inv', Carried, TraceInv, Start PROVE TraceInv'
<1>1. /\ queue # <<>> /\ job.pc = "idle" /\ UNCHANGED <<docs, links, order, emitted, gates>>
      /\ queue \in Seq(Push) /\ job' \in Job
    BY DEF Start, At, NoCall, Inv, Shapes
<1>2. /\ DocsGoOn /\ Booked /\ (Sold("SI")' => Sold("SO")')
      /\ \A p \in Payments : links'[p] # {} => links[p] # {} \/ Sold("SI")
    BY <1>1, QuietSold
<1>3. 1 \in DOMAIN queue /\ queue[1] \in Push
    BY <1>1
<1>4. Name \in EventNames
    BY <1>3 DEF Name, Head1, TraceInv, Told, Carried
<1>5. CASE Name \in OrderPushes
    <2>1. job' = [Idle EXCEPT !.pc = "so"] /\ UNCHANGED <<row, queue>>
        BY <1>5 DEF Start, Stays, OrderPushes
    <2>2. job'.pc = "so" /\ ~job'.undo
        BY <2>1 DEF Idle
    <2>3. ~Unwinds'
        BY <2>2 DEF Unwinds, Stages
    <2> QED
        BY <1>1, <1>2, <1>5, <2>1, <2>2, <2>3, TraceGoesOn
<1>6. CASE Over("skipped") \/ (Over("success") /\ Name = "refunded")
    BY <1>1, <1>2, <1>6, TraceEnds
<1>7. CASE /\ Name \notin OrderPushes /\ UNCHANGED <<row, queue>>
           /\ job' = IF BookFirst THEN [Idle EXCEPT !.pc = "so", !.undo = TRUE] ELSE Undoing
    <2>1. CASE BookFirst
        <3>1. job' = [Idle EXCEPT !.pc = "so", !.undo = TRUE]
            BY <1>7, <2>1
        <3>2. job'.pc = "so" /\ job'.undo
            BY <3>1 DEF Idle
        <3>3. ~Unwinds'
            BY <3>2 DEF Unwinds, Stages
        <3> QED
            BY <1>1, <1>2, <1>7, <3>2, <3>3, TraceGoesOn
    <2>2. CASE ~BookFirst
        <3>1. job' = Undoing
            BY <1>7, <2>2
        <3>2. job'.pc = "undoPay" /\ job'.undo
            BY <3>1 DEF Undoing, Idle
        <3>3. ASSUME PaidSale PROVE Sold("SO") /\ Sold("SI")
            <4>1. Head1.cap = order.captured /\ Head1.cap # {} /\ Head1.cap \subseteq Payments
                BY <1>3, <1>7, <3>3 DEF TraceInv, Told, Name, Head1, PaidSale, Push
            <4>2. RecordPayments /\ ~CashOnDelivery
                BY <3>3 DEF PaidSale, RecordPayments, CashOnDelivery
            <4>3. \A p \in Head1.cap : links[p] # {}
                BY <2>2, <4>1, <4>2 DEF BookFirst
            <4> QED
                BY <4>1, <4>3 DEF TraceInv, SoldFirst
        <3> QED
            BY <1>1, <1>2, <1>7, <3>2, <3>3, TraceGoesOn
    <2> QED
        BY <2>1, <2>2
<1>8. \/ Over("skipped") \/ (Over("success") /\ Name = "refunded")
      \/ Name \in OrderPushes
      \/ /\ Name \notin OrderPushes /\ UNCHANGED <<row, queue>>
         /\ job' = IF BookFirst THEN [Idle EXCEPT !.pc = "so", !.undo = TRUE] ELSE Undoing
    BY <1>4 DEF Start, Stays, EventNames, OrderPushes
<1> QED
    BY <1>5, <1>6, <1>7, <1>8

LEMMA WriteSOTraces ==
    ASSUME Inv, Inv', Carried, TraceInv, NEW ans \in Answers, WriteSO(ans) PROVE TraceInv'
<1>1. /\ job.pc = "so" /\ queue # <<>> /\ UNCHANGED <<links, order, emitted, gates>>
      /\ job \in Job /\ Shapes
    BY DEF WriteSO, At, Inv, Shapes
<1>2. PICK n \in LinkOf("SO") :
          \/ /\ StatusOf("SO", n) # "deleted" /\ docs' = docs
             /\ AfterSO(n) /\ UNCHANGED <<row, queue>>
          \/ /\ docs' = New("SO") /\ UNCHANGED <<row, queue>>
             /\ job' = [job EXCEPT !.pc = "linkSO", !.doc = Len(docs["SO"]) + 1]
          \/ (docs' = docs \/ docs' = New("SO")) /\ Over("failed")
    BY <1>1 DEF WriteSO, Call, NoCall, Stays, Answers
<1>3. /\ DocsGoOn /\ Booked /\ (Sold("SI")' => Sold("SI"))
      /\ \A p \in Payments : links'[p] # {} => links[p] # {} \/ Sold("SI")
    BY <1>1, <1>2, KindsAre, NewBooks DEF Booked
<1>4. CASE Over("failed")
    BY <1>1, <1>3, <1>4, FailsQuietly
<1>5. CASE /\ StatusOf("SO", n) # "deleted" /\ docs' = docs
           /\ AfterSO(n) /\ UNCHANGED <<row, queue>>
    <2>1. n \in DOMAIN docs["SO"]
        BY <1>1, <1>5, KindsAre, LinksAre
    <2>2. job'.undo = job.undo /\ job'.pc \in {"si", "submitSO"} /\ job'.doc = n
        <3>1. PICK c \in {"si", "submitSO"} :
                  job' = [job EXCEPT !.doc = n, !.kind = "SO", !.pc = c]
            BY <1>5 DEF AfterSO
        <3> QED
            BY <1>1, <3>1, UndoStays
    <2> QED
        BY <1>1, <1>3, <1>5, <2>1, <2>2, BooksOn
<1>6. CASE /\ UNCHANGED <<row, queue>>
           /\ job' = [job EXCEPT !.pc = "linkSO", !.doc = Len(docs["SO"]) + 1]
    <2>1. job'.undo = job.undo /\ job'.pc = "linkSO"
        BY <1>1, <1>6, UndoStays
    <2> QED
        BY <1>1, <1>3, <1>6, <2>1, BooksOn
<1> QED
    BY <1>2, <1>4, <1>5, <1>6

LEMMA LinkSOTraces ==
    ASSUME Inv, Inv', Carried, TraceInv, LinkSO PROVE TraceInv'
<1>1. /\ job.pc = "linkSO" /\ UNCHANGED <<docs, order, emitted, gates, row, queue>>
      /\ job \in Job /\ links \in [Kinds -> SUBSET Nat]
      /\ links' = [links EXCEPT !["SO"] = @ \cup {job.doc}] /\ AfterSO(job.doc)
    BY DEF LinkSO, At, Known, Stays, NoCall, Inv, Shapes
<1>2. \A p \in Payments : links'[p] = links[p]
    BY <1>1, KindsAre
<1>3. Booked /\ DocsGoOn /\ (Sold("SI")' => Sold("SI"))
    BY <1>1, QuietDocs DEF Booked, Sold, Has
<1>4. job.doc \in DOMAIN docs["SO"]
    BY <1>1 DEF Inv, InHand, Sales, LinkPc
<1>5. job'.undo = job.undo /\ job'.pc \in {"si", "submitSO"} /\ job'.doc = job.doc
    <2>1. PICK c \in {"si", "submitSO"} :
              job' = [job EXCEPT !.doc = job.doc, !.kind = "SO", !.pc = c]
        BY <1>1 DEF AfterSO
    <2> QED
        BY <1>1, <2>1, UndoStays
<1> QED
    BY <1>1, <1>2, <1>3, <1>4, <1>5, BooksOn

LEMMA SubmitSOTraces ==
    ASSUME Inv, Inv', Carried, TraceInv, NEW ans \in Answers, SubmitSO(ans) PROVE TraceInv'
<1>1. /\ job.pc = "submitSO" /\ queue # <<>> /\ UNCHANGED <<links, order, emitted, gates>>
      /\ job \in Job /\ Shapes /\ job.doc \in DOMAIN docs["SO"]
    BY KindsAre DEF SubmitSO, At, Inv, Shapes, InHand
<1>2. docs' = docs \/ docs' = Submitted("SO", job.doc)
    BY DEF SubmitSO, Call
<1>3. /\ DocsGoOn /\ Booked /\ (Sold("SI")' => Sold("SI"))
      /\ \A p \in Payments : links'[p] # {} => links[p] # {} \/ Sold("SI")
    BY <1>1, <1>2, KindsAre, SubmittedBooked DEF Booked
<1>4. CASE Over("failed")
    BY <1>1, <1>3, <1>4, FailsQuietly
<1>5. CASE docs["SO"][job.doc] = "cancelled" /\ SalesDone
    <2>1. Has("SO", "cancelled")
        BY <1>1, <1>5 DEF Has
    <2>2. PaidSale => Sold("SO") /\ Sold("SI")
        BY <2>1 DEF TraceInv, SoldFirst, Sales
    <2>3. Sold("SI")' => Sold("SO")'
        BY <1>3, <2>1, CancelledStays, KindsAre DEF Sold
    <2> QED
        BY <1>1, <1>3, <1>5, <2>2, <2>3, SalesDoneTraces
<1>6. CASE Goto("si") /\ Stays
    <2>1. job'.undo = job.undo /\ job'.pc = "si" /\ job'.doc = job.doc
        BY <1>1, <1>6, UndoStays DEF Goto
    <2>2. job'.doc \in DOMAIN docs'["SO"]
        BY <1>1, <1>3, <2>1, KindsAre DEF DocsGoOn
    <2> QED
        BY <1>1, <1>3, <1>6, <2>1, <2>2, BooksOn DEF Stays
<1>7. Over("failed") \/ (docs["SO"][job.doc] = "cancelled" /\ SalesDone) \/ (Goto("si") /\ Stays)
    BY DEF SubmitSO
<1> QED
    BY <1>4, <1>5, <1>6, <1>7

\* The cancellation of a paid sale has its payments to book.
LEMMA PlansToBook ==
    ASSUME Inv, TraceInv, job.pc # "idle", PaidSale, job.undo PROVE Plan = "record-payments"
<1>1. Name \notin OrderPushes
    BY DEF TraceInv, UndoesWhatIsOver
<1>2. 1 \in DOMAIN queue
    BY DEF Inv, Shapes
<1>3. Head1.cap = order.captured
    BY <1>1, <1>2 DEF TraceInv, Told, Name, Head1
<1> QED
    BY <1>3 DEF Plan, Paid, RecordPayments, CashOnDelivery, PaidSale

\* A paid sale's cancellation books on where an invoice is at hand.
LEMMA AfterSITraces ==
    ASSUME Inv, Inv', Carried, TraceInv, NEW n, AfterSI(n), queue # <<>>, job.pc # "idle",
           UNCHANGED <<order, emitted, gates, docs>>,
           \A p \in Payments : links'[p] # {} => links[p] # {} \/ Sold("SI")
    PROVE  TraceInv'
<1>1. Booked /\ DocsGoOn /\ (Sold("SI")' => Sold("SI"))
    BY QuietDocs DEF Booked, Sold, Has
<1>2. CASE Plan = "record-payments"
    <2>1. job' = [job EXCEPT !.pc = "submitSI", !.doc = n, !.kind = "SI"] /\ Stays /\ job \in Job
        BY <1>2 DEF AfterSI, Inv, Shapes
    <2>2. job'.undo = job.undo /\ job'.pc = "submitSI"
        BY <2>1, UndoStays
    <2> QED
        BY <1>1, <2>1, <2>2, BooksOn DEF Stays
<1>3. CASE Plan # "record-payments"
    <2>1. SalesDone
        BY <1>3 DEF AfterSI
    <2>2. ~(PaidSale /\ job.undo)
        BY <1>3, PlansToBook
    <2>3. Sold("SI")' => Sold("SO")'
        BY <1>1, CancelledStays, KindsAre DEF TraceInv, SoldFirst
    <2> QED
        BY <1>1, <2>1, <2>2, <2>3, SalesDoneTraces
<1> QED
    BY <1>2, <1>3

LEMMA WriteSITraces ==
    ASSUME Inv, Inv', Carried, TraceInv, NEW ans \in Answers, WriteSI(ans) PROVE TraceInv'
<1>1. /\ job.pc = "si" /\ queue # <<>> /\ UNCHANGED <<links, order, emitted, gates>>
      /\ job \in Job /\ Shapes
    BY DEF WriteSI, At, Inv, Shapes
<1>2. /\ docs' = docs \/ docs' = New("SI")
      /\ \/ Over("failed")
         \/ /\ SalesDone
            /\ ~Paid \/ docs["SO"][job.doc] = "cancelled" \/ Plan # "record-payments"
         \/ docs' = docs /\ \E n \in LinkOf("SI") : AfterSI(n)
         \/ /\ job' = [job EXCEPT !.pc = "linkSI", !.doc = Len(docs["SI"]) + 1]
            /\ UNCHANGED <<row, queue>>
    BY <1>1 DEF WriteSI, Call, NoCall, Stays, Answers
<1>3. /\ DocsGoOn /\ Booked /\ (Sold("SI")' => Sold("SI"))
      /\ \A p \in Payments : links'[p] # {} => links[p] # {} \/ Sold("SI")
    BY <1>1, <1>2, KindsAre, NewBooks DEF Booked
<1>4. CASE Over("failed")
    BY <1>1, <1>3, <1>4, FailsQuietly
<1>5. CASE /\ SalesDone
           /\ ~Paid \/ docs["SO"][job.doc] = "cancelled" \/ Plan # "record-payments"
    <2>1. job.doc \in DOMAIN docs["SO"]
        BY <1>1 DEF TraceInv, UndoesWhatIsOver
    <2>2. ASSUME PaidSale, job.undo PROVE Sold("SO") /\ Sold("SI")
        <3>1. docs["SO"][job.doc] = "cancelled"
            BY <1>1, <1>5, <2>2, PlansToBook DEF Paid
        <3>2. Has("SO", "cancelled")
            BY <2>1, <3>1 DEF Has
        <3> QED
            BY <2>2, <3>2 DEF TraceInv, SoldFirst, Sales
    <2>3. Sold("SI")' => Sold("SO")'
        BY <1>3, CancelledStays, KindsAre DEF TraceInv, SoldFirst
    <2> QED
        BY <1>1, <1>3, <1>5, <2>2, <2>3, SalesDoneTraces
<1>6. ASSUME docs' = docs, NEW n \in LinkOf("SI"), AfterSI(n) PROVE TraceInv'
    BY <1>1, <1>3, <1>6, AfterSITraces
<1>7. CASE /\ job' = [job EXCEPT !.pc = "linkSI", !.doc = Len(docs["SI"]) + 1]
           /\ UNCHANGED <<row, queue>>
    <2>1. job'.undo = job.undo /\ job'.pc = "linkSI"
        BY <1>1, <1>7, UndoStays
    <2> QED
        BY <1>1, <1>3, <1>7, <2>1, BooksOn
<1> QED
    BY <1>2, <1>4, <1>5, <1>6, <1>7

LEMMA LinkSITraces ==
    ASSUME Inv, Inv', Carried, TraceInv, LinkSI PROVE TraceInv'
<1>1. /\ job.pc = "linkSI" /\ UNCHANGED <<docs, order, emitted, gates>> /\ queue # <<>>
      /\ links \in [Kinds -> SUBSET Nat]
      /\ links' = [links EXCEPT !["SI"] = @ \cup {job.doc}] /\ AfterSI(job.doc)
    BY DEF LinkSI, At, Known, NoCall, Inv, Shapes
<1>2. \A p \in Payments : links'[p] = links[p]
    BY <1>1, KindsAre
<1> QED
    BY <1>1, <1>2, AfterSITraces

LEMMA SubmitSITraces ==
    ASSUME Inv, Inv', Carried, TraceInv, NEW ans \in Answers, SubmitSI(ans) PROVE TraceInv'
<1>1. /\ job.pc = "submitSI" /\ queue # <<>> /\ UNCHANGED <<links, order, emitted, gates>>
      /\ job \in Job /\ Shapes /\ job.doc \in DOMAIN docs["SI"] /\ Sold("SO")
    BY KindsAre DEF SubmitSI, At, Inv, Shapes, InHand, Booking, Sold
<1>2. docs' = docs \/ docs' = Submitted("SI", job.doc)
    BY DEF SubmitSI, Call
<1>3. /\ DocsGoOn /\ Booked
      /\ \A p \in Payments : links'[p] # {} => links[p] # {} \/ Sold("SI")
    BY <1>1, <1>2, KindsAre, SubmittedBooked DEF Booked
<1>4. CASE Over("failed")
    BY <1>1, <1>3, <1>4, FailsQuietly
<1>5. CASE docs["SI"][job.doc] = "cancelled" /\ SalesDone
    <2>1. Has("SI", "cancelled")
        BY <1>1, <1>5 DEF Has
    <2>2. PaidSale => Sold("SO") /\ Sold("SI")
        BY <2>1 DEF TraceInv, SoldFirst, Sales
    <2>3. Sold("SI")' => Sold("SO")'
        BY <1>1, <1>3, CancelledStays, KindsAre
    <2> QED
        BY <1>1, <1>3, <1>5, <2>2, <2>3, SalesDoneTraces
<1>6. CASE job' = [job EXCEPT !.pc = "pay", !.pays = Head1.cap] /\ Stays
    <2>1. job'.undo = job.undo /\ job'.pc = "pay"
        BY <1>1, <1>6, UndoStays
    <2> QED
        BY <1>1, <1>3, <1>6, <2>1, BooksOn DEF Stays
<1>7. \/ Over("failed") \/ (docs["SI"][job.doc] = "cancelled" /\ SalesDone)
      \/ (job' = [job EXCEPT !.pc = "pay", !.pays = Head1.cap] /\ Stays)
    BY DEF SubmitSI
<1> QED
    BY <1>4, <1>5, <1>6, <1>7

LEMMA BookPaymentTraces ==
    ASSUME Inv, Inv', Carried, TraceInv, NEW ans \in Answers, NEW p \in Payments,
           BookPayment(p, ans)
    PROVE  TraceInv'
<1>1. /\ job.pc = "pay" /\ queue # <<>> /\ UNCHANGED <<order, emitted, gates>>
      /\ job \in Job /\ Shapes /\ p \in Kinds /\ p # "SI" /\ p # "SO" /\ Sold("SI")
    BY KindsAre DEF BookPayment, At, Inv, Shapes, Booking, Sold
<1>2. /\ docs' = docs \/ docs' = New(p)
      /\ \/ Over("failed")
         \/ /\ UNCHANGED <<row, queue>>
            /\ \/ \E left \in {job.pays \ {p}} : job' = [job EXCEPT !.pays = left]
               \/ \E pc \in {"submitPay", "linkPay"} : \E m :
                     job' = [job EXCEPT !.pc = pc, !.kind = p, !.doc = m]
    BY <1>1 DEF BookPayment, ByReference, Stays, NoCall, Call, Job
<1>3. /\ DocsGoOn /\ Booked /\ (Sold("SI")' => Sold("SI"))
    BY <1>1, <1>2, KindsAre, NewBooks DEF Booked
<1>4. CASE Over("failed")
    BY <1>1, <1>3, <1>4, FailsQuietly
<1>5. CASE ~Over("failed")
    <2>1. ASSUME NEW left, job' = [job EXCEPT !.pays = left]
          PROVE  job'.undo = job.undo /\ job'.pc = "pay"
        BY <1>1, <2>1, UndoStays
    <2>2. ASSUME NEW pc \in {"submitPay", "linkPay"}, NEW m,
                 job' = [job EXCEPT !.pc = pc, !.kind = p, !.doc = m]
          PROVE  job'.undo = job.undo /\ job'.pc = pc
        BY <1>1, <2>2, UndoStays
    <2>3. job'.undo = job.undo /\ job'.pc \in {"pay", "submitPay", "linkPay"}
        BY <1>2, <1>5, <2>1, <2>2
    <2> QED
        BY <1>1, <1>2, <1>3, <1>5, <2>3, BooksOn
<1> QED
    BY <1>4, <1>5

LEMMA LinkPaymentTraces ==
    ASSUME Inv, Inv', Carried, TraceInv, LinkPayment PROVE TraceInv'
<1>1. /\ job.pc = "linkPay" /\ UNCHANGED <<docs, order, emitted, gates, row, queue>>
      /\ job \in Job /\ job' = [job EXCEPT !.pc = "submitPay"] /\ Sold("SI")
    BY DEF LinkPayment, At, Stays, NoCall, Goto, Inv, Shapes, Booking, Sold
<1>2. Booked /\ DocsGoOn /\ (Sold("SI")' => Sold("SI"))
    BY <1>1, QuietDocs DEF Booked
<1>3. job'.undo = job.undo /\ job'.pc = "submitPay"
    BY <1>1, UndoStays
<1> QED
    BY <1>1, <1>2, <1>3, BooksOn

LEMMA SubmitPaymentTraces ==
    ASSUME Inv, Inv', Carried, TraceInv, NEW ans \in Answers, SubmitPayment(ans) PROVE TraceInv'
<1>1. /\ job.pc = "submitPay" /\ queue # <<>> /\ UNCHANGED <<order, emitted, gates, links>>
      /\ job \in Job /\ Shapes /\ Sold("SI")
      /\ job.kind \in Kinds /\ job.kind # "SI" /\ job.doc \in DOMAIN docs[job.kind]
    BY KindsAre DEF SubmitPayment, At, Inv, Shapes, Booking, Sold, InHand
<1>2. docs' = docs \/ docs' = Submitted(job.kind, job.doc)
    BY DEF SubmitPayment, Call
<1>3. DocsGoOn /\ Booked
    BY <1>1, <1>2, SubmittedBooked DEF Booked
<1>4. CASE Over("failed")
    BY <1>1, <1>3, <1>4, FailsQuietly
<1>5. CASE ~Over("failed")
    <2>1. PICK left : job' = [job EXCEPT !.pc = "pay", !.pays = left]
        BY <1>1, <1>5 DEF SubmitPayment, Job
    <2>2. job'.undo = job.undo /\ job'.pc = "pay"
        BY <1>1, <2>1, UndoStays
    <2> QED
        BY <1>1, <1>3, <1>5, <2>2, BooksOn DEF SubmitPayment, Stays
<1> QED
    BY <1>4, <1>5

LEMMA AllBookedTraces ==
    ASSUME Inv, Carried, TraceInv, AllBooked PROVE TraceInv'
<1>1. /\ job.pc = "pay" /\ queue # <<>> /\ UNCHANGED <<order, emitted, gates, docs, links>>
      /\ SalesDone /\ Sold("SI")
    BY DEF AllBooked, At, NoCall, Inv, Shapes, Booking, Sold
<1>2. /\ DocsGoOn /\ Booked /\ (Sold("SI")' => Sold("SO")')
      /\ \A p \in Payments : links'[p] # {} => links[p] # {} \/ Sold("SI")
    BY <1>1, QuietSold
<1>3. Sold("SO")
    BY <1>1 DEF TraceInv, SoldFirst
<1> QED
    BY <1>1, <1>2, <1>3, SalesDoneTraces

-----------------------------------------------------------------------------
(* Taking documents out, and what happens outside the lock *)

LEMMA UnwindTraces ==
    ASSUME Inv, Inv', Carried, TraceInv, NEW l \in job.todo, NEW ans \in Answers, Unwind(l, ans)
    PROVE  TraceInv'
<1> DEFINE x == l[1]
           n == l[2]
<1>1. /\ job.pc \in Stages /\ job.pc # "idle" /\ queue # <<>>
      /\ UNCHANGED <<links, order, queue, row, emitted, gates>> /\ job \in Job /\ Shapes
    BY DEF Unwind, At, Stays, Stages, Inv, Shapes
<1>2. x \in Kinds /\ n \in Nat /\ n \in DOMAIN docs[x]
    BY <1>1 DEF Job, Inv, InHand, Shapes
<1>3. docs' = docs \/ docs' = Unwound(x, n)
    BY DEF Unwind, Call
<1>4. Unwinds /\ job.undo
    BY <1>1 DEF TraceInv, UndoesWhatIsOver, Unwinds
<1>5. DocsGoOn /\ (Sold("SI")' => Sold("SI")) /\ (Sold("SO") => Sold("SO")')
    BY <1>1, <1>2, <1>3, UnwoundGoesOn, CancelledStays, KindsAre
<1>6. job' \in Job /\ job'.undo = job.undo /\ job'.pc \in Stages \cup {"unlink"}
    <2>1. CASE ans = "ok" /\ docs[x][n] = "draft"
        <3>1. PICK rest : job' = [job EXCEPT !.todo = rest, !.pc = "unlink", !.next = job.pc,
                                             !.kind = x, !.doc = n]
            BY <1>1, <2>1 DEF Unwind, Job
        <3> QED
            BY <1>1, <3>1 DEF Job, Inv, Shapes
    <2>2. CASE ~(ans = "ok" /\ docs[x][n] = "draft")
        <3>1. PICK rest, err : job' = [job EXCEPT !.todo = rest, !.err = err]
            BY <1>1, <2>2 DEF Unwind, Job
        <3> QED
            BY <1>1, <3>1 DEF Job, Inv, Shapes
    <2> QED
        BY <2>1, <2>2
<1>7. job'.pc # "idle" /\ job'.pc # "si" /\ (job'.undo <=> Name \notin OrderPushes)
    BY <1>1, <1>6 DEF TraceInv, UndoesWhatIsOver, Stages
<1>8. PaidSale => Sold("SO") /\ Sold("SI")
    BY <1>4 DEF TraceInv, SoldFirst
<1>9. Sold("SI")' => Sold("SO")'
    BY <1>5 DEF TraceInv, SoldFirst
<1> QED
    BY <1>1, <1>4, <1>5, <1>6, <1>7, <1>8, <1>9, TraceGoesOn

LEMMA UnlinkTraces ==
    ASSUME Inv, Inv', Carried, TraceInv, Unlink PROVE TraceInv'
<1>1. /\ job.pc = "unlink" /\ queue # <<>>
      /\ UNCHANGED <<docs, order, queue, row, emitted, gates>> /\ job \in Job
      /\ job.kind \in Kinds /\ links \in [Kinds -> SUBSET Nat] /\ job' \in Job
    BY DEF Unlink, At, Stays, NoCall, Inv, Shapes, InHand
<1>2. \A y \in Kinds : links'[y] \subseteq links[y]
    BY <1>1 DEF Unlink
<1>3. job'.undo = job.undo /\ job'.pc \in Stages
    BY <1>1 DEF Unlink, Goto, Job, Stages
<1>4. Unwinds /\ job.undo
    BY <1>1 DEF TraceInv, UndoesWhatIsOver, Unwinds
<1>5. /\ DocsGoOn /\ Booked /\ (Sold("SI")' => Sold("SO")')
      /\ \A p \in Payments : links'[p] # {} => links[p] # {} \/ Sold("SI")
    <2>1. Sold("SI")' => Sold("SO")'
        BY <1>1 DEF TraceInv, SoldFirst, Sold, Has
    <2> QED
        BY <1>1, <1>2, <2>1, QuietDocs, KindsAre DEF Booked
<1>6. job'.pc # "idle" /\ job'.pc # "si" /\ (job'.undo <=> Name \notin OrderPushes)
    BY <1>1, <1>3 DEF TraceInv, UndoesWhatIsOver, Stages
<1>7. PaidSale => Sold("SO") /\ Sold("SI")
    BY <1>4 DEF TraceInv, SoldFirst
<1> QED
    BY <1>1, <1>3, <1>4, <1>5, <1>6, <1>7, TraceGoesOn

\* When the last stage has nothing left and nothing was refused, what was sold is cancelled.
LEMMA NextStageTraces ==
    ASSUME Inv, Inv', Carried, TraceInv, NextStage PROVE TraceInv'
<1>1. /\ job.pc \in Stages /\ job.pc # "idle" /\ queue # <<>> /\ job.todo = {}
      /\ UNCHANGED <<docs, links, order, emitted, gates>> /\ job \in Job /\ job' \in Job
      /\ Stage = job.pc
    BY DEF NextStage, At, NoCall, Stages, Inv, Shapes, Stage
<1>2. Unwinds /\ job.undo
    BY <1>1 DEF TraceInv, UndoesWhatIsOver, Unwinds
<1>3. /\ DocsGoOn /\ Booked /\ (Sold("SI")' => Sold("SO")')
      /\ \A p \in Payments : links'[p] # {} => links[p] # {} \/ Sold("SI")
    BY <1>1, QuietSold
<1>4. PaidSale => Sold("SO") /\ Sold("SI")
    BY <1>2 DEF TraceInv, SoldFirst
<1>5. CASE Over("failed")
    BY <1>1, <1>3, <1>5, TraceEnds
<1>6. CASE Over("success") /\ NextKind(job.pc) = "done" /\ ~job.err
    <2>1. job.pc = "undoSO"
        BY <1>1, <1>6 DEF NextKind, Stages
    <2>2. ~Has("SI", "submitted") /\ ~Has("SO", "submitted")
        BY <1>1, <1>6, <2>1 DEF Inv, Unwinding, Has
    <2>3. PaidSale => Has("SO", "cancelled") /\ Has("SI", "cancelled")
        BY <1>4, <2>2 DEF Sold
    <2>4. PaidSale => Has("SO", "cancelled")' /\ Has("SI", "cancelled")'
        BY <1>1, <2>3 DEF Has
    <2> QED
        BY <1>1, <1>3, <1>6, <2>4, TraceEnds
<1>7. CASE /\ Stays
           /\ \E n \in LinkOf(NextKind(job.pc)) :
                 job' = [job EXCEPT !.pc = IF job.pc = "undoPay" THEN "undoSI" ELSE "undoSO",
                                    !.todo = IF n = 0 THEN {} ELSE {<<NextKind(job.pc), n>>}]
    <2>1. PICK pc \in {"undoSI", "undoSO"} :
              \E todo : job' = [job EXCEPT !.pc = pc, !.todo = todo]
        BY <1>7
    <2>2. job'.undo = job.undo /\ job'.pc \in {"undoSI", "undoSO"}
        BY <1>1, <2>1 DEF Job
    <2>3. job'.pc # "idle" /\ job'.pc # "si" /\ (job'.undo <=> Name \notin OrderPushes)
        BY <1>1, <2>2 DEF TraceInv, UndoesWhatIsOver
    <2> QED
        BY <1>1, <1>2, <1>3, <1>4, <1>7, <2>2, <2>3, TraceGoesOn DEF Stays
<1> QED
    BY <1>5, <1>6, <1>7 DEF NextStage, NoneRefused

LEMMA JobTraces ==
    ASSUME Inv, Inv', Carried, TraceInv, JobStep PROVE TraceInv'
<1>1. CASE Start \/ LinkSO \/ LinkSI \/ LinkPayment \/ AllBooked \/ Unlink \/ NextStage
    BY <1>1, StartTraces, LinkSOTraces, LinkSITraces, LinkPaymentTraces, AllBookedTraces,
       UnlinkTraces, NextStageTraces
<1>2. ASSUME NEW ans \in Answers, WriteSO(ans) \/ SubmitSO(ans) PROVE TraceInv'
    BY <1>2, WriteSOTraces, SubmitSOTraces
<1>3. ASSUME NEW ans \in Answers, WriteSI(ans) \/ SubmitSI(ans) PROVE TraceInv'
    BY <1>3, WriteSITraces, SubmitSITraces
<1>4. ASSUME NEW ans \in Answers, SubmitPayment(ans) PROVE TraceInv'
    BY <1>4, SubmitPaymentTraces
<1>5. ASSUME NEW ans \in Answers, NEW p \in Payments, BookPayment(p, ans) PROVE TraceInv'
    BY <1>5, BookPaymentTraces
<1>6. ASSUME NEW ans \in Answers, NEW l \in job.todo, Unwind(l, ans) PROVE TraceInv'
    BY <1>6, UnwindTraces
<1> QED
    BY <1>1, <1>2, <1>3, <1>4, <1>5, <1>6 DEF JobStep

\* Outside the lock no document changes, and an order that is over gets no payment.
LEMMA OutsideTraces ==
    ASSUME Inv, Carried, Carried', TraceInv, Told', UNCHANGED <<docs, links>>,
           order'.terms = order.terms, Closed => Closed', PaidSale' /\ Closed => PaidSale,
           job'.pc # "idle" => job' = job /\ queue'[1] = queue[1],
           \A k \in DOMAIN emitted : k \in DOMAIN emitted' /\ emitted'[k] = emitted[k],
           \A k \in Events : row'[k].st = "success" =>
               row[k].st = "success" /\ row'[k].cap = row[k].cap
    PROVE  TraceInv'
<1>1. DocsGoOn
    BY QuietDocs DEF Booked
<1>2. SaleLeavesTrace'
    BY <1>1, TraceKept DEF Carried
<1>3. UndoesWhatIsOver'
    <2>1. CASE job'.pc = "idle"
        BY <2>1 DEF UndoesWhatIsOver, Unwinds, Stages
    <2>2. CASE job'.pc # "idle"
        <3>1. 1 \in DOMAIN queue
            BY <2>2 DEF Inv, Shapes
        <3>2. Name' = Name
            BY <2>2, <3>1 DEF TraceInv, Told, Name, Head1
        <3> QED
            BY <2>2, <3>2 DEF TraceInv, UndoesWhatIsOver, Unwinds
    <2> QED
        BY <2>1, <2>2
<1>4. Unwinds' => Unwinds /\ Closed
    <2> SUFFICES ASSUME Unwinds' PROVE Unwinds /\ Closed
        OBVIOUS
    <2>1. job' = job /\ job.pc # "idle" /\ Unwinds
        BY DEF Unwinds, Stages
    <2> QED
        BY <2>1, UnwindsWhatIsClosed DEF TraceInv, UndoesWhatIsOver
<1>5. \A x \in Sales : (Has(x, "cancelled")' <=> Has(x, "cancelled")) /\ (Sold(x)' <=> Sold(x))
    BY DEF Has, Sold
<1>6. SoldFirst'
    <2>1. "SO" \in Sales /\ "SI" \in Sales
        BY DEF Sales
    <2>2. \A x \in Sales : Has(x, "cancelled")' => Closed'
        BY <1>5 DEF TraceInv, SoldFirst
    <2>3. \A p \in Payments : links'[p] # {} => Sold("SI")'
        BY <1>5, <2>1 DEF TraceInv, SoldFirst
    <2>4. PaidSale' /\ (Unwinds' \/ \E x \in Sales : Has(x, "cancelled")') => PaidSale
        BY <1>4, <1>5 DEF TraceInv, SoldFirst
    <2>5. PaidSale' /\ (Unwinds' \/ \E x \in Sales : Has(x, "cancelled")')
              => Sold("SO")' /\ Sold("SI")'
        BY <1>4, <1>5, <2>1, <2>4 DEF TraceInv, SoldFirst
    <2> QED
        BY <1>5, <2>1, <2>2, <2>3, <2>5 DEF TraceInv, SoldFirst
<1> QED
    BY <1>2, <1>3, <1>6 DEF TraceInv

\* Once the order is over its events say so, and the pushes carry all it was paid.
LEMMA StoreTells ==
    ASSUME Inv, Carried, TraceInv, NEW name \in EventNames, NEW change \in Order,
           Emit(name, change), Closed => change.captured = order.captured,
           Closed => Closed', name \notin OrderPushes => Closed',
           name \notin OrderPushes => change.captured = order.captured
    PROVE  /\ Told' /\ UNCHANGED <<gates, queue, job, row, docs, links>>
           /\ \A k \in DOMAIN emitted : k \in DOMAIN emitted' /\ emitted'[k] = emitted[k]
<1>1. /\ emitted' = Append(emitted, name) /\ order' = change /\ emitted \in Seq(EventNames)
      /\ UNCHANGED <<gates, queue, job, row, docs, links>>
    BY DEF Emit, Carried
<1>2. /\ \A k \in DOMAIN emitted : k \in DOMAIN emitted' /\ emitted'[k] = emitted[k]
      /\ \A k \in DOMAIN emitted' : k \in DOMAIN emitted \/ emitted'[k] = name
    BY <1>1
<1>3. \A k \in DOMAIN emitted : emitted[k] \notin OrderPushes => order'.captured = order.captured
    BY <1>1 DEF TraceInv, Told
<1>4. \A k \in DOMAIN emitted' : emitted'[k] \notin OrderPushes => Closed'
    BY <1>2 DEF TraceInv, Told
<1>5. \A g \in gates : g.ev \in DOMAIN emitted'
                       /\ (emitted'[g.ev] \notin OrderPushes => g.cap = order'.captured)
    BY <1>2, <1>3 DEF TraceInv, Told
<1>6. \A i \in DOMAIN queue :
          queue[i].ev \in DOMAIN emitted' /\ Made(queue[i].ev)
          /\ (emitted'[queue[i].ev] \notin OrderPushes => queue[i].cap = order'.captured)
    BY <1>2, <1>3 DEF TraceInv, Told
<1>7. \A k \in Events : Made(k) =>
          k \in DOMAIN emitted'
          /\ (emitted'[k] \notin OrderPushes => row[k].cap = order'.captured)
    BY <1>2, <1>3 DEF TraceInv, Told
<1> QED
    BY <1>1, <1>2, <1>4, <1>5, <1>6, <1>7 DEF Told, Made

LEMMA StoreTraces ==
    ASSUME Inv, Carried, Carried', TraceInv, Cancel \/ \E p \in Payments : Capture(p) \/ Refund(p)
    PROVE  TraceInv'
<1>1. order \in Order
    BY DEF Inv, Shapes
<1>2. CASE Cancel
    <2> DEFINE change == [order EXCEPT !.canceled = TRUE]
    <2>1. Emit("canceled", change)
        BY <1>2 DEF Cancel
    <2>2. /\ change \in Order /\ change.captured = order.captured /\ change.terms = order.terms
          /\ change.canceled /\ order' = change
        BY <1>1, <2>1 DEF Order, Emit
    <2>3. Closed' /\ (PaidSale' => PaidSale) /\ "canceled" \in EventNames
        BY <2>2 DEF Closed, PaidSale, EventNames
    <2> HIDE DEF change
    <2>4. /\ Told' /\ UNCHANGED <<gates, queue, job, row, docs, links>>
          /\ \A k \in DOMAIN emitted : k \in DOMAIN emitted' /\ emitted'[k] = emitted[k]
        BY <2>1, <2>2, <2>3, StoreTells
    <2> QED
        BY <2>2, <2>3, <2>4, OutsideTraces
<1>3. ASSUME NEW p \in Payments, Capture(p) PROVE TraceInv'
    <2> DEFINE change == [order EXCEPT !.captured = @ \cup {p}]
    <2>1. Emit("captured", change) /\ ~Closed
        BY <1>3 DEF Capture, Closed
    <2>2. change \in Order /\ change.terms = order.terms /\ order' = change
        BY <1>1, <2>1 DEF Order, Emit
    <2>3. "captured" \in EventNames /\ "captured" \in OrderPushes
        BY DEF EventNames, OrderPushes
    <2> HIDE DEF change
    <2>4. /\ Told' /\ UNCHANGED <<gates, queue, job, row, docs, links>>
          /\ \A k \in DOMAIN emitted : k \in DOMAIN emitted' /\ emitted'[k] = emitted[k]
        BY <2>1, <2>2, <2>3, StoreTells
    <2> QED
        BY <2>1, <2>2, <2>4, OutsideTraces
<1>4. ASSUME NEW p \in Payments, Refund(p) PROVE TraceInv'
    <2> DEFINE change == [order EXCEPT !.refunded = @ \cup {p}]
    <2>1. Emit("refunded", change)
        BY <1>4 DEF Refund
    <2>2. /\ change \in Order /\ change.captured = order.captured /\ change.terms = order.terms
          /\ change.refunded # {} /\ order' = change
        BY <1>1, <2>1 DEF Order, Emit
    <2>3. Closed' /\ (PaidSale' => PaidSale) /\ "refunded" \in EventNames
        BY <2>2 DEF Closed, PaidSale, EventNames
    <2> HIDE DEF change
    <2>4. /\ Told' /\ UNCHANGED <<gates, queue, job, row, docs, links>>
          /\ \A k \in DOMAIN emitted : k \in DOMAIN emitted' /\ emitted'[k] = emitted[k]
        BY <2>1, <2>2, <2>3, StoreTells
    <2> QED
        BY <2>2, <2>3, <2>4, OutsideTraces
<1> QED
    BY <1>2, <1>3, <1>4

LEMMA DeliverTraces ==
    ASSUME Inv, Carried, Carried', TraceInv, NEW k \in Events, Deliver(k) PROVE TraceInv'
<1> DEFINE g == [ev |-> k, cap |-> order.captured, ref |-> order.refunded]
<1>1. k \in DOMAIN emitted
    BY DEF Deliver, Carried
<1>2. g.ev = k /\ g.cap = order.captured
    OBVIOUS
<1>3. gates' = gates \cup {g} /\ UNCHANGED <<order, emitted, queue, job, row, docs, links>>
    BY DEF Deliver
<1> HIDE DEF g
<1>4. Told'
    BY <1>1, <1>2, <1>3 DEF TraceInv, Told, Closed, Made
<1> QED
    BY <1>3, <1>4, OutsideTraces DEF Closed, PaidSale

LEMMA QueuedAre ==
    ASSUME queue \in Seq(Push) PROVE \A i \in DOMAIN queue : queue[i].ev \in Events
<1>1. \A i \in DOMAIN queue : queue[i] \in Push
    OBVIOUS
<1> QED
    BY <1>1 DEF Push

LEMMA RetryTraces ==
    ASSUME Inv, Carried, Carried', TraceInv, NEW k \in Events, Retry(k) PROVE TraceInv'
<1>1. /\ UNCHANGED <<order, emitted, queue, job, docs, links>> /\ Made(k)
      /\ k \in DOMAIN emitted /\ (emitted[k] \notin OrderPushes => row[k].cap = order.captured)
    BY DEF Retry, Made, TraceInv, Told
<1>2. row \in [Events -> SyncRow] /\ row[k] \in SyncRow
    BY DEF Carried
<1>3. CASE row' = [row EXCEPT ![k].st = "skipped"] /\ UNCHANGED gates
    <2>1. \A j \in Events : /\ row'[j].cap = row[j].cap /\ (j # k => row'[j] = row[j])
                            /\ row'[k].st = "skipped"
        BY <1>2, <1>3 DEF SyncRow
    <2>2. \A j \in Events : Made(j)' <=> Made(j)
        BY <1>1, <2>1 DEF Made
    <2>3. \A i \in DOMAIN queue : queue[i].ev \in Events
        BY QueuedAre DEF Inv, Shapes
    <2>4. Told'
        BY <1>1, <1>3, <2>1, <2>2, <2>3 DEF TraceInv, Told, Closed, Made
    <2>5. \A j \in Events : row'[j].st = "success" =>
              row[j].st = "success" /\ row'[j].cap = row[j].cap
        BY <2>1
    <2> QED
        BY <1>1, <2>4, <2>5, OutsideTraces DEF Closed, PaidSale
<1>4. CASE /\ gates' = gates \cup {[ev |-> k, cap |-> row[k].cap, ref |-> row[k].ref]}
           /\ UNCHANGED row
    <2> DEFINE g == [ev |-> k, cap |-> row[k].cap, ref |-> row[k].ref]
    <2>1. g.ev = k /\ g.cap = row[k].cap /\ gates' = gates \cup {g}
        BY <1>4
    <2> HIDE DEF g
    <2>2. Told'
        BY <1>1, <1>4, <2>1 DEF TraceInv, Told, Closed, Made
    <2> QED
        BY <1>1, <1>4, <2>2, OutsideTraces DEF Closed, PaidSale
<1> QED
    BY <1>3, <1>4 DEF Retry

LEMMA EnterTraces ==
    ASSUME Inv, Carried, Carried', TraceInv, NEW g \in gates, Enter(g) PROVE TraceInv'
<1>1. /\ UNCHANGED <<order, emitted, job, docs, links>> /\ gates' \subseteq gates
      /\ g \in Push /\ g.ev \in Events /\ queue \in Seq(Push) /\ queue' = Append(queue, g)
      /\ row \in [Events -> SyncRow]
    BY DEF Enter, Carried, Push, Inv, Shapes
<1>2. g.ev \in DOMAIN emitted /\ (emitted[g.ev] \notin OrderPushes => g.cap = order.captured)
    BY DEF TraceInv, Told
<1>3. /\ \A i \in DOMAIN queue' : (i \in DOMAIN queue /\ queue'[i] = queue[i]) \/ queue'[i] = g
      /\ queue # <<>> => queue'[1] = queue[1]
    BY <1>1
<1>4. /\ row'[g.ev].st = "pending" /\ row'[g.ev].cap = g.cap
      /\ \A j \in Events : j # g.ev => row'[j] = row[j]
    <2>1. PICK born : row' = [row EXCEPT ![g.ev] = [st |-> "pending", cap |-> g.cap,
                                                    ref |-> g.ref, born |-> born]]
        BY DEF Enter
    <2> QED
        BY <1>1, <2>1
<1>5. \A j \in Events : /\ Made(j) => Made(j)'
                        /\ Made(g.ev)'
                        /\ Made(j)' => Made(j) \/ j = g.ev
    BY <1>1, <1>4 DEF Made
<1>6. \A i \in DOMAIN queue' : queue'[i].ev \in DOMAIN emitted /\ row'[queue'[i].ev].st # "none"
          /\ (emitted[queue'[i].ev] \notin OrderPushes => queue'[i].cap = order.captured)
    <2> SUFFICES ASSUME NEW i \in DOMAIN queue'
                 PROVE  queue'[i].ev \in DOMAIN emitted /\ row'[queue'[i].ev].st # "none"
                        /\ (emitted[queue'[i].ev] \notin OrderPushes
                            => queue'[i].cap = order.captured)
        OBVIOUS
    <2>1. CASE queue'[i] = g
        BY <1>2, <1>4, <2>1
    <2>2. CASE i \in DOMAIN queue /\ queue'[i] = queue[i]
        <3>1. queue[i].ev \in Events
            BY <1>1, <2>2, QueuedAre
        <3>2. row'[queue[i].ev].st # "none"
            BY <1>4, <2>2, <3>1 DEF TraceInv, Told, Made
        <3> QED
            BY <2>2, <3>2 DEF TraceInv, Told
    <2> QED
        BY <1>3, <2>1, <2>2
<1>7. \A j \in Events : Made(j)' =>
          j \in DOMAIN emitted /\ (emitted[j] \notin OrderPushes => row'[j].cap = order.captured)
    BY <1>2, <1>4, <1>5 DEF TraceInv, Told
<1>8. Told'
    BY <1>1, <1>6, <1>7 DEF TraceInv, Told, Closed, Made
<1>9. job.pc # "idle" => queue'[1] = queue[1]
    BY <1>3 DEF Inv, Shapes
<1>10. \A j \in Events : row'[j].st = "success" => row[j].st = "success" /\ row'[j].cap = row[j].cap
    BY <1>4
<1> QED
    BY <1>1, <1>8, <1>9, <1>10, OutsideTraces DEF Closed, PaidSale

LEMMA CrashTraces ==
    ASSUME Inv, Carried, Carried', TraceInv, Crash PROVE TraceInv'
<1>1. /\ UNCHANGED <<order, emitted, row, docs, links>> /\ gates' = {} /\ queue' = <<>>
      /\ job'.pc = "idle"
    BY IdleIs DEF Crash
<1>2. Told'
    BY <1>1 DEF TraceInv, Told, Closed, Made
<1> QED
    BY <1>1, <1>2, OutsideTraces DEF Closed, PaidSale

LEMMA TraceInit == Init => TraceInv
<1> SUFFICES ASSUME Init PROVE TraceInv
    OBVIOUS
<1>1. job.pc = "idle" /\ order.captured = {}
    BY IdleIs DEF Init
<1>2. /\ \A x \in Kinds : DOMAIN docs[x] = {} /\ links[x] = {}
      /\ \A k \in Events : row[k].st = "none"
      /\ gates = {} /\ queue = <<>> /\ emitted = <<"placed">>
    BY DEF Init, NoSyncRow
<1>3. Told
    BY <1>2 DEF Told, Made, OrderPushes
<1>4. UndoesWhatIsOver
    BY <1>1 DEF UndoesWhatIsOver, Unwinds, Stages
<1>5. SoldFirst
    BY <1>1, <1>2, KindsAre DEF SoldFirst, Has, Sold, PaidSale
<1>6. SaleLeavesTrace
    BY <1>2 DEF SaleLeavesTrace
<1> QED
    BY <1>3, <1>4, <1>5, <1>6 DEF TraceInv

LEMMA TraceNext ==
    ASSUME ~LostLinks, Inv, Carried, TraceInv, [Next]_vars
    PROVE  Inv' /\ Carried' /\ TraceInv'
<1>1. Inv' /\ Carried'
    BY InvNext
<1>2. CASE Cancel \/ \E p \in Payments : Capture(p) \/ Refund(p)
    BY <1>1, <1>2, StoreTraces
<1>3. ASSUME NEW k \in Events, Deliver(k) PROVE TraceInv'
    BY <1>1, <1>3, DeliverTraces
<1>4. ASSUME NEW k \in Events, Retry(k) PROVE TraceInv'
    BY <1>1, <1>4, RetryTraces
<1>5. ASSUME NEW g \in gates, Enter(g) PROVE TraceInv'
    BY <1>1, <1>5, EnterTraces
<1>6. CASE JobStep
    BY <1>1, <1>6, JobTraces
<1>7. CASE Crash
    BY <1>1, <1>7, CrashTraces
<1>8. CASE UNCHANGED vars
    <2>1. Told'
        BY <1>8 DEF vars, TraceInv, Told, Closed, Made
    <2> QED
        BY <1>1, <1>8, <2>1, OutsideTraces DEF vars, Closed, PaidSale
<1> QED
    BY <1>1, <1>2, <1>3, <1>4, <1>5, <1>6, <1>7, <1>8 DEF Next

\* Whatever was refused, retried, repeated or cut off on the way: a paid order whose
\* cancellation is recorded as a success was booked before it was taken out, and its
\* cancelled order and invoice are in ERPNext.
THEOREM SaleLeavesItsTrace == ASSUME ~LostLinks PROVE Spec => []SaleLeavesTrace
<1>1. Init => Inv /\ Carried /\ TraceInv
    BY InvInit, TraceInit
<1>2. (Inv /\ Carried /\ TraceInv) /\ [Next]_vars => (Inv /\ Carried /\ TraceInv)'
    BY TraceNext
<1>3. TraceInv => SaleLeavesTrace
    BY DEF TraceInv
<1> QED
    BY <1>1, <1>2, <1>3, PTL DEF Spec
-----------------------------------------------------------------------------
(* The books behave as SaleBooks says *)

\* An entry stands alone and is linked alone; one that is cancelled keeps its link.
EntriesApart ==
    \A p \in Payments :
        /\ \A m, n \in DOMAIN docs[p] : Stands(p, m) /\ Stands(p, n) => m = n
        /\ \A m, n \in links[p] : m = n
        /\ \A n \in DOMAIN docs[p] : docs[p][n] = "cancelled" => n \in links[p]

\* What the push relies on when it makes a paper, or takes away the one below it.
OnGround ==
    /\ job.pc = "si" => job.doc \in links["SO"]
    /\ job.pc = "linkPay" => links[job.kind] = {}
    /\ Stage = "undoSI" => job.err \/ \A n \in Live("SI") : <<"SI", n>> \in job.todo
    /\ Stage = "undoSO" => Live("SI") = {}

SaleInv == EntriesApart /\ OnGround

LEMMA PaperIs ==
    ASSUME NEW ds, \A m, n \in Standing(ds) : m = n
    PROVE  /\ \A n \in Standing(ds) : PaperOf(ds) = ds[n]
           /\ Standing(ds) = {} => PaperOf(ds) = "none"
<1>1. CASE Standing(ds) = {}
    BY <1>1 DEF PaperOf
<1>2. ASSUME NEW n \in Standing(ds) PROVE PaperOf(ds) = ds[n]
    <2>1. Standing(ds) = {n}
        BY <1>2
    <2>2. (CHOOSE m \in Standing(ds) : TRUE) = n
        BY <2>1
    <2> QED
        BY <1>2, <2>1, <2>2 DEF PaperOf
<1> QED
    BY <1>1, <1>2

\* What paper[x] of SaleBooks stands for.
PaperNow(x) == PaperOf(docs[x])

LEMMA OneStands ==
    ASSUME Inv, EntriesApart, NEW x \in Kinds
    PROVE  \A m, n \in Standing(docs[x]) : m = n
<1>1. CASE x \in Sales
    BY <1>1 DEF Inv, Books, OneEach, Stands, Standing
<1>2. CASE x \in Payments
    BY <1>2 DEF EntriesApart, Stands, Standing
<1> QED
    BY <1>1, <1>2, KindsAre

LEMMA PaperSays ==
    ASSUME Inv, EntriesApart, NEW x \in Kinds
    PROVE  /\ \A n \in DOMAIN docs[x] : docs[x][n] # "deleted" => PaperNow(x) = docs[x][n]
           /\ (\A n \in DOMAIN docs[x] : docs[x][n] = "deleted") => PaperNow(x) = "none"
           /\ Has(x, "submitted") => PaperNow(x) = "submitted"
           /\ ~Has(x, "submitted") => PaperNow(x) # "submitted"
           /\ PaperNow(x) = "draft" => Live(x) # {}
<1>1. \A m, n \in Standing(docs[x]) : m = n
    BY OneStands
<1>2. \A n \in Standing(docs[x]) : PaperNow(x) = docs[x][n]
    BY <1>1, PaperIs DEF PaperNow
<1>3. Standing(docs[x]) = {} => PaperNow(x) = "none"
    BY <1>1, PaperIs DEF PaperNow
<1>4. CASE Standing(docs[x]) = {}
    BY <1>3, <1>4 DEF Standing, Has
<1>5. ASSUME NEW n \in Standing(docs[x])
      PROVE  /\ Has(x, "submitted") <=> PaperNow(x) = "submitted"
             /\ PaperNow(x) = "draft" => Live(x) # {}
    BY <1>1, <1>2, <1>5 DEF Standing, Has, Live
<1> QED
    BY <1>2, <1>3, <1>4, <1>5 DEF Standing

\* A paper of one kind goes from one status to another.
Goes(x, from, to) == Sale!Becomes(x, from, to)

LEMMA GoesIf ==
    ASSUME NEW x \in Kinds, NEW from, NEW to, PaperNow(x) = from,
           PaperOf(docs'[x]) = to, \A y \in Kinds : y # x => docs'[y] = docs[y]
    PROVE  Goes(x, from, to)
<1>1. [y \in Kinds |-> PaperOf(docs[y])][x] = from
    BY DEF PaperNow
<1>2. [y \in Kinds |-> PaperOf(docs'[y])]
          = [[y \in Kinds |-> PaperOf(docs[y])] EXCEPT ![x] = to]
    <2> DEFINE f == [y \in Kinds |-> PaperOf(docs'[y])]
               g == [[y \in Kinds |-> PaperOf(docs[y])] EXCEPT ![x] = to]
    <2>1. \A y \in Kinds : f[y] = g[y]
        OBVIOUS
    <2>2. f = [y \in Kinds |-> f[y]] /\ g = [y \in Kinds |-> g[y]]
        OBVIOUS
    <2> QED
        BY <2>1, <2>2
<1>3. [y \in Kinds |-> PaperOf(docs[y])]' = [y \in Kinds |-> PaperOf(docs'[y])]
    BY DEF PaperOf, Standing
<1> QED
    BY <1>1, <1>2, <1>3 DEF Goes, Sale!Becomes

LEMMA MadePaper ==
    ASSUME Inv, EntriesApart, NEW x \in Kinds, docs' = New(x),
           \A n \in DOMAIN docs[x] : docs[x][n] = "deleted"
    PROVE  Goes(x, "none", "draft")
<1> DEFINE k == Len(docs[x]) + 1
<1>1. /\ \A y \in Kinds : y # x => docs'[y] = docs[y]
      /\ DOMAIN docs'[x] = DOMAIN docs[x] \cup {k}
      /\ docs'[x][k] = "draft" /\ \A m \in DOMAIN docs[x] : docs'[x][m] = docs[x][m]
    BY NewIs DEF Inv
<1> HIDE DEF k
<1>2. Standing(docs'[x]) = {k}
    BY <1>1 DEF Standing
<1>3. PaperOf(docs'[x]) = "draft"
    BY <1>1, <1>2, PaperIs
<1>4. PaperNow(x) = "none"
    BY PaperSays
<1> QED
    BY <1>1, <1>3, <1>4, GoesIf

LEMMA ChangedPaper ==
    ASSUME Inv, EntriesApart, NEW x \in Kinds, NEW n \in DOMAIN docs[x], NEW st \in Statuses,
           docs[x][n] # "deleted", docs' = With(x, n, st)
    PROVE  Goes(x, docs[x][n], IF st = "deleted" THEN "none" ELSE st)
<1>1. /\ DOMAIN docs'[x] = DOMAIN docs[x] /\ docs'[x][n] = st
      /\ \A y \in Kinds : y # x => docs'[y] = docs[y]
      /\ \A m \in DOMAIN docs[x] : m # n => docs'[x][m] = docs[x][m]
    BY WithIs DEF Inv
<1>2. Standing(docs[x]) = {n}
    BY OneStands DEF Standing
<1>3. Standing(docs'[x]) = IF st = "deleted" THEN {} ELSE {n}
    BY <1>1, <1>2 DEF Standing
<1>4. PaperOf(docs'[x]) = IF st = "deleted" THEN "none" ELSE st
    BY <1>1, <1>3, PaperIs
<1>5. PaperNow(x) = docs[x][n]
    BY PaperSays
<1> QED
    BY <1>1, <1>4, <1>5, GoesIf

-----------------------------------------------------------------------------
(* Each step is one of SaleBooks, or leaves the papers alone *)

Kept == UNCHANGED docs \/ Sale!BooksNext

LEMMA SaleActions ==
    ASSUME Inv, EntriesApart, NEW x \in Kinds
    PROVE  /\ /\ Goes(x, "none", "draft")
              /\ x = "SI" => PaperNow("SO") \in {"draft", "submitted"}
              /\ x \in Payments => PaperNow("SI") = "submitted"
              => Kept
           /\ /\ Goes(x, "draft", "submitted")
              /\ x = "SI" => PaperNow("SO") = "submitted"
              /\ x \in Payments => PaperNow("SI") = "submitted"
              => Kept
           /\ /\ Goes(x, "draft", "none") \/ Goes(x, "submitted", "cancelled")
              /\ x = "SO" => PaperNow("SI") \notin {"draft", "submitted"}
              /\ x = "SI" => \A p \in Payments : PaperNow(p) # "submitted"
              => Kept
<1> DEFINE paper == [y \in Kinds |-> PaperOf(docs[y])]
<1>1. /\ Sale!Papers = Kinds /\ x \in Sale!Papers
      /\ \A y \in Kinds : paper[y] = PaperNow(y)
      /\ "SO" \in Kinds /\ "SI" \in Kinds /\ Payments \subseteq Kinds
    BY KindsAre DEF Sale!Papers, Kinds, PaperNow
<1>2. /\ Sale!OnTopOf("SO") = {"SI"} /\ Sale!OnTopOf("SI") = Payments
      /\ \A p \in Payments : Sale!OnTopOf(p) = {}
    BY KindsAre DEF Sale!OnTopOf
<1>3. ASSUME Goes(x, "none", "draft"),
             x = "SI" => PaperNow("SO") \in {"draft", "submitted"},
             x \in Payments => PaperNow("SI") = "submitted"
      PROVE  Sale!Make(x)
    BY <1>1, <1>3 DEF Sale!Make, Goes
<1>4. ASSUME Goes(x, "draft", "submitted"),
             x = "SI" => PaperNow("SO") = "submitted",
             x \in Payments => PaperNow("SI") = "submitted"
      PROVE  Sale!Submit(x)
    <2>1. \A y \in Kinds : x \in Sale!OnTopOf(y) => PaperNow(y) = "submitted"
        BY <1>2, <1>4, KindsAre DEF Sales
    <2> QED
        BY <1>1, <1>4, <2>1 DEF Sale!Submit, Goes
<1>5. ASSUME x = "SO" => PaperNow("SI") \notin {"draft", "submitted"},
             x = "SI" => \A p \in Payments : PaperNow(p) # "submitted"
      PROVE  Sale!Free(x)
    <2>1. \A y \in Sale!OnTopOf(x) : y \in Kinds /\ PaperNow(y) # "submitted"
        BY <1>1, <1>2, <1>5, KindsAre DEF Sales
    <2> QED
        BY <1>1, <1>5, <2>1 DEF Sale!Free
<1> HIDE DEF paper
<1> QED
    BY <1>1, <1>3, <1>4, <1>5 DEF Kept, Sale!BooksNext, Sale!Discard, Sale!Cancel, Goes

LEMMA SubmitsInOrder ==
    ASSUME Inv, EntriesApart, NEW x \in Kinds, NEW n \in links[x],
           docs' = docs \/ docs' = Submitted(x, n),
           x \in Payments => Has("SI", "submitted"), x = "SI" => Has("SO", "submitted")
    PROVE  Kept
<1>1. n \in DOMAIN docs[x] /\ "submitted" \in Statuses
    BY DEF Inv, Shapes, Statuses
<1>2. CASE docs' = docs
    BY <1>2 DEF Kept
<1>3. CASE docs' # docs
    <2>1. docs[x][n] = "draft" /\ docs' = With(x, n, "submitted")
        BY <1>3 DEF Submitted
    <2>2. Goes(x, "draft", "submitted")
        BY <1>1, <2>1, ChangedPaper
    <2>3. /\ x = "SI" => PaperNow("SO") = "submitted"
          /\ x \in Payments => PaperNow("SI") = "submitted"
        BY PaperSays, KindsAre
    <2> QED
        BY <2>2, <2>3, SaleActions
<1> QED
    BY <1>2, <1>3

LEMMA UnwindsInOrder ==
    ASSUME ~LostLinks, Inv, SaleInv, NEW l \in job.todo, NEW ans \in Answers, Unwind(l, ans)
    PROVE  Kept
<1> DEFINE x == l[1]
           n == l[2]
<1>1. /\ job.pc \in Stages /\ Stage = job.pc /\ x \in Kinds /\ n \in links[x]
      /\ n \in DOMAIN docs[x] /\ docs[x][n] \in Statuses
    <2>1. job.pc \in Stages /\ Stage = job.pc
        BY DEF Unwind, Stage, Stages
    <2>2. job.todo \in SUBSET (Kinds \X Nat)
        BY DEF Inv, Shapes, Job
    <2>3. x \in Kinds /\ n \in links[x]
        BY <2>2 DEF Inv, InHand
    <2> QED
        BY <2>1, <2>3 DEF Inv, Shapes
<1>2. docs' = docs \/ docs' = Unwound(x, n)
    BY DEF Unwind, Call
<1>3. /\ x = "SO" => PaperNow("SI") \notin {"draft", "submitted"}
      /\ x = "SI" => \A p \in Payments : PaperNow(p) # "submitted"
    <2>1. x = "SO" => Stage = "undoSO"
        BY <1>1, KindsAre DEF Inv, Unwinding, Stages
    <2>2. x = "SI" => Stage \in {"undoSI", "undoSO"}
        BY <1>1, KindsAre DEF Inv, Unwinding, Stages
    <2>3. Stage = "undoSO" => Live("SI") = {} /\ ~Has("SI", "submitted")
        BY DEF SaleInv, OnGround, Inv, Unwinding
    <2>4. Stage \in {"undoSI", "undoSO"} => \A p \in Payments : ~Has(p, "submitted")
        BY DEF Inv, Unwinding
    <2> QED
        BY <2>1, <2>2, <2>3, <2>4, PaperSays, KindsAre DEF SaleInv
<1> HIDE DEF x, n
<1>4. CASE docs' = docs
    BY <1>4 DEF Kept
<1>5. CASE docs' = Unwound(x, n) /\ docs[x][n] = "draft"
    <2>1. docs' = With(x, n, "deleted") /\ "deleted" \in Statuses
        BY <1>5 DEF Unwound, Statuses
    <2>2. Goes(x, "draft", "none")
        BY <1>1, <1>5, <2>1, ChangedPaper DEF SaleInv
    <2> QED
        BY <1>1, <1>3, <2>2, SaleActions DEF SaleInv
<1>6. CASE docs' = Unwound(x, n) /\ docs[x][n] = "submitted"
    <2>1. docs' = With(x, n, "cancelled") /\ "cancelled" \in Statuses
        BY <1>6 DEF Unwound, Statuses
    <2>2. Goes(x, "submitted", "cancelled")
        BY <1>1, <1>6, <2>1, ChangedPaper DEF SaleInv
    <2> QED
        BY <1>1, <1>3, <2>2, SaleActions DEF SaleInv
<1> QED
    BY <1>1, <1>2, <1>4, <1>5, <1>6 DEF Unwound, Statuses

\* A Sales Order or invoice is made where none stands, on an order that does.
LEMMA SalesAreMadeInOrder ==
    ASSUME Inv, EntriesApart, NEW x \in Sales, NEW n \in LinkOf(x), ~Loose,
           StatusOf(x, n) = "deleted", docs' = docs \/ docs' = New(x),
           x = "SI" => job.doc \in links["SO"] /\ docs["SO"][job.doc] # "cancelled"
    PROVE  Kept /\ links[x] = {}
<1>1. x \in Kinds /\ Shapes
    BY KindsAre DEF Inv
<1>2. links[x] = {}
    <2>1. n \in links[x] \/ links[x] = {}
        BY <1>1, LinksAre
    <2>2. n \in links[x] => Stands(x, n) /\ n # 0
        BY <1>1, LinksAre DEF Inv, Books, LinkedStands, Loose
    <2> QED
        BY <2>1, <2>2 DEF Stands, StatusOf
<1>3. \A m \in DOMAIN docs[x] : docs[x][m] = "deleted"
    BY <1>2 DEF Inv, Books, StandingIsLinked, Stands, Loose, LinkPc
<1>4. x = "SI" => PaperNow("SO") \in {"draft", "submitted"}
    <2> SUFFICES ASSUME x = "SI" PROVE PaperNow("SO") \in {"draft", "submitted"}
        OBVIOUS
    <2>1. Stands("SO", job.doc)
        BY DEF Inv, Books, LinkedStands, Loose, Sales
    <2>2. docs["SO"] \in Seq(Statuses)
        BY <1>1, KindsAre DEF Shapes
    <2>3. docs["SO"][job.doc] \in {"draft", "submitted"}
        BY <2>1, <2>2 DEF Stands, Statuses
    <2> QED
        BY <2>1, <2>3, PaperSays, KindsAre DEF Stands
<1>5. CASE docs' = docs
    BY <1>2, <1>5 DEF Kept
<1>6. CASE docs' = New(x)
    <2>1. Goes(x, "none", "draft")
        BY <1>1, <1>3, <1>6, MadePaper
    <2> QED
        BY <1>1, <1>2, <1>4, <2>1, SaleActions, KindsAre
<1> QED
    BY <1>5, <1>6

\* An entry is made where none stands, on a submitted invoice.
LEMMA EntriesAreMadeInOrder ==
    ASSUME Inv, EntriesApart, NEW p \in Payments, NEW n \in LinkOf(p), Has("SI", "submitted"),
           StatusOf(p, n) = "deleted", docs' = docs \/ (docs' = New(p) /\ Live(p) = {})
    PROVE  /\ Kept /\ links[p] \subseteq {n}
           /\ docs' = docs \/ \A m \in DOMAIN docs[p] : docs[p][m] = "deleted"
<1>1. p \in Kinds /\ Shapes /\ p \notin Sales
    BY KindsAre DEF Inv
<1>2. links[p] \subseteq {n} /\ (n \in links[p] => docs[p][n] = "deleted")
    <2>1. n \in links[p] \/ links[p] = {}
        BY <1>1, LinksAre
    <2>2. n \in links[p] => n # 0
        BY <1>1, LinksAre
    <2> QED
        BY <2>1, <2>2 DEF EntriesApart, StatusOf
<1>3. Live(p) = {} => \A m \in DOMAIN docs[p] : docs[p][m] = "deleted"
    <2> SUFFICES ASSUME Live(p) = {}, NEW m \in DOMAIN docs[p] PROVE docs[p][m] = "deleted"
        OBVIOUS
    <2>1. docs[p][m] \in Statuses
        BY <1>1 DEF Shapes
    <2>2. docs[p][m] \notin {"draft", "submitted"}
        BY DEF Live
    <2>3. docs[p][m] = "cancelled" => m \in links[p]
        BY DEF EntriesApart
    <2> QED
        BY <1>2, <2>1, <2>2, <2>3 DEF Statuses
<1>4. CASE docs' = docs
    BY <1>2, <1>4 DEF Kept
<1>5. CASE docs' = New(p) /\ Live(p) = {}
    <2>1. Goes(p, "none", "draft")
        BY <1>1, <1>3, <1>5, MadePaper
    <2>2. PaperNow("SI") = "submitted"
        BY PaperSays, KindsAre
    <2> QED
        BY <1>1, <1>2, <1>3, <1>5, <2>1, <2>2, SaleActions DEF Sales
<1> QED
    BY <1>4, <1>5

-----------------------------------------------------------------------------
(* What SaleInv asks, step by step *)

LEMMA EntriesQuiet ==
    ASSUME EntriesApart, \A p \in Payments : docs'[p] = docs[p] /\ links'[p] = links[p]
    PROVE  EntriesApart'
BY DEF EntriesApart, Stands

LEMMA OffGround ==
    ASSUME job'.pc \notin {"si", "linkPay", "undoSI", "undoSO", "unlink"} PROVE OnGround'
BY DEF OnGround, Stage

LEMMA UndoingIs == Idle.pc = "idle" /\ Undoing.pc = "undoPay"
BY DEF Idle, Undoing

\* A push that ends, or begins to unwind, asks nothing of the ground.
LEMMA SalesDoneGround ==
    ASSUME SalesDone \/ (\E st : Over(st)) PROVE OnGround'
<1>1. job' = Undoing \/ job' = Idle
    BY DEF SalesDone, Over
<1> QED
    BY <1>1, OffGround, UndoingIs

LEMMA StartSells == ASSUME Inv, SaleInv, Start PROVE Kept /\ SaleInv'
<1>1. UNCHANGED <<docs, links>>
    BY DEF Start, NoCall
<1>2. \/ job' = [Idle EXCEPT !.pc = "so"] \/ job' = [Idle EXCEPT !.pc = "so", !.undo = TRUE]
      \/ job' = Undoing \/ Over("skipped") \/ Over("success")
    BY DEF Start
<1>3. OnGround'
    <2>1. CASE \/ job' = [Idle EXCEPT !.pc = "so"]
               \/ job' = [Idle EXCEPT !.pc = "so", !.undo = TRUE]
        <3>1. job'.pc = "so"
            BY <2>1 DEF Idle
        <3> QED
            BY <3>1, OffGround
    <2>2. CASE job' = Undoing
        BY <2>2, OffGround, UndoingIs
    <2> QED
        BY <1>2, <2>1, <2>2, SalesDoneGround
<1> QED
    BY <1>1, <1>3, EntriesQuiet DEF SaleInv, Kept

LEMMA WriteSOSells ==
    ASSUME ~LostLinks, Inv, SaleInv, NEW ans \in Answers, WriteSO(ans) PROVE Kept /\ SaleInv'
<1>1. job.pc = "so" /\ ~Loose /\ UNCHANGED links /\ job \in Job /\ Shapes
    BY DEF WriteSO, At, Loose, Inv, Shapes
<1>2. PICK n \in LinkOf("SO") :
          \/ /\ StatusOf("SO", n) # "deleted" /\ docs' = docs
             /\ AfterSO(n) \/ Over("failed")
          \/ /\ StatusOf("SO", n) = "deleted" /\ (docs' = New("SO") \/ docs' = docs)
             /\ \/ job' = [job EXCEPT !.pc = "linkSO", !.doc = Len(docs["SO"]) + 1]
                \/ Over("failed")
    BY <1>1 DEF WriteSO, Call, NoCall, Stays, Answers
<1>3. Kept
    BY <1>1, <1>2, SalesAreMadeInOrder DEF SaleInv, Kept, Sales
<1>4. EntriesApart'
    <2>1. \A p \in Payments : docs'[p] = docs[p]
        BY <1>1, <1>2, NewIs, KindsAre
    <2> QED
        BY <1>1, <2>1, EntriesQuiet DEF SaleInv
<1>5. OnGround'
    <2>1. CASE Over("failed")
        BY <2>1, SalesDoneGround
    <2>2. CASE job' = [job EXCEPT !.pc = "linkSO", !.doc = Len(docs["SO"]) + 1]
        <3>1. job'.pc = "linkSO"
            BY <1>1, <2>2 DEF Job
        <3> QED
            BY <3>1, OffGround
    <2>3. CASE StatusOf("SO", n) # "deleted" /\ AfterSO(n)
        <3>1. n \in links["SO"] /\ n \in Nat
            BY <1>1, <2>3, LinksAre, KindsAre
        <3>2. job'.doc = n /\ job'.pc \in {"si", "submitSO"}
            BY <1>1, <2>3, <3>1, AfterSOIs
        <3> QED
            BY <1>1, <3>1, <3>2 DEF OnGround, Stage
    <2> QED
        BY <1>2, <2>1, <2>2, <2>3
<1> QED
    BY <1>3, <1>4, <1>5 DEF SaleInv

LEMMA LinkSOSells == ASSUME Inv, SaleInv, LinkSO PROVE Kept /\ SaleInv'
<1>1. /\ docs' = docs /\ job.pc = LinkPc("SO") /\ job \in Job
      /\ links' = [links EXCEPT !["SO"] = @ \cup {job.doc}]
    BY DEF LinkSO, At, NoCall, Known, LinkPc, Inv, Shapes
<1>2. /\ links'["SO"] = {job.doc} /\ job.doc \in Nat
      /\ \A y \in Kinds : y # "SO" => links'[y] = links[y]
    BY <1>1, LinkedBooks DEF Sales
<1>3. job'.doc = job.doc /\ job'.pc \in {"si", "submitSO"}
    BY <1>1, <1>2, AfterSOIs DEF LinkSO
<1>4. OnGround'
    BY <1>2, <1>3 DEF OnGround, Stage
<1> QED
    BY <1>1, <1>2, <1>4, EntriesQuiet, KindsAre DEF SaleInv, Kept

LEMMA SubmitSOSells ==
    ASSUME Inv, SaleInv, NEW ans \in Answers, SubmitSO(ans) PROVE Kept /\ SaleInv'
<1>1. /\ UNCHANGED links /\ job \in Job /\ Shapes /\ job.doc \in links["SO"]
      /\ job.doc \in DOMAIN docs["SO"] /\ (docs' = docs \/ docs' = Submitted("SO", job.doc))
    BY KindsAre DEF SubmitSO, At, Inv, Shapes, InHand, Call
<1>2. Kept
    BY <1>1, SubmitsInOrder, KindsAre DEF SaleInv
<1>3. EntriesApart'
    <2>1. \A p \in Payments : docs'[p] = docs[p]
        BY <1>1, WithIs, KindsAre DEF Submitted, Statuses
    <2> QED
        BY <1>1, <2>1, EntriesQuiet DEF SaleInv
<1>4. OnGround'
    <2>1. (\E st : Over(st)) \/ SalesDone \/ job' = [job EXCEPT !.pc = "si"]
        BY DEF SubmitSO, Goto
    <2>2. CASE job' = [job EXCEPT !.pc = "si"]
        <3>1. job'.pc = "si" /\ job'.doc = job.doc
            BY <1>1, <2>2 DEF Job
        <3> QED
            BY <1>1, <3>1 DEF OnGround, Stage
    <2> QED
        BY <2>1, <2>2, SalesDoneGround
<1> QED
    BY <1>2, <1>3, <1>4 DEF SaleInv

LEMMA AfterSIGround == ASSUME job \in Job, NEW n, AfterSI(n) PROVE OnGround'
<1>1. CASE Plan = "record-payments"
    <2>1. job'.pc = "submitSI"
        BY <1>1 DEF AfterSI, Job
    <2> QED
        BY <2>1, OffGround
<1>2. CASE Plan # "record-payments"
    BY <1>2, SalesDoneGround DEF AfterSI
<1> QED
    BY <1>1, <1>2

LEMMA WriteSISells ==
    ASSUME ~LostLinks, Inv, SaleInv, NEW ans \in Answers, WriteSI(ans) PROVE Kept /\ SaleInv'
<1>1. /\ job.pc = "si" /\ ~Loose /\ UNCHANGED links /\ job \in Job /\ Shapes
      /\ job.doc \in links["SO"]
    BY DEF WriteSI, At, Loose, Inv, Shapes, SaleInv, OnGround
<1>2. \/ docs' = docs
      \/ \E n \in LinkOf("SI") : /\ StatusOf("SI", n) = "deleted" /\ docs' = New("SI")
                                 /\ docs["SO"][job.doc] # "cancelled"
    BY <1>1 DEF WriteSI, Call, NoCall, Answers
<1>3. Kept
    BY <1>1, <1>2, SalesAreMadeInOrder DEF SaleInv, Kept, Sales
<1>4. EntriesApart'
    <2>1. \A p \in Payments : docs'[p] = docs[p]
        BY <1>1, <1>2, NewIs, KindsAre
    <2> QED
        BY <1>1, <2>1, EntriesQuiet DEF SaleInv
<1>5. OnGround'
    <2>1. \/ (\E st : Over(st)) \/ SalesDone \/ (\E n : AfterSI(n))
          \/ job' = [job EXCEPT !.pc = "linkSI", !.doc = Len(docs["SI"]) + 1]
        BY DEF WriteSI
    <2>2. CASE job' = [job EXCEPT !.pc = "linkSI", !.doc = Len(docs["SI"]) + 1]
        <3>1. job'.pc = "linkSI"
            BY <1>1, <2>2 DEF Job
        <3> QED
            BY <3>1, OffGround
    <2> QED
        BY <1>1, <2>1, <2>2, SalesDoneGround, AfterSIGround
<1> QED
    BY <1>3, <1>4, <1>5 DEF SaleInv

LEMMA LinkSISells == ASSUME Inv, SaleInv, LinkSI PROVE Kept /\ SaleInv'
<1>1. /\ docs' = docs /\ job.pc = LinkPc("SI") /\ job \in Job
      /\ links' = [links EXCEPT !["SI"] = @ \cup {job.doc}]
    BY DEF LinkSI, At, NoCall, Known, LinkPc, Inv, Shapes
<1>2. \A y \in Kinds : y # "SI" => links'[y] = links[y]
    BY <1>1, LinkedBooks DEF Sales
<1>3. OnGround'
    BY <1>1, AfterSIGround DEF LinkSI
<1> QED
    BY <1>1, <1>2, <1>3, EntriesQuiet, KindsAre DEF SaleInv, Kept

LEMMA SubmitSISells ==
    ASSUME Inv, SaleInv, NEW ans \in Answers, SubmitSI(ans) PROVE Kept /\ SaleInv'
<1>1. /\ UNCHANGED links /\ job \in Job /\ Shapes /\ job.doc \in links["SI"]
      /\ job.doc \in DOMAIN docs["SI"] /\ (docs' = docs \/ docs' = Submitted("SI", job.doc))
      /\ Has("SO", "submitted")
    BY KindsAre DEF SubmitSI, At, Inv, Shapes, InHand, Booking, Call
<1>2. Kept
    BY <1>1, SubmitsInOrder, KindsAre DEF SaleInv
<1>3. EntriesApart'
    <2>1. \A p \in Payments : docs'[p] = docs[p]
        BY <1>1, WithIs, KindsAre DEF Submitted, Statuses
    <2> QED
        BY <1>1, <2>1, EntriesQuiet DEF SaleInv
<1>4. OnGround'
    <2>1. (\E st : Over(st)) \/ SalesDone \/ job' = [job EXCEPT !.pc = "pay", !.pays = Head1.cap]
        BY DEF SubmitSI
    <2>2. CASE job' = [job EXCEPT !.pc = "pay", !.pays = Head1.cap]
        <3>1. job'.pc = "pay"
            BY <1>1, <2>2 DEF Job
        <3> QED
            BY <3>1, OffGround
    <2> QED
        BY <2>1, <2>2, SalesDoneGround
<1> QED
    BY <1>2, <1>3, <1>4 DEF SaleInv

LEMMA BookPaymentSells ==
    ASSUME Inv, SaleInv, NEW ans \in Answers, NEW p \in Payments, BookPayment(p, ans)
    PROVE  Kept /\ SaleInv'
<1>1. /\ job.pc = "pay" /\ job \in Job /\ Shapes /\ Has("SI", "submitted") /\ p \in Kinds
      /\ p \notin Sales /\ \A q \in Payments : q \in Kinds
    BY KindsAre DEF BookPayment, At, Inv, Shapes, Booking
<1>2. PICK n \in LinkOf(p) :
          \/ /\ UNCHANGED <<docs, links>>
             /\ \/ job' = [job EXCEPT !.pays = @ \ {p}]
                \/ job' = [job EXCEPT !.pc = "submitPay", !.kind = p, !.doc = n]
          \/ /\ StatusOf(p, n) = "deleted" /\ links' = [links EXCEPT ![p] = @ \ {n}]
             /\ docs' = docs \/ (docs' = New(p) /\ Live(p) = {})
             /\ \/ \E m : job' = [job EXCEPT !.pc = "linkPay", !.kind = p, !.doc = m]
                \/ Over("failed")
    BY DEF BookPayment, ByReference, Stays, NoCall, Call
<1>3. CASE /\ UNCHANGED <<docs, links>>
           /\ \/ job' = [job EXCEPT !.pays = @ \ {p}]
              \/ job' = [job EXCEPT !.pc = "submitPay", !.kind = p, !.doc = n]
    <2>1. job'.pc \in {"pay", "submitPay"}
        BY <1>1, <1>3 DEF Job
    <2>2. OnGround'
        BY <2>1, OffGround
    <2> QED
        BY <1>3, <2>2, EntriesQuiet DEF SaleInv, Kept
<1>4. CASE /\ StatusOf(p, n) = "deleted" /\ links' = [links EXCEPT ![p] = @ \ {n}]
           /\ docs' = docs \/ (docs' = New(p) /\ Live(p) = {})
           /\ \/ \E m : job' = [job EXCEPT !.pc = "linkPay", !.kind = p, !.doc = m]
              \/ Over("failed")
    <2>1. /\ Kept /\ links[p] \subseteq {n}
          /\ docs' = docs \/ \A m \in DOMAIN docs[p] : docs[p][m] = "deleted"
        BY <1>1, <1>4, EntriesAreMadeInOrder DEF SaleInv
    <2>2. /\ links'[p] = {} /\ \A y \in Kinds : y # p => links'[y] = links[y]
        BY <1>1, <1>4, <2>1 DEF Shapes
    <2>3. EntriesApart'
        <3>1. \A q \in Payments : q # p => docs'[q] = docs[q] /\ links'[q] = links[q]
            <4>1. docs' = docs \/ docs' = New(p)
                BY <1>4
            <4> QED
                BY <1>1, <2>2, <4>1, NewIs
        <3>2. \A m, k \in DOMAIN docs'[p] : Stands(p, m)' /\ Stands(p, k)' => m = k
            <4>1. CASE docs' = docs
                BY <4>1 DEF SaleInv, EntriesApart, Stands
            <4>2. CASE docs' # docs
                <5>1. /\ DOMAIN docs'[p] = DOMAIN docs[p] \cup {Len(docs[p]) + 1}
                      /\ \A m \in DOMAIN docs[p] : docs'[p][m] = docs[p][m]
                    BY <1>1, <1>4, <4>2, NewIs
                <5> QED
                    BY <2>1, <4>2, <5>1 DEF Stands
            <4> QED
                BY <4>1, <4>2
        <3>3. \A m \in DOMAIN docs'[p] : docs'[p][m] # "cancelled"
            <4>1. CASE docs' = docs
                <5>1. \A m \in DOMAIN docs[p] : docs[p][m] = "cancelled" => m = n /\ n \in links[p]
                    BY <2>1 DEF SaleInv, EntriesApart
                <5>2. n \in links[p] => n # 0 /\ docs[p][n] = "deleted"
                    BY <1>1, <1>4, LinksAre DEF StatusOf
                <5> QED
                    BY <4>1, <5>1, <5>2
            <4>2. CASE docs' # docs
                <5>1. /\ DOMAIN docs'[p] = DOMAIN docs[p] \cup {Len(docs[p]) + 1}
                      /\ docs'[p][Len(docs[p]) + 1] = "draft"
                      /\ \A m \in DOMAIN docs[p] : docs'[p][m] = docs[p][m]
                    BY <1>1, <1>4, <4>2, NewIs
                <5> QED
                    BY <2>1, <4>2, <5>1
            <4> QED
                BY <4>1, <4>2
        <3> SUFFICES ASSUME NEW q \in Payments
                     PROVE  /\ \A m, k \in DOMAIN docs'[q] : Stands(q, m)' /\ Stands(q, k)' => m = k
                            /\ \A m, k \in links'[q] : m = k
                            /\ \A m \in DOMAIN docs'[q] :
                                  docs'[q][m] = "cancelled" => m \in links'[q]
            BY DEF EntriesApart
        <3>4. CASE q = p
            BY <2>2, <3>2, <3>3, <3>4
        <3>5. CASE q # p
            BY <3>1, <3>5 DEF SaleInv, EntriesApart, Stands
        <3> QED
            BY <3>4, <3>5
    <2>4. OnGround'
        <3>1. CASE Over("failed")
            BY <3>1, SalesDoneGround
        <3>2. ASSUME NEW m, job' = [job EXCEPT !.pc = "linkPay", !.kind = p, !.doc = m]
              PROVE  OnGround'
            <4>1. job'.pc = "linkPay" /\ job'.kind = p
                BY <1>1, <3>2 DEF Job
            <4> QED
                BY <2>2, <4>1 DEF OnGround, Stage
        <3> QED
            BY <1>4, <3>1, <3>2
    <2> QED
        BY <2>1, <2>3, <2>4 DEF SaleInv
<1> QED
    BY <1>2, <1>3, <1>4

LEMMA LinkPaymentSells == ASSUME Inv, SaleInv, LinkPayment PROVE Kept /\ SaleInv'
<1>1. /\ docs' = docs /\ job \in Job /\ Shapes /\ job.kind \in Payments /\ job.kind \in Kinds
      /\ links' = [links EXCEPT ![job.kind] = @ \cup {job.doc}] /\ links[job.kind] = {}
      /\ job' = [job EXCEPT !.pc = "submitPay"]
    BY KindsAre DEF LinkPayment, At, Known, Goto, NoCall, Inv, Shapes, InHand, SaleInv, OnGround
<1>2. links'[job.kind] = {job.doc} /\ \A y \in Kinds : y # job.kind => links'[y] = links[y]
    BY <1>1 DEF Shapes
<1>3. EntriesApart'
    BY <1>1, <1>2, KindsAre DEF SaleInv, EntriesApart, Stands
<1>4. job'.pc = "submitPay"
    BY <1>1 DEF Job
<1> QED
    BY <1>1, <1>3, <1>4, OffGround DEF SaleInv, Kept

LEMMA SubmitPaymentSells ==
    ASSUME Inv, SaleInv, NEW ans \in Answers, SubmitPayment(ans) PROVE Kept /\ SaleInv'
<1> DEFINE p == job.kind
<1>1. /\ UNCHANGED links /\ job \in Job /\ Shapes /\ p \in Payments /\ p \in Kinds
      /\ p \notin Sales /\ job.doc \in links[p] /\ job.doc \in DOMAIN docs[p]
      /\ (docs' = docs \/ docs' = Submitted(p, job.doc)) /\ Has("SI", "submitted")
    BY KindsAre DEF SubmitPayment, At, Inv, Shapes, InHand, Booking, Call
<1> HIDE DEF p
<1>2. Kept
    BY <1>1, SubmitsInOrder DEF SaleInv, Sales
<1>3. EntriesApart'
    <2>1. CASE docs' = docs
        BY <1>1, <2>1, EntriesQuiet DEF SaleInv
    <2>2. CASE docs' # docs
        <3>1. docs' = With(p, job.doc, "submitted") /\ docs[p][job.doc] = "draft"
            BY <1>1, <2>2 DEF Submitted
        <3>2. /\ \A y \in Kinds : DOMAIN docs'[y] = DOMAIN docs[y]
              /\ docs'[p][job.doc] = "submitted"
              /\ \A y \in Kinds : \A m \in DOMAIN docs[y] :
                    (y # p \/ m # job.doc) => docs'[y][m] = docs[y][m]
            BY <1>1, <3>1, WithIs DEF Statuses
        <3>3. \A y \in Kinds : \A m : Stands(y, m)' <=> Stands(y, m)
            BY <3>1, <3>2 DEF Stands
        <3> QED
            BY <1>1, <3>2, <3>3, KindsAre DEF SaleInv, EntriesApart
    <2> QED
        BY <2>1, <2>2
<1>4. OnGround'
    <2>1. (\E st : Over(st)) \/ job' = [job EXCEPT !.pc = "pay", !.pays = @ \ {job.kind}]
        BY DEF SubmitPayment
    <2>2. CASE job' = [job EXCEPT !.pc = "pay", !.pays = @ \ {job.kind}]
        <3>1. job'.pc = "pay"
            BY <1>1, <2>2 DEF Job
        <3> QED
            BY <3>1, OffGround
    <2> QED
        BY <2>1, <2>2, SalesDoneGround
<1> QED
    BY <1>2, <1>3, <1>4 DEF SaleInv

LEMMA AllBookedSells == ASSUME Inv, SaleInv, AllBooked PROVE Kept /\ SaleInv'
<1>1. UNCHANGED <<docs, links>> /\ SalesDone
    BY DEF AllBooked, NoCall
<1> QED
    BY <1>1, EntriesQuiet, SalesDoneGround DEF SaleInv, Kept

LEMMA UnwindSells ==
    ASSUME ~LostLinks, Inv, SaleInv, NEW l \in job.todo, NEW ans \in Answers, Unwind(l, ans)
    PROVE  Kept /\ SaleInv'
<1> DEFINE x == l[1]
           n == l[2]
<1>1. /\ job.pc \in Stages /\ Stage = job.pc /\ x \in Kinds /\ n \in links[x] /\ n \in Nat
      /\ n \in DOMAIN docs[x] /\ job \in Job /\ Shapes /\ UNCHANGED links /\ l = <<x, n>>
    <2>1. job.pc \in Stages /\ Stage = job.pc /\ UNCHANGED links
        BY DEF Unwind, Stage, Stages
    <2>2. job.todo \in SUBSET (Kinds \X Nat)
        BY DEF Inv, Shapes, Job
    <2>3. x \in Kinds /\ n \in links[x] /\ n \in Nat /\ l = <<x, n>>
        BY <2>2 DEF Inv, InHand
    <2> QED
        BY <2>1, <2>3 DEF Inv, Shapes
<1>2. docs' = docs \/ docs' = Unwound(x, n)
    BY DEF Unwind, Call
<1>3. ans = "ok" => docs' = Unwound(x, n)
    BY DEF Unwind, Call
<1> HIDE DEF x, n
<1>4. /\ \A y \in Kinds : DOMAIN docs'[y] = DOMAIN docs[y]
      /\ \A y \in Kinds : \A m \in DOMAIN docs[y] :
            \/ docs'[y][m] = docs[y][m]
            \/ /\ y = x /\ m = n
               /\ \/ docs[x][n] = "draft" /\ docs'[x][n] = "deleted"
                  \/ docs[x][n] = "submitted" /\ docs'[x][n] = "cancelled"
      /\ ans = "ok" => docs'[x][n] \in {"deleted", "cancelled"}
    BY <1>1, <1>2, <1>3, UnwoundIs
<1>5. EntriesApart'
    <2> SUFFICES ASSUME NEW p \in Payments
                 PROVE  /\ \A m, k \in DOMAIN docs'[p] : Stands(p, m)' /\ Stands(p, k)' => m = k
                        /\ \A m, k \in links'[p] : m = k
                        /\ \A m \in DOMAIN docs'[p] :
                              docs'[p][m] = "cancelled" => m \in links'[p]
        BY DEF EntriesApart
    <2>1. p \in Kinds
        BY KindsAre
    <2>2. \A m : Stands(p, m)' => Stands(p, m)
        BY <1>4, <2>1 DEF Stands
    <2>3. \A m \in DOMAIN docs'[p] :
             docs'[p][m] = "cancelled" => docs[p][m] = "cancelled" \/ m \in links[p]
        BY <1>1, <1>4, <2>1
    <2> QED
        BY <1>1, <1>4, <2>1, <2>2, <2>3 DEF SaleInv, EntriesApart
<1>6. /\ Stage' = Stage /\ job'.pc \in Stages \cup {"unlink"} /\ job'.todo = job.todo \ {l}
      /\ job.err => job'.err
      /\ ans # "ok" => job'.err
    <2>1. CASE ans = "ok" /\ docs[x][n] = "draft"
        <3>1. job' = [job EXCEPT !.todo = @ \ {l}, !.pc = "unlink", !.next = job.pc,
                                 !.kind = x, !.doc = n]
            BY <2>1 DEF Unwind, x, n
        <3>2. /\ job'.pc = "unlink" /\ job'.next = job.pc
              /\ job'.todo = job.todo \ {l} /\ job'.err = job.err
            BY <1>1, <3>1, UnwindJobs
        <3> QED
            BY <1>1, <2>1, <3>2 DEF Stage, Stages
    <2>2. CASE ~(ans = "ok" /\ docs[x][n] = "draft")
        <3> DEFINE err == job.err \/ ans # "ok"
        <3>1. job' = [job EXCEPT !.todo = @ \ {l}, !.err = err]
            BY <1>1, <2>2 DEF Unwind, x, n, Job
        <3>2. err \in BOOLEAN /\ job.err \in BOOLEAN
            BY <1>1 DEF Job
        <3>3. (job.err => err) /\ (ans # "ok" => err)
            BY <3>2
        <3> HIDE DEF err
        <3>4. job'.pc = job.pc /\ job'.todo = job.todo \ {l} /\ job'.err = err
            BY <1>1, <3>1, <3>2, UnwindJobs
        <3> QED
            BY <1>1, <3>3, <3>4 DEF Stage, Stages
    <2> QED
        BY <2>1, <2>2
<1>7. \A m : m \in Live("SI")' => m \in Live("SI") /\ (ans = "ok" => <<"SI", m>> # l)
    <2>1. "SI" \in Kinds
        BY KindsAre
    <2> QED
        BY <1>1, <1>4, <2>1 DEF Live
<1>8. OnGround'
    <2>1. job'.pc \notin {"si", "linkPay"}
        BY <1>6 DEF Stages
    <2>2. Stage = "undoSI" => job'.err \/ \A m \in Live("SI")' : <<"SI", m>> \in job'.todo
        BY <1>6, <1>7 DEF SaleInv, OnGround
    <2>3. Stage = "undoSO" => Live("SI")' = {}
        BY <1>7 DEF SaleInv, OnGround
    <2> QED
        BY <1>6, <2>1, <2>2, <2>3 DEF OnGround
<1> QED
    BY <1>5, <1>8, UnwindsInOrder DEF SaleInv

LEMMA UnlinkSells == ASSUME Inv, SaleInv, Unlink PROVE Kept /\ SaleInv'
<1>1. /\ docs' = docs /\ job \in Job /\ Shapes /\ job.kind \in Kinds /\ job.pc = "unlink"
      /\ docs[job.kind][job.doc] = "deleted" /\ job' = [job EXCEPT !.pc = job.next]
      /\ links' = [links EXCEPT ![job.kind] = @ \ {job.doc}]
    BY DEF Unlink, At, Goto, NoCall, Inv, Shapes, InHand
<1>2. /\ links'[job.kind] = links[job.kind] \ {job.doc}
      /\ \A y \in Kinds : y # job.kind => links'[y] = links[y]
    BY <1>1 DEF Shapes
<1>3. EntriesApart'
    <2>1. \A p \in Payments : /\ p \in Kinds /\ links'[p] \subseteq links[p]
                              /\ \A m \in links[p] : docs[p][m] = "cancelled" => m \in links'[p]
        BY <1>1, <1>2, KindsAre
    <2> QED
        BY <1>1, <2>1 DEF SaleInv, EntriesApart, Stands
<1>4. Stage' = Stage /\ job'.pc \in Stages /\ job'.todo = job.todo /\ job'.err = job.err
    BY <1>1 DEF Stage, Stages, Job
<1>5. OnGround'
    BY <1>1, <1>4 DEF SaleInv, OnGround, Live, Stages
<1> QED
    BY <1>1, <1>3, <1>5 DEF SaleInv, Kept

\* The invoice is on the list when its turn comes, and gone when the order's does.
LEMMA NextStageSells == ASSUME Inv, SaleInv, NextStage PROVE Kept /\ SaleInv'
<1>1. /\ job.pc \in Stages /\ Stage = job.pc /\ ~Loose /\ UNCHANGED <<docs, links>>
      /\ job \in Job /\ Shapes /\ job.todo = {}
    BY DEF NextStage, At, NoCall, Stages, Loose, Inv, Shapes, Stage
<1>2. CASE \E st : Over(st)
    BY <1>1, <1>2, EntriesQuiet, SalesDoneGround DEF SaleInv, Kept
<1>3. CASE ~\E st : Over(st)
    <2>1. ~job.err /\ NextKind(job.pc) # "done"
        BY <1>3 DEF NextStage, NoneRefused
    <2>2. PICK n \in LinkOf(NextKind(job.pc)) :
              job' = [job EXCEPT !.pc = IF job.pc = "undoPay" THEN "undoSI" ELSE "undoSO",
                                 !.todo = IF n = 0 THEN {} ELSE {<<NextKind(job.pc), n>>}]
        BY <1>3 DEF NextStage
    <2>3. CASE job.pc = "undoPay"
        <3>1. n \in LinkOf("SI") /\ job'.pc = "undoSI"
              /\ job'.todo = IF n = 0 THEN {} ELSE {<<"SI", n>>}
            BY <1>1, <2>2, <2>3 DEF NextKind, Job
        <3>2. \A m \in Live("SI") : m = n /\ n # 0
            <4> SUFFICES ASSUME NEW m \in Live("SI") PROVE m = n /\ n # 0
                OBVIOUS
            <4>1. Stands("SI", m) /\ m \in links["SI"]
                BY <1>1 DEF Live, Stands, Inv, Books, StandingIsLinked, Loose, LinkPc, Sales
            <4>2. n \in links["SI"] /\ n # 0
                BY <1>1, <3>1, <4>1, LinksAre, KindsAre
            <4>3. Stands("SI", n)
                BY <1>1, <4>2 DEF Inv, Books, LinkedStands, Loose, Sales
            <4> QED
                BY <4>1, <4>2, <4>3 DEF Inv, Books, OneEach, Stands, Sales
        <3>3. \A m \in Live("SI")' : <<"SI", m>> \in job'.todo
            BY <1>1, <3>1, <3>2 DEF Live
        <3>4. OnGround'
            BY <3>1, <3>3 DEF OnGround, Stage
        <3> QED
            BY <1>1, <3>4, EntriesQuiet DEF SaleInv, Kept
    <2>4. CASE job.pc # "undoPay"
        <3>1. job.pc = "undoSI" /\ job'.pc = "undoSO"
            BY <1>1, <2>1, <2>2, <2>4 DEF NextKind, Job, Stages
        <3>2. Live("SI")' = {}
            BY <1>1, <2>1, <3>1 DEF SaleInv, OnGround, Live
        <3>3. OnGround'
            BY <3>1, <3>2 DEF OnGround, Stage
        <3> QED
            BY <1>1, <3>3, EntriesQuiet DEF SaleInv, Kept
    <2> QED
        BY <2>3, <2>4
<1> QED
    BY <1>2, <1>3

LEMMA OutsideSells ==
    ASSUME SaleInv, UNCHANGED <<docs, links>>, job' = job \/ job' = Idle PROVE Kept /\ SaleInv'
<1>1. OnGround'
    <2>1. CASE job' = job
        BY <2>1 DEF SaleInv, OnGround, Stage, Live
    <2>2. CASE job' = Idle
        BY <2>2, OffGround, UndoingIs
    <2> QED
        BY <2>1, <2>2
<1> QED
    BY <1>1, EntriesQuiet DEF SaleInv, Kept

LEMMA SellsInOrder ==
    ASSUME ~LostLinks, Inv, SaleInv, [Next]_vars PROVE Kept /\ SaleInv'
<1>1. CASE Cancel \/ \E p \in Payments : Capture(p) \/ Refund(p)
    BY <1>1, OutsideSells DEF Cancel, Capture, Refund, Emit
<1>2. CASE \E k \in Events : Deliver(k) \/ Retry(k)
    BY <1>2, OutsideSells DEF Deliver, Retry
<1>3. CASE \E g \in gates : Enter(g)
    BY <1>3, OutsideSells DEF Enter
<1>4. CASE Crash
    BY <1>4, OutsideSells DEF Crash
<1>5. CASE UNCHANGED vars
    BY <1>5, OutsideSells DEF vars
<1>6. CASE Start \/ LinkSO \/ LinkSI \/ LinkPayment \/ AllBooked \/ Unlink \/ NextStage
    BY <1>6, StartSells, LinkSOSells, LinkSISells, LinkPaymentSells, AllBookedSells,
       UnlinkSells, NextStageSells
<1>7. ASSUME NEW ans \in Answers, WriteSO(ans) \/ SubmitSO(ans) PROVE Kept /\ SaleInv'
    BY <1>7, WriteSOSells, SubmitSOSells
<1>8. ASSUME NEW ans \in Answers, WriteSI(ans) \/ SubmitSI(ans) PROVE Kept /\ SaleInv'
    BY <1>8, WriteSISells, SubmitSISells
<1>9. ASSUME NEW ans \in Answers, SubmitPayment(ans) PROVE Kept /\ SaleInv'
    BY <1>9, SubmitPaymentSells
<1>10. ASSUME NEW ans \in Answers, NEW p \in Payments, BookPayment(p, ans) PROVE Kept /\ SaleInv'
    BY <1>10, BookPaymentSells
<1>11. ASSUME NEW ans \in Answers, NEW l \in job.todo, Unwind(l, ans) PROVE Kept /\ SaleInv'
    BY <1>11, UnwindSells
<1> QED
    BY <1>1, <1>2, <1>3, <1>4, <1>5, <1>6, <1>7, <1>8, <1>9, <1>10, <1>11 DEF Next, JobStep

LEMMA SaleInit == Init => Sale!BooksInit /\ SaleInv
<1> SUFFICES ASSUME Init PROVE Sale!BooksInit /\ SaleInv
    OBVIOUS
<1>1. \A x \in Kinds : docs[x] = <<>> /\ links[x] = {} /\ DOMAIN docs[x] = {}
    BY DEF Init
<1>2. job.pc = "idle"
    BY UndoingIs DEF Init
<1>3. SaleInv
    BY <1>1, <1>2, KindsAre DEF SaleInv, EntriesApart, OnGround, Stage
<1>4. \A x \in Kinds : PaperOf(docs[x]) = "none"
    <2> SUFFICES ASSUME NEW x \in Kinds PROVE PaperOf(docs[x]) = "none"
        OBVIOUS
    <2>1. Standing(docs[x]) = {}
        BY <1>1 DEF Standing
    <2> QED
        BY <2>1, PaperIs
<1>5. Sale!BooksInit
    BY <1>4 DEF Sale!BooksInit, Sale!Papers, Kinds
<1> QED
    BY <1>3, <1>5

\* Whatever is refused, answered late, repeated or cut off: the papers of a sale are made
\* and submitted one on top of the other and taken back from the top, one of a kind at
\* a time, and none is made again once it was cancelled.
THEOREM BooksAreKept == ASSUME ~LostLinks PROVE Spec => KeepsBooks
<1>1. Init => Inv /\ Carried /\ SaleInv /\ Sale!BooksInit
    BY InvInit, SaleInit
<1>2. (Inv /\ Carried /\ SaleInv) /\ [Next]_vars
          => (Inv /\ Carried /\ SaleInv)' /\ [Sale!BooksNext]_([x \in Kinds |-> PaperOf(docs[x])])
    <2> SUFFICES ASSUME Inv, Carried, SaleInv, [Next]_vars
                 PROVE  /\ (Inv /\ Carried /\ SaleInv)'
                        /\ [Sale!BooksNext]_([x \in Kinds |-> PaperOf(docs[x])])
        OBVIOUS
    <2>1. Inv' /\ Carried'
        BY InvNext
    <2>2. Kept /\ SaleInv'
        BY SellsInOrder
    <2>3. UNCHANGED docs => UNCHANGED [x \in Kinds |-> PaperOf(docs[x])]
        BY DEF PaperOf, Standing
    <2> QED
        BY <2>1, <2>2, <2>3 DEF Kept
<1> QED
    BY <1>1, <1>2, PTL DEF Spec, KeepsBooks, Sale!BooksSpec
=============================================================================
