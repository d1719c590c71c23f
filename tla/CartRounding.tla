------------------------------- MODULE CartRounding -------------------------------
(***************************************************************************)
(* A cart charged what ERPNext will invoice: roundCart works out, with     *)
(* ERPNext's own arithmetic, what the order's document will come to, and   *)
(* keeps one credit line that makes the cart's total the rounded one.  The *)
(* calls (the storefront's, before the summary and before the payment, in  *)
(* more than one tab) overlap each other and the shopper's changes.        *)
(*                                                                         *)
(* Money is whole paise, a rate whole percents, a product of them a        *)
(* fraction rounded where the code rounds it.  What the store's own tax    *)
(* sum differs by is a figure of the cart (drift).  Carts that are never   *)
(* rounded (tax inclusive, without an address or tax lines, in another     *)
(* currency) are left out; the shipping account is configured, and the GST *)
(* rates of the cart are those of the Items (GstRates).                    *)
(***************************************************************************)
EXTENDS Integers, Sequences, FiniteSets, Folds

CONSTANTS
    Rounders,     \* roundCart calls that can be under way at once
    Carts,        \* what the cart can become: [lines, shipping, interState, drift]
    Gift,         \* another credit line of the cart's, a gift card
    Rules,        \* ERPNext's rounding rules: [on, method, fraction]
    MaxChanges    \* bound: changes of the cart, and restarts

\* A cart that is rounded has lines, and no promotion takes more off a line than it costs.
ASSUME CartsAreSales ==
    /\ Carts \in Seq([lines: Seq([price: Nat, qty: Nat \ {0}, off: Nat, gst: Nat]) \ {<<>>},
                       shipping: Nat, interState: BOOLEAN, drift: Int]) \ {<<>>}
    /\ \A k \in DOMAIN Carts : \A i \in DOMAIN Carts[k].lines :
          Carts[k].lines[i].off <= Carts[k].lines[i].price * Carts[k].lines[i].qty
    /\ Gift \in Nat
    /\ Rules \subseteq [on: BOOLEAN, method: {"bankers", "commercial"}, fraction: Nat]
    /\ MaxChanges \in Nat

VARIABLES
    cart,         \* the cart now: an index of Carts
    credits,      \* its erpnext-rounding credit lines: [id, amount]
    collection,   \* the amount of its payment collection, once there is one
    rule,         \* ERPNext's rounding rule
    rounder,      \* per call: where it is, and what it works with
    settled,      \* was the last word on this cart a call that took its turn?
    sale,         \* the order: paid, and the invoice ERPNext makes of it
    changes

cartVars == <<cart, credits, collection, rule, rounder, settled, sale, changes>>

None == -1
DefaultRule == [on |-> TRUE, method |-> "bankers", fraction |-> 0]
NoRounder == [pc |-> "off", ours |-> {}, want |-> 0, alone |-> FALSE]

Total(s) ==
    LET sum[i \in 0..Len(s)] == IF i = 0 THEN 0 ELSE sum[i - 1] + s[i]
    IN sum[Len(s)]
CreditSum(C) ==
    MapThenFoldSet(LAMBDA a, b : a + b, 0, LAMBDA c : c.amount, LAMBDA S : CHOOSE c \in S : TRUE, C)

-----------------------------------------------------------------------------
(* ERPNext's arithmetic, as the store does it: erpnext-arithmetic.ts *)

\* The whole number nearest to num/den, a half to the even one.
frappeRound(num, den) ==
    LET q == num \div den
        r == num % den
    IN IF 2 * r > den \/ (2 * r = den /\ q % 2 = 1) THEN q + 1 ELSE q

\* A half away from zero.
commercial(num, den) == (2 * num + den) \div (2 * den)

roundedTotal(grand, ru) ==
    IF ru.fraction > 0
    THEN LET over == grand % ru.fraction IN
         IF 2 * over > ru.fraction THEN grand + ru.fraction - over ELSE grand - over
    ELSE 100 * (IF ru.method = "commercial" THEN commercial(grand, 100) ELSE frappeRound(grand, 100))

\* A line's net unit rate: its promotions come off it by the unit.
salesLine(l) == [rate |-> l.price - frappeRound(l.off, l.qty), qty |-> l.qty, gst |-> l.gst]

Net(l) == l.rate * l.qty
NetTotal(ls) == Total([i \in DOMAIN ls |-> Net(ls[i])])

\* One GST row of n: every line with its share of the shipping, at its rate. Without a
\* net amount the last line carries the shipping.
GstRow(ls, shipping, n) ==
    LET net == NetTotal(ls) IN
    IF net = 0 THEN frappeRound(ls[Len(ls)].gst * shipping, 100 * n)
    ELSE frappeRound(Total([i \in DOMAIN ls |-> ls[i].gst * Net(ls[i])]) * (net + shipping),
                     100 * n * net)

\* CGST and SGST, or IGST.
GstRows(c) == IF c.interState THEN 1 ELSE 2

estimateSalesTotals(c) ==
    LET ls == [i \in DOMAIN c.lines |-> salesLine(c.lines[i])] IN
    NetTotal(ls) + c.shipping + GstRows(c) * GstRow(ls, c.shipping, GstRows(c))

\* More than this between the two totals and the cart goes unrounded.
MaxGap == 100

StoreTotal(c) == estimateSalesTotals(c) + c.drift

\* planCartRounding: the credit line's amount, 0 for none.
planCartRounding(c, ru) ==
    IF ~ru.on \/ c.drift \notin -MaxGap..MaxGap THEN 0
    ELSE StoreTotal(c) - roundedTotal(estimateSalesTotals(c), ru)

-----------------------------------------------------------------------------
(* The order's document, and what ERPNext makes of it *)

\* Fault: the GST rows stay on the net total when there is shipping.
supplyTaxesApart(shipping, n) ==
    (IF shipping > 0 THEN <<[type |-> "Actual", amount |-> shipping]>> ELSE <<>>)
    \o [i \in 1..n |-> [type |-> "On Net Total", amount |-> 0]]

\* The shipping as a row ahead of the GST rows, which then apply to what it leaves.
supplyTaxes(shipping, n) ==
    IF shipping = 0 THEN [i \in 1..n |-> [type |-> "On Net Total", amount |-> 0]]
    ELSE <<[type |-> "Actual", amount |-> shipping]>>
         \o [i \in 1..n |-> [type |-> "On Previous Row Total", amount |-> 0]]

\* A row of a sales document: an amount, or the lines' rates on their net amounts, with
\* their shares of the first row when it says so.
RowAmount(ls, rows, i) ==
    CASE rows[i].type = "Actual" -> rows[i].amount
      [] rows[i].type = "On Net Total" -> GstRow(ls, 0, Cardinality({j \in DOMAIN rows : rows[j].type # "Actual"}))
      [] OTHER -> GstRow(ls, rows[1].amount, Len(rows) - 1)

Invoiced(c, ru) ==
    LET ls == [i \in DOMAIN c.lines |-> salesLine(c.lines[i])]
        rows == supplyTaxes(c.shipping, GstRows(c))
        grand == NetTotal(ls) + Total([i \in DOMAIN rows |-> RowAmount(ls, rows, i)])
    IN IF ru.on THEN roundedTotal(grand, ru) ELSE grand

-----------------------------------------------------------------------------
(* The cart *)

Now == Carts[cart]
CartTotal(C) == StoreTotal(Now) - Gift - CreditSum(C)

InStep == collection \in {None, CartTotal(credits)}

CartTypes ==
    /\ cart \in DOMAIN Carts
    /\ credits \subseteq [id: Nat, amount: Int]
    /\ collection \in Int /\ rule \in Rules
    /\ rounder \in [Rounders -> [pc: {"off", "plan", "drop", "make", "refresh"},
                                 ours: SUBSET [id: Nat, amount: Int],
                                 want: Int, alone: BOOLEAN]]
    /\ settled \in BOOLEAN
    /\ sale.paid \in Int /\ sale.invoice \in Int
    /\ changes \in 0..MaxChanges

CartInit ==
    /\ cart = 1
    /\ credits = {} /\ collection = None
    /\ rule \in Rules
    /\ rounder = [r \in Rounders |-> NoRounder]
    /\ settled = FALSE
    /\ sale = [paid |-> None, invoice |-> None]
    /\ changes = 0

Change == changes < MaxChanges /\ changes' = changes + 1
Disturb == [r \in Rounders |-> [rounder[r] EXCEPT !.alone = FALSE]]
Open == sale.paid = None

\* The shopper changes the cart; Medusa keeps the payment collection at its total.
ShopperEdits(c) ==
    /\ Open /\ Change
    /\ c # cart /\ cart' = c
    /\ collection' = IF collection = None THEN None
                     ELSE StoreTotal(Carts[c]) - Gift - CreditSum(credits)
    /\ rounder' = Disturb /\ settled' = FALSE
    /\ UNCHANGED <<credits, rule, sale>>

\* The storefront asks for a payment of the cart's total.
Collect ==
    /\ Open /\ collection = None
    /\ collection' = CartTotal(credits)
    /\ rounder' = Disturb
    /\ UNCHANGED <<cart, credits, rule, settled, sale, changes>>

-----------------------------------------------------------------------------
(* roundCart *)

\* Reads the cart; the line it already has, the rule and the figure come after.
StartRound(r) ==
    /\ Open /\ rounder[r].pc = "off"
    /\ rounder' = [v \in Rounders |->
                     IF v # r THEN rounder[v]
                     ELSE [pc |-> "plan", ours |-> credits, want |-> cart,
                           alone |-> \A u \in Rounders : rounder[u].pc = "off"]]
    /\ UNCHANGED <<cart, credits, collection, rule, settled, sale, changes>>

\* The rule: as ERPNext answers, or an older answer, or the default of a site that never
\* answered (these two are told apart by nothing here).  A line that is right already is left alone.
PlanRound(r, ru) ==
    LET me == rounder[r]
        want == planCartRounding(Carts[me.want], ru)
        right == Cardinality(me.ours) = (IF want = 0 THEN 0 ELSE 1)
                 /\ CreditSum(me.ours) = want
    IN
    /\ me.pc = "plan"
    /\ IF right
       THEN /\ rounder' = [rounder EXCEPT ![r] = NoRounder]
            /\ settled' = (me.alone /\ ru = rule /\ InStep)
       ELSE /\ rounder' = [rounder EXCEPT ![r].pc = "drop", ![r].want = want,
                                          ![r].alone = me.alone /\ ru = rule]
            /\ UNCHANGED settled
    /\ UNCHANGED <<cart, credits, collection, rule, sale, changes>>

\* Another call's write: whoever is under way has read an older cart.
Alone(r) == [v \in Rounders |-> [rounder[v] EXCEPT !.alone = v = r /\ rounder[r].alone]]

\* Fault: a line that is there already is kept.
KeepOurs(r) == credits

\* The lines the call found are deleted.
DropOurs(r) == credits \ rounder[r].ours

DropLines(r) ==
    /\ rounder[r].pc = "drop"
    /\ credits' = DropOurs(r)
    /\ rounder' = [Alone(r) EXCEPT ![r].pc = "make", ![r].ours = {}]
    /\ settled' = FALSE
    /\ UNCHANGED <<cart, collection, rule, sale, changes>>

NewId == CHOOSE i \in 1..(Cardinality(credits) + 1) : \A c \in credits : c.id # i

MakeLine(r) ==
    /\ rounder[r].pc = "make"
    /\ credits' = IF rounder[r].want = 0 THEN credits
                  ELSE credits \cup {[id |-> NewId, amount |-> rounder[r].want]}
    /\ rounder' = [Alone(r) EXCEPT ![r].pc = "refresh"]
    /\ settled' = FALSE
    /\ UNCHANGED <<cart, collection, rule, sale, changes>>

\* An existing payment collection is brought to the new total.
RefreshCollection(r) ==
    /\ rounder[r].pc = "refresh"
    /\ collection' = IF collection = None THEN None ELSE CartTotal(credits)
    /\ rounder' = [Alone(r) EXCEPT ![r] = NoRounder]
    /\ settled' = rounder[r].alone
    /\ UNCHANGED <<cart, credits, rule, sale, changes>>

\* The process dies; between the last write of a line and the collection, it leaves the
\* collection behind.
TillCrash ==
    /\ Open /\ Change
    /\ rounder' = [r \in Rounders |-> NoRounder]
    /\ settled' = FALSE
    /\ UNCHANGED <<cart, credits, collection, rule, sale>>

\* The payment is taken, the cart becomes an order, and its document goes to ERPNext;
\* a call still under way has nothing left to round.
Pay ==
    /\ Open /\ collection # None
    /\ sale' = [paid |-> collection, invoice |-> Invoiced(Now, rule)]
    /\ rounder' = [r \in Rounders |-> NoRounder]
    /\ UNCHANGED <<cart, credits, collection, rule, settled, changes>>

-----------------------------------------------------------------------------
RoundStep(r) ==
    \/ StartRound(r) \/ DropLines(r) \/ MakeLine(r) \/ RefreshCollection(r)
    \/ \E ru \in {rule, DefaultRule} : PlanRound(r, ru)

CartNext ==
    \/ \E c \in DOMAIN Carts : ShopperEdits(c)
    \/ Collect \/ Pay \/ TillCrash
    \/ \E r \in Rounders : RoundStep(r)

CartSpec == CartInit /\ [][CartNext]_cartVars

-----------------------------------------------------------------------------
(* Properties *)

\* When the last word on the cart was a roundCart that took its turn and knew the rule,
\* what was paid, gift card included, is to the paisa what ERPNext invoices, whatever
\* lines overlapping calls and restarts had left; unless a restart had left the payment
\* collection behind, the store's total and ERPNext's differ by more than the gap, or
\* ERPNext does not round and they differ.
PaidIsInvoiced ==
    /\ ~Open /\ settled
    /\ Now.drift \in -MaxGap..MaxGap /\ (~rule.on => Now.drift = 0)
    => sale.paid + Gift = sale.invoice
=============================================================================
