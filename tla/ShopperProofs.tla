----------------------------- MODULE ShopperProofs -----------------------------
(*****************************************************************************)
(* What the shopper pays and what he is sent, proved of CartRounding for any *)
(* carts, rules, overlapping calls, changes and restarts: a cart rounded     *)
(* last by a call that took its turn is paid to the paisa as ERPNext         *)
(* invoices it.  And of Deliveries for any notes, orders, quantities,        *)
(* refusals and restarts: a note makes one fulfilment of an order at most,   *)
(* no order is fulfilled beyond what was ordered, and a cancelled note is    *)
(* never passed off as handled.                                              *)
(*****************************************************************************)
EXTENDS Deliveries, CartRounding, FiniteSetTheorems, SequenceTheorems, WellFoundedInduction, TLAPS

-----------------------------------------------------------------------------
(* Running sums *)

\* A set of numbers that is not empty has a least.
LEMMA LeastOne ==
    ASSUME NEW T \in SUBSET Nat, T # {}
    PROVE  \E x \in T : \A y \in T : x <= y
<1>1. \E x \in T : \A y \in T : ~(<<y, x>> \in OpToRel(<, Nat))
    BY NatLessThanWellFounded, WFMin
<1>2. PICK x \in T : \A y \in T : ~(<<y, x>> \in OpToRel(<, Nat))
    BY <1>1
<1>3. \A y \in T : ~(y < x)
    BY <1>2 DEF OpToRel
<1> QED
    BY <1>3

\* s[f] is what the first f of q add up to.
Runs(s, n, q) == s = [f \in 0..n |-> IF f = 0 THEN 0 ELSE s[f - 1] + q[f]]

LEMMA RunsStep ==
    ASSUME NEW n \in Nat, NEW q, NEW s, Runs(s, n, q)
    PROVE  /\ s[0] = 0
           /\ \A f \in 1..n : s[f] = s[f - 1] + q[f]
           /\ DOMAIN s = 0..n
<1>1. s = [f \in 0..n |-> IF f = 0 THEN 0 ELSE s[f - 1] + q[f]]
    BY DEF Runs
<1>2. DOMAIN s = 0..n
    BY <1>1
<1>3. \A f \in 0..n : s[f] = IF f = 0 THEN 0 ELSE s[f - 1] + q[f]
    BY <1>1
<1> QED
    BY <1>2, <1>3

LEMMA RunsAgree ==
    ASSUME NEW n \in Nat, NEW m \in Nat, NEW q, NEW r, NEW s, NEW t, Runs(s, n, q), Runs(t, m, r),
           n <= m, \A f \in 1..n : q[f] = r[f]
    PROVE  \A f \in 0..n : s[f] = t[f]
<1> DEFINE T == {f \in 0..n : s[f] # t[f]}
<1> SUFFICES ASSUME T # {} PROVE FALSE
    OBVIOUS
<1>1. T \in SUBSET Nat
    OBVIOUS
<1>2. PICK f \in T : \A g \in T : f <= g
    BY <1>1, LeastOne
<1>3. f \in 0..n /\ s[f] # t[f] /\ f \in 0..m
    BY <1>2
<1>4. CASE f = 0
    BY <1>3, <1>4, RunsStep
<1>5. CASE f # 0
    <2>1. f - 1 \in 0..n /\ f - 1 \notin T /\ f \in 1..n /\ f \in 1..m
        BY <1>2, <1>3, <1>5
    <2>2. s[f - 1] = t[f - 1]
        BY <2>1
    <2>3. s[f] = s[f - 1] + q[f] /\ t[f] = t[f - 1] + r[f]
        BY <2>1, RunsStep
    <2> QED
        BY <1>3, <2>1, <2>2, <2>3
<1> QED
    BY <1>4, <1>5

LEMMA RunsGoOn ==
    ASSUME NEW n \in Nat, NEW q, NEW r, NEW s, NEW t, Runs(s, n, q), Runs(t, n + 1, r),
           \A f \in 1..n : q[f] = r[f]
    PROVE  t[n + 1] = s[n] + r[n + 1]
<1>1. n + 1 \in Nat /\ n <= n + 1 /\ n \in 0..n /\ n + 1 \in 1..(n + 1) /\ (n + 1) - 1 = n
    OBVIOUS
<1>2. s[n] = t[n]
    BY <1>1, RunsAgree
<1>3. \A f \in 1..(n + 1) : t[f] = t[f - 1] + r[f]
    BY <1>1, RunsStep
<1> QED
    BY <1>1, <1>2, <1>3

LEMMA RunsExist ==
    ASSUME NEW n \in Nat, NEW q, \A f \in 1..n : q[f] \in Int
    PROVE  \E s \in [0..n -> Int] : Runs(s, n, q)
<1> DEFINE P(k) == \E s \in [0..k -> Int] : Runs(s, k, q)
           T == {k \in 0..n : ~P(k)}
<1> SUFFICES ASSUME T # {} PROVE FALSE
    OBVIOUS
<1>1. T \in SUBSET Nat
    OBVIOUS
<1>2. PICK k \in T : \A j \in T : k <= j
    BY <1>1, LeastOne
<1>3. k \in 0..n /\ ~P(k)
    BY <1>2
<1> HIDE DEF T
<1>4. CASE k = 0
    <2> DEFINE s == [f \in 0..0 |-> 0]
    <2>1. s \in [0..0 -> Int] /\ s[0] = 0
        OBVIOUS
    <2>2. s = [f \in 0..0 |-> IF f = 0 THEN 0 ELSE s[f - 1] + q[f]]
        OBVIOUS
    <2> QED
        BY <1>3, <1>4, <2>1, <2>2 DEF Runs
<1>5. CASE k # 0
    <2>1. k - 1 \in 0..n /\ k - 1 \notin T /\ k \in 1..n /\ k \in Nat
        BY <1>2, <1>3, <1>5
    <2>2. P(k - 1)
        BY <2>1 DEF T
    <2> DEFINE l == k - 1
    <2>3. PICK s \in [0..l -> Int] : Runs(s, l, q)
        BY <2>2
    <2>4. l \in Nat /\ k = l + 1
        BY <2>1
    <2> HIDE DEF l
    <2> DEFINE t == [f \in 0..k |-> IF f = k THEN s[l] + q[k] ELSE s[f]]
    <2>5. /\ s[0] = 0 /\ \A f \in 1..l : s[f] = s[f - 1] + q[f]
          /\ \A f \in 0..l : s[f] \in Int
        BY <2>3, <2>4, RunsStep
    <2>6. t \in [0..k -> Int]
        <3> SUFFICES ASSUME NEW f \in 0..k PROVE (IF f = k THEN s[l] + q[k] ELSE s[f]) \in Int
            OBVIOUS
        <3>1. q[k] \in Int /\ s[l] \in Int
            BY <2>1, <2>4, <2>5
        <3>2. f # k => f \in 0..l
            BY <2>4
        <3> QED
            BY <2>5, <3>1, <3>2
    <2>7. \A f \in 0..k : t[f] = IF f = 0 THEN 0 ELSE t[f - 1] + q[f]
        <3> SUFFICES ASSUME NEW f \in 0..k
                     PROVE  t[f] = IF f = 0 THEN 0 ELSE t[f - 1] + q[f]
            OBVIOUS
        <3>1. CASE f = 0
            BY <2>4, <2>5, <3>1
        <3>2. CASE f = k
            <4>1. f - 1 = l /\ f # 0 /\ l \in 0..k /\ l # k
                BY <2>4, <3>2
            <4> QED
                BY <3>2, <4>1
        <3>3. CASE f # 0 /\ f # k
            <4>1. f \in 1..l /\ f - 1 \in 0..k /\ f - 1 # k
                BY <2>4, <3>3
            <4> QED
                BY <2>5, <3>3, <4>1
        <3> QED
            BY <3>1, <3>2, <3>3
    <2> HIDE DEF t
    <2>8. t = [f \in 0..k |-> IF f = 0 THEN 0 ELSE t[f - 1] + q[f]]
        BY <2>6, <2>7
    <2> QED
        BY <1>3, <2>6, <2>8 DEF Runs
<1> QED
    BY <1>4, <1>5

-----------------------------------------------------------------------------
(* A cart's arithmetic *)

LEMMA SequenceOf ==
    ASSUME NEW n \in Nat, NEW f, f \in [1..n -> Int]
    PROVE  f \in Seq(Int) /\ Len(f) = n /\ DOMAIN f = 1..n
OBVIOUS

LEMMA TotalRuns ==
    ASSUME NEW q \in Seq(Int)
    PROVE  \E s \in [0..Len(q) -> Int] : Runs(s, Len(q), q) /\ Total(q) = s[Len(q)]
<1> DEFINE N == Len(q)
           Eq(s) == s = [i \in 0..N |-> IF i = 0 THEN 0 ELSE s[i - 1] + q[i]]
<1>1. N \in Nat /\ \A i \in 1..N : q[i] \in Int
    OBVIOUS
<1>2. PICK s \in [0..N -> Int] : Runs(s, N, q)
    BY <1>1, RunsExist
<1> DEFINE u == CHOOSE t : Eq(t)
<1>3. Total(q) = u[N]
    BY DEF Total
<1>4. Eq(u)
    BY <1>2 DEF Runs
<1>5. Runs(u, N, q)
    BY <1>4 DEF Runs
<1> HIDE DEF u
<1>6. u[N] = s[N]
    BY <1>1, <1>2, <1>5, RunsAgree
<1> QED
    BY <1>2, <1>3, <1>6

LEMMA TotalIsInt == ASSUME NEW q \in Seq(Int) PROVE Total(q) \in Int
<1>1. Len(q) \in Nat
    OBVIOUS
<1> QED
    BY <1>1, TotalRuns

LEMMA TotalIsNat == ASSUME NEW q \in Seq(Nat) PROVE Total(q) \in Nat
<1>1. q \in Seq(Int) /\ Len(q) \in Nat /\ \A i \in 1..Len(q) : q[i] \in Nat
    OBVIOUS
<1>2. PICK s \in [0..Len(q) -> Int] : Runs(s, Len(q), q) /\ Total(q) = s[Len(q)]
    BY <1>1, TotalRuns
<1> DEFINE T == {i \in 0..Len(q) : s[i] < 0}
<1>3. CASE T = {}
    BY <1>1, <1>2, <1>3
<1>4. CASE T # {}
    <2>1. T \in SUBSET Nat
        BY <1>1
    <2>2. PICK i \in T : \A j \in T : i <= j
        BY <1>4, <2>1, LeastOne
    <2>3. i # 0
        BY <1>1, <1>2, <2>2, RunsStep
    <2>4. i \in 1..Len(q) /\ i - 1 \in 0..Len(q) /\ i - 1 \notin T
        BY <1>1, <2>2, <2>3
    <2>5. s[i] = s[i - 1] + q[i] /\ s[i - 1] \in Int /\ q[i] \in Nat
        BY <1>1, <1>2, <2>4, RunsStep
    <2> QED
        BY <2>2, <2>4, <2>5
<1> QED
    BY <1>3, <1>4

LEMMA TotalOfFew ==
    ASSUME NEW q \in Seq(Int), Len(q) \in 1..3
    PROVE  /\ Len(q) = 1 => Total(q) = q[1]
           /\ Len(q) = 2 => Total(q) = q[1] + q[2]
           /\ Len(q) = 3 => Total(q) = q[1] + q[2] + q[3]
<1>1. PICK s \in [0..Len(q) -> Int] : Runs(s, Len(q), q) /\ Total(q) = s[Len(q)]
    BY TotalRuns
<1>2. s[0] = 0 /\ \A i \in 1..Len(q) : s[i] = s[i - 1] + q[i] /\ q[i] \in Int
    <2>1. Len(q) \in Nat /\ \A i \in 1..Len(q) : q[i] \in Int
        OBVIOUS
    <2> QED
        BY <1>1, <2>1, RunsStep
<1>3. s[1] = q[1]
    BY <1>2
<1>4. Len(q) >= 2 => s[2] = q[1] + q[2]
    BY <1>2, <1>3
<1>5. Len(q) = 3 => s[3] = q[1] + q[2] + q[3]
    BY <1>2, <1>4
<1> DEFINE n == Len(q)
<1>6. Total(q) = s[n] /\ n \in {1, 2, 3}
    BY <1>1
<1> HIDE DEF n
<1>7. /\ n = 1 => Total(q) = q[1]
      /\ n = 2 => Total(q) = q[1] + q[2]
      /\ n = 3 => Total(q) = q[1] + q[2] + q[3]
    <2>1. CASE n = 1
        BY <1>3, <1>6, <2>1
    <2>2. CASE n = 2
        BY <1>4, <1>6, <2>2 DEF n
    <2>3. CASE n = 3
        BY <1>5, <1>6, <2>3 DEF n
    <2> QED
        BY <1>6, <2>1, <2>2, <2>3
<1> QED
    BY <1>7 DEF n

LEMMA RoundIsInt ==
    ASSUME NEW num \in Int, NEW den \in Nat, den # 0 PROVE frappeRound(num, den) \in Int
BY DEF frappeRound

\* What a promotion takes off by the unit is no more than the price.
LEMMA RoundIsBelow ==
    ASSUME NEW price \in Nat, NEW qty \in Nat, qty # 0, NEW off \in Nat, off <= price * qty
    PROVE  frappeRound(off, qty) \in Int /\ frappeRound(off, qty) <= price
<1> DEFINE q == off \div qty
           r == off % qty
<1>1. q \in Int /\ r \in Int /\ 0 <= r /\ r < qty /\ off = qty * q + r
    OBVIOUS
<1> HIDE DEF q, r
<1>2. q <= price
    <2>1. SUFFICES ASSUME q >= price + 1 PROVE FALSE
        BY <1>1
    <2>2. qty * q >= qty * (price + 1)
        BY <1>1, <2>1
    <2>3. qty * (price + 1) = price * qty + qty
        OBVIOUS
    <2> QED
        BY <1>1, <2>2, <2>3
<1>3. q = price => r = 0
    BY <1>1
<1>4. frappeRound(off, qty) = q \/ (frappeRound(off, qty) = q + 1 /\ r # 0)
    <2>1. r = 0 => ~(2 * r > qty) /\ ~(2 * r = qty)
        OBVIOUS
    <2> QED
        BY <2>1 DEF frappeRound, q, r
<1> QED
    BY <1>1, <1>2, <1>3, <1>4

SalesLines == [rate: Nat, qty: Nat, gst: Nat]

LEMMA NetIsNat ==
    ASSUME NEW ls \in Seq(SalesLines)
    PROVE  /\ NetTotal(ls) \in Nat
           /\ \A i \in DOMAIN ls : ls[i].gst \in Nat /\ Net(ls[i]) \in Nat
<1>1. \A i \in DOMAIN ls : ls[i] \in SalesLines
    OBVIOUS
<1>2. \A i \in DOMAIN ls : ls[i].rate \in Nat /\ ls[i].qty \in Nat /\ ls[i].gst \in Nat
    BY <1>1 DEF SalesLines
<1>3. \A i \in DOMAIN ls : Net(ls[i]) \in Nat
    BY <1>2 DEF Net
<1> DEFINE f == [i \in DOMAIN ls |-> Net(ls[i])]
<1>4. f \in Seq(Nat)
    <2>1. Len(ls) \in Nat /\ DOMAIN ls = 1..Len(ls)
        OBVIOUS
    <2>2. f \in [1..Len(ls) -> Nat]
        BY <1>3, <2>1
    <2> QED
        BY <2>1, <2>2
<1> QED
    BY <1>2, <1>3, <1>4, TotalIsNat DEF NetTotal

LEMMA GstIsInt ==
    ASSUME NEW ls \in Seq(SalesLines), ls # <<>>, NEW shipping \in Nat, NEW n \in {1, 2}
    PROVE  GstRow(ls, shipping, n) \in Int
<1> DEFINE net == NetTotal(ls)
           taxed == [i \in DOMAIN ls |-> ls[i].gst * Net(ls[i])]
<1>1. Len(ls) \in Nat /\ DOMAIN ls = 1..Len(ls) /\ Len(ls) \in DOMAIN ls
    OBVIOUS
<1>2. net \in Nat /\ \A i \in DOMAIN ls : ls[i].gst \in Nat /\ Net(ls[i]) \in Nat
    BY NetIsNat
<1>3. taxed \in Seq(Int)
    <2>1. taxed \in [1..Len(ls) -> Int]
        BY <1>1, <1>2
    <2> QED
        BY <1>1, <2>1
<1>4. Total(taxed) \in Int
    BY <1>3, TotalIsInt
<1> HIDE DEF net, taxed
<1>5. CASE net = 0
    <2>1. ls[Len(ls)].gst * shipping \in Int /\ 100 * n \in Nat /\ 100 * n # 0
        BY <1>1, <1>2
    <2> QED
        BY <1>5, <2>1, RoundIsInt DEF GstRow, net
<1>6. CASE net # 0
    <2>1. Total(taxed) * (net + shipping) \in Int /\ 100 * n * net \in Nat /\ 100 * n * net # 0
        BY <1>2, <1>4, <1>6
    <2>2. frappeRound(Total(taxed) * (net + shipping), 100 * n * net) \in Int
        BY <2>1, RoundIsInt
    <2> QED
        BY <1>6, <2>2 DEF GstRow, net, taxed
<1> QED
    BY <1>5, <1>6

-----------------------------------------------------------------------------
(* What ERPNext invoices is what the store works out *)

CartLines == [price: Nat, qty: Nat \ {0}, off: Nat, gst: Nat]
CartsThere == [lines: Seq(CartLines) \ {<<>>}, shipping: Nat, interState: BOOLEAN, drift: Int]
RoundingRules == [on: BOOLEAN, method: {"bankers", "commercial"}, fraction: Nat]

\* The lines of a cart's document.
LinesOf(c) == [i \in DOMAIN c.lines |-> salesLine(c.lines[i])]

LEMMA CartsAreThere ==
    ASSUME NEW k \in DOMAIN Carts
    PROVE  /\ Carts[k] \in CartsThere
           /\ LinesOf(Carts[k]) \in Seq(SalesLines) /\ LinesOf(Carts[k]) # <<>>
<1> DEFINE c == Carts[k]
<1>1. c \in CartsThere
    <2>1. Carts \in Seq(CartsThere)
        BY CartsAreSales DEF CartsThere, CartLines
    <2> QED
        BY <2>1
<1>2. /\ c.lines \in Seq(CartLines) /\ c.lines # <<>>
      /\ \A i \in DOMAIN c.lines : c.lines[i].off <= c.lines[i].price * c.lines[i].qty
    BY <1>1, CartsAreSales DEF CartsThere
<1> HIDE DEF c
<1>3. \A i \in DOMAIN c.lines : salesLine(c.lines[i]) \in SalesLines
    <2> SUFFICES ASSUME NEW i \in DOMAIN c.lines PROVE salesLine(c.lines[i]) \in SalesLines
        OBVIOUS
    <2>1. c.lines[i] \in CartLines
        BY <1>2
    <2> DEFINE l == c.lines[i]
    <2>2. /\ l.price \in Nat /\ l.qty \in Nat /\ l.qty # 0 /\ l.off \in Nat /\ l.gst \in Nat
          /\ l.off <= l.price * l.qty
        BY <1>2, <2>1 DEF CartLines
    <2> HIDE DEF l
    <2>3. frappeRound(l.off, l.qty) \in Int /\ frappeRound(l.off, l.qty) <= l.price
        BY <2>2, RoundIsBelow
    <2>4. l.price - frappeRound(l.off, l.qty) \in Nat
        BY <2>2, <2>3
    <2> QED
        BY <2>2, <2>4 DEF salesLine, SalesLines, l
<1>4. LinesOf(c) \in Seq(SalesLines) /\ LinesOf(c) # <<>>
    <2>1. Len(c.lines) \in Nat /\ DOMAIN c.lines = 1..Len(c.lines) /\ Len(c.lines) # 0
        BY <1>2
    <2>2. LinesOf(c) \in [1..Len(c.lines) -> SalesLines]
        BY <1>3, <2>1 DEF LinesOf
    <2>3. LinesOf(c) \in Seq(SalesLines) /\ Len(LinesOf(c)) = Len(c.lines)
        BY <2>1, <2>2
    <2> QED
        BY <2>1, <2>3
<1> QED
    BY <1>1, <1>4 DEF c

LEMMA RoundedIsInt ==
    ASSUME NEW grand \in Int, NEW ru \in RoundingRules PROVE roundedTotal(grand, ru) \in Int
<1>1. ru.fraction \in Nat
    BY DEF RoundingRules
<1>2. frappeRound(grand, 100) \in Int /\ commercial(grand, 100) \in Int
    BY RoundIsInt DEF commercial
<1>3. CASE ru.fraction > 0
    <2> DEFINE over == grand % ru.fraction
    <2>1. over \in Int
        BY <1>1, <1>3
    <2>2. roundedTotal(grand, ru) \in {grand + ru.fraction - over, grand - over}
        BY <1>3 DEF roundedTotal
    <2> HIDE DEF over
    <2> QED
        BY <1>1, <2>1, <2>2
<1>4. CASE ~(ru.fraction > 0)
    BY <1>2, <1>4 DEF roundedTotal
<1> QED
    BY <1>3, <1>4

\* The tax rows ERPNext computes come to the shipping and the GST the store adds up.
LEMMA RowsAddUp ==
    ASSUME NEW ls \in Seq(SalesLines), ls # <<>>, NEW shipping \in Nat, NEW n \in {1, 2}
    PROVE  LET rows == supplyTaxes(shipping, n)
           IN  Total([i \in DOMAIN rows |-> RowAmount(ls, rows, i)])
                  = shipping + n * GstRow(ls, shipping, n)
<1> DEFINE rows == supplyTaxes(shipping, n)
           f == [i \in DOMAIN rows |-> RowAmount(ls, rows, i)]
           gst == GstRow(ls, shipping, n)
<1>1. gst \in Int
    BY GstIsInt
<1>2. CASE shipping = 0
    <2>1. rows = [i \in 1..n |-> [type |-> "On Net Total", amount |-> 0]]
        BY <1>2 DEF supplyTaxes
    <2> DEFINE b == [type |-> "On Net Total", amount |-> 0]
    <2>2. DOMAIN rows = 1..n /\ \A i \in 1..n : rows[i].type = "On Net Total"
        <3>1. b.type = "On Net Total"
            OBVIOUS
        <3>2. rows = [i \in 1..n |-> b]
            BY <2>1
        <3> HIDE DEF rows, b
        <3> QED
            BY <3>1, <3>2
    <2> HIDE DEF rows
    <2>3. {j \in DOMAIN rows : rows[j].type # "Actual"} = 1..n
        BY <2>2
    <2>4. Cardinality(1..n) = n
        <3>1. IF 1 > n THEN Cardinality(1..n) = 0 ELSE Cardinality(1..n) = n - 1 + 1
            BY FS_Interval
        <3> QED
            BY <3>1
    <2>5. \A i \in 1..n : RowAmount(ls, rows, i) = gst
        BY <1>2, <2>2, <2>3, <2>4 DEF RowAmount
    <2>6. f \in [1..n -> Int] /\ \A i \in 1..n : f[i] = gst
        BY <1>1, <2>2, <2>5
    <2> HIDE DEF f
    <2>7. f \in Seq(Int) /\ Len(f) = n
        BY <2>6, SequenceOf
    <2>8. Total(f) = n * gst
        <3>1. CASE n = 1
            BY <1>1, <2>6, <2>7, <3>1, TotalOfFew
        <3>2. CASE n = 2
            BY <1>1, <2>6, <2>7, <3>2, TotalOfFew
        <3> QED
            BY <3>1, <3>2
    <2> QED
        BY <1>1, <1>2, <2>8 DEF f, rows
<1>3. CASE shipping # 0
    <2> DEFINE a == [type |-> "Actual", amount |-> shipping]
               b == [type |-> "On Previous Row Total", amount |-> 0]
               T == {a, b}
               tail == [i \in 1..n |-> b]
    <2>1. rows = <<a>> \o tail
        BY <1>3 DEF supplyTaxes
    <2>2. /\ a.type = "Actual" /\ a.amount = shipping
          /\ b.type # "Actual" /\ b.type # "On Net Total"
        OBVIOUS
    <2>3. tail \in Seq(T) /\ Len(tail) = n /\ \A i \in 1..n : tail[i] = b
        OBVIOUS
    <2>4. <<a>> \in Seq(T) /\ Len(<<a>>) = 1 /\ <<a>>[1] = a
        OBVIOUS
    <2> HIDE DEF rows, a, b, T, tail
    <2>5. /\ rows \in Seq(T) /\ Len(rows) = n + 1 /\ DOMAIN rows = 1..(n + 1)
          /\ rows[1] = a /\ \A i \in 2..(n + 1) : rows[i] = b
        <3> DEFINE head == <<a>>
        <3>1. head \in Seq(T) /\ Len(head) = 1 /\ head[1] = a /\ rows = head \o tail
            BY <2>1, <2>4
        <3> HIDE DEF head
        <3>2. /\ head \o tail \in Seq(T) /\ Len(head \o tail) = Len(head) + Len(tail)
              /\ \A i \in 1..(Len(head) + Len(tail)) :
                    (head \o tail)[i] = IF i <= Len(head) THEN head[i] ELSE tail[i - Len(head)]
            BY <2>3, <3>1, ConcatProperties
        <3>3. \A i \in 1..(n + 1) :
                  (head \o tail)[i] = IF i <= 1 THEN head[i] ELSE tail[i - 1]
            BY <2>3, <3>1, <3>2
        <3>4. \A i \in 2..(n + 1) : i - 1 \in 1..n /\ ~(i <= 1)
            OBVIOUS
        <3> QED
            BY <2>3, <3>1, <3>2, <3>3, <3>4
    <2>6. RowAmount(ls, rows, 1) = shipping
        BY <2>2, <2>5 DEF RowAmount
    <2>7. \A i \in 2..(n + 1) : RowAmount(ls, rows, i) = gst
        <3> SUFFICES ASSUME NEW i \in 2..(n + 1) PROVE RowAmount(ls, rows, i) = gst
            OBVIOUS
        <3>1. rows[i].type # "Actual" /\ rows[i].type # "On Net Total"
            BY <2>2, <2>5
        <3>2. rows[1].amount = shipping
            BY <2>2, <2>5
        <3>3. Len(rows) - 1 = n
            <4>1. (n + 1) - 1 = n
                OBVIOUS
            <4> QED
                BY <2>5, <4>1
        <3> QED
            BY <3>1, <3>2, <3>3 DEF RowAmount
    <2>8. /\ f \in [1..(n + 1) -> Int] /\ f[1] = shipping
          /\ \A i \in 2..(n + 1) : f[i] = gst
        <3>1. \A i \in 1..(n + 1) : i = 1 \/ i \in 2..(n + 1)
            OBVIOUS
        <3> QED
            BY <1>1, <2>5, <2>6, <2>7, <3>1
    <2> HIDE DEF f
    <2>9. f \in Seq(Int) /\ Len(f) = n + 1
        BY <2>8, SequenceOf
    <2>10. Total(f) = shipping + n * gst
        <3>1. CASE n = 1
            BY <1>1, <2>8, <2>9, <3>1, TotalOfFew
        <3>2. CASE n = 2
            BY <1>1, <2>8, <2>9, <3>2, TotalOfFew
        <3> QED
            BY <3>1, <3>2
    <2> QED
        BY <2>10 DEF f, rows
<1> QED
    BY <1>2, <1>3

LEMMA EstimateIsInvoiced ==
    ASSUME NEW k \in DOMAIN Carts, NEW ru \in RoundingRules
    PROVE  LET c == Carts[k]
               grand == estimateSalesTotals(c)
           IN  /\ grand \in Int /\ c.drift \in Int
               /\ Invoiced(c, ru) = IF ru.on THEN roundedTotal(grand, ru) ELSE grand
               /\ planCartRounding(c, ru) \in Int
<1> DEFINE c == Carts[k]
           ls == LinesOf(c)
           n == GstRows(c)
           rows == supplyTaxes(c.shipping, n)
           est == estimateSalesTotals(c)
           sum == Total([i \in DOMAIN rows |-> RowAmount(ls, rows, i)])
<1>1. ls \in Seq(SalesLines) /\ ls # <<>> /\ c.shipping \in Nat /\ n \in {1, 2} /\ c.drift \in Int
    <2>1. c \in CartsThere /\ ls \in Seq(SalesLines) /\ ls # <<>>
        BY CartsAreThere
    <2> QED
        BY <2>1 DEF CartsThere, GstRows
<1>2. GstRow(ls, c.shipping, n) \in Int /\ NetTotal(ls) \in Int
    BY <1>1, GstIsInt, NetIsNat
<1>3. est = NetTotal(ls) + c.shipping + n * GstRow(ls, c.shipping, n)
    BY DEF estimateSalesTotals, LinesOf
<1>4. sum = c.shipping + n * GstRow(ls, c.shipping, n)
    BY <1>1, RowsAddUp
<1>5. Invoiced(c, ru) = IF ru.on THEN roundedTotal(NetTotal(ls) + sum, ru) ELSE NetTotal(ls) + sum
    BY DEF Invoiced, LinesOf
<1> HIDE DEF est, sum, ls, n, c
<1>6. NetTotal(ls) + sum = est /\ est \in Int
    <2>1. n * GstRow(ls, c.shipping, n) \in Int
        BY <1>1, <1>2
    <2> QED
        BY <1>1, <1>2, <1>3, <1>4, <2>1
<1>7. roundedTotal(est, ru) \in Int
    BY <1>6, RoundedIsInt
<1>8. StoreTotal(c) = est + c.drift
    BY DEF StoreTotal, est
<1>9. planCartRounding(c, ru) \in Int
    BY <1>1, <1>6, <1>7, <1>8 DEF planCartRounding, est
<1> QED
    BY <1>1, <1>5, <1>6, <1>9 DEF est, c

-----------------------------------------------------------------------------
(* One credit line, or none *)

LEMMA NoCredit == CreditSum({}) = 0
<1> DEFINE body(it) == [S \in SUBSET {} |->
                           IF S = {} THEN 0
                           ELSE LET x == CHOOSE c \in S : TRUE IN x.amount + it[S \ {x}]]
           iter == CHOOSE it : it = body(it)
<1>1. CreditSum({}) = iter[{}]
    BY DEF CreditSum, MapThenFoldSet
<1>2. [S \in SUBSET {} |-> 0] = body([S \in SUBSET {} |-> 0])
    BY Zenon
<1>3. iter = body(iter)
    BY <1>2
<1> QED
    BY <1>1, <1>3

LEMMA OneCredit ==
    ASSUME NEW c, c.amount \in Int PROVE CreditSum({c}) = c.amount
<1> DEFINE D == {c}
           body(it) == [S \in SUBSET D |->
                           IF S = {} THEN 0
                           ELSE LET x == CHOOSE d \in S : TRUE IN x.amount + it[S \ {x}]]
           iter == CHOOSE it : it = body(it)
           it0 == [S \in SUBSET D |-> IF S = {} THEN 0 ELSE c.amount]
<1>1. CreditSum(D) = iter[D]
    BY DEF CreditSum, MapThenFoldSet
<1>2. \A S \in SUBSET D : S = {} \/ S = D
    OBVIOUS
<1>3. (CHOOSE d \in D : TRUE) = c /\ D \ {c} = {} /\ {} \in SUBSET D /\ D \in SUBSET D /\ D # {}
    OBVIOUS
<1> HIDE DEF D
<1>4. it0[{}] = 0 /\ it0[D] = c.amount
    BY <1>3
<1>5. it0 = body(it0)
    <2>1. body(it0)[{}] = 0
        BY <1>3
    <2>2. body(it0)[D] = c.amount + it0[D \ {c}]
        BY <1>3
    <2>3. body(it0)[D] = c.amount
        BY <1>3, <1>4, <2>2
    <2> QED
        BY <1>2, <1>3, <1>4, <2>1, <2>3
<1> HIDE DEF it0
<1>6. iter = body(iter)
    BY <1>5
<1> HIDE DEF iter
<1>7. iter[{}] = 0 /\ iter[D] = c.amount + iter[D \ {c}]
    BY <1>3, <1>6
<1>8. iter[D] = c.amount
    BY <1>3, <1>7
<1> QED
    BY <1>1, <1>8 DEF D, iter

-----------------------------------------------------------------------------
(* CartRounding: the inductive invariant *)

RoundStages == {"off", "plan", "drop", "make", "refresh"}
IsRounder(p) ==
    /\ p = [pc |-> p.pc, ours |-> p.ours, want |-> p.want, alone |-> p.alone]
    /\ p.pc \in RoundStages /\ p.alone \in BOOLEAN

\* What the rounding line of the cart should be.
Due == planCartRounding(Now, rule)

CartShapes ==
    /\ cart \in DOMAIN Carts /\ rule \in RoundingRules
    /\ rounder = [r \in Rounders |-> rounder[r]]
    /\ \A r \in Rounders : IsRounder(rounder[r])

\* What a call that takes its turn has read is still so, and what it has done is right.
AloneIsRight ==
    \A r \in Rounders : rounder[r].alone =>
        /\ rounder[r].pc = "plan" => rounder[r].ours = credits /\ rounder[r].want = cart
        /\ rounder[r].pc = "drop" => rounder[r].ours = credits /\ rounder[r].want = Due
        /\ rounder[r].pc = "make" => credits = {} /\ rounder[r].want = Due
        /\ rounder[r].pc = "refresh" => CreditSum(credits) = Due

SettledIsRight == Open /\ settled => CreditSum(credits) = Due /\ InStep
SoldIsOver == ~Open => \A r \in Rounders : rounder[r].pc = "off"

CartInv == CartShapes /\ AloneIsRight /\ SettledIsRight /\ SoldIsOver /\ PaidIsInvoiced

-----------------------------------------------------------------------------
(* A call's record *)

LEMMA RecordFields ==
    ASSUME NEW A, NEW B, NEW C, NEW D, NEW p \in [pc: A, ours: B, want: C, alone: D]
    PROVE  p = [pc |-> p.pc, ours |-> p.ours, want |-> p.want, alone |-> p.alone]
OBVIOUS
LEMMA RecordChanges ==
    ASSUME NEW A, NEW B, NEW C, NEW D, NEW p \in [pc: A, ours: B, want: C, alone: D],
           NEW E, NEW F, NEW G, NEW H, NEW x \in E, NEW y \in F, NEW z \in G, NEW b \in H
    PROVE  /\ LET q == [p EXCEPT !.pc = x, !.want = z, !.alone = b] IN
              /\ q \in [pc: E, ours: B, want: G, alone: H]
              /\ q.pc = x /\ q.ours = p.ours /\ q.want = z /\ q.alone = b
           /\ LET q == [p EXCEPT !.alone = b] IN
              /\ q \in [pc: A, ours: B, want: C, alone: H]
              /\ q.pc = p.pc /\ q.ours = p.ours /\ q.want = p.want /\ q.alone = b
           /\ LET q == [p EXCEPT !.pc = x, !.ours = y] IN
              /\ q \in [pc: E, ours: F, want: C, alone: D]
              /\ q.pc = x /\ q.ours = y /\ q.want = p.want /\ q.alone = p.alone
           /\ LET q == [p EXCEPT !.pc = x] IN
              /\ q \in [pc: E, ours: B, want: C, alone: D]
              /\ q.pc = x /\ q.ours = p.ours /\ q.want = p.want /\ q.alone = p.alone
OBVIOUS

\* Its record, as a member of a set of records.
LEMMA RounderIsRecord ==
    ASSUME NEW p, IsRounder(p)
    PROVE  p \in [pc: {p.pc}, ours: {p.ours}, want: {p.want}, alone: {p.alone}]
<1> DEFINE A == {p.pc}
           B == {p.ours}
           C == {p.want}
           D == {p.alone}
<1>1. p.pc \in A /\ p.ours \in B /\ p.want \in C /\ p.alone \in D
    OBVIOUS
<1> HIDE DEF A, B, C, D
<1>2. [pc |-> p.pc, ours |-> p.ours, want |-> p.want, alone |-> p.alone]
        \in [pc: A, ours: B, want: C, alone: D]
    BY <1>1
<1>3. p \in [pc: A, ours: B, want: C, alone: D]
    BY <1>2 DEF IsRounder
<1> QED
    BY <1>3 DEF A, B, C, D

LEMMA RounderPlans ==
    ASSUME NEW p, IsRounder(p), NEW x, NEW z, NEW b
    PROVE  [p EXCEPT !.pc = x, !.want = z, !.alone = b]
             = [pc |-> x, ours |-> p.ours, want |-> z, alone |-> b]
<1> DEFINE q == [p EXCEPT !.pc = x, !.want = z, !.alone = b]
           A == {p.pc}
           B == {p.ours}
           C == {p.want}
           D == {p.alone}
           E == {x}
           G == {z}
           H == {b}
<1>1. p \in [pc: A, ours: B, want: C, alone: D] /\ x \in E /\ z \in G /\ b \in H
    BY RounderIsRecord
<1> HIDE DEF A, B, C, D, E, G, H
<1>2. /\ q \in [pc: E, ours: B, want: G, alone: H]
      /\ q.pc = x /\ q.ours = p.ours /\ q.want = z /\ q.alone = b
    BY <1>1, RecordChanges
<1> HIDE DEF q
<1>3. q = [pc |-> x, ours |-> p.ours, want |-> z, alone |-> b]
    BY <1>2, RecordFields
<1> QED
    BY <1>3 DEF q

LEMMA RounderChanges ==
    ASSUME NEW p, IsRounder(p), NEW x, NEW y, NEW b
    PROVE  /\ [p EXCEPT !.alone = b]
                 = [pc |-> p.pc, ours |-> p.ours, want |-> p.want, alone |-> b]
           /\ [p EXCEPT !.pc = x, !.ours = y]
                 = [pc |-> x, ours |-> y, want |-> p.want, alone |-> p.alone]
           /\ [p EXCEPT !.pc = x]
                 = [pc |-> x, ours |-> p.ours, want |-> p.want, alone |-> p.alone]
<1> DEFINE A == {p.pc}
           B == {p.ours}
           C == {p.want}
           D == {p.alone}
           E == {x}
           F == {y}
           H == {b}
<1>1. x \in E /\ y \in F /\ b \in H
    OBVIOUS
<1>2. p \in [pc: A, ours: B, want: C, alone: D]
    BY RounderIsRecord
<1> HIDE DEF A, B, C, D, E, F, H
<1>3. [p EXCEPT !.alone = b] = [pc |-> p.pc, ours |-> p.ours, want |-> p.want, alone |-> b]
    <2> DEFINE q == [p EXCEPT !.alone = b]
    <2>1. /\ q \in [pc: A, ours: B, want: C, alone: H]
          /\ q.pc = p.pc /\ q.ours = p.ours /\ q.want = p.want /\ q.alone = b
        BY <1>1, <1>2, RecordChanges
    <2> HIDE DEF q
    <2>2. q = [pc |-> p.pc, ours |-> p.ours, want |-> p.want, alone |-> b]
        BY <2>1, RecordFields
    <2> QED
        BY <2>2 DEF q
<1>4. [p EXCEPT !.pc = x, !.ours = y]
        = [pc |-> x, ours |-> y, want |-> p.want, alone |-> p.alone]
    <2> DEFINE q == [p EXCEPT !.pc = x, !.ours = y]
    <2>1. /\ q \in [pc: E, ours: F, want: C, alone: D]
          /\ q.pc = x /\ q.ours = y /\ q.want = p.want /\ q.alone = p.alone
        BY <1>1, <1>2, RecordChanges
    <2> HIDE DEF q
    <2>2. q = [pc |-> x, ours |-> y, want |-> p.want, alone |-> p.alone]
        BY <2>1, RecordFields
    <2> QED
        BY <2>2 DEF q
<1>5. [p EXCEPT !.pc = x] = [pc |-> x, ours |-> p.ours, want |-> p.want, alone |-> p.alone]
    <2> DEFINE q == [p EXCEPT !.pc = x]
    <2>1. /\ q \in [pc: E, ours: B, want: C, alone: D]
          /\ q.pc = x /\ q.ours = p.ours /\ q.want = p.want /\ q.alone = p.alone
        BY <1>1, <1>2, RecordChanges
    <2> HIDE DEF q
    <2>2. q = [pc |-> x, ours |-> p.ours, want |-> p.want, alone |-> p.alone]
        BY <2>1, RecordFields
    <2> QED
        BY <2>2 DEF q
<1> QED
    BY <1>3, <1>4, <1>5

LEMMA RounderIs ==
    ASSUME NEW x \in RoundStages, NEW y, NEW z, NEW b \in BOOLEAN
    PROVE  LET q == [pc |-> x, ours |-> y, want |-> z, alone |-> b]
           IN  IsRounder(q) /\ q.pc = x /\ q.ours = y /\ q.want = z /\ q.alone = b
BY DEF IsRounder

LEMMA NoRounderIsOff == IsRounder(NoRounder) /\ NoRounder.pc = "off" /\ ~NoRounder.alone
BY DEF NoRounder, IsRounder, RoundStages

\* The others go on as they were, or with an older cart.
OthersGoOn(r) ==
    \A v \in Rounders : v # r =>
        /\ IsRounder(rounder'[v]) /\ rounder'[v].pc = rounder[v].pc /\ ~rounder'[v].alone

LEMMA AlonesAre ==
    ASSUME CartShapes, NEW r \in Rounders
    PROVE  /\ Alone(r) = [v \in Rounders |-> Alone(r)[v]]
           /\ Alone(r)[r] = rounder[r]
           /\ \A v \in Rounders : v # r =>
                 IsRounder(Alone(r)[v]) /\ Alone(r)[v].pc = rounder[v].pc /\ ~Alone(r)[v].alone
<1> DEFINE others(v) == [rounder[v] EXCEPT !.alone = v = r /\ rounder[r].alone]
<1>1. Alone(r) = [v \in Rounders |-> others(v)]
    BY DEF Alone
<1>2. others(r) = rounder[r]
    <2>1. IsRounder(rounder[r]) /\ (r = r /\ rounder[r].alone) = rounder[r].alone
        BY DEF CartShapes, IsRounder
    <2>2. others(r) = [rounder[r] EXCEPT !.alone = rounder[r].alone]
        BY <2>1
    <2>3. [rounder[r] EXCEPT !.alone = rounder[r].alone]
            = [pc |-> rounder[r].pc, ours |-> rounder[r].ours, want |-> rounder[r].want,
               alone |-> rounder[r].alone]
        BY <2>1, RounderChanges DEF IsRounder
    <2> QED
        BY <2>1, <2>2, <2>3 DEF IsRounder
<1>3. ASSUME NEW v \in Rounders, v # r
      PROVE  IsRounder(others(v)) /\ others(v).pc = rounder[v].pc /\ ~others(v).alone
    <2>1. IsRounder(rounder[v]) /\ (v = r /\ rounder[r].alone) = FALSE
        BY <1>3 DEF CartShapes
    <2>2. others(v) = [rounder[v] EXCEPT !.alone = FALSE]
        BY <2>1
    <2>3. others(v) = [pc |-> rounder[v].pc, ours |-> rounder[v].ours,
                       want |-> rounder[v].want, alone |-> FALSE]
        <3>1. "off" \in RoundStages
            BY DEF RoundStages
        <3> QED
            BY <2>1, <2>2, <3>1, RounderChanges
    <2> HIDE DEF others
    <2> QED
        BY <2>1, <2>3, RounderIs DEF IsRounder
<1> HIDE DEF others
<1> QED
    BY <1>1, <1>2, <1>3

-----------------------------------------------------------------------------
(* Steps *)

\* A call writes: it alone knows the cart as it is.
LEMMA WritesKeep ==
    ASSUME CartInv, NEW r \in Rounders, NEW q, UNCHANGED <<cart, rule, sale>>,
           rounder' = [v \in Rounders |-> rounder'[v]], rounder'[r] = q, IsRounder(q),
           OthersGoOn(r), rounder[r].pc # "off",
           q.alone =>
              /\ q.pc \in {"make", "refresh", "off"}
              /\ q.pc = "make" => credits' = {} /\ q.want = Due
              /\ q.pc = "refresh" => CreditSum(credits') = Due,
           settled' => CreditSum(credits') = Due /\ InStep'
    PROVE  CartInv'
<1>1. Due' = Due /\ Open' = Open
    BY DEF Due, Now, Open
<1>2. Open
    BY DEF CartInv, SoldIsOver
<1>3. CartShapes'
    BY DEF CartInv, CartShapes, OthersGoOn
<1>4. AloneIsRight'
    BY <1>1 DEF AloneIsRight, OthersGoOn
<1>5. SettledIsRight' /\ SoldIsOver' /\ PaidIsInvoiced'
    BY <1>1, <1>2 DEF SettledIsRight, SoldIsOver, PaidIsInvoiced
<1> QED
    BY <1>3, <1>4, <1>5 DEF CartInv

\* Nothing is written, and the call in hand goes on.
LEMMA ReadsKeep ==
    ASSUME CartInv, NEW r \in Rounders, NEW q, UNCHANGED <<cart, credits, collection, rule, sale>>,
           rounder' = [v \in Rounders |-> IF v = r THEN q ELSE rounder[v]], IsRounder(q), Open,
           q.alone =>
              /\ q.pc \in {"plan", "drop", "off"}
              /\ q.pc = "plan" => q.ours = credits /\ q.want = cart
              /\ q.pc = "drop" => q.ours = credits /\ q.want = Due,
           settled' => settled \/ (CreditSum(credits) = Due /\ InStep)
    PROVE  CartInv'
<1>1. Due' = Due /\ Open' = Open /\ InStep' = InStep
    BY DEF Due, Now, Open, InStep, CartTotal
<1>2. CartShapes'
    BY DEF CartInv, CartShapes
<1>3. AloneIsRight'
    BY <1>1 DEF CartInv, AloneIsRight
<1>4. SettledIsRight' /\ SoldIsOver' /\ PaidIsInvoiced'
    BY <1>1 DEF CartInv, SettledIsRight, SoldIsOver, PaidIsInvoiced
<1> QED
    BY <1>2, <1>3, <1>4 DEF CartInv

LEMMA StartRoundKeeps ==
    ASSUME CartInv, NEW r \in Rounders, StartRound(r) PROVE CartInv'
<1> DEFINE alone == \A u \in Rounders : rounder[u].pc = "off"
           q == [pc |-> "plan", ours |-> credits, want |-> cart, alone |-> alone]
<1>1. /\ Open /\ UNCHANGED <<cart, credits, collection, rule, settled, sale>>
      /\ rounder' = [v \in Rounders |-> IF v = r THEN q ELSE rounder[v]]
    BY DEF StartRound
<1>2. alone \in BOOLEAN /\ "plan" \in RoundStages
    BY DEF RoundStages
<1> HIDE DEF alone
<1>3. IsRounder(q) /\ q.pc = "plan" /\ q.ours = credits /\ q.want = cart
    BY <1>2, RounderIs
<1> HIDE DEF q
<1> QED
    BY <1>1, <1>3, ReadsKeep

LEMMA PlanRoundKeeps ==
    ASSUME CartInv, NEW r \in Rounders, NEW ru, PlanRound(r, ru) PROVE CartInv'
<1> DEFINE me == rounder[r]
           want == planCartRounding(Carts[me.want], ru)
           right == Cardinality(me.ours) = (IF want = 0 THEN 0 ELSE 1)
                    /\ CreditSum(me.ours) = want
           alone == me.alone /\ ru = rule
<1>1. /\ me.pc = "plan" /\ IsRounder(me) /\ rounder = [v \in Rounders |-> rounder[v]]
      /\ UNCHANGED <<cart, credits, collection, rule, sale>> /\ Open
    BY DEF PlanRound, CartInv, CartShapes, SoldIsOver
<1>2. me.alone => me.ours = credits /\ me.want = cart
    BY <1>1 DEF CartInv, AloneIsRight
<1>3. alone => want = Due
    BY <1>2 DEF Due, Now
<1>4. CASE right
    <2>1. rounder' = [rounder EXCEPT ![r] = NoRounder] /\ settled' = (alone /\ InStep)
        BY <1>4 DEF PlanRound
    <2>2. settled' => CreditSum(credits) = Due /\ InStep
        BY <1>2, <1>3, <1>4, <2>1
    <2>3. rounder' = [v \in Rounders |-> IF v = r THEN NoRounder ELSE rounder[v]]
        BY <1>1, <2>1
    <2> QED
        BY <1>1, <2>2, <2>3, NoRounderIsOff, ReadsKeep
<1>5. CASE ~right
    <2> DEFINE q == [me EXCEPT !.pc = "drop", !.want = want, !.alone = alone]
    <2>1. /\ rounder' = [rounder EXCEPT ![r].pc = "drop", ![r].want = want, ![r].alone = alone]
          /\ settled' = settled
        BY <1>5 DEF PlanRound
    <2>2. alone \in BOOLEAN /\ "drop" \in RoundStages
        BY <1>1 DEF IsRounder, RoundStages
    <2> HIDE DEF want, alone, right
    <2>3. q = [pc |-> "drop", ours |-> me.ours, want |-> want, alone |-> alone]
        <3> HIDE DEF me
        <3> QED
            BY <1>1, RounderPlans
    <2>4. rounder' = [v \in Rounders |-> IF v = r THEN q ELSE rounder[v]]
        BY <1>1, <2>1
    <2>5. IsRounder(q) /\ q.pc = "drop" /\ q.ours = me.ours /\ q.want = want /\ q.alone = alone
        BY <2>2, <2>3, RounderIs
    <2>6. alone => q.ours = credits /\ q.want = Due
        BY <1>2, <1>3, <2>5 DEF alone
    <2> HIDE DEF q
    <2> QED
        BY <1>1, <2>1, <2>4, <2>5, <2>6, ReadsKeep
<1> QED
    BY <1>4, <1>5

\* A call's write, and its record after it.
LEMMA OwnWriteKeeps ==
    ASSUME CartInv, NEW r \in Rounders, NEW q, rounder' = [Alone(r) EXCEPT ![r] = q]
    PROVE  /\ rounder' = [v \in Rounders |-> rounder'[v]] /\ rounder'[r] = q
           /\ OthersGoOn(r)
<1>1. CartShapes
    BY DEF CartInv
<1> DEFINE a == Alone(r)
<1>2. /\ a = [v \in Rounders |-> a[v]]
      /\ \A v \in Rounders : v # r =>
            IsRounder(a[v]) /\ a[v].pc = rounder[v].pc /\ ~a[v].alone
    BY <1>1, AlonesAre
<1>3. rounder' = [a EXCEPT ![r] = q]
    OBVIOUS
<1> HIDE DEF a
<1>4. rounder' = [v \in Rounders |-> IF v = r THEN q ELSE a[v]]
    BY <1>2, <1>3
<1>5. rounder'[r] = q /\ rounder' = [v \in Rounders |-> rounder'[v]]
    BY <1>4
<1>6. \A v \in Rounders : v # r => rounder'[v] = a[v]
    BY <1>4
<1>7. OthersGoOn(r)
    BY <1>2, <1>6 DEF OthersGoOn
<1> QED
    BY <1>5, <1>7

LEMMA DropLinesKeeps ==
    ASSUME CartInv, NEW r \in Rounders, DropLines(r) PROVE CartInv'
<1> DEFINE p == rounder[r]
           q == [p EXCEPT !.pc = "make", !.ours = {}]
<1>1. /\ p.pc = "drop" /\ credits' = credits \ p.ours /\ settled' = FALSE
      /\ UNCHANGED <<cart, rule, sale>> /\ IsRounder(p) /\ CartShapes
    BY DEF DropLines, DropOurs, CartInv, CartShapes
<1>2. rounder' = [Alone(r) EXCEPT ![r] = q]
    <2>1. rounder' = [Alone(r) EXCEPT ![r].pc = "make", ![r].ours = {}]
        BY DEF DropLines
    <2> QED
        BY <1>1, <2>1, AlonesAre
<1>3. q = [pc |-> "make", ours |-> {}, want |-> p.want, alone |-> p.alone]
    <2>1. "make" \in RoundStages
        BY DEF RoundStages
    <2> QED
        BY <1>1, <2>1, RounderChanges
<1>4. IsRounder(q) /\ q.pc = "make" /\ q.want = p.want /\ q.alone = p.alone
    BY <1>1, <1>3, RounderIs DEF IsRounder, RoundStages
<1>5. p.alone => credits' = {} /\ p.want = Due
    BY <1>1 DEF CartInv, AloneIsRight
<1> HIDE DEF q
<1> QED
    BY <1>1, <1>2, <1>4, <1>5, OwnWriteKeeps, WritesKeep

LEMMA MakeLineKeeps ==
    ASSUME CartInv, NEW r \in Rounders, MakeLine(r) PROVE CartInv'
<1> DEFINE p == rounder[r]
           q == [p EXCEPT !.pc = "refresh"]
           line == [id |-> NewId, amount |-> p.want]
<1>1. /\ p.pc = "make" /\ settled' = FALSE
      /\ credits' = IF p.want = 0 THEN credits ELSE credits \cup {line}
      /\ UNCHANGED <<cart, rule, sale>> /\ IsRounder(p) /\ CartShapes
    BY DEF MakeLine, CartInv, CartShapes
<1>2. rounder' = [Alone(r) EXCEPT ![r] = q]
    <2>1. rounder' = [Alone(r) EXCEPT ![r].pc = "refresh"]
        BY DEF MakeLine
    <2> QED
        BY <1>1, <2>1, AlonesAre
<1>3. q = [pc |-> "refresh", ours |-> p.ours, want |-> p.want, alone |-> p.alone]
    <2>1. "refresh" \in RoundStages
        BY DEF RoundStages
    <2> QED
        BY <1>1, <2>1, RounderChanges
<1>4. IsRounder(q) /\ q.pc = "refresh" /\ q.alone = p.alone
    BY <1>1, <1>3, RounderIs DEF IsRounder, RoundStages
<1>5. p.alone => CreditSum(credits') = Due
    <2> SUFFICES ASSUME p.alone PROVE CreditSum(credits') = Due
        OBVIOUS
    <2>1. credits = {} /\ p.want = Due
        BY <1>1 DEF CartInv, AloneIsRight
    <2>2. Due \in Int
        BY <1>1, EstimateIsInvoiced DEF CartShapes, Due, Now
    <2>3. CASE p.want = 0
        BY <1>1, <2>1, <2>3, NoCredit
    <2>4. CASE p.want # 0
        <3>1. credits' = {line} /\ line.amount = Due /\ line.amount \in Int
            BY <1>1, <2>1, <2>2, <2>4
        <3> HIDE DEF line
        <3> QED
            BY <3>1, OneCredit
    <2> QED
        BY <2>3, <2>4
<1> HIDE DEF q
<1> QED
    BY <1>1, <1>2, <1>4, <1>5, OwnWriteKeeps, WritesKeep

LEMMA RefreshCollectionKeeps ==
    ASSUME CartInv, NEW r \in Rounders, RefreshCollection(r) PROVE CartInv'
<1> DEFINE p == rounder[r]
<1>1. /\ p.pc = "refresh" /\ settled' = p.alone
      /\ collection' = IF collection = None THEN None ELSE CartTotal(credits)
      /\ UNCHANGED <<cart, credits, rule, sale>>
      /\ rounder' = [Alone(r) EXCEPT ![r] = NoRounder]
    BY DEF RefreshCollection
<1>2. InStep'
    BY <1>1 DEF InStep, CartTotal, Now
<1>3. p.alone => CreditSum(credits) = Due
    BY <1>1 DEF CartInv, AloneIsRight
<1>4. CreditSum(credits') = CreditSum(credits)
    BY <1>1
<1> QED
    BY <1>1, <1>2, <1>3, <1>4, NoRounderIsOff, OwnWriteKeeps, WritesKeep

\* Nobody is alone after it.
LEMMA DisturbKeeps ==
    ASSUME CartInv, Open, cart' \in DOMAIN Carts, UNCHANGED <<rule, sale>>,
           rounder' = [v \in Rounders |-> rounder'[v]],
           \A v \in Rounders : IsRounder(rounder'[v]) /\ ~rounder'[v].alone,
           settled' => CreditSum(credits') = Due' /\ InStep'
    PROVE  CartInv'
<1>1. Open'
    BY DEF Open
<1>2. CartShapes' /\ AloneIsRight' /\ SettledIsRight' /\ SoldIsOver' /\ PaidIsInvoiced'
    BY <1>1 DEF CartInv, CartShapes, AloneIsRight, SettledIsRight, SoldIsOver, PaidIsInvoiced
<1> QED
    BY <1>2 DEF CartInv

LEMMA DisturbedAre ==
    ASSUME CartInv, rounder' = Disturb
    PROVE  /\ rounder' = [v \in Rounders |-> rounder'[v]]
           /\ \A v \in Rounders : IsRounder(rounder'[v]) /\ ~rounder'[v].alone
<1>1. rounder' = [v \in Rounders |-> [rounder[v] EXCEPT !.alone = FALSE]]
    BY DEF Disturb
<1>2. ASSUME NEW v \in Rounders
      PROVE  IsRounder(rounder'[v]) /\ ~rounder'[v].alone
    <2>1. IsRounder(rounder[v]) /\ "off" \in RoundStages
        BY DEF CartInv, CartShapes, RoundStages
    <2>2. rounder'[v] = [pc |-> rounder[v].pc, ours |-> rounder[v].ours,
                         want |-> rounder[v].want, alone |-> FALSE]
        BY <1>1, <2>1, RounderChanges
    <2> QED
        BY <2>1, <2>2, RounderIs DEF IsRounder
<1> QED
    BY <1>1, <1>2

LEMMA EditsKeep ==
    ASSUME CartInv, NEW c \in DOMAIN Carts, ShopperEdits(c) PROVE CartInv'
BY DisturbedAre, DisturbKeeps DEF ShopperEdits

LEMMA CollectKeeps == ASSUME CartInv, Collect PROVE CartInv'
<1>1. /\ Open /\ UNCHANGED <<cart, credits, rule, settled, sale>> /\ rounder' = Disturb
      /\ collection' = CartTotal(credits)
    BY DEF Collect
<1>2. settled' => CreditSum(credits') = Due' /\ InStep'
    BY <1>1 DEF CartInv, SettledIsRight, Due, InStep, Now, CartTotal
<1>3. cart' \in DOMAIN Carts
    BY <1>1 DEF CartInv, CartShapes
<1> QED
    BY <1>1, <1>2, <1>3, DisturbedAre, DisturbKeeps

LEMMA TillCrashKeeps == ASSUME CartInv, TillCrash PROVE CartInv'
<1>1. /\ Open /\ UNCHANGED <<cart, rule, sale>> /\ settled' = FALSE
      /\ rounder' = [r \in Rounders |-> NoRounder]
    BY DEF TillCrash
<1>2. cart' \in DOMAIN Carts
    BY <1>1 DEF CartInv, CartShapes
<1> QED
    BY <1>1, <1>2, NoRounderIsOff, DisturbKeeps

\* Where the line is right, the collection comes to ERPNext's total, less the gift.
LEMMA RightIsInvoiced ==
    ASSUME CartShapes, CreditSum(credits) = Due,
           Now.drift \in -MaxGap..MaxGap, ~rule.on => Now.drift = 0
    PROVE  CartTotal(credits) + Gift = Invoiced(Now, rule)
<1> DEFINE c == Now
           est == estimateSalesTotals(c)
<1>1. /\ est \in Int /\ c.drift \in Int /\ rule \in RoundingRules
      /\ Invoiced(c, rule) = IF rule.on THEN roundedTotal(est, rule) ELSE est
    BY EstimateIsInvoiced DEF CartShapes, Now
<1>2. roundedTotal(est, rule) \in Int /\ Gift \in Int
    BY <1>1, RoundedIsInt, CartsAreSales
<1>3. StoreTotal(c) = est + c.drift /\ CartTotal(credits) = StoreTotal(c) - Gift - CreditSum(credits)
    BY DEF StoreTotal, CartTotal
<1>4. CASE ~rule.on
    <2>1. Due = 0 /\ c.drift = 0
        BY <1>4 DEF Due, planCartRounding
    <2> HIDE DEF c, est
    <2> QED
        BY <1>1, <1>2, <1>3, <1>4, <2>1 DEF c
<1>5. CASE rule.on
    <2>1. Due = StoreTotal(c) - roundedTotal(est, rule)
        BY <1>5 DEF Due, planCartRounding
    <2> HIDE DEF est, c
    <2> QED
        BY <1>1, <1>2, <1>3, <1>5, <2>1 DEF c
<1> QED
    BY <1>4, <1>5

LEMMA PayKeeps == ASSUME CartInv, Pay PROVE CartInv'
<1>1. /\ Open /\ collection # None
      /\ sale' = [paid |-> collection, invoice |-> Invoiced(Now, rule)]
      /\ rounder' = [r \in Rounders |-> NoRounder]
      /\ UNCHANGED <<cart, credits, collection, rule, settled>>
    BY DEF Pay
<1>2. sale'.paid = collection /\ sale'.invoice = Invoiced(Now, rule) /\ ~Open'
    BY <1>1 DEF Open
<1>3. CartShapes' /\ AloneIsRight' /\ SoldIsOver' /\ SettledIsRight'
    BY <1>1, <1>2, NoRounderIsOff
       DEF CartInv, CartShapes, AloneIsRight, SoldIsOver, SettledIsRight
<1>4. PaidIsInvoiced'
    <2> SUFFICES ASSUME settled, Now.drift \in -MaxGap..MaxGap, ~rule.on => Now.drift = 0
                 PROVE  collection + Gift = Invoiced(Now, rule)
        BY <1>1, <1>2 DEF PaidIsInvoiced, Now
    <2>1. CreditSum(credits) = Due /\ collection = CartTotal(credits)
        BY <1>1 DEF CartInv, SettledIsRight, InStep
    <2> QED
        BY <2>1, RightIsInvoiced DEF CartInv
<1> QED
    BY <1>3, <1>4 DEF CartInv

-----------------------------------------------------------------------------
(* The theorem *)

LEMMA CartInitHolds == CartInit => CartInv
<1> SUFFICES ASSUME CartInit PROVE CartInv
    OBVIOUS
<1>1. 1 \in DOMAIN Carts /\ rule \in RoundingRules
    BY CartsAreSales DEF CartInit, RoundingRules
<1>2. Open
    BY DEF CartInit, Open, None
<1> QED
    BY <1>1, <1>2, NoRounderIsOff
       DEF CartInit, CartInv, CartShapes, AloneIsRight, SettledIsRight, SoldIsOver,
           PaidIsInvoiced

LEMMA CartNextHolds == CartInv /\ [CartNext]_cartVars => CartInv'
<1> SUFFICES ASSUME CartInv, [CartNext]_cartVars PROVE CartInv'
    OBVIOUS
<1>1. ASSUME NEW r \in Rounders, RoundStep(r) PROVE CartInv'
    BY <1>1, StartRoundKeeps, DropLinesKeeps, MakeLineKeeps, RefreshCollectionKeeps,
       PlanRoundKeeps DEF RoundStep
<1>2. CASE UNCHANGED cartVars
    BY <1>2 DEF cartVars, CartInv, CartShapes, AloneIsRight, SettledIsRight, SoldIsOver,
                PaidIsInvoiced, Due, Now, Open, InStep, CartTotal
<1> QED
    BY <1>1, <1>2, EditsKeep, CollectKeeps, PayKeeps, TillCrashKeeps DEF CartNext

\* For any carts, rules, calls at once, changes and restarts: where the last word on the
\* cart was a roundCart that took its turn, the payment and the gift card are to the paisa
\* what ERPNext makes of the order's document.
THEOREM PaidIsInvoicedHolds == CartSpec => []PaidIsInvoiced
<1>1. CartInv => PaidIsInvoiced
    BY DEF CartInv
<1> QED
    BY <1>1, CartInitHolds, CartNextHolds, PTL DEF CartSpec

-----------------------------------------------------------------------------
(* Any credit lines *)

FirstOf(S) == CHOOSE c \in S : TRUE
\* Sets of at most k of the lines D.
UpToSo(D, k) == {S \in SUBSET D : Cardinality(S) <= k}
\* f adds up the lines of the sets of F.
AddsUpOver(f, F) ==
    \A S \in F : f[S] = IF S = {} THEN 0 ELSE FirstOf(S).amount + f[S \ {FirstOf(S)}]

LEMMA FirstGone ==
    ASSUME NEW D, IsFiniteSet(D), NEW S \in SUBSET D, S # {}
    PROVE  /\ FirstOf(S) \in S /\ FirstOf(S) \in D /\ S \ {FirstOf(S)} \in SUBSET D
           /\ Cardinality(S) \in Nat
           /\ Cardinality(S \ {FirstOf(S)}) = Cardinality(S) - 1
           /\ Cardinality(S) # 0
<1>1. IsFiniteSet(S)
    BY FS_Subset
<1>2. FirstOf(S) \in S
    BY DEF FirstOf
<1>3. Cardinality(S \ {FirstOf(S)}) = Cardinality(S) - 1
    BY <1>1, <1>2, FS_RemoveElement
<1>4. Cardinality(S) \in Nat /\ Cardinality(S) # 0
    BY <1>1, FS_CardinalityType, FS_EmptySet
<1> QED
    BY <1>2, <1>3, <1>4

LEMMA SumExists ==
    ASSUME NEW D, IsFiniteSet(D), \A c \in D : c.amount \in Int, NEW n \in Nat
    PROVE  \E f \in [UpToSo(D, n) -> Int] : AddsUpOver(f, UpToSo(D, n))
<1> DEFINE P(k) == \E f \in [UpToSo(D, k) -> Int] : AddsUpOver(f, UpToSo(D, k))
           T == {k \in Nat : ~P(k)}
<1> SUFFICES ASSUME T # {} PROVE FALSE
    OBVIOUS
<1>1. T \in SUBSET Nat
    OBVIOUS
<1>2. PICK k \in T : \A j \in T : k <= j
    BY <1>1, LeastOne
<1>3. k \in Nat /\ ~P(k)
    BY <1>2
<1> HIDE DEF T
<1>4. CASE k = 0
    <2>1. ASSUME NEW S \in UpToSo(D, k) PROVE S = {}
        <3>1. IsFiniteSet(S) /\ Cardinality(S) <= 0
            BY <1>4, <2>1, FS_Subset DEF UpToSo
        <3> QED
            BY <3>1, FS_CardinalityType, FS_EmptySet
    <2> DEFINE f == [S \in UpToSo(D, k) |-> 0]
    <2>2. f \in [UpToSo(D, k) -> Int] /\ AddsUpOver(f, UpToSo(D, k))
        BY <2>1 DEF AddsUpOver
    <2> QED
        BY <1>3, <2>2
<1>5. CASE k # 0
    <2> DEFINE l == k - 1
    <2>1. l \in Nat /\ k = l + 1 /\ ~(k <= l)
        BY <1>3, <1>5
    <2>2. P(l)
        BY <1>2, <2>1 DEF T
    <2> HIDE DEF l
    <2>3. PICK f \in [UpToSo(D, l) -> Int] : AddsUpOver(f, UpToSo(D, l))
        BY <2>2
    <2> DEFINE g == [S \in UpToSo(D, k) |->
                        IF S = {} THEN 0 ELSE FirstOf(S).amount + f[S \ {FirstOf(S)}]]
    <2>4. ASSUME NEW S \in UpToSo(D, k), S # {}
          PROVE  /\ FirstOf(S) \in D /\ S \ {FirstOf(S)} \in UpToSo(D, l)
                 /\ S \ {FirstOf(S)} \in UpToSo(D, k)
        <3>1. S \in SUBSET D /\ Cardinality(S) <= k
            BY <2>4 DEF UpToSo
        <3>2. /\ FirstOf(S) \in D /\ S \ {FirstOf(S)} \in SUBSET D /\ Cardinality(S) \in Nat
              /\ Cardinality(S \ {FirstOf(S)}) = Cardinality(S) - 1
            BY <2>4, <3>1, FirstGone
        <3>3. Cardinality(S \ {FirstOf(S)}) <= l /\ Cardinality(S \ {FirstOf(S)}) <= k
            BY <2>1, <3>1, <3>2
        <3> QED
            BY <3>2, <3>3 DEF UpToSo
    <2>5. g \in [UpToSo(D, k) -> Int]
        <3> SUFFICES ASSUME NEW S \in UpToSo(D, k)
                     PROVE  (IF S = {} THEN 0 ELSE FirstOf(S).amount + f[S \ {FirstOf(S)}]) \in Int
            OBVIOUS
        <3>1. CASE S # {}
            <4>1. FirstOf(S).amount \in Int /\ f[S \ {FirstOf(S)}] \in Int
                BY <2>3, <2>4, <3>1
            <4> QED
                BY <3>1, <4>1
        <3> QED
            BY <3>1
    <2>6. ASSUME NEW S \in UpToSo(D, l) PROVE S \in UpToSo(D, k) /\ g[S] = f[S]
        <3>1. S \in SUBSET D /\ Cardinality(S) <= l /\ IsFiniteSet(S)
            BY FS_Subset DEF UpToSo
        <3>2. Cardinality(S) \in Nat
            BY <3>1, FS_CardinalityType
        <3>3. Cardinality(S) <= k
            BY <2>1, <3>1, <3>2
        <3>4. S \in UpToSo(D, k)
            BY <3>1, <3>3 DEF UpToSo
        <3> QED
            BY <2>3, <3>4 DEF AddsUpOver
    <2>7. AddsUpOver(g, UpToSo(D, k))
        <3>1. \A S \in UpToSo(D, k) : S # {} => g[S \ {FirstOf(S)}] = f[S \ {FirstOf(S)}]
            BY <2>4, <2>6
        <3> QED
            BY <3>1 DEF AddsUpOver
    <2> HIDE DEF g
    <2> QED
        BY <1>3, <2>5, <2>7
<1> QED
    BY <1>4, <1>5

LEMMA CreditsAddUp ==
    ASSUME NEW D, IsFiniteSet(D), \A c \in D : c.amount \in Int
    PROVE  CreditSum(D) \in Int
<1> DEFINE body(it) == [S \in SUBSET D |->
                           IF S = {} THEN 0
                           ELSE LET x == CHOOSE c \in S : TRUE IN x.amount + it[S \ {x}]]
           iter == CHOOSE it : it = body(it)
<1>1. CreditSum(D) = iter[D]
    BY DEF CreditSum, MapThenFoldSet
<1>2. PICK n \in Nat : n = Cardinality(D)
    BY FS_CardinalityType
<1>3. UpToSo(D, n) = SUBSET D
    BY <1>2, FS_Subset DEF UpToSo
<1>4. PICK f \in [SUBSET D -> Int] : AddsUpOver(f, SUBSET D)
    <2>1. \E f \in [UpToSo(D, n) -> Int] : AddsUpOver(f, UpToSo(D, n))
        BY SumExists
    <2> QED
        BY <1>3, <2>1
<1>5. f = body(f)
    BY <1>4 DEF AddsUpOver, FirstOf
<1>6. iter = body(iter)
    BY <1>5
<1> HIDE DEF iter
<1>7. \A S \in SUBSET D : iter[S] = IF S = {} THEN 0
                                    ELSE FirstOf(S).amount + iter[S \ {FirstOf(S)}]
    BY <1>6 DEF FirstOf
<1> HIDE DEF body
<1> DEFINE T == {Cardinality(S) : S \in {R \in SUBSET D : iter[R] \notin Int}}
<1>8. CASE T # {}
    <2>1. T \in SUBSET Nat
        BY FS_Subset, FS_CardinalityType
    <2>2. PICK k \in T : \A j \in T : k <= j
        BY <1>8, <2>1, LeastOne
    <2>3. PICK S \in SUBSET D : iter[S] \notin Int /\ Cardinality(S) = k
        BY <2>2
    <2>4. S # {}
        <3>1. {} \in SUBSET D /\ 0 \in Int
            OBVIOUS
        <3>2. iter[{}] = 0
            BY <1>7, <3>1
        <3> QED
            BY <2>3, <3>1, <3>2
    <2>5. /\ FirstOf(S) \in D /\ S \ {FirstOf(S)} \in SUBSET D /\ Cardinality(S) \in Nat
          /\ Cardinality(S \ {FirstOf(S)}) = Cardinality(S) - 1
        BY <2>4, FirstGone
    <2>6. Cardinality(S \ {FirstOf(S)}) \notin T
        BY <2>2, <2>3, <2>5
    <2>7. iter[S \ {FirstOf(S)}] \in Int
        BY <2>5, <2>6
    <2>8. iter[S] = FirstOf(S).amount + iter[S \ {FirstOf(S)}]
        BY <1>7, <2>4
    <2> QED
        BY <2>3, <2>5, <2>7, <2>8
<1>9. CASE T = {}
    BY <1>1, <1>9
<1> QED
    BY <1>8, <1>9

-----------------------------------------------------------------------------
(* CartRounding: the rest of its types *)

CreditLine == [id: Nat, amount: Int]
CallKnows(p) ==
    p.ours \subseteq CreditLine /\ p.want \in Int /\ (p.pc = "plan" => p.want \in DOMAIN Carts)
CallsKnow == \A r \in Rounders : CallKnows(rounder[r])
LinesAreCredits == IsFiniteSet(credits) /\ credits \subseteq CreditLine
TillIs ==
    /\ collection \in Int /\ rule \in Rules /\ sale \in [paid: Int, invoice: Int]
    /\ changes \in 0..MaxChanges
TillInv == LinesAreCredits /\ CallsKnow /\ TillIs /\ settled \in BOOLEAN

\* A new line has a number no other has.
LEMMA NewIdIsNew ==
    ASSUME LinesAreCredits PROVE NewId \in Nat /\ \A c \in credits : c.id # NewId
<1>1. PICK n \in Nat : n = Cardinality(credits)
    BY FS_CardinalityType DEF LinesAreCredits
<1>2. \E i \in 1..(n + 1) : \A c \in credits : c.id # i
    <2> SUFFICES ASSUME \A i \in 1..(n + 1) : \E c \in credits : c.id = i PROVE FALSE
        OBVIOUS
    <2> DEFINE f == [i \in 1..(n + 1) |-> CHOOSE c \in credits : c.id = i]
    <2>1. \A i \in 1..(n + 1) : f[i] \in credits /\ f[i].id = i
        OBVIOUS
    <2>2. f \in [1..(n + 1) -> credits]
        BY <2>1
    <2> HIDE DEF f
    <2>3. IsFiniteSet(1..(n + 1)) /\ Cardinality(1..(n + 1)) = n + 1
        BY FS_Interval
    <2>4. Cardinality(credits) < Cardinality(1..(n + 1))
        BY <1>1, <2>3
    <2>5. \E i, j \in 1..(n + 1) : i # j /\ f[i] = f[j]
        BY <2>2, <2>3, <2>4, FS_PigeonHole DEF LinesAreCredits
    <2> QED
        BY <2>1, <2>5
<1>3. NewId \in 1..(n + 1) /\ \A c \in credits : c.id # NewId
    BY <1>1, <1>2 DEF NewId
<1> QED
    BY <1>3

\* What the cart comes to.
LEMMA CartTotalIsInt ==
    ASSUME NEW k \in DOMAIN Carts, NEW ru \in RoundingRules, NEW C, IsFiniteSet(C),
           C \subseteq CreditLine
    PROVE  StoreTotal(Carts[k]) - Gift - CreditSum(C) \in Int /\ Invoiced(Carts[k], ru) \in Int
<1>1. /\ estimateSalesTotals(Carts[k]) \in Int /\ Carts[k].drift \in Int
      /\ Invoiced(Carts[k], ru) = IF ru.on THEN roundedTotal(estimateSalesTotals(Carts[k]), ru)
                                  ELSE estimateSalesTotals(Carts[k])
    BY EstimateIsInvoiced
<1>2. StoreTotal(Carts[k]) \in Int
    BY <1>1 DEF StoreTotal
<1>3. CreditSum(C) \in Int
    BY CreditsAddUp DEF CreditLine
<1>4. Gift \in Int
    BY CartsAreSales
<1>5. roundedTotal(estimateSalesTotals(Carts[k]), ru) \in Int
    BY <1>1, RoundedIsInt
<1> QED
    BY <1>1, <1>2, <1>3, <1>4, <1>5

\* A call that is told of another's write, or of the shopper's, knows what it knew.
LEMMA ToldKnows ==
    ASSUME NEW p, IsRounder(p), CallKnows(p), NEW b PROVE CallKnows([p EXCEPT !.alone = b])
<1>1. [p EXCEPT !.alone = b] = [pc |-> p.pc, ours |-> p.ours, want |-> p.want, alone |-> b]
    <2>1. "off" \in RoundStages
        BY DEF RoundStages
    <2> QED
        BY <2>1, RounderChanges
<1> QED
    BY <1>1 DEF CallKnows

LEMMA NoRounderKnows == CallKnows(NoRounder)
BY DEF NoRounder, CallKnows

LEMMA DisturbedKnow == ASSUME CartInv, CallsKnow, rounder' = Disturb PROVE CallsKnow'
<1>1. ASSUME NEW r \in Rounders PROVE CallKnows(rounder'[r])
    <2>1. rounder'[r] = [rounder[r] EXCEPT !.alone = FALSE]
        BY DEF Disturb
    <2> QED
        BY <2>1, ToldKnows DEF CartInv, CartShapes, CallsKnow
<1> QED
    BY <1>1 DEF CallsKnow

\* The others are told, and the call that writes knows what it says.
LEMMA WritersKnow ==
    ASSUME CartInv, CallsKnow, NEW r \in Rounders, NEW q, CallKnows(q),
           rounder' = [Alone(r) EXCEPT ![r] = q]
    PROVE  CallsKnow'
<1>1. ASSUME NEW v \in Rounders, v # r PROVE CallKnows(rounder'[v])
    <2>1. PICK b : b = (v = r /\ rounder[r].alone)
        OBVIOUS
    <2>2. rounder'[v] = [Alone(r) EXCEPT ![r] = q][v]
        OBVIOUS
    <2>3. rounder'[v] = [rounder[v] EXCEPT !.alone = b]
        BY <1>1, <2>1, <2>2 DEF Alone
    <2>4. IsRounder(rounder[v]) /\ CallKnows(rounder[v])
        BY DEF CartInv, CartShapes, CallsKnow
    <2> QED
        BY <2>3, <2>4, ToldKnows
<1>2. rounder'[r] = q
    BY OwnWriteKeeps
<1> QED
    BY <1>1, <1>2 DEF CallsKnow

LEMMA StartTyped ==
    ASSUME CartInv, TillInv, NEW r \in Rounders, StartRound(r) PROVE TillInv'
<1>1. UNCHANGED <<cart, credits, collection, rule, settled, sale, changes>>
    BY DEF StartRound
<1>2. PICK q, b : /\ q = [pc |-> "plan", ours |-> credits, want |-> cart, alone |-> b]
                  /\ rounder' = [v \in Rounders |-> IF v # r THEN rounder[v] ELSE q]
    BY DEF StartRound
<1>3. cart \in DOMAIN Carts /\ cart \in Int
    BY CartsAreSales DEF CartInv, CartShapes
<1>4. CallKnows(q)
    BY <1>2, <1>3 DEF CallKnows, TillInv, LinesAreCredits
<1>5. CallsKnow'
    BY <1>2, <1>4 DEF CallsKnow, TillInv
<1> QED
    BY <1>1, <1>5 DEF TillInv, LinesAreCredits, TillIs

LEMMA PlanTyped ==
    ASSUME CartInv, TillInv, NEW r \in Rounders, NEW ru \in RoundingRules, PlanRound(r, ru)
    PROVE  TillInv'
<1> DEFINE me == rounder[r]
           want == planCartRounding(Carts[me.want], ru)
           right == Cardinality(me.ours) = (IF want = 0 THEN 0 ELSE 1)
                    /\ CreditSum(me.ours) = want
           alone == me.alone /\ ru = rule
           q == [me EXCEPT !.pc = "drop", !.want = want, !.alone = alone]
<1>1. /\ me.pc = "plan" /\ IsRounder(me) /\ CallKnows(me)
      /\ rounder = [v \in Rounders |-> rounder[v]]
      /\ UNCHANGED <<cart, credits, collection, rule, sale, changes>>
    BY DEF PlanRound, CartInv, CartShapes, TillInv, CallsKnow
<1>2. /\ right => rounder' = [rounder EXCEPT ![r] = NoRounder]
      /\ ~right => rounder' = [rounder EXCEPT ![r] = q]
    BY DEF PlanRound
<1>3. settled' \in BOOLEAN
    <2>1. CASE right
        BY <2>1 DEF PlanRound
    <2>2. CASE ~right
        <3>1. settled' = settled
            BY <2>2 DEF PlanRound
        <3> QED
            BY <3>1 DEF TillInv
    <2> QED
        BY <2>1, <2>2
<1>4. want \in Int
    BY <1>1, EstimateIsInvoiced DEF CallKnows
<1>5. CallKnows(q)
    <2> HIDE DEF want, alone
    <2>1. q = [pc |-> "drop", ours |-> me.ours, want |-> want, alone |-> alone]
        <3> HIDE DEF me
        <3> QED
            BY <1>1, RounderPlans
    <2>2. q.ours = me.ours /\ q.want = want /\ q.pc = "drop"
        BY <2>1
    <2> QED
        BY <1>1, <1>4, <2>2 DEF CallKnows
<1> HIDE DEF q, right, want, alone, me
<1>6. \A v \in Rounders : rounder'[v] \in {NoRounder, q, rounder[v]}
    BY <1>1, <1>2
<1>7. CallsKnow'
    BY <1>5, <1>6, NoRounderKnows DEF CallsKnow, TillInv
<1> QED
    BY <1>1, <1>3, <1>7 DEF TillInv, LinesAreCredits, TillIs

LEMMA DropTyped ==
    ASSUME CartInv, TillInv, NEW r \in Rounders, DropLines(r) PROVE TillInv'
<1>1. PICK p : p = rounder[r]
    OBVIOUS
<1>2. /\ credits' = credits \ p.ours /\ settled' = FALSE
      /\ UNCHANGED <<cart, collection, rule, sale, changes>>
      /\ IsRounder(p) /\ CallKnows(p) /\ CartShapes
    BY <1>1 DEF DropLines, DropOurs, CartInv, CartShapes, TillInv, CallsKnow
<1>3. PICK q : q = [p EXCEPT !.pc = "make", !.ours = {}]
    OBVIOUS
<1>4. rounder' = [Alone(r) EXCEPT ![r] = q]
    <2>1. rounder' = [Alone(r) EXCEPT ![r].pc = "make", ![r].ours = {}]
        BY DEF DropLines
    <2> QED
        BY <1>1, <1>2, <1>3, <2>1, AlonesAre
<1>5. q = [pc |-> "make", ours |-> {}, want |-> p.want, alone |-> p.alone]
    BY <1>2, <1>3, RounderChanges DEF RoundStages
<1>6. CallKnows(q)
    BY <1>2, <1>5 DEF CallKnows
<1>7. CallsKnow'
    BY <1>4, <1>6, WritersKnow DEF TillInv
<1>8. LinesAreCredits'
    BY <1>2, FS_Subset DEF TillInv, LinesAreCredits
<1> QED
    BY <1>2, <1>7, <1>8 DEF TillInv, TillIs

LEMMA MakeTyped ==
    ASSUME CartInv, TillInv, NEW r \in Rounders, MakeLine(r) PROVE TillInv'
<1>1. PICK p : p = rounder[r]
    OBVIOUS
<1>2. /\ credits' = IF p.want = 0 THEN credits
                    ELSE credits \cup {[id |-> NewId, amount |-> p.want]}
      /\ settled' = FALSE /\ UNCHANGED <<cart, collection, rule, sale, changes>>
      /\ IsRounder(p) /\ CallKnows(p) /\ CartShapes
    BY <1>1 DEF MakeLine, CartInv, CartShapes, TillInv, CallsKnow
<1>3. PICK q : q = [p EXCEPT !.pc = "refresh"]
    OBVIOUS
<1>4. rounder' = [Alone(r) EXCEPT ![r] = q]
    <2>1. rounder' = [Alone(r) EXCEPT ![r].pc = "refresh"]
        BY DEF MakeLine
    <2> QED
        BY <1>1, <1>2, <1>3, <2>1, AlonesAre
<1>5. q = [pc |-> "refresh", ours |-> p.ours, want |-> p.want, alone |-> p.alone]
    BY <1>2, <1>3, RounderChanges DEF RoundStages
<1>6. CallKnows(q)
    BY <1>2, <1>5 DEF CallKnows
<1>7. CallsKnow'
    BY <1>4, <1>6, WritersKnow DEF TillInv
<1>8. LinesAreCredits'
    <2>1. PICK i : i = NewId
        OBVIOUS
    <2>2. i \in Nat /\ p.want \in Int
        BY <1>2, <2>1, NewIdIsNew DEF TillInv, CallKnows
    <2>3. [id |-> i, amount |-> p.want] \in CreditLine
        BY <2>2 DEF CreditLine
    <2> QED
        BY <1>2, <2>1, <2>3, FS_AddElement DEF TillInv, LinesAreCredits
<1> QED
    BY <1>2, <1>7, <1>8 DEF TillInv, TillIs

LEMMA NowIsInt ==
    ASSUME CartInv, TillInv PROVE CartTotal(credits) \in Int /\ Invoiced(Now, rule) \in Int
BY CartTotalIsInt DEF CartInv, CartShapes, TillInv, LinesAreCredits, CartTotal, Now

LEMMA RefreshTyped ==
    ASSUME CartInv, TillInv, NEW r \in Rounders, RefreshCollection(r) PROVE TillInv'
<1>1. /\ collection' = IF collection = None THEN None ELSE CartTotal(credits)
      /\ settled' = rounder[r].alone /\ UNCHANGED <<cart, credits, rule, sale, changes>>
      /\ rounder' = [Alone(r) EXCEPT ![r] = NoRounder]
    BY DEF RefreshCollection
<1>2. collection' \in Int
    BY <1>1, NowIsInt DEF None
<1>3. settled' \in BOOLEAN
    BY <1>1 DEF CartInv, CartShapes, IsRounder
<1>4. CallsKnow'
    BY <1>1, NoRounderKnows, WritersKnow DEF TillInv
<1> QED
    BY <1>1, <1>2, <1>3, <1>4 DEF TillInv, LinesAreCredits, TillIs

LEMMA ChangeCounts == ASSUME TillIs, Change PROVE changes' \in 0..MaxChanges
BY CartsAreSales DEF TillIs, Change

LEMMA TillStep ==
    ASSUME CartInv, TillInv, [CartNext]_cartVars PROVE TillInv'
<1>1. ASSUME NEW c \in DOMAIN Carts, ShopperEdits(c) PROVE TillInv'
    <2>1. /\ rounder' = Disturb /\ settled' = FALSE /\ UNCHANGED <<credits, rule, sale>> /\ Change
          /\ collection' = IF collection = None THEN None
                           ELSE StoreTotal(Carts[c]) - Gift - CreditSum(credits)
        BY <1>1 DEF ShopperEdits
    <2>2. collection' \in Int
        BY <2>1, CartTotalIsInt DEF TillInv, LinesAreCredits, CartInv, CartShapes, None
    <2>3. changes' \in 0..MaxChanges
        BY <2>1, ChangeCounts DEF TillInv
    <2> QED
        BY <2>1, <2>2, <2>3, DisturbedKnow DEF TillInv, LinesAreCredits, TillIs
<1>2. CASE Collect
    <2>1. /\ rounder' = Disturb /\ UNCHANGED <<credits, rule, settled, sale, changes>>
          /\ collection' = CartTotal(credits)
        BY <1>2 DEF Collect
    <2>2. collection' \in Int
        BY <2>1, NowIsInt
    <2> QED
        BY <2>1, <2>2, DisturbedKnow DEF TillInv, LinesAreCredits, TillIs
<1>3. CASE Pay
    <2>1. /\ sale' = [paid |-> collection, invoice |-> Invoiced(Now, rule)]
          /\ rounder' = [r \in Rounders |-> NoRounder]
          /\ UNCHANGED <<credits, collection, rule, settled, changes>>
        BY <1>3 DEF Pay
    <2>2. sale' \in [paid: Int, invoice: Int]
        BY <2>1, NowIsInt DEF TillInv, TillIs
    <2>3. CallsKnow'
        BY <2>1, NoRounderKnows DEF CallsKnow
    <2> QED
        BY <2>1, <2>2, <2>3 DEF TillInv, LinesAreCredits, TillIs
<1>4. CASE TillCrash
    <2>1. /\ rounder' = [r \in Rounders |-> NoRounder] /\ settled' = FALSE /\ Change
          /\ UNCHANGED <<credits, collection, rule, sale>>
        BY <1>4 DEF TillCrash
    <2>2. changes' \in 0..MaxChanges
        BY <2>1, ChangeCounts DEF TillInv
    <2>3. CallsKnow'
        BY <2>1, NoRounderKnows DEF CallsKnow
    <2> QED
        BY <2>1, <2>2, <2>3 DEF TillInv, LinesAreCredits, TillIs
<1>5. ASSUME NEW r \in Rounders, RoundStep(r) PROVE TillInv'
    <2>1. ASSUME NEW ru \in {rule, DefaultRule}, PlanRound(r, ru) PROVE TillInv'
        <3>1. DefaultRule \in RoundingRules
            BY DEF DefaultRule, RoundingRules
        <3>2. ru \in RoundingRules
            BY <3>1 DEF CartInv, CartShapes
        <3> QED
            BY <2>1, <3>2, PlanTyped
    <2> QED
        BY <1>5, <2>1, StartTyped, DropTyped, MakeTyped, RefreshTyped DEF RoundStep
<1>6. CASE UNCHANGED cartVars
    BY <1>6 DEF cartVars, TillInv, LinesAreCredits, CallsKnow, TillIs
<1> QED
    BY <1>1, <1>2, <1>3, <1>4, <1>5, <1>6 DEF CartNext

LEMMA TillTyped == ASSUME CartInv, TillInv PROVE CartTypes
<1>1. ASSUME NEW r \in Rounders
      PROVE  rounder[r] \in [pc: {"off", "plan", "drop", "make", "refresh"},
                             ours: SUBSET [id: Nat, amount: Int],
                             want: Int, alone: BOOLEAN]
    <2>1. PICK p : p = rounder[r]
        OBVIOUS
    <2>2. /\ p = [pc |-> p.pc, ours |-> p.ours, want |-> p.want, alone |-> p.alone]
          /\ p.pc \in {"off", "plan", "drop", "make", "refresh"} /\ p.alone \in BOOLEAN
        BY <2>1 DEF CartInv, CartShapes, IsRounder, RoundStages
    <2>3. p.ours \in SUBSET [id: Nat, amount: Int] /\ p.want \in Int
        <3>1. CallKnows(p)
            BY <2>1 DEF TillInv, CallsKnow
        <3>2. p.ours \subseteq CreditLine /\ p.want \in Int
            BY <3>1 DEF CallKnows
        <3>3. p.ours \in SUBSET [id: Nat, amount: Int]
            BY <3>2 DEF CreditLine
        <3> QED
            BY <3>2, <3>3
    <2> QED
        BY <2>1, <2>2, <2>3
<1>2. sale.paid \in Int /\ sale.invoice \in Int
    BY DEF TillInv, TillIs
<1>3. rounder = [r \in Rounders |-> rounder[r]] /\ cart \in DOMAIN Carts
    BY DEF CartInv, CartShapes
<1>4. rounder \in [Rounders -> [pc: {"off", "plan", "drop", "make", "refresh"},
                                ours: SUBSET [id: Nat, amount: Int],
                                want: Int, alone: BOOLEAN]]
    BY <1>1, <1>3
<1> QED
    BY <1>2, <1>3, <1>4 DEF CartTypes, TillInv, TillIs, LinesAreCredits, CreditLine

LEMMA CartIsTyped == CartSpec => []CartTypes
<1>1. ASSUME CartInit PROVE TillInv
    <2>1. LinesAreCredits
        BY <1>1, FS_EmptySet DEF CartInit, LinesAreCredits
    <2>2. CallsKnow
        BY <1>1, NoRounderKnows DEF CartInit, CallsKnow
    <2>3. TillIs
        BY <1>1, CartsAreSales DEF CartInit, TillIs, None
    <2>4. settled \in BOOLEAN
        BY <1>1 DEF CartInit
    <2> QED
        BY <2>1, <2>2, <2>3, <2>4 DEF TillInv
<1>2. CartInit => TillInv
    BY <1>1
<1>3. CartInv /\ TillInv /\ [CartNext]_cartVars => TillInv'
    BY TillStep
<1>4. CartInv /\ TillInv => CartTypes
    BY TillTyped
<1> QED
    BY <1>2, <1>3, <1>4, CartInitHolds, CartNextHolds, PTL DEF CartSpec

-----------------------------------------------------------------------------
(* Deliveries: the inductive invariant *)

Porters == [pc: {"off", "order", "make", "link", "ship"},
            read: {"draft", "submitted", "cancelled"}, todo: SUBSET DOMAIN Ordered,
            order: DOMAIN Ordered \cup {"none"}, qty: Int, bad: BOOLEAN]
Fulfilments == [order: DOMAIN Ordered, note: Notes, qty: Int, shipped: BOOLEAN]

DeliveryShapes ==
    /\ note \in [Notes -> {"draft", "submitted", "cancelled"}]
    /\ entry \in [Notes -> [Entries -> {"none", "due", "failed", "done"}]]
    /\ waiting \in [Notes -> Seq(Entries)]
    /\ porter \in [Notes -> Porters]
    /\ fulfilment \in Seq(Fulfilments)
    /\ \A n \in Notes :
          /\ porter[n].pc # "off" => waiting[n] # <<>>
          /\ porter[n].todo \subseteq OrdersOf(n)
          /\ porter[n].pc \in {"make", "link", "ship"} => porter[n].order \in OrdersOf(n)
    /\ \A f \in DOMAIN fulfilment : fulfilment[f].order \in OrdersOf(fulfilment[f].note)

\* An entry of a cancellation, and every entry after it was handled, sees the note cancelled.
Reversed ==
    \A n \in Notes :
        /\ entry[n].reversal # "none" => note[n] = "cancelled"
        /\ \A i \in DOMAIN waiting[n] : waiting[n][i] = "reversal" => entry[n].reversal # "none"
        /\ porter[n].pc # "off" /\ (waiting[n][1] = "reversal" \/ entry[n].reversal = "done")
              => porter[n].read = "cancelled"
        /\ porter[n].pc \in {"make", "link", "ship"} => porter[n].read # "cancelled"

\* The link table knows every fulfilment but the one just made.
FulfilmentsAreKnown ==
    \A f \in DOMAIN fulfilment :
        \/ [note |-> fulfilment[f].note, order |-> fulfilment[f].order, of |-> f] \in noteLinks
        \/ /\ porter[fulfilment[f].note].pc = "link"
           /\ porter[fulfilment[f].note].order = fulfilment[f].order
           /\ porter[fulfilment[f].note].qty = f

\* A fulfilment is made of an order the note has made none of.
MakesFirst ==
    \A n \in Notes : porter[n].pc = "make" =>
        \A f \in DOMAIN fulfilment : fulfilment[f].note = n => fulfilment[f].order # porter[n].order

\* What an entry of a cancelled note has not complained of is still ahead of it.
LooksAtAll ==
    \A n \in Notes : porter[n].pc = "order" /\ porter[n].read = "cancelled" /\ ~porter[n].bad =>
        \A f \in DOMAIN fulfilment : fulfilment[f].note = n => fulfilment[f].order \in porter[n].todo

OneOfAnOrder ==
    \A f, g \in DOMAIN fulfilment :
        fulfilment[f].note = fulfilment[g].note /\ fulfilment[f].order = fulfilment[g].order
        => f = g

NoMoreThanOrdered == \A o \in DOMAIN Ordered : Fulfilled(o) \in Int /\ Fulfilled(o) <= Ordered[o]

DeliveryInv ==
    /\ DeliveryShapes /\ Reversed /\ FulfilmentsAreKnown /\ MakesFirst /\ LooksAtAll
    /\ OneOfAnOrder /\ ReversalIsTold

-----------------------------------------------------------------------------
(* What has been fulfilled of an order *)

\* Fulfilled, of any list of fulfilments.
FulfilledOf(fs, o) ==
    LET sum[f \in 0..Len(fs)] ==
            IF f = 0 THEN 0
            ELSE sum[f - 1] + IF fs[f].order = o THEN fs[f].qty ELSE 0
    IN sum[Len(fs)]

Share(fs, o) == [f \in DOMAIN fs |-> IF fs[f].order = o THEN fs[f].qty ELSE 0]

LEMMA FulfilledRuns ==
    ASSUME NEW fs \in Seq(Fulfilments), NEW o
    PROVE  \E s : /\ Runs(s, Len(fs), Share(fs, o)) /\ FulfilledOf(fs, o) = s[Len(fs)]
                  /\ s[Len(fs)] \in Int
<1> DEFINE q == Share(fs, o)
           N == Len(fs)
           Eq(s) == s = [f \in 0..N |-> IF f = 0 THEN 0
                                        ELSE s[f - 1] + IF fs[f].order = o THEN fs[f].qty ELSE 0]
<1>1. N \in Nat /\ DOMAIN fs = 1..N
    OBVIOUS
<1>2. \A f \in 1..N : q[f] = (IF fs[f].order = o THEN fs[f].qty ELSE 0) /\ q[f] \in Int
    <2>1. \A f \in 1..N : fs[f] \in Fulfilments
        BY <1>1
    <2>2. \A f \in 1..N : fs[f].qty \in Int
        BY <2>1 DEF Fulfilments
    <2> QED
        BY <1>1, <2>2 DEF Share
<1>3. \A s : Eq(s) <=> Runs(s, N, q)
    <2> TAKE s
    <2>1. \A f \in 0..N : f # 0 =>
              s[f - 1] + q[f] = s[f - 1] + (IF fs[f].order = o THEN fs[f].qty ELSE 0)
        BY <1>1, <1>2
    <2>2. [f \in 0..N |-> IF f = 0 THEN 0 ELSE s[f - 1] + q[f]]
            = [f \in 0..N |-> IF f = 0 THEN 0
                              ELSE s[f - 1] + IF fs[f].order = o THEN fs[f].qty ELSE 0]
        BY <2>1
    <2> QED
        BY <2>2 DEF Runs
<1>4. PICK s \in [0..N -> Int] : Runs(s, N, q)
    BY <1>1, <1>2, RunsExist
<1>5. FulfilledOf(fs, o) = (CHOOSE t : Eq(t))[N]
    BY DEF FulfilledOf
<1> DEFINE u == CHOOSE t : Eq(t)
<1>6. Eq(u)
    BY <1>3, <1>4
<1>7. Runs(u, N, q)
    BY <1>3, <1>6
<1> HIDE DEF u, q, Eq
<1>8. u[N] = s[N]
    BY <1>1, <1>4, <1>7, RunsAgree
<1>9. s[N] \in Int
    BY <1>1, <1>4
<1> QED
    BY <1>4, <1>5, <1>8, <1>9 DEF u, q

LEMMA FulfilledSame ==
    ASSUME NEW fs \in Seq(Fulfilments), NEW gs \in Seq(Fulfilments), Len(gs) = Len(fs), NEW o,
           \A f \in DOMAIN fs : gs[f].order = fs[f].order /\ gs[f].qty = fs[f].qty
    PROVE  FulfilledOf(gs, o) = FulfilledOf(fs, o) /\ FulfilledOf(fs, o) \in Int
<1> DEFINE N == Len(fs)
<1>1. N \in Nat /\ DOMAIN fs = 1..N /\ DOMAIN gs = 1..N
    OBVIOUS
<1>2. \A f \in 1..N : Share(gs, o)[f] = Share(fs, o)[f]
    BY <1>1 DEF Share
<1>3. PICK s : Runs(s, N, Share(fs, o)) /\ FulfilledOf(fs, o) = s[N] /\ s[N] \in Int
    BY FulfilledRuns
<1>4. PICK t : Runs(t, N, Share(gs, o)) /\ FulfilledOf(gs, o) = t[N]
    BY FulfilledRuns
<1>5. s[N] = t[N]
    BY <1>1, <1>2, <1>3, <1>4, RunsAgree
<1> QED
    BY <1>1, <1>3, <1>4, <1>5

LEMMA FulfilledGrows ==
    ASSUME NEW fs \in Seq(Fulfilments), NEW g \in Fulfilments, NEW o
    PROVE  FulfilledOf(Append(fs, g), o)
              = FulfilledOf(fs, o) + IF g.order = o THEN g.qty ELSE 0
<1> DEFINE N == Len(fs)
           gs == Append(fs, g)
<1>1. /\ N \in Nat /\ DOMAIN fs = 1..N /\ gs \in Seq(Fulfilments) /\ Len(gs) = N + 1
      /\ DOMAIN gs = 1..(N + 1) /\ gs[N + 1] = g /\ \A f \in 1..N : gs[f] = fs[f]
    OBVIOUS
<1> HIDE DEF gs
<1>2. \A f \in 1..N : Share(fs, o)[f] = Share(gs, o)[f]
    BY <1>1 DEF Share
<1>3. Share(gs, o)[N + 1] = IF g.order = o THEN g.qty ELSE 0
    <2>1. N + 1 \in 1..(N + 1)
        BY <1>1
    <2> QED
        BY <1>1, <2>1 DEF Share
<1>4. PICK s : Runs(s, N, Share(fs, o)) /\ FulfilledOf(fs, o) = s[N]
    BY FulfilledRuns
<1>5. PICK t : Runs(t, N + 1, Share(gs, o)) /\ FulfilledOf(gs, o) = t[N + 1]
    BY <1>1, FulfilledRuns
<1> HIDE DEF N
<1>6. t[N + 1] = s[N] + Share(gs, o)[N + 1]
    BY <1>1, <1>2, <1>4, <1>5, RunsGoOn
<1> QED
    BY <1>3, <1>4, <1>5, <1>6 DEF gs

LEMMA FulfilledNone == ASSUME NEW o PROVE FulfilledOf(<<>>, o) = 0
<1>1. <<>> \in Seq(Fulfilments) /\ Len(<<>>) = 0
    OBVIOUS
<1>2. PICK s : Runs(s, 0, Share(<<>>, o)) /\ FulfilledOf(<<>>, o) = s[0]
    BY <1>1, FulfilledRuns
<1> QED
    BY <1>2, RunsStep

LEMMA FulfilledIs ==
    ASSUME NEW o
    PROVE  Fulfilled(o) = FulfilledOf(fulfilment, o) /\ Fulfilled(o)' = FulfilledOf(fulfilment', o)
BY DEF Fulfilled, FulfilledOf

-----------------------------------------------------------------------------
(* A porter's record *)

LEMMA RecordGoesOn ==
    ASSUME NEW A, NEW B, NEW C, NEW D, NEW E, NEW F, NEW x \in A, NEW y \in E,
           NEW p \in [pc: A, read: B, todo: C, order: D, qty: E, bad: F]
    PROVE  LET q == [p EXCEPT !.pc = x, !.qty = y]
           IN  /\ q \in [pc: A, read: B, todo: C, order: D, qty: E, bad: F]
               /\ q.pc = x /\ q.qty = y /\ q.order = p.order /\ q.read = p.read
               /\ q.todo = p.todo
OBVIOUS

LEMMA RecordStarts ==
    ASSUME NEW A, NEW B, NEW C, NEW D, NEW E, NEW F,
           NEW x \in A, NEW y \in B, NEW z \in C, NEW w \in F,
           NEW p \in [pc: A, read: B, todo: C, order: D, qty: E, bad: F]
    PROVE  LET q == [p EXCEPT !.pc = x, !.read = y, !.todo = z, !.bad = w]
           IN  /\ q \in [pc: A, read: B, todo: C, order: D, qty: E, bad: F]
               /\ q.pc = x /\ q.read = y /\ q.todo = z /\ q.bad = w
OBVIOUS

LEMMA RecordOpens ==
    ASSUME NEW A, NEW B, NEW C, NEW D, NEW E, NEW F, NEW x \in A, NEW y \in B, NEW z \in C,
           NEW p \in [pc: A, read: B, todo: C, order: D, qty: E, bad: F]
    PROVE  LET q == [p EXCEPT !.pc = x, !.todo = z, !.read = y]
           IN  /\ q \in [pc: A, read: B, todo: C, order: D, qty: E, bad: F]
               /\ q.pc = x /\ q.read = y /\ q.todo = z
OBVIOUS

LEMMA IdleIsOff == Idle \in Porters /\ Idle.pc = "off" /\ Idle.todo = {}
BY DEF Idle, Porters

-----------------------------------------------------------------------------
(* Steps that leave the fulfilments as they are *)

\* The same fulfilments, shipped or not.
SameFulfilments ==
    /\ fulfilment' \in Seq(Fulfilments) /\ Len(fulfilment') = Len(fulfilment)
    /\ \A f \in DOMAIN fulfilment :
          /\ fulfilment'[f].note = fulfilment[f].note
          /\ fulfilment'[f].order = fulfilment[f].order
          /\ fulfilment'[f].qty = fulfilment[f].qty

LEMMA MadeOfOrders ==
    ASSUME DeliveryShapes
    PROVE  \A f \in DOMAIN fulfilment : fulfilment[f].note \in Notes
<1>1. \A f \in DOMAIN fulfilment : fulfilment[f] \in Fulfilments
    BY DEF DeliveryShapes
<1> QED
    BY <1>1 DEF Fulfilments

LEMMA StillSame == ASSUME DeliveryShapes, UNCHANGED fulfilment PROVE SameFulfilments
BY DEF DeliveryShapes, SameFulfilments

LEMMA SameAre ==
    ASSUME DeliveryShapes, SameFulfilments
    PROVE  /\ DOMAIN fulfilment' = DOMAIN fulfilment
           /\ OneOfAnOrder => OneOfAnOrder'
           /\ NoMoreThanOrdered => NoMoreThanOrdered'
<1>1. fulfilment \in Seq(Fulfilments) /\ fulfilment' \in Seq(Fulfilments)
    BY DEF DeliveryShapes, SameFulfilments
<1>2. DOMAIN fulfilment' = DOMAIN fulfilment
    BY <1>1 DEF SameFulfilments
<1>3. OneOfAnOrder => OneOfAnOrder'
    BY <1>2 DEF OneOfAnOrder, SameFulfilments
<1>4. \A o \in DOMAIN Ordered : FulfilledOf(fulfilment', o) = FulfilledOf(fulfilment, o)
    BY <1>1, FulfilledSame DEF SameFulfilments
<1>5. NoMoreThanOrdered => NoMoreThanOrdered'
    BY <1>4, FulfilledIs DEF NoMoreThanOrdered
<1> QED
    BY <1>2, <1>3, <1>5

\* The entry in hand gets on with its note.
LEMMA WorksKeeps ==
    ASSUME DeliveryInv, SameFulfilments, noteLinks \subseteq noteLinks',
           NEW n \in Notes, NEW p \in Porters, Works(n, p), waiting[n] # <<>>,
           p.pc \notin {"off", "link"}, p.todo \subseteq OrdersOf(n),
           p.pc \in {"make", "ship"} => p.order \in OrdersOf(n) /\ p.read # "cancelled",
           waiting[n][1] = "reversal" \/ entry[n].reversal = "done" => p.read = "cancelled",
           porter[n].pc = "link" =>
              [note |-> n, order |-> porter[n].order, of |-> porter[n].qty] \in noteLinks',
           p.pc = "make" => \A f \in DOMAIN fulfilment :
              fulfilment[f].note = n => fulfilment[f].order # p.order,
           p.pc = "order" /\ p.read = "cancelled" /\ ~p.bad => \A f \in DOMAIN fulfilment :
              fulfilment[f].note = n => fulfilment[f].order \in p.todo
    PROVE  DeliveryInv'
<1>1. /\ UNCHANGED <<note, entry, waiting>> /\ porter'[n] = p /\ porter' \in [Notes -> Porters]
      /\ \A m \in Notes : m # n => porter'[m] = porter[m]
    BY DEF Works, DeliveryInv, DeliveryShapes
<1>2. DOMAIN fulfilment' = DOMAIN fulfilment /\ OneOfAnOrder'
    BY SameAre DEF DeliveryInv
<1>3. DeliveryShapes'
    BY <1>1, <1>2 DEF DeliveryInv, DeliveryShapes, SameFulfilments
<1>4. Reversed'
    BY <1>1 DEF DeliveryInv, Reversed
<1>5. FulfilmentsAreKnown'
    BY <1>1, <1>2, MadeOfOrders DEF DeliveryInv, FulfilmentsAreKnown, SameFulfilments
<1>6. MakesFirst'
    BY <1>1, <1>2 DEF DeliveryInv, MakesFirst, SameFulfilments
<1>7. LooksAtAll'
    BY <1>1, <1>2 DEF DeliveryInv, LooksAtAll, SameFulfilments
<1>8. ReversalIsTold'
    BY <1>1, <1>2 DEF DeliveryInv, ReversalIsTold, SameFulfilments
<1> QED
    BY <1>2, <1>3, <1>4, <1>5, <1>6, <1>7, <1>8 DEF DeliveryInv

\* The entry in hand gets its verdict, and the lock goes to the next.
LEMMA LeavesKeeps ==
    ASSUME DeliveryInv, SameFulfilments, noteLinks' = noteLinks,
           NEW n \in Notes, NEW st \in {"failed", "done"}, Leaves(n, st), waiting[n] # <<>>,
           porter[n].pc # "link",
           st = "done" /\ waiting[n][1] = "reversal" =>
              \A f \in DOMAIN fulfilment : fulfilment[f].note # n
    PROVE  DeliveryInv'
<1>1. /\ UNCHANGED note /\ porter'[n] = Idle /\ Idle \in Porters /\ Idle.pc = "off" /\ Idle.todo = {}
      /\ porter' \in [Notes -> Porters] /\ \A m \in Notes : m # n => porter'[m] = porter[m]
    <2>1. Idle \in Porters /\ Idle.pc = "off" /\ Idle.todo = {}
        BY DEF Idle, Porters
    <2> QED
        BY <2>1 DEF Leaves, DeliveryInv, DeliveryShapes
<1>2. waiting[n] \in Seq(Entries) /\ waiting \in [Notes -> Seq(Entries)]
    BY DEF DeliveryInv, DeliveryShapes
<1> DEFINE e == waiting[n][1]
<1>3. e \in Entries /\ Head(waiting[n]) = e
    BY <1>2
<1>4. /\ waiting' \in [Notes -> Seq(Entries)]
      /\ \A m \in Notes : m # n => waiting'[m] = waiting[m]
      /\ \A i \in DOMAIN waiting'[n] : \E j \in DOMAIN waiting[n] : waiting'[n][i] = waiting[n][j]
    <2> DEFINE rest == Tail(waiting[n])
    <2>1. rest \in Seq(Entries) /\ waiting' = [waiting EXCEPT ![n] = rest]
        BY <1>2 DEF Leaves
    <2>2. \A i \in DOMAIN rest : i + 1 \in DOMAIN waiting[n] /\ rest[i] = waiting[n][i + 1]
        BY <1>2
    <2> HIDE DEF rest
    <2> QED
        BY <1>2, <2>1, <2>2
<1> DEFINE row == [entry[n] EXCEPT ![e] = st]
<1>5. /\ entry \in [Notes -> [Entries -> {"none", "due", "failed", "done"}]]
      /\ entry' = [entry EXCEPT ![n] = row]
    BY <1>3 DEF Leaves, DeliveryInv, DeliveryShapes
<1>6. /\ row \in [Entries -> {"none", "due", "failed", "done"}]
      /\ row["reversal"] = IF e = "reversal" THEN st ELSE entry[n]["reversal"]
    BY <1>3, <1>5 DEF Entries
<1> HIDE DEF row
<1>7. /\ entry' \in [Notes -> [Entries -> {"none", "due", "failed", "done"}]]
      /\ entry'[n].reversal = IF e = "reversal" THEN st ELSE entry[n].reversal
      /\ \A m \in Notes : m # n => entry'[m] = entry[m]
    BY <1>5, <1>6
<1>8. 1 \in DOMAIN waiting[n]
    BY <1>2
<1>9. e = "reversal" => entry[n].reversal # "none"
    BY <1>8 DEF DeliveryInv, Reversed
<1> HIDE DEF e
<1>10. DOMAIN fulfilment' = DOMAIN fulfilment /\ OneOfAnOrder'
    BY SameAre DEF DeliveryInv
<1>11. DeliveryShapes'
    BY <1>1, <1>4, <1>7, <1>10 DEF DeliveryInv, DeliveryShapes, SameFulfilments
<1>12. Reversed'
    <2> SUFFICES ASSUME NEW m \in Notes
                 PROVE  /\ entry'[m].reversal # "none" => note'[m] = "cancelled"
                        /\ \A i \in DOMAIN waiting'[m] :
                              waiting'[m][i] = "reversal" => entry'[m].reversal # "none"
                        /\ porter'[m].pc # "off"
                           /\ (waiting'[m][1] = "reversal" \/ entry'[m].reversal = "done")
                              => porter'[m].read = "cancelled"
                        /\ porter'[m].pc \in {"make", "link", "ship"}
                              => porter'[m].read # "cancelled"
        BY DEF Reversed
    <2>1. CASE m = n
        BY <1>1, <1>4, <1>7, <1>9, <2>1 DEF DeliveryInv, Reversed
    <2>2. CASE m # n
        BY <1>1, <1>4, <1>7, <2>2 DEF DeliveryInv, Reversed
    <2> QED
        BY <2>1, <2>2
<1>13. FulfilmentsAreKnown'
    BY <1>1, <1>10, MadeOfOrders DEF DeliveryInv, FulfilmentsAreKnown, SameFulfilments
<1>14. MakesFirst'
    BY <1>1, <1>10 DEF DeliveryInv, MakesFirst, SameFulfilments
<1>15. LooksAtAll'
    BY <1>1, <1>10 DEF DeliveryInv, LooksAtAll, SameFulfilments
<1>16. ReversalIsTold'
    BY <1>7, <1>10 DEF DeliveryInv, ReversalIsTold, SameFulfilments, e
<1> QED
    BY <1>10, <1>11, <1>12, <1>13, <1>14, <1>15, <1>16 DEF DeliveryInv

\* The next order, or the verdict after the last.
LEMMA NextOrderKeeps ==
    ASSUME DeliveryInv, SameFulfilments, noteLinks' = noteLinks,
           NEW n \in Notes, NEW o, NEW ok \in BOOLEAN, NextOrder(n, o, ok),
           porter[n].pc \in {"order", "make", "ship"},
           porter[n].read = "cancelled" /\ ok => \A f \in DOMAIN fulfilment :
               fulfilment[f].note = n => fulfilment[f].order # o
    PROVE  DeliveryInv'
<1> DEFINE p == porter[n]
           bad == p.bad \/ ~ok
<1>1. p \in Porters /\ bad \in BOOLEAN /\ waiting[n] # <<>> /\ p.todo \subseteq OrdersOf(n)
    BY DEF DeliveryInv, DeliveryShapes, Porters
<1>2. waiting[n][1] = "reversal" \/ entry[n].reversal = "done" => p.read = "cancelled"
    BY DEF DeliveryInv, Reversed
<1>3. p.read = "cancelled" => p.pc = "order"
    BY DEF DeliveryInv, Reversed
<1>4. p.read = "cancelled" /\ ~bad => \A f \in DOMAIN fulfilment :
          fulfilment[f].note = n => fulfilment[f].order \in p.todo \ {o}
    BY <1>1, <1>3 DEF DeliveryInv, LooksAtAll
<1>5. CASE p.todo = {o}
    <2>1. PICK st \in {"failed", "done"} : Leaves(n, st) /\ (st = "done" => ~bad)
        BY <1>5 DEF NextOrder
    <2>2. st = "done" /\ waiting[n][1] = "reversal" =>
              \A f \in DOMAIN fulfilment : fulfilment[f].note # n
        BY <1>2, <1>4, <1>5, <2>1
    <2> QED
        BY <1>1, <2>1, <2>2, LeavesKeeps
<1>6. CASE p.todo # {o}
    <2> DEFINE left == p.todo \ {o}
               read == p.read
               q == [Idle EXCEPT !.pc = "order", !.read = read, !.todo = left, !.bad = bad]
    <2>1. /\ left \in SUBSET DOMAIN Ordered /\ read \in {"draft", "submitted", "cancelled"}
          /\ left \subseteq OrdersOf(n)
        BY <1>1 DEF Porters
    <2>2. Works(n, q)
        BY <1>6 DEF NextOrder
    <2> HIDE DEF left, read, bad, q
    <2>3. /\ q \in Porters /\ q.pc = "order" /\ q.read = read /\ q.todo = left
          /\ q.bad = bad
        <3>1. "order" \in {"off", "order", "make", "link", "ship"}
            OBVIOUS
        <3> QED
            BY <1>1, <2>1, <3>1, IdleIsOff, RecordStarts DEF Porters, q
    <2>4. q.read = p.read /\ q.todo = p.todo \ {o} /\ q.bad = bad /\ q.todo \subseteq OrdersOf(n)
        BY <2>1, <2>3 DEF left, read
    <2> HIDE DEF q
    <2> QED
        BY <1>1, <1>2, <1>4, <2>2, <2>3, <2>4, WorksKeeps
<1> QED
    BY <1>5, <1>6

-----------------------------------------------------------------------------
(* The handler's steps *)

LEMMA OpenNoteKeeps ==
    ASSUME DeliveryInv, NEW n \in Notes, NEW ok, OpenNote(n, ok) PROVE DeliveryInv'
<1>1. /\ waiting[n] # <<>> /\ porter[n].pc = "off" /\ noteLinks' = noteLinks
      /\ SameFulfilments /\ waiting[n] \in Seq(Entries)
    BY StillSame DEF OpenNote, Turn, DeliveryInv, DeliveryShapes
<1>2. CASE ~ok
    BY <1>1, <1>2, LeavesKeeps DEF OpenNote
<1>3. CASE ok
    <2> DEFINE read == IF Head(waiting[n]) = "reversal" THEN "cancelled" ELSE note[n]
               all == OrdersOf(n)
               q == [Idle EXCEPT !.pc = "order", !.todo = all, !.read = read]
    <2>1. Works(n, q)
        BY <1>3 DEF OpenNote
    <2>2. read \in {"draft", "submitted", "cancelled"} /\ all \in SUBSET DOMAIN Ordered
        BY NotesDrawOnOrders DEF DeliveryInv, DeliveryShapes, Notes, OrdersOf
    <2>3. waiting[n][1] = "reversal" \/ entry[n].reversal = "done" => read = "cancelled"
        BY <1>1 DEF DeliveryInv, Reversed
    <2> HIDE DEF read, all, q
    <2>4. q \in Porters /\ q.pc = "order" /\ q.read = read /\ q.todo = all
        <3>1. "order" \in {"off", "order", "make", "link", "ship"}
            OBVIOUS
        <3> QED
            BY <2>2, <3>1, IdleIsOff, RecordOpens DEF Porters, q
    <2> USE DEF all
    <2>5. \A f \in DOMAIN fulfilment : fulfilment[f].note = n => fulfilment[f].order \in q.todo
        BY <2>4 DEF DeliveryInv, DeliveryShapes
    <2> QED
        BY <1>1, <2>1, <2>3, <2>4, <2>5, WorksKeeps
<1> QED
    BY <1>2, <1>3

\* What the link table says a note made of an order is all it made, where none is in hand.
LEMMA KnownIsMade ==
    ASSUME DeliveryInv, NEW n \in Notes, NEW o, MadeBy(n, o) = {}, porter[n].pc # "link"
    PROVE  \A f \in DOMAIN fulfilment : fulfilment[f].note = n => fulfilment[f].order # o
<1> SUFFICES ASSUME NEW f \in DOMAIN fulfilment, fulfilment[f].note = n, fulfilment[f].order = o
             PROVE  FALSE
    OBVIOUS
<1>1. [note |-> n, order |-> o, of |-> f] \in noteLinks
    BY DEF DeliveryInv, FulfilmentsAreKnown
<1> DEFINE l == [note |-> n, order |-> o, of |-> f]
<1>2. l \in noteLinks /\ l.note = n /\ l.order = o
    BY <1>1
<1> QED
    BY <1>2 DEF MadeBy

LEMMA LookAtKeeps ==
    ASSUME DeliveryInv, NEW n \in Notes, NEW o \in OrdersOf(n), LookAt(n, o) PROVE DeliveryInv'
<1> DEFINE p == porter[n]
<1>1. /\ p.pc = "order" /\ noteLinks' = noteLinks /\ SameFulfilments
      /\ p \in Porters /\ waiting[n] # <<>> /\ p.todo \subseteq OrdersOf(n)
      /\ o \in DOMAIN Ordered
    BY StillSame, NotesDrawOnOrders DEF LookAt, DeliveryInv, DeliveryShapes, Notes, OrdersOf
<1>2. waiting[n][1] = "reversal" \/ entry[n].reversal = "done" => p.read = "cancelled"
    BY <1>1 DEF DeliveryInv, Reversed
<1>3. CASE p.read = "cancelled"
    <2>1. CASE MadeBy(n, o) = {}
        <3>1. NextOrder(n, o, TRUE)
            BY <1>3, <2>1 DEF LookAt
        <3> QED
            BY <1>1, <2>1, <3>1, KnownIsMade, NextOrderKeeps
    <2>2. CASE MadeBy(n, o) # {}
        <3>1. NextOrder(n, o, FALSE)
            BY <1>3, <2>2 DEF LookAt, TellsAPerson
        <3> QED
            BY <1>1, <3>1, NextOrderKeeps
    <2> QED
        BY <2>1, <2>2
<1>4. CASE p.read # "cancelled" /\ MadeBy(n, o) # {}
    <2> DEFINE q == [p EXCEPT !.pc = "ship", !.order = o]
    <2>1. Works(n, q)
        BY <1>4 DEF LookAt
    <2>2. /\ q \in Porters /\ q.pc = "ship" /\ q.order = o /\ q.read = p.read /\ q.todo = p.todo
        BY <1>1 DEF Porters
    <2> HIDE DEF q
    <2> QED
        BY <1>1, <1>2, <1>4, <2>1, <2>2, WorksKeeps
<1>5. CASE p.read # "cancelled" /\ MadeBy(n, o) = {} /\ Planned(n, o) <= 0
    <2>1. NextOrder(n, o, TRUE)
        BY <1>5 DEF LookAt
    <2> QED
        BY <1>1, <1>5, <2>1, NextOrderKeeps
<1>6. CASE p.read # "cancelled" /\ MadeBy(n, o) = {} /\ ~(Planned(n, o) <= 0)
    <2>1. Planned(n, o) \in Int
        <3>1. fulfilment \in Seq(Fulfilments)
            BY DEF DeliveryInv, DeliveryShapes
        <3>2. Fulfilled(o) \in Int
            BY <3>1, FulfilledIs, FulfilledSame
        <3>3. Ordered[o] \in Int /\ Draws[n][o] \in Int
            BY <1>1, NotesDrawOnOrders DEF Notes, OrdersOf
        <3> QED
            BY <3>2, <3>3 DEF Planned
    <2> DEFINE qty == Planned(n, o)
               q == [p EXCEPT !.pc = "make", !.order = o, !.qty = qty]
    <2>2. Works(n, q)
        BY <1>6 DEF LookAt
    <2> HIDE DEF qty
    <2>3. /\ q \in Porters /\ q.pc = "make" /\ q.order = o /\ q.read = p.read /\ q.todo = p.todo
        BY <1>1, <2>1 DEF Porters, qty
    <2> HIDE DEF q
    <2>4. \A f \in DOMAIN fulfilment : fulfilment[f].note = n => fulfilment[f].order # o
        BY <1>1, <1>6, KnownIsMade
    <2> QED
        BY <1>1, <1>2, <1>6, <2>2, <2>3, <2>4, WorksKeeps
<1> QED
    BY <1>3, <1>4, <1>5, <1>6

LEMMA MakeFulfilmentKeeps ==
    ASSUME DeliveryInv, NoMoreThanOrdered, NEW n \in Notes, NEW ok, MakeFulfilment(n, ok)
    PROVE  DeliveryInv' /\ NoMoreThanOrdered'
<1> DEFINE p == porter[n]
           o == p.order
<1>1. /\ p.pc = "make" /\ noteLinks' = noteLinks /\ p \in Porters /\ waiting[n] # <<>>
      /\ o \in OrdersOf(n) /\ o \in DOMAIN Ordered /\ p.todo \subseteq OrdersOf(n)
      /\ p.read # "cancelled" /\ fulfilment \in Seq(Fulfilments)
    BY NotesDrawOnOrders DEF MakeFulfilment, DeliveryInv, DeliveryShapes, Reversed, Notes, OrdersOf
<1>2. waiting[n][1] # "reversal" /\ entry[n].reversal # "done"
    BY <1>1 DEF DeliveryInv, Reversed
<1>3. CASE ~(ok /\ p.qty <= Ordered[o] - Fulfilled(o))
    <2>1. NextOrder(n, o, FALSE) /\ SameFulfilments
        BY <1>3, StillSame DEF MakeFulfilment, DeliveryInv
    <2> QED
        BY <1>1, <2>1, NextOrderKeeps, SameAre DEF DeliveryInv
<1>4. CASE ok /\ p.qty <= Ordered[o] - Fulfilled(o)
    <2> DEFINE made == [order |-> o, note |-> n, qty |-> p.qty, shipped |-> FALSE]
               N == Len(fulfilment) + 1
               q == [p EXCEPT !.pc = "link", !.qty = N]
    <2>1. fulfilment' = Append(fulfilment, made) /\ Works(n, q)
        BY <1>4 DEF MakeFulfilment
    <2>2. made \in Fulfilments /\ p.qty \in Int
        BY <1>1 DEF Fulfilments, Porters
    <2>3. /\ fulfilment' \in Seq(Fulfilments) /\ N \in Int
          /\ DOMAIN fulfilment' = DOMAIN fulfilment \cup {N} /\ N \notin DOMAIN fulfilment
          /\ fulfilment'[N] = made /\ \A f \in DOMAIN fulfilment : fulfilment'[f] = fulfilment[f]
        BY <1>1, <2>1, <2>2
    <2>4. made.note = n /\ made.order = o /\ made.qty = p.qty
        OBVIOUS
    <2> HIDE DEF made, N, q
    <2>5. /\ q \in Porters /\ q.pc = "link" /\ q.order = o /\ q.qty = N /\ q.read = p.read
          /\ q.todo = p.todo
        <3>1. "link" \in {"off", "order", "make", "link", "ship"}
            OBVIOUS
        <3> QED
            BY <1>1, <2>3, <3>1, RecordGoesOn DEF Porters, q
    <2>6. /\ UNCHANGED <<note, entry, waiting>> /\ porter'[n] = q /\ porter' \in [Notes -> Porters]
          /\ \A m \in Notes : m # n => porter'[m] = porter[m]
        BY <2>1, <2>5 DEF Works, DeliveryInv, DeliveryShapes
    <2> HIDE DEF q
    <2>7. DeliveryShapes'
        <3>1. /\ note' \in [Notes -> {"draft", "submitted", "cancelled"}]
              /\ entry' \in [Notes -> [Entries -> {"none", "due", "failed", "done"}]]
              /\ waiting' \in [Notes -> Seq(Entries)]
              /\ porter' \in [Notes -> Porters] /\ fulfilment' \in Seq(Fulfilments)
            BY <2>3, <2>6 DEF DeliveryInv, DeliveryShapes
        <3>2. \A m \in Notes :
                  /\ porter'[m].pc # "off" => waiting'[m] # <<>>
                  /\ porter'[m].todo \subseteq OrdersOf(m)
                  /\ porter'[m].pc \in {"make", "link", "ship"} => porter'[m].order \in OrdersOf(m)
            BY <1>1, <2>5, <2>6 DEF DeliveryInv, DeliveryShapes
        <3>3. \A f \in DOMAIN fulfilment' : fulfilment'[f].order \in OrdersOf(fulfilment'[f].note)
            BY <1>1, <2>3, <2>4 DEF DeliveryInv, DeliveryShapes
        <3> QED
            BY <3>1, <3>2, <3>3 DEF DeliveryShapes
    <2>8. Reversed'
        BY <1>1, <1>2, <2>5, <2>6 DEF DeliveryInv, Reversed
    <2>9. FulfilmentsAreKnown'
        BY <1>1, <2>3, <2>4, <2>5, <2>6, MadeOfOrders DEF DeliveryInv, FulfilmentsAreKnown
    <2>10. \A f \in DOMAIN fulfilment : fulfilment[f].note = n => fulfilment[f].order # o
        BY <1>1 DEF DeliveryInv, MakesFirst
    <2>11. OneOfAnOrder'
        BY <2>3, <2>4, <2>10 DEF DeliveryInv, OneOfAnOrder
    <2>12. MakesFirst' /\ LooksAtAll'
        BY <2>3, <2>4, <2>5, <2>6 DEF DeliveryInv, MakesFirst, LooksAtAll
    <2>13. ReversalIsTold'
        BY <1>2, <2>3, <2>4, <2>6 DEF DeliveryInv, ReversalIsTold
    <2>14. NoMoreThanOrdered'
        <3>1. \A x \in DOMAIN Ordered :
                  FulfilledOf(fulfilment', x)
                    = FulfilledOf(fulfilment, x) + IF o = x THEN p.qty ELSE 0
            BY <1>1, <2>1, <2>2, <2>4, FulfilledGrows
        <3>2. \A x \in DOMAIN Ordered : FulfilledOf(fulfilment, x) \in Int
                                        /\ FulfilledOf(fulfilment, x) <= Ordered[x]
            BY FulfilledIs DEF NoMoreThanOrdered
        <3>3. p.qty <= Ordered[o] - FulfilledOf(fulfilment, o)
            BY <1>4, FulfilledIs
        <3>4. \A x \in DOMAIN Ordered : Ordered[x] \in Int
            BY NotesDrawOnOrders
        <3>5. \A x \in DOMAIN Ordered : FulfilledOf(fulfilment', x) \in Int
                                        /\ FulfilledOf(fulfilment', x) <= Ordered[x]
            BY <1>1, <2>2, <3>1, <3>2, <3>3, <3>4
        <3> QED
            BY <3>5, FulfilledIs DEF NoMoreThanOrdered
    <2> QED
        BY <2>7, <2>8, <2>9, <2>11, <2>12, <2>13, <2>14 DEF DeliveryInv
<1> QED
    BY <1>3, <1>4

LEMMA LinkFulfilmentKeeps ==
    ASSUME DeliveryInv, NEW n \in Notes, LinkFulfilment(n) PROVE DeliveryInv'
<1> DEFINE p == porter[n]
           q == [p EXCEPT !.pc = "ship", !.qty = 0]
<1>1. /\ p.pc = "link" /\ SameFulfilments /\ Works(n, q)
      /\ p \in Porters /\ waiting[n] # <<>> /\ p.todo \subseteq OrdersOf(n)
      /\ p.order \in OrdersOf(n) /\ p.read # "cancelled"
      /\ noteLinks' = noteLinks \cup {[note |-> n, order |-> p.order, of |-> p.qty]}
    BY StillSame DEF LinkFulfilment, DeliveryInv, DeliveryShapes, Reversed
<1>2. waiting[n][1] # "reversal" /\ entry[n].reversal # "done"
    BY <1>1 DEF DeliveryInv, Reversed
<1> HIDE DEF q
<1>3. q \in Porters /\ q.pc = "ship" /\ q.order = p.order /\ q.read = p.read /\ q.todo = p.todo
    <2>1. "ship" \in {"off", "order", "make", "link", "ship"} /\ 0 \in Int
        OBVIOUS
    <2> QED
        BY <1>1, <2>1, RecordGoesOn DEF Porters, q
<1>4. noteLinks \subseteq noteLinks'
      /\ [note |-> n, order |-> p.order, of |-> p.qty] \in noteLinks'
    BY <1>1
<1> QED
    BY <1>1, <1>2, <1>3, <1>4, WorksKeeps

LEMMA ShipFulfilmentKeeps ==
    ASSUME DeliveryInv, NEW n \in Notes, NEW ok \in BOOLEAN, ShipFulfilment(n, ok)
    PROVE  DeliveryInv' /\ SameFulfilments
<1> DEFINE o == porter[n].order
           f == CHOOSE g \in MadeBy(n, o) : TRUE
<1>1. /\ porter[n].pc = "ship" /\ noteLinks' = noteLinks /\ porter[n].read # "cancelled"
      /\ fulfilment \in Seq(Fulfilments)
    BY DEF ShipFulfilment, DeliveryInv, DeliveryShapes, Reversed
<1>2. PICK g : fulfilment' \in {fulfilment, [fulfilment EXCEPT ![g].shipped = TRUE]}
    BY DEF ShipFulfilment
<1>3. SameFulfilments
    <2>1. CASE fulfilment' = fulfilment
        BY <2>1, StillSame DEF DeliveryInv
    <2>2. CASE g \in DOMAIN fulfilment /\ fulfilment' = [fulfilment EXCEPT ![g].shipped = TRUE]
        <3> DEFINE h == [fulfilment[g] EXCEPT !.shipped = TRUE]
        <3>1. fulfilment[g] \in Fulfilments
            BY <1>1, <2>2
        <3>2. /\ h \in Fulfilments /\ h.note = fulfilment[g].note
              /\ h.order = fulfilment[g].order /\ h.qty = fulfilment[g].qty
            BY <3>1 DEF Fulfilments
        <3>3. fulfilment' = [fulfilment EXCEPT ![g] = h]
            BY <2>2
        <3> HIDE DEF h
        <3>4. PICK s \in Seq(Fulfilments) : s = fulfilment
            BY <1>1
        <3>5. /\ [s EXCEPT ![g] = h] \in Seq(Fulfilments) /\ Len([s EXCEPT ![g] = h]) = Len(s)
            <4>1. s \in [1..Len(s) -> Fulfilments] /\ Len(s) \in Nat
                OBVIOUS
            <4>2. [s EXCEPT ![g] = h] \in [1..Len(s) -> Fulfilments]
                BY <3>2, <4>1
            <4> QED
                BY <4>1, <4>2
        <3>6. \A i \in DOMAIN s : [s EXCEPT ![g] = h][i] = IF i = g THEN h ELSE s[i]
            OBVIOUS
        <3>7. /\ fulfilment' \in Seq(Fulfilments) /\ Len(fulfilment') = Len(fulfilment)
              /\ \A i \in DOMAIN fulfilment : fulfilment'[i] = IF i = g THEN h ELSE fulfilment[i]
            BY <3>3, <3>4, <3>5, <3>6
        <3> QED
            BY <3>2, <3>7 DEF SameFulfilments
    <2>3. CASE g \notin DOMAIN fulfilment /\ fulfilment' = [fulfilment EXCEPT ![g].shipped = TRUE]
        <3>1. fulfilment' = fulfilment
            BY <1>1, <2>3
        <3> QED
            BY <3>1, StillSame DEF DeliveryInv
    <2> QED
        BY <1>2, <2>1, <2>2, <2>3
<1>4. \E answer \in BOOLEAN : NextOrder(n, o, answer)
    BY DEF ShipFulfilment, ShipFared
<1> QED
    BY <1>1, <1>3, <1>4, NextOrderKeeps

-----------------------------------------------------------------------------
(* ERPNext, webhooks and restarts *)

\* Rows and states of a note change while its porter and its line stay as they are.
LEMMA OutsideKeeps ==
    ASSUME DeliveryInv, UNCHANGED <<fulfilment, noteLinks>>,
           note' \in [Notes -> {"draft", "submitted", "cancelled"}],
           entry' \in [Notes -> [Entries -> {"none", "due", "failed", "done"}]],
           waiting' \in [Notes -> Seq(Entries)],
           \A n \in Notes :
              /\ note[n] = "cancelled" => note'[n] = "cancelled"
              /\ entry[n].reversal # "none" => entry'[n].reversal # "none"
              /\ entry'[n].reversal # "none" => note'[n] = "cancelled"
              /\ entry'[n].reversal = "done" => entry[n].reversal = "done"
              /\ \A i \in DOMAIN waiting'[n] : waiting'[n][i] = "reversal" =>
                    entry'[n].reversal # "none",
           \/ /\ UNCHANGED porter
              /\ \A n \in Notes : waiting[n] # <<>> =>
                    waiting'[n] # <<>> /\ waiting'[n][1] = waiting[n][1]
           \/ /\ \A n \in Notes : porter[n].pc # "link"
              /\ porter' = [n \in Notes |-> Idle]
    PROVE  DeliveryInv' /\ SameFulfilments
<1>1. SameFulfilments /\ OneOfAnOrder'
    BY StillSame, SameAre DEF DeliveryInv
<1>2. Idle \in Porters /\ Idle.pc = "off" /\ Idle.todo = {}
    BY DEF Idle, Porters
<1>3. DeliveryShapes'
    BY <1>2 DEF DeliveryInv, DeliveryShapes
<1>4. Reversed'
    <2> SUFFICES ASSUME NEW m \in Notes
                 PROVE  /\ porter'[m].pc # "off"
                           /\ (waiting'[m][1] = "reversal" \/ entry'[m].reversal = "done")
                              => porter'[m].read = "cancelled"
                        /\ porter'[m].pc \in {"make", "link", "ship"}
                              => porter'[m].read # "cancelled"
        BY DEF Reversed
    <2>1. CASE porter'[m] = Idle
        BY <1>2, <2>1
    <2>2. CASE porter'[m] = porter[m] /\ (waiting[m] # <<>> => waiting'[m][1] = waiting[m][1])
        BY <2>2 DEF DeliveryInv, DeliveryShapes, Reversed
    <2> QED
        BY <2>1, <2>2
<1>5. FulfilmentsAreKnown'
    <2>1. \A f \in DOMAIN fulfilment : fulfilment[f].note \in Notes
        BY MadeOfOrders DEF DeliveryInv
    <2>2. CASE UNCHANGED porter
        BY <2>2 DEF DeliveryInv, FulfilmentsAreKnown
    <2>3. CASE \A m \in Notes : porter[m].pc # "link"
        BY <2>1, <2>3 DEF DeliveryInv, FulfilmentsAreKnown
    <2> QED
        BY <2>2, <2>3
<1>6. MakesFirst' /\ LooksAtAll'
    BY <1>2 DEF DeliveryInv, MakesFirst, LooksAtAll
<1>7. ReversalIsTold'
    BY DEF DeliveryInv, ReversalIsTold
<1> QED
    BY <1>1, <1>3, <1>4, <1>5, <1>6, <1>7 DEF DeliveryInv

LEMMA ErpnextKeeps ==
    ASSUME DeliveryInv, NEW n \in Notes, Deliver(n) \/ TakeBack(n)
    PROVE  DeliveryInv' /\ SameFulfilments
<1>1. /\ note \in [Notes -> {"draft", "submitted", "cancelled"}]
      /\ entry \in [Notes -> [Entries -> {"none", "due", "failed", "done"}]]
      /\ entry[n] \in [Entries -> {"none", "due", "failed", "done"}]
      /\ waiting \in [Notes -> Seq(Entries)]
      /\ UNCHANGED <<waiting, porter, fulfilment, noteLinks>>
    BY DEF DeliveryInv, DeliveryShapes, Deliver, TakeBack
<1>2. PICK st, row : /\ note' = [note EXCEPT ![n] = st] /\ entry' = [entry EXCEPT ![n] = row]
                     /\ row \in [Entries -> {"none", "due", "failed", "done"}]
                     /\ \/ /\ note[n] = "draft" /\ st = "submitted"
                           /\ row.reversal = entry[n].reversal
                        \/ st = "cancelled" /\ row.reversal = "due"
    <2>1. CASE Deliver(n)
        <3> DEFINE two == IF Cardinality(OrdersOf(n)) > 1 THEN "due" ELSE "none"
                   row == [entry[n] EXCEPT !.first = "due", !.second = two]
        <3>1. two \in {"none", "due"}
            OBVIOUS
        <3>2. note' = [note EXCEPT ![n] = "submitted"] /\ note[n] = "draft"
              /\ entry' = [entry EXCEPT ![n].first = "due", ![n].second = two]
            BY <2>1 DEF Deliver
        <3> HIDE DEF two
        <3>3. entry' = [entry EXCEPT ![n] = row]
            BY <1>1, <3>2 DEF Entries
        <3>4. row \in [Entries -> {"none", "due", "failed", "done"}]
              /\ row.reversal = entry[n].reversal
            BY <1>1, <3>1 DEF Entries
        <3> QED
            BY <3>2, <3>3, <3>4
    <2>2. CASE TakeBack(n)
        <3> DEFINE row == [entry[n] EXCEPT !.reversal = "due"]
        <3>1. note' = [note EXCEPT ![n] = "cancelled"] /\ entry' = [entry EXCEPT ![n] = row]
            BY <1>1, <2>2 DEF TakeBack
        <3>2. row \in [Entries -> {"none", "due", "failed", "done"}] /\ row.reversal = "due"
            BY <1>1 DEF Entries
        <3> QED
            BY <3>1, <3>2
    <2> QED
        BY <2>1, <2>2
<1>3. /\ note'[n] = st /\ entry'[n] = row /\ st \in {"submitted", "cancelled"}
      /\ \A m \in Notes : m # n => note'[m] = note[m] /\ entry'[m] = entry[m]
      /\ note' \in [Notes -> {"draft", "submitted", "cancelled"}]
      /\ entry' \in [Notes -> [Entries -> {"none", "due", "failed", "done"}]]
    BY <1>1, <1>2
<1>4. \A m \in Notes :
          /\ note[m] = "cancelled" => note'[m] = "cancelled"
          /\ entry[m].reversal # "none" => entry'[m].reversal # "none"
          /\ entry'[m].reversal # "none" => note'[m] = "cancelled"
          /\ entry'[m].reversal = "done" => entry[m].reversal = "done"
          /\ \A i \in DOMAIN waiting'[m] : waiting'[m][i] = "reversal" =>
                entry'[m].reversal # "none"
    BY <1>1, <1>2, <1>3 DEF DeliveryInv, Reversed
<1> QED
    BY <1>1, <1>3, <1>4, OutsideKeeps

LEMMA ArriveKeeps ==
    ASSUME DeliveryInv, NEW n \in Notes, NEW e \in Entries, Arrive(n, e)
    PROVE  DeliveryInv' /\ SameFulfilments
<1>1. /\ waiting \in [Notes -> Seq(Entries)] /\ waiting[n] \in Seq(Entries)
      /\ note \in [Notes -> {"draft", "submitted", "cancelled"}]
      /\ entry \in [Notes -> [Entries -> {"none", "due", "failed", "done"}]]
      /\ UNCHANGED <<note, entry, porter, fulfilment, noteLinks>> /\ entry[n][e] # "none"
    BY DEF DeliveryInv, DeliveryShapes, Arrive
<1> DEFINE line == Append(waiting[n], e)
<1>2. /\ line \in Seq(Entries) /\ line # <<>> /\ (waiting[n] # <<>> => line[1] = waiting[n][1])
      /\ \A i \in DOMAIN line : (i \in DOMAIN waiting[n] /\ line[i] = waiting[n][i]) \/ line[i] = e
    <2>1. PICK s \in Seq(Entries) : s = waiting[n]
        BY <1>1
    <2>2. /\ Append(s, e) \in Seq(Entries) /\ Len(Append(s, e)) = Len(s) + 1
          /\ \A i \in 1..Len(s) : Append(s, e)[i] = s[i]
          /\ Append(s, e)[Len(s) + 1] = e
        OBVIOUS
    <2>3. Len(s) \in Nat /\ DOMAIN s = 1..Len(s) /\ DOMAIN Append(s, e) = 1..(Len(s) + 1)
          /\ (s # <<>> => Len(s) > 0) /\ Append(s, e) # <<>>
        BY <2>2
    <2> DEFINE a == Append(s, e)
    <2> HIDE DEF a
    <2>4. /\ a \in Seq(Entries) /\ a # <<>> /\ (s # <<>> => a[1] = s[1])
          /\ \A i \in DOMAIN a : (i \in DOMAIN s /\ a[i] = s[i]) \/ a[i] = e
        <3>1. /\ a \in Seq(Entries) /\ a # <<>> /\ DOMAIN a = 1..(Len(s) + 1)
              /\ \A i \in 1..Len(s) : a[i] = s[i]
              /\ a[Len(s) + 1] = e
            BY <2>2, <2>3 DEF a
        <3>2. \A i \in 1..(Len(s) + 1) : i \in 1..Len(s) \/ i = Len(s) + 1
            BY <2>3
        <3>3. s # <<>> => 1 \in 1..Len(s)
            BY <2>3
        <3> QED
            BY <2>3, <3>1, <3>2, <3>3
    <2> QED
        BY <2>1, <2>4 DEF a
<1>3. waiting' = [waiting EXCEPT ![n] = line]
    BY <1>1 DEF Arrive
<1> HIDE DEF line
<1>4. /\ waiting'[n] = line /\ waiting' \in [Notes -> Seq(Entries)]
      /\ \A m \in Notes : m # n => waiting'[m] = waiting[m]
    BY <1>1, <1>2, <1>3
<1>5. \A m \in Notes : \A i \in DOMAIN waiting'[m] :
          waiting'[m][i] = "reversal" => entry[m].reversal # "none"
    <2> SUFFICES ASSUME NEW m \in Notes, NEW i \in DOMAIN waiting'[m],
                        waiting'[m][i] = "reversal"
                 PROVE  entry[m].reversal # "none"
        OBVIOUS
    <2>1. CASE m # n
        BY <1>4, <2>1 DEF DeliveryInv, Reversed
    <2>2. CASE m = n /\ e # "reversal"
        BY <1>2, <1>4, <2>2 DEF DeliveryInv, Reversed
    <2>3. CASE m = n /\ e = "reversal"
        BY <1>1, <2>3
    <2> QED
        BY <2>1, <2>2, <2>3
<1>6. \A m \in Notes : waiting[m] # <<>> => waiting'[m] # <<>> /\ waiting'[m][1] = waiting[m][1]
    BY <1>2, <1>4
<1> QED
    BY <1>1, <1>4, <1>5, <1>6, OutsideKeeps DEF DeliveryInv, Reversed

LEMMA DeliveryCrashKeeps ==
    ASSUME DeliveryInv, DeliveryCrash PROVE DeliveryInv' /\ SameFulfilments
<1>1. /\ waiting' = [n \in Notes |-> <<>>] /\ porter' = [n \in Notes |-> Idle]
      /\ \A n \in Notes : porter[n].pc # "link"
      /\ UNCHANGED <<note, entry, fulfilment, noteLinks>>
      /\ note \in [Notes -> {"draft", "submitted", "cancelled"}]
      /\ entry \in [Notes -> [Entries -> {"none", "due", "failed", "done"}]]
    BY DEF DeliveryInv, DeliveryShapes, DeliveryCrash
<1>2. waiting' \in [Notes -> Seq(Entries)] /\ \A n \in Notes : DOMAIN waiting'[n] = {}
    BY <1>1
<1> QED
    BY <1>1, <1>2, OutsideKeeps DEF DeliveryInv, Reversed

-----------------------------------------------------------------------------
(* The theorems *)

LEMMA DeliveryInitHolds == DeliveryInit => DeliveryInv /\ NoMoreThanOrdered
<1> SUFFICES ASSUME DeliveryInit PROVE DeliveryInv /\ NoMoreThanOrdered
    OBVIOUS
<1>1. Idle \in Porters /\ Idle.pc = "off" /\ Idle.todo = {}
    BY DEF Idle, Porters
<1>2. /\ \A n \in Notes : porter[n] = Idle /\ DOMAIN waiting[n] = {}
      /\ \A n \in Notes : \A e \in Entries : entry[n][e] = "none"
      /\ fulfilment = <<>> /\ DOMAIN fulfilment = {}
    BY DEF DeliveryInit
<1>3. DeliveryShapes
    <2>1. waiting \in [Notes -> Seq(Entries)] /\ fulfilment \in Seq(Fulfilments)
        BY DEF DeliveryInit
    <2> QED
        BY <1>1, <1>2, <2>1 DEF DeliveryShapes, DeliveryInit
<1>4. Reversed /\ ReversalIsTold
    BY <1>1, <1>2 DEF Reversed, ReversalIsTold, Entries
<1>5. FulfilmentsAreKnown /\ MakesFirst /\ LooksAtAll /\ OneOfAnOrder
    BY <1>2 DEF FulfilmentsAreKnown, MakesFirst, LooksAtAll, OneOfAnOrder
<1>6. NoMoreThanOrdered
    BY <1>2, FulfilledIs, FulfilledNone, NotesDrawOnOrders DEF NoMoreThanOrdered
<1> QED
    BY <1>3, <1>4, <1>5, <1>6 DEF DeliveryInv

LEMMA DeliveryNextHolds ==
    ASSUME DeliveryInv, NoMoreThanOrdered, [DeliveryNext]_deliveryVars
    PROVE  DeliveryInv' /\ NoMoreThanOrdered'
<1>1. ASSUME NEW n \in Notes, Deliver(n) \/ TakeBack(n) PROVE DeliveryInv' /\ NoMoreThanOrdered'
    BY <1>1, ErpnextKeeps, SameAre DEF DeliveryInv
<1>2. ASSUME NEW n \in Notes, NEW e \in Entries, Arrive(n, e)
      PROVE  DeliveryInv' /\ NoMoreThanOrdered'
    BY <1>2, ArriveKeeps, SameAre DEF DeliveryInv
<1>3. ASSUME NEW n \in Notes, NEW o \in OrdersOf(n), LookAt(n, o)
      PROVE  DeliveryInv' /\ NoMoreThanOrdered'
    <2>1. SameFulfilments
        BY <1>3, StillSame DEF LookAt, DeliveryInv
    <2> QED
        BY <1>3, <2>1, LookAtKeeps, SameAre DEF DeliveryInv
<1>4. ASSUME NEW n \in Notes, LinkFulfilment(n) PROVE DeliveryInv' /\ NoMoreThanOrdered'
    <2>1. SameFulfilments
        BY <1>4, StillSame DEF LinkFulfilment, DeliveryInv
    <2> QED
        BY <1>4, <2>1, LinkFulfilmentKeeps, SameAre DEF DeliveryInv
<1>5. ASSUME NEW n \in Notes, NEW ok \in Fine, OpenNote(n, ok)
      PROVE  DeliveryInv' /\ NoMoreThanOrdered'
    <2>1. SameFulfilments
        BY <1>5, StillSame DEF OpenNote, DeliveryInv
    <2> QED
        BY <1>5, <2>1, OpenNoteKeeps, SameAre DEF DeliveryInv
<1>6. ASSUME NEW n \in Notes, NEW ok \in Fine, MakeFulfilment(n, ok)
      PROVE  DeliveryInv' /\ NoMoreThanOrdered'
    BY <1>6, MakeFulfilmentKeeps
<1>7. ASSUME NEW n \in Notes, NEW ok \in Fine, ShipFulfilment(n, ok)
      PROVE  DeliveryInv' /\ NoMoreThanOrdered'
    <2>1. ok \in BOOLEAN
        BY <1>7 DEF Fine
    <2> QED
        BY <1>7, <2>1, ShipFulfilmentKeeps, SameAre DEF DeliveryInv
<1>8. CASE DeliveryCrash
    BY <1>8, DeliveryCrashKeeps, SameAre DEF DeliveryInv
<1>9. CASE UNCHANGED deliveryVars
    <2>1. DeliveryInv' /\ SameFulfilments
        BY <1>9, OutsideKeeps DEF deliveryVars, DeliveryInv, DeliveryShapes, Reversed
    <2> QED
        BY <2>1, SameAre DEF DeliveryInv
<1> QED
    BY <1>1, <1>2, <1>3, <1>4, <1>5, <1>6, <1>7, <1>8, <1>9 DEF DeliveryNext, PorterStep

LEMMA DeliveryInvHolds == DeliverySpec => [](DeliveryInv /\ NoMoreThanOrdered)
<1>1. DeliveryInit => DeliveryInv /\ NoMoreThanOrdered
    BY DeliveryInitHolds
<1>2. (DeliveryInv /\ NoMoreThanOrdered) /\ [DeliveryNext]_deliveryVars
         => (DeliveryInv /\ NoMoreThanOrdered)'
    BY DeliveryNextHolds
<1> QED
    BY <1>1, <1>2, PTL DEF DeliverySpec

\* For any notes, orders, quantities, refusals and restarts, and however the entries of a
\* note arrive: applyDeliveryNote makes one fulfilment of an order for a note at most, and
\* the notes of an order together fulfil no more of it than was ordered.
THEOREM FulfilledOnceHolds == DeliverySpec => []FulfilledOnce
<1>1. DeliveryInv /\ NoMoreThanOrdered => FulfilledOnce
    BY DEF DeliveryInv, OneOfAnOrder, NoMoreThanOrdered, FulfilledOnce
<1> QED
    BY <1>1, DeliveryInvHolds, PTL

\* An entry that says a note was cancelled is recorded as handled only where the store
\* fulfilled nothing from that note, and nothing is fulfilled from it later.
THEOREM ReversalIsToldHolds == DeliverySpec => []ReversalIsTold
<1>1. DeliveryInv => ReversalIsTold
    BY DEF DeliveryInv
<1> QED
    BY <1>1, DeliveryInvHolds, PTL

-----------------------------------------------------------------------------
(* Deliveries: what the link table says, and the rest of the types *)

\* Fulfilment f of the list fs is the one note n made of order o.
IsMadeBy(fs, f, n, o) == f \in DOMAIN fs /\ fs[f].note = n /\ fs[f].order = o

\* A link names the fulfilment its note made of its order.
LinksAreTrue == \A l \in noteLinks : IsMadeBy(fulfilment, l.of, l.note, l.order)

\* What a porter is about to make is something, and what it is about to link is its own.
MakesTrueLinks ==
    /\ \A f \in DOMAIN fulfilment : fulfilment[f].qty > 0
    /\ \A n \in Notes :
          /\ porter[n].pc = "make" => porter[n].qty > 0
          /\ porter[n].pc = "link" => IsMadeBy(fulfilment, porter[n].qty, n, porter[n].order)

DeliveryFaultsCounted == deliveryFaults \in 0..MaxDeliveryFaults

LinkedTruly == LinksAreTrue /\ MakesTrueLinks

LEMMA SameAreMadeBy ==
    ASSUME DeliveryShapes, SameFulfilments
    PROVE  /\ \A f, n, o : IsMadeBy(fulfilment, f, n, o) <=> IsMadeBy(fulfilment', f, n, o)
           /\ (\A f \in DOMAIN fulfilment : fulfilment[f].qty > 0)
                 => \A f \in DOMAIN fulfilment' : fulfilment'[f].qty > 0
BY SameAre DEF SameFulfilments, IsMadeBy

\* The porter of a note goes on to anything but a link.
LEMMA PorterGoesOn ==
    ASSUME DeliveryInv, LinkedTruly, SameFulfilments, noteLinks' = noteLinks,
           NEW n \in Notes, \A m \in Notes : m # n => porter'[m] = porter[m],
           porter'[n].pc # "link", porter'[n].pc = "make" => porter'[n].qty > 0
    PROVE  LinkedTruly'
<1>1. /\ \A f, m, o : IsMadeBy(fulfilment, f, m, o) <=> IsMadeBy(fulfilment', f, m, o)
      /\ \A f \in DOMAIN fulfilment' : fulfilment'[f].qty > 0
    BY SameAreMadeBy DEF DeliveryInv, LinkedTruly, MakesTrueLinks
<1>2. LinksAreTrue'
    BY <1>1 DEF LinkedTruly, LinksAreTrue
<1>3. MakesTrueLinks'
    BY <1>1 DEF LinkedTruly, MakesTrueLinks
<1> QED
    BY <1>2, <1>3 DEF LinkedTruly

LEMMA LeavingPorter ==
    ASSUME DeliveryInv, NEW n \in Notes, NEW st, Leaves(n, st)
    PROVE  porter'[n].pc = "off" /\ \A m \in Notes : m # n => porter'[m] = porter[m]
BY IdleIsOff DEF Leaves, DeliveryInv, DeliveryShapes

LEMMA WorkingPorter ==
    ASSUME DeliveryInv, NEW n \in Notes, NEW p, Works(n, p)
    PROVE  porter'[n] = p /\ \A m \in Notes : m # n => porter'[m] = porter[m]
BY DEF Works, DeliveryInv, DeliveryShapes

LEMMA NextOrderGoesOn ==
    ASSUME DeliveryInv, NEW n \in Notes, NEW o, NEW ok, NextOrder(n, o, ok)
    PROVE  /\ porter'[n].pc \in {"off", "order"}
           /\ \A m \in Notes : m # n => porter'[m] = porter[m]
<1>1. CASE porter[n].todo = {o}
    <2>1. \E st : Leaves(n, st)
        BY <1>1 DEF NextOrder
    <2> QED
        BY <2>1, LeavingPorter
<1>2. CASE porter[n].todo # {o}
    <2>1. PICK read, todo, bad :
              Works(n, [Idle EXCEPT !.pc = "order", !.read = read, !.todo = todo, !.bad = bad])
        BY <1>2 DEF NextOrder
    <2>2. [Idle EXCEPT !.pc = "order", !.read = read, !.todo = todo, !.bad = bad].pc = "order"
        BY DEF Idle
    <2> QED
        BY <2>1, <2>2, WorkingPorter
<1> QED
    BY <1>1, <1>2

LEMMA LookAtLinksTruly ==
    ASSUME DeliveryInv, LinkedTruly, NEW n \in Notes, NEW o \in OrdersOf(n), LookAt(n, o)
    PROVE  LinkedTruly'
<1>1. PICK p : p = porter[n]
    OBVIOUS
<1>2. p \in Porters /\ noteLinks' = noteLinks /\ SameFulfilments
    BY <1>1, StillSame DEF LookAt, DeliveryInv, DeliveryShapes
<1>3. \/ NextOrder(n, o, TRUE) \/ NextOrder(n, o, FALSE)
      \/ Works(n, [p EXCEPT !.pc = "ship", !.order = o])
      \/ Works(n, [p EXCEPT !.pc = "make", !.order = o, !.qty = Planned(n, o)])
         /\ ~(Planned(n, o) <= 0)
    BY <1>1 DEF LookAt, TellsAPerson
<1>4. CASE NextOrder(n, o, TRUE) \/ NextOrder(n, o, FALSE)
    BY <1>2, <1>4, NextOrderGoesOn, PorterGoesOn
<1>5. CASE Works(n, [p EXCEPT !.pc = "ship", !.order = o])
    <2>1. [p EXCEPT !.pc = "ship", !.order = o].pc = "ship"
        BY <1>2 DEF Porters
    <2> QED
        BY <1>2, <1>5, <2>1, WorkingPorter, PorterGoesOn
<1>6. CASE Works(n, [p EXCEPT !.pc = "make", !.order = o, !.qty = Planned(n, o)])
           /\ ~(Planned(n, o) <= 0)
    <2>1. PICK q : q = Planned(n, o)
        OBVIOUS
    <2>2. q \in Int
        <3>1. fulfilment \in Seq(Fulfilments)
            BY DEF DeliveryInv, DeliveryShapes
        <3>2. o \in DOMAIN Ordered
            BY NotesDrawOnOrders DEF Notes, OrdersOf
        <3>3. Fulfilled(o) \in Int
            BY <3>1, FulfilledIs, FulfilledSame
        <3>4. Ordered[o] \in Int /\ Draws[n][o] \in Int
            BY <3>2, NotesDrawOnOrders DEF Notes, OrdersOf
        <3> QED
            BY <2>1, <3>3, <3>4 DEF Planned
    <2>3. q > 0
        BY <1>6, <2>1, <2>2
    <2>4. PICK r : r = [p EXCEPT !.pc = "make", !.order = o, !.qty = q]
        OBVIOUS
    <2>5. r.pc = "make" /\ r.qty = q
        BY <1>2, <2>4 DEF Porters
    <2>6. Works(n, r)
        BY <1>6, <2>1, <2>4
    <2> QED
        BY <1>2, <2>3, <2>5, <2>6, WorkingPorter, PorterGoesOn
<1> QED
    BY <1>3, <1>4, <1>5, <1>6

LEMMA MakeLinksTruly ==
    ASSUME DeliveryInv, LinkedTruly, NEW n \in Notes, NEW ok, MakeFulfilment(n, ok)
    PROVE  LinkedTruly'
<1>1. PICK p : p = porter[n]
    OBVIOUS
<1>2. /\ p \in Porters /\ noteLinks' = noteLinks /\ fulfilment \in Seq(Fulfilments)
      /\ p.pc = "make" /\ p.qty > 0
    BY <1>1 DEF MakeFulfilment, DeliveryInv, DeliveryShapes, LinkedTruly, MakesTrueLinks
<1>3. CASE NextOrder(n, p.order, FALSE) /\ UNCHANGED fulfilment
    <2>1. SameFulfilments
        BY <1>3, StillSame DEF DeliveryInv
    <2> QED
        BY <1>2, <1>3, <2>1, NextOrderGoesOn, PorterGoesOn
<1>4. CASE /\ fulfilment' = Append(fulfilment,
                  [order |-> p.order, note |-> n, qty |-> p.qty, shipped |-> FALSE])
           /\ Works(n, [p EXCEPT !.pc = "link", !.qty = Len(fulfilment) + 1])
    <2>1. PICK d : d = [order |-> p.order, note |-> n, qty |-> p.qty, shipped |-> FALSE]
        OBVIOUS
    <2>2. PICK k : k = Len(fulfilment) + 1
        OBVIOUS
    <2>3. /\ DOMAIN fulfilment' = DOMAIN fulfilment \cup {k} /\ fulfilment'[k] = d
          /\ \A f \in DOMAIN fulfilment : fulfilment'[f] = fulfilment[f]
        BY <1>2, <1>4, <2>1, <2>2
    <2>4. PICK r : r = [p EXCEPT !.pc = "link", !.qty = k]
        OBVIOUS
    <2>5. r.pc = "link" /\ r.qty = k /\ r.order = p.order
        BY <1>2, <2>4 DEF Porters
    <2>6. porter'[n] = r /\ \A m \in Notes : m # n => porter'[m] = porter[m]
        BY <1>4, <2>2, <2>4, WorkingPorter
    <2>7. d.note = n /\ d.order = p.order /\ d.qty = p.qty
        BY <2>1
    <2>8. LinksAreTrue'
        BY <1>2, <2>3 DEF LinkedTruly, LinksAreTrue, IsMadeBy
    <2>9. MakesTrueLinks'
        BY <1>2, <2>3, <2>5, <2>6, <2>7 DEF LinkedTruly, MakesTrueLinks, IsMadeBy
    <2> QED
        BY <2>8, <2>9 DEF LinkedTruly
<1> QED
    BY <1>1, <1>3, <1>4 DEF MakeFulfilment

LEMMA LinkLinksTruly ==
    ASSUME DeliveryInv, LinkedTruly, NEW n \in Notes, LinkFulfilment(n)
    PROVE  LinkedTruly'
<1>1. PICK p : p = porter[n]
    OBVIOUS
<1>2. /\ p \in Porters /\ UNCHANGED fulfilment /\ p.pc = "link"
      /\ IsMadeBy(fulfilment, p.qty, n, p.order)
      /\ noteLinks' = noteLinks \cup {[note |-> n, order |-> p.order, of |-> p.qty]}
    BY <1>1 DEF LinkFulfilment, DeliveryInv, DeliveryShapes, LinkedTruly, MakesTrueLinks
<1>3. PICK r : r = [p EXCEPT !.pc = "ship", !.qty = 0]
    OBVIOUS
<1>4. r.pc = "ship" /\ Works(n, r)
    BY <1>1, <1>2, <1>3 DEF LinkFulfilment, Porters
<1>5. porter'[n] = r /\ \A m \in Notes : m # n => porter'[m] = porter[m]
    BY <1>4, WorkingPorter
<1>6. LinksAreTrue'
    BY <1>2 DEF LinkedTruly, LinksAreTrue
<1>7. MakesTrueLinks'
    BY <1>2, <1>4, <1>5 DEF LinkedTruly, MakesTrueLinks
<1> QED
    BY <1>6, <1>7 DEF LinkedTruly

LEMMA LinkedTrulyStep ==
    ASSUME DeliveryInv, NoMoreThanOrdered, LinkedTruly, [DeliveryNext]_deliveryVars
    PROVE  LinkedTruly'
<1>1. ASSUME UNCHANGED <<porter, fulfilment, noteLinks>> PROVE LinkedTruly'
    BY <1>1 DEF LinkedTruly, LinksAreTrue, MakesTrueLinks
<1>2. ASSUME NEW n \in Notes, Deliver(n) \/ TakeBack(n) \/ \E e \in Entries : Arrive(n, e)
      PROVE  LinkedTruly'
    BY <1>1, <1>2 DEF Deliver, TakeBack, Arrive
<1>3. ASSUME NEW n \in Notes, NEW o \in OrdersOf(n), LookAt(n, o) PROVE LinkedTruly'
    BY <1>3, LookAtLinksTruly
<1>4. ASSUME NEW n \in Notes, LinkFulfilment(n) PROVE LinkedTruly'
    BY <1>4, LinkLinksTruly
<1>5. ASSUME NEW n \in Notes, NEW ok \in Fine, OpenNote(n, ok) PROVE LinkedTruly'
    <2>1. UNCHANGED <<fulfilment, noteLinks>> /\ SameFulfilments
        BY <1>5, StillSame DEF OpenNote, DeliveryInv
    <2>2. CASE Leaves(n, "failed")
        BY <2>1, <2>2, LeavingPorter, PorterGoesOn
    <2>3. ASSUME NEW read, NEW todo,
                 Works(n, [Idle EXCEPT !.pc = "order", !.todo = todo, !.read = read])
          PROVE  LinkedTruly'
        <3>1. [Idle EXCEPT !.pc = "order", !.todo = todo, !.read = read].pc = "order"
            BY DEF Idle
        <3> QED
            BY <2>1, <2>3, <3>1, WorkingPorter, PorterGoesOn
    <2> QED
        BY <1>5, <2>2, <2>3 DEF OpenNote
<1>6. ASSUME NEW n \in Notes, NEW ok \in Fine, MakeFulfilment(n, ok) PROVE LinkedTruly'
    BY <1>6, MakeLinksTruly
<1>7. ASSUME NEW n \in Notes, NEW ok \in Fine, ShipFulfilment(n, ok) PROVE LinkedTruly'
    <2>1. ok \in BOOLEAN
        BY <1>7 DEF Fine
    <2>2. SameFulfilments
        BY <1>7, <2>1, ShipFulfilmentKeeps
    <2>3. noteLinks' = noteLinks /\ \E o, answer : NextOrder(n, o, answer)
        BY <1>7 DEF ShipFulfilment
    <2> QED
        BY <2>2, <2>3, NextOrderGoesOn, PorterGoesOn
<1>8. CASE DeliveryCrash
    <2>1. UNCHANGED <<fulfilment, noteLinks>> /\ \A n \in Notes : porter'[n].pc = "off"
        BY <1>8, IdleIsOff DEF DeliveryCrash
    <2> QED
        BY <2>1 DEF LinkedTruly, LinksAreTrue, MakesTrueLinks
<1>9. CASE UNCHANGED deliveryVars
    BY <1>1, <1>9 DEF deliveryVars
<1> QED
    BY <1>2, <1>3, <1>4, <1>5, <1>6, <1>7, <1>8, <1>9 DEF DeliveryNext, PorterStep

LEMMA LinkedTrulyHolds == DeliverySpec => []LinkedTruly
<1>1. DeliveryInit => LinkedTruly
    BY IdleIsOff DEF DeliveryInit, LinkedTruly, LinksAreTrue, MakesTrueLinks
<1>2. DeliveryInv /\ NoMoreThanOrdered /\ LinkedTruly /\ [DeliveryNext]_deliveryVars
          => LinkedTruly'
    BY LinkedTrulyStep
<1> QED
    BY <1>1, <1>2, DeliveryInvHolds, PTL DEF DeliverySpec

\* However the entries of a note arrive, and whatever was refused or restarted on the way,
\* the link table is right: a link names the fulfilment the note made of that order, and
\* no other fulfilment is of that note and order (the record applyDeliveryNote makes
\* before it ships, and by which a retry finds what to ship).
THEOREM LinksNameTheirOwn ==
    DeliverySpec => [](\A l \in noteLinks : \A f \in DOMAIN fulfilment :
        IsMadeBy(fulfilment, f, l.note, l.order) <=> f = l.of)
<1>1. DeliveryInv /\ LinkedTruly =>
          \A l \in noteLinks : \A f \in DOMAIN fulfilment :
              IsMadeBy(fulfilment, f, l.note, l.order) <=> f = l.of
    BY DEF DeliveryInv, OneOfAnOrder, LinkedTruly, LinksAreTrue, IsMadeBy
<1> QED
    BY <1>1, LinkedTrulyHolds, DeliveryInvHolds, PTL

LEMMA FaresCounts ==
    ASSUME DeliveryFaultsCounted, NEW ok, Fares(ok) PROVE DeliveryFaultsCounted'
<1>1. deliveryFaults \in 0..MaxDeliveryFaults /\ MaxDeliveryFaults \in Nat
    BY NotesDrawOnOrders DEF DeliveryFaultsCounted
<1>2. deliveryFaults' = deliveryFaults
      \/ (deliveryFaults' = deliveryFaults + 1 /\ deliveryFaults < MaxDeliveryFaults)
    BY DEF Fares, Fine
<1> QED
    BY <1>1, <1>2 DEF DeliveryFaultsCounted

LEMMA DeliveryFaultsStayCounted ==
    ASSUME DeliveryFaultsCounted, [DeliveryNext]_deliveryVars PROVE DeliveryFaultsCounted'
<1>1. ASSUME UNCHANGED deliveryFaults PROVE DeliveryFaultsCounted'
    BY <1>1 DEF DeliveryFaultsCounted
<1>2. ASSUME NEW n \in Notes, Deliver(n) \/ TakeBack(n) PROVE DeliveryFaultsCounted'
    BY <1>1, <1>2 DEF Deliver, TakeBack
<1>3. ASSUME NEW n \in Notes, PorterStep(n) PROVE DeliveryFaultsCounted'
    BY <1>1, <1>3, FaresCounts
    DEF PorterStep, Arrive, LookAt, LinkFulfilment, OpenNote, MakeFulfilment, ShipFulfilment
<1>4. CASE DeliveryCrash
    BY <1>4, NotesDrawOnOrders DEF DeliveryCrash, DeliveryFaultsCounted
<1> QED
    BY <1>1, <1>2, <1>3, <1>4 DEF DeliveryNext, deliveryVars

LEMMA DeliveryIsTyped == DeliverySpec => []DeliveryTypes
<1>1. DeliveryInit => DeliveryFaultsCounted
    BY NotesDrawOnOrders DEF DeliveryInit, DeliveryFaultsCounted
<1>2. DeliveryFaultsCounted /\ [DeliveryNext]_deliveryVars => DeliveryFaultsCounted'
    BY DeliveryFaultsStayCounted
<1>3. ASSUME DeliveryInv, LinkedTruly, DeliveryFaultsCounted PROVE DeliveryTypes
    <2>1. \A n \in Notes : porter[n].pc \in {"off", "order", "make", "link", "ship"}
        BY <1>3 DEF DeliveryInv, DeliveryShapes, Porters
    <2>2. \A f \in DOMAIN fulfilment : fulfilment[f].order \in DOMAIN Ordered
        <3>1. \A f \in DOMAIN fulfilment : fulfilment[f] \in Fulfilments
            BY <1>3 DEF DeliveryInv, DeliveryShapes
        <3> QED
            BY <3>1 DEF Fulfilments
    <2>3. \A n \in Notes : waiting[n] \in Seq(Entries) /\ (porter[n].pc # "off" => waiting[n] # <<>>)
        BY <1>3 DEF DeliveryInv, DeliveryShapes
    <2> QED
        BY <1>3, <2>1, <2>2, <2>3
        DEF DeliveryInv, DeliveryShapes, LinkedTruly, LinksAreTrue, MakesTrueLinks, IsMadeBy,
            DeliveryFaultsCounted, DeliveryTypes
<1>4. DeliveryInv /\ LinkedTruly /\ DeliveryFaultsCounted => DeliveryTypes
    BY <1>3
<1> QED
    BY <1>1, <1>2, <1>4, LinkedTrulyHolds, DeliveryInvHolds, PTL DEF DeliverySpec
================================================================================
