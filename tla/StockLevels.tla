------------------------------- MODULE StockLevels -------------------------------
(***************************************************************************)
(* One Item at the store's warehouse: its sellable level and its price,    *)
(* which ERPNext owns and the store copies.  Orders of one unit are        *)
(* reserved in the store, then promised by their Sales Order in ERPNext,   *)
(* then delivered and fulfilled.  A refresh reads the Bin, the open Sales  *)
(* Orders and the store's reservations in separate calls and writes what   *)
(* they add up to, then reads and writes the selling price.  The hourly    *)
(* pass, the pull and the console's button run all of it, a stock webhook  *)
(* the first half (taken here as a whole one).                             *)
(*                                                                         *)
(* The switches for stock and prices are on, the warehouse, the location   *)
(* and the price list are set, and the Item's link allows a pull.          *)
(***************************************************************************)
EXTENDS Integers, FiniteSets

CONSTANTS
    StoreOrders,    \* orders of the store, one unit each
    Refreshers,     \* refreshes that can be under way at once
    Rates,          \* the selling prices ERPNext gives the Item
    Safety,         \* units held back
    MaxStock,       \* bound: units on hand
    MaxStockMoves,  \* bound: receipts and issues
    MaxStockFaults  \* bound: reads that are not answered

ASSUME StockIsCounted ==
    /\ IsFiniteSet(StoreOrders) /\ Rates \subseteq Int /\ Safety \in Nat
    /\ MaxStock \in Nat \ {0} /\ MaxStockMoves \in Nat /\ MaxStockFaults \in Nat

VARIABLES
    onHand,     \* the Bin's actual_qty
    salesOrder, \* per order: its Sales Order
    holds,      \* orders whose unit the store still reserves
    variant,    \* does the store have the Item's variant yet?
    level,      \* the store's stocked_quantity
    refresher,  \* per refresh: where it is and what it read
    itemPrice,  \* ERPNext's selling price of the Item, 0: none
    priceNews,  \* Item Price webhooks not handled yet: the rate each carries, 0: removed
    price,      \* the variant's price, 0: none
    stockMoves, stockFaults

stockVars == <<onHand, salesOrder, holds, variant, level, refresher, itemPrice, priceNews,
               price, stockMoves, stockFaults>>
stockOfErp == <<onHand, salesOrder, itemPrice, stockMoves>>
stockOfStore == <<holds, variant, level, price>>

Amounts == {0} \cup Rates
Resting == [pc |-> "off", qty |-> 0, open |-> {}]
Reading(pc, qty, open) == [pc |-> pc, qty |-> qty, open |-> open]

StockTypes ==
    /\ onHand \in 0..MaxStock
    /\ salesOrder \in [StoreOrders -> {"none", "draft", "submitted", "delivered", "closed"}]
    /\ holds \subseteq StoreOrders
    /\ variant \in BOOLEAN /\ level \in -Cardinality(StoreOrders)..(MaxStock + Cardinality(StoreOrders))
    /\ refresher \in [Refreshers -> [pc: {"off", "bin", "orders", "held", "write", "prices", "set"},
                        qty: Int, open: SUBSET StoreOrders]]
    /\ itemPrice \in Amounts /\ price \in Amounts /\ priceNews \subseteq Amounts
    /\ stockMoves \in 0..MaxStockMoves /\ stockFaults \in 0..MaxStockFaults

StockInit ==
    /\ onHand = 1 /\ salesOrder = [o \in StoreOrders |-> "none"] /\ holds = {}
    /\ variant = FALSE /\ level = 0
    /\ refresher = [r \in Refreshers |-> Resting]
    /\ itemPrice = 0 /\ priceNews = {} /\ price = 0
    /\ stockMoves = 0 /\ stockFaults = 0

-----------------------------------------------------------------------------
(* ERPNext and its staff *)

Becomes(o, st) == salesOrder' = [salesOrder EXCEPT ![o] = st]

MoveStock(n) ==
    /\ stockMoves < MaxStockMoves /\ stockMoves' = stockMoves + 1
    /\ onHand + n \in 0..MaxStock /\ onHand' = onHand + n
    /\ UNCHANGED <<salesOrder, itemPrice, priceNews, refresher, stockFaults, stockOfStore>>

\* Staff submit an order's Sales Order, close it, or deliver it by a Delivery Note.
Staff(o) ==
    /\ \/ salesOrder[o] = "draft" /\ Becomes(o, "submitted") /\ UNCHANGED onHand
       \/ salesOrder[o] = "submitted" /\ Becomes(o, "closed") /\ UNCHANGED onHand
       \/ /\ salesOrder[o] = "submitted" /\ onHand > 0
          /\ Becomes(o, "delivered") /\ onHand' = onHand - 1
    /\ UNCHANGED <<itemPrice, priceNews, refresher, stockMoves, stockFaults, stockOfStore>>

\* The Item Price is made, changed or removed, and its webhook sent.
Reprice(rate) ==
    /\ stockMoves < MaxStockMoves /\ stockMoves' = stockMoves + 1
    /\ rate # itemPrice /\ itemPrice' = rate /\ priceNews' = priceNews \cup {rate}
    /\ UNCHANGED <<onHand, salesOrder, refresher, stockFaults, stockOfStore>>

-----------------------------------------------------------------------------
(* The store *)

\* The pull makes the Item's product.
VariantMade ==
    /\ ~variant /\ variant' = TRUE
    /\ UNCHANGED <<holds, level, price, priceNews, refresher, stockFaults, stockOfErp>>

\* What the storefront still sells.
Available == level - Cardinality(holds)

Checkout(o) ==
    /\ variant /\ salesOrder[o] = "none" /\ Available > 0
    /\ holds' = holds \cup {o} /\ Becomes(o, "draft")
    /\ UNCHANGED <<onHand, itemPrice, stockMoves, variant, level, price, priceNews, refresher, stockFaults>>

\* The delivery's fulfilment uses the reservation and the store's own level up.
Fulfil(o) ==
    /\ salesOrder[o] = "delivered" /\ o \in holds
    /\ holds' = holds \ {o} /\ level' = level - 1
    /\ UNCHANGED <<variant, price, priceNews, refresher, stockFaults, stockOfErp>>

\* The customer's order is cancelled, and its Sales Order with it.
StoreCancels(o) ==
    /\ salesOrder[o] \in {"draft", "submitted"} /\ o \in holds
    /\ holds' = holds \ {o} /\ Becomes(o, "closed")
    /\ UNCHANGED <<onHand, itemPrice, stockMoves, variant, level, price, priceNews, refresher, stockFaults>>

-----------------------------------------------------------------------------
(* A refresh: applyStockLevel, refreshStockAndPrices *)

Heard == {TRUE} \cup IF stockFaults < MaxStockFaults THEN {FALSE} ELSE {}
Hears(h) == h \in Heard /\ stockFaults' = IF h THEN stockFaults ELSE stockFaults + 1
At(r, pc) == refresher[r].pc = pc /\ UNCHANGED <<stockOfErp, priceNews>>
Rests(r) == refresher' = [refresher EXCEPT ![r] = Resting]

Goes(r, pc, qty, open) == refresher' = [refresher EXCEPT ![r] = Reading(pc, qty, open)]

StartRefresh(r) ==
    /\ At(r, "off") /\ Goes(r, "bin", 0, {})
    /\ UNCHANGED <<stockFaults, stockOfStore>>

Promised == {o \in StoreOrders : salesOrder[o] = "submitted"}

ReadBin(r, h) ==
    /\ At(r, "bin") /\ Hears(h)
    /\ IF h THEN Goes(r, "orders", onHand - Cardinality(Promised), {})
       ELSE Goes(r, "prices", 0, {})
    /\ UNCHANGED stockOfStore

\* storeHolds: Sales Orders that are not read count as none.
ReadOrders(r, h) ==
    /\ At(r, "orders") /\ Hears(h)
    /\ Goes(r, "held", refresher[r].qty, IF h THEN Promised ELSE {})
    /\ UNCHANGED stockOfStore

\* Fault: what the store itself holds is not added back.
HeldTwice(open) == 0

HeldByStore(open) == Cardinality(open \cap holds)

\* Fault: more is promised than there is, and the level goes below nothing.
Unclipped(bin, held) == bin - Safety + held

\* sellableQty
Sellable(bin, held) == IF bin - Safety + held < 0 THEN 0 ELSE bin - Safety + held

ReadHeld(r) ==
    /\ At(r, "held")
    /\ Goes(r, "write", Sellable(refresher[r].qty, HeldByStore(refresher[r].open)), {})
    /\ UNCHANGED <<stockFaults, stockOfStore>>

\* writeStockLevel: an Item with no variant yet is passed over.
WriteLevel(r) ==
    /\ At(r, "write")
    /\ level' = IF variant THEN refresher[r].qty ELSE level
    /\ Goes(r, "prices", 0, {})
    /\ UNCHANGED <<holds, variant, price, stockFaults>>

\* Only an Item with a price on the list has it written.
ReadPrice(r, h) ==
    /\ At(r, "prices") /\ Hears(h)
    /\ IF h /\ itemPrice # 0 THEN Goes(r, "set", itemPrice, {}) ELSE Rests(r)
    /\ UNCHANGED stockOfStore

\* Fault: a variant that has a price keeps it.
KeepsPrice(rate) == IF variant /\ price = 0 THEN rate ELSE price

\* applyVariantPrice
Priced(rate) == IF variant THEN rate ELSE price

SetPrice(r) ==
    /\ At(r, "set")
    /\ price' = Priced(refresher[r].qty) /\ Rests(r)
    /\ UNCHANGED <<holds, variant, level, stockFaults>>

\* An Item Price webhook writes the rate it carries, in whatever order it comes.
HearPrice(rate) ==
    /\ rate \in priceNews /\ priceNews' = priceNews \ {rate}
    /\ price' = Priced(rate)
    /\ UNCHANGED <<holds, variant, level, refresher, stockFaults, stockOfErp>>

-----------------------------------------------------------------------------
RefreshStep(r) ==
    \/ StartRefresh(r) \/ ReadHeld(r) \/ WriteLevel(r) \/ SetPrice(r)
    \/ \E h \in Heard : ReadBin(r, h) \/ ReadOrders(r, h) \/ ReadPrice(r, h)

StockNext ==
    \/ \E n \in {-1, 1} : MoveStock(n)
    \/ \E rate \in Amounts : Reprice(rate) \/ HearPrice(rate)
    \/ VariantMade
    \/ \E o \in StoreOrders : Staff(o) \/ Checkout(o) \/ Fulfil(o) \/ StoreCancels(o)
    \/ \E r \in Refreshers : RefreshStep(r)

StockSpec == StockInit /\ [][StockNext]_stockVars

-----------------------------------------------------------------------------
(* Properties *)

\* Units on hand that no order has a claim on, in whichever ledger the claim is.
Free == onHand - Safety - Cardinality(holds \cup Promised)

\* However refreshes, Sales Orders, deliveries and cancellations cross, the store in
\* the end sells exactly what is free: a unit that is reserved there and promised in
\* ERPNext is held back once, and one that is neither is not held back.
EachUnitHeldOnce ==
    <>[](variant => \/ Available = Free
                    \/ level = 0 /\ Free + Cardinality(holds) < 0)

\* The variant ends at the Item's price, whatever order its webhooks came in and
\* whatever a refresh that read an older one wrote.  (A removed price is another
\* matter: no refresh removes it.)
PriceFollows == <>[](variant /\ itemPrice # 0 => price = itemPrice)
=============================================================================
