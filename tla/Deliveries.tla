------------------------------- MODULE Deliveries -------------------------------
(***************************************************************************)
(* Delivery Notes of ERPNext becoming fulfilments of the store's orders.   *)
(* A submitted note moves stock, and each of its ledger entries sends a    *)
(* webhook that names the note; so does its cancellation.  The handlers of *)
(* one note wait for each other (_deliveryLocks); those of two notes do    *)
(* not.                                                                    *)
(*                                                                         *)
(* Every Sales Order a note draws on is a store order's and its link is    *)
(* known, no note takes more than its orders' lines have left, and a       *)
(* delivery of an entry that is in hand is answered as taken.  Webhooks    *)
(* arrive in any order; a failed one is handled again.                     *)
(***************************************************************************)
EXTENDS Integers, Sequences, FiniteSets

CONSTANTS
    Draws,           \* per note: the orders it draws on, each with a quantity
    Ordered,         \* per order: the quantity of its line
    TakenBack,       \* bound: notes that may be cancelled
    MaxDeliveryFaults\* bound: refused calls and restarts

ASSUME NotesDrawOnOrders ==
    /\ \A o \in DOMAIN Ordered : Ordered[o] \in Nat
    /\ \A n \in DOMAIN Draws : /\ DOMAIN Draws[n] \subseteq DOMAIN Ordered
                              /\ \A o \in DOMAIN Draws[n] : Draws[n][o] \in Nat \ {0}
    /\ MaxDeliveryFaults \in Nat

VARIABLES
    note,        \* per note: its state in ERPNext
    entry,       \* per note and ledger entry: its webhook's event row
    waiting,     \* per note: entries in hand; the first holds the note's lock
    porter,      \* per note: how far the first of them is
    fulfilment,  \* the store's fulfilments, oldest first
    noteLinks,   \* erpnext_link: which fulfilment a note made of an order
    deliveryFaults

deliveryVars == <<note, entry, waiting, porter, fulfilment, noteLinks, deliveryFaults>>

Notes == DOMAIN Draws
OrdersOf(n) == DOMAIN Draws[n]
Entries == {"first", "second", "reversal"}
Idle == [pc |-> "off", read |-> "draft", todo |-> {}, order |-> "none", qty |-> 0, bad |-> FALSE]
NothingInHand == waiting = [n \in Notes |-> <<>>]

DeliveryTypes ==
    /\ note \in [Notes -> {"draft", "submitted", "cancelled"}]
    /\ entry \in [Notes -> [Entries -> {"none", "due", "failed", "done"}]]
    /\ \A n \in Notes : waiting[n] \in Seq(Entries) /\ (porter[n].pc # "off" => waiting[n] # <<>>)
    /\ \A n \in Notes :
          /\ porter[n].pc \in {"off", "order", "make", "link", "ship"}
          /\ porter[n].todo \subseteq OrdersOf(n)
    /\ \A f \in DOMAIN fulfilment :
          fulfilment[f].order \in DOMAIN Ordered /\ fulfilment[f].qty > 0
    /\ \A l \in noteLinks : l.of \in DOMAIN fulfilment
    /\ deliveryFaults \in 0..MaxDeliveryFaults

DeliveryInit ==
    /\ note = [n \in Notes |-> "draft"]
    /\ entry = [n \in Notes |-> [e \in Entries |-> "none"]]
    /\ waiting = [n \in Notes |-> <<>>] /\ porter = [n \in Notes |-> Idle]
    /\ fulfilment = <<>> /\ noteLinks = {}
    /\ deliveryFaults = 0

-----------------------------------------------------------------------------
(* ERPNext *)

\* A ledger entry per line: a note here has a line or two.
Deliver(n) ==
    /\ note[n] = "draft" /\ note' = [note EXCEPT ![n] = "submitted"]
    /\ entry' = [entry EXCEPT ![n].first = "due",
                              ![n].second = IF Cardinality(OrdersOf(n)) > 1 THEN "due" ELSE "none"]
    /\ UNCHANGED <<waiting, porter, fulfilment, noteLinks, deliveryFaults>>

TakeBack(n) ==
    /\ n \in TakenBack /\ note[n] = "submitted" /\ note' = [note EXCEPT ![n] = "cancelled"]
    /\ entry' = [entry EXCEPT ![n].reversal = "due"]
    /\ UNCHANGED <<waiting, porter, fulfilment, noteLinks, deliveryFaults>>

-----------------------------------------------------------------------------
(* applyDeliveryNote *)

Fine == {TRUE} \cup IF deliveryFaults < MaxDeliveryFaults THEN {FALSE} ELSE {}
Fares(ok) == ok \in Fine /\ deliveryFaults' = IF ok THEN deliveryFaults ELSE deliveryFaults + 1

\* A webhook, or the retry job's replay, stands in line for the note's lock.
Arrive(n, e) ==
    /\ entry[n][e] \in {"due", "failed"}
    /\ \A i \in DOMAIN waiting[n] : waiting[n][i] # e
    /\ waiting' = [waiting EXCEPT ![n] = Append(@, e)]
    /\ UNCHANGED <<note, entry, porter, fulfilment, noteLinks, deliveryFaults>>

\* The entry at the head of the line may start.
Turn(n) == waiting[n] # <<>> /\ porter[n].pc = "off"

Works(n, p) == porter' = [porter EXCEPT ![n] = p] /\ UNCHANGED <<note, entry, waiting>>
Leaves(n, st) ==
    /\ entry' = [entry EXCEPT ![n][Head(waiting[n])] = st]
    /\ waiting' = [waiting EXCEPT ![n] = Tail(@)]
    /\ porter' = [porter EXCEPT ![n] = Idle]
    /\ UNCHANGED note

\* The order is dealt with; after the last one the entry has its verdict.
NextOrder(n, o, ok) ==
    LET p == porter[n]
        bad == p.bad \/ ~ok
    IN IF p.todo = {o} THEN Leaves(n, IF bad THEN "failed" ELSE "done")
       ELSE Works(n, [Idle EXCEPT !.pc = "order", !.read = p.read, !.todo = p.todo \ {o}, !.bad = bad])

\* The note is read, once; the entry of a cancellation says so itself.
OpenNote(n, ok) ==
    /\ Turn(n) /\ Fares(ok)
    /\ IF ~ok THEN Leaves(n, "failed")
       ELSE Works(n, [Idle EXCEPT !.pc = "order", !.todo = OrdersOf(n),
                        !.read = IF Head(waiting[n]) = "reversal" THEN "cancelled" ELSE note[n]])
    /\ UNCHANGED <<fulfilment, noteLinks>>

Fulfilled(o) ==
    LET sum[f \in 0..Len(fulfilment)] ==
            IF f = 0 THEN 0
            ELSE sum[f - 1] + IF fulfilment[f].order = o THEN fulfilment[f].qty ELSE 0
    IN sum[Len(fulfilment)]

\* planDeliveryFulfilment: up to what the line still has to fulfil.
Planned(n, o) ==
    IF Ordered[o] - Fulfilled(o) < Draws[n][o] THEN Ordered[o] - Fulfilled(o) ELSE Draws[n][o]

\* Fault: the link table is not asked what the note already made.
NoneMade(n, o) == {}

\* The fulfilment the link table knows the note to have made of the order.
MadeBy(n, o) == {l.of : l \in {k \in noteLinks : k.note = n /\ k.order = o}}

\* Fault: a cancelled note whose fulfilment is known is passed over.
Silently(n, o) == NextOrder(n, o, TRUE)

\* Taking shipped goods back is a person's business: the row fails, and keeps failing.
TellsAPerson(n, o) == NextOrder(n, o, FALSE)

LookAt(n, o) ==
    LET p == porter[n] IN
    /\ p.pc = "order" /\ o = CHOOSE q \in p.todo : TRUE
    /\ IF p.read = "cancelled"
       THEN IF MadeBy(n, o) = {} THEN NextOrder(n, o, TRUE) ELSE TellsAPerson(n, o)
       ELSE IF MadeBy(n, o) # {} THEN Works(n, [p EXCEPT !.pc = "ship", !.order = o])
       ELSE IF Planned(n, o) <= 0 THEN NextOrder(n, o, TRUE)
       ELSE Works(n, [p EXCEPT !.pc = "make", !.order = o, !.qty = Planned(n, o)])
    /\ UNCHANGED <<fulfilment, noteLinks, deliveryFaults>>

\* createOrderFulfillmentWorkflow takes no more than the line has left by now.
MakeFulfilment(n, ok) ==
    LET p == porter[n]
        made == ok /\ p.qty <= Ordered[p.order] - Fulfilled(p.order)
    IN
    /\ p.pc = "make" /\ Fares(ok)
    /\ IF made
       THEN /\ fulfilment' = Append(fulfilment,
                  [order |-> p.order, note |-> n, qty |-> p.qty, shipped |-> FALSE])
            /\ Works(n, [p EXCEPT !.pc = "link", !.qty = Len(fulfilment) + 1])
       ELSE NextOrder(n, p.order, FALSE) /\ UNCHANGED fulfilment
    /\ UNCHANGED noteLinks

\* "Recorded before shipping, so a retry ships this fulfilment."
LinkFulfilment(n) ==
    LET p == porter[n] IN
    /\ p.pc = "link"
    /\ noteLinks' = noteLinks \cup {[note |-> n, order |-> p.order, of |-> p.qty]}
    /\ Works(n, [p EXCEPT !.pc = "ship", !.qty = 0])
    /\ UNCHANGED <<fulfilment, deliveryFaults>>

\* Fault: a shipment that fails is not told.
ShippedSomehow(ok) == TRUE

\* The outcome of the shipment is the outcome of the order.
ShipFared(ok) == ok

ShipFulfilment(n, ok) ==
    LET o == porter[n].order
        f == CHOOSE g \in MadeBy(n, o) : TRUE
    IN
    /\ porter[n].pc = "ship" /\ MadeBy(n, o) # {}
    /\ IF fulfilment[f].shipped
       THEN /\ ok /\ NextOrder(n, o, TRUE) /\ UNCHANGED <<fulfilment, deliveryFaults>>
       ELSE /\ Fares(ok)
            /\ fulfilment' = IF ok THEN [fulfilment EXCEPT ![f].shipped = TRUE] ELSE fulfilment
            /\ NextOrder(n, o, ShipFared(ok))
    /\ UNCHANGED noteLinks

\* The process dies, and every line for a lock with it; rows left pending are due
\* again.  Not between a fulfilment and its link: see the README.
DeliveryCrash ==
    /\ deliveryFaults < MaxDeliveryFaults /\ deliveryFaults' = deliveryFaults + 1
    /\ ~NothingInHand /\ \A n \in Notes : porter[n].pc # "link"
    /\ waiting' = [n \in Notes |-> <<>>] /\ porter' = [n \in Notes |-> Idle]
    /\ UNCHANGED <<note, entry, fulfilment, noteLinks>>

-----------------------------------------------------------------------------
PorterStep(n) ==
    \/ \E e \in Entries : Arrive(n, e)
    \/ \E o \in OrdersOf(n) : LookAt(n, o)
    \/ LinkFulfilment(n)
    \/ \E ok \in Fine : OpenNote(n, ok) \/ MakeFulfilment(n, ok) \/ ShipFulfilment(n, ok)

DeliveryNext ==
    \/ \E n \in Notes : Deliver(n) \/ TakeBack(n) \/ PorterStep(n)
    \/ DeliveryCrash

DeliverySpec == DeliveryInit /\ [][DeliveryNext]_deliveryVars

-----------------------------------------------------------------------------
(* Properties *)

\* "So nothing is entered twice": entries of one note that arrive together, repeats
\* and restarts make one fulfilment of an order at most, and the notes of an order
\* together fulfil no more than was ordered.
FulfilledOnce ==
    /\ \A f, g \in DOMAIN fulfilment :
          fulfilment[f].note = fulfilment[g].note /\ fulfilment[f].order = fulfilment[g].order
          => f = g
    /\ \A o \in DOMAIN Ordered : Fulfilled(o) <= Ordered[o]

\* A cancelled note whose goods the store has shipped is never passed off as
\* handled: its entry is done only if nothing was fulfilled, then or later.
ReversalIsTold ==
    \A n \in Notes : entry[n].reversal = "done" =>
        \A f \in DOMAIN fulfilment : fulfilment[f].note # n

\* Whatever was refused or restarted on the way, every order a standing note draws
\* on is in the end fulfilled from it, and shipped.
NotesShip ==
    <>[](\A n \in Notes : note[n] = "submitted" =>
            \A o \in OrdersOf(n) : \E f \in DOMAIN fulfilment :
                fulfilment[f].note = n /\ fulfilment[f].order = o /\ fulfilment[f].shipped)
=============================================================================
