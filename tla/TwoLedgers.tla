------------------------------- MODULE TwoLedgers -------------------------------
(***************************************************************************)
(* What mirroring a wallet promises, without sweeps, webhooks, keys or     *)
(* links: two ledgers that only grow, in which each entry was either made  *)
(* there or carries an entry made in the other; no entry is carried twice, *)
(* none is carried back, and those of the first are carried in the order   *)
(* they were made, "a debit never overtakes the credit that funds it".     *)
(***************************************************************************)
EXTENDS Integers, Sequences

CONSTANT Ways  \* what a movement does to the balance

VARIABLES
    first,  \* the store's entries, oldest first; of: the entry carried, 0 for its own
    second  \* ERPNext's

ledgers == <<first, second>>

MadeIn(l) == {i \in DOMAIN l : l[i].of = 0}
CarriedInto(l) == {l[i].of : i \in DOMAIN l} \ {0}
Due(from, to) == MadeIn(from) \ CarriedInto(to)

Init == first = <<>> /\ second = <<>>

Make ==
    \E dir \in Ways :
        \/ first' = Append(first, [dir |-> dir, of |-> 0]) /\ UNCHANGED second
        \/ second' = Append(second, [dir |-> dir, of |-> 0]) /\ UNCHANGED first

\* The oldest entry of the store's that is not in ERPNext's ledger yet.
CarryFirst ==
    \E r \in Due(first, second) :
        /\ \A q \in Due(first, second) : r <= q
        /\ second' = Append(second, [dir |-> first[r].dir, of |-> r])
        /\ UNCHANGED first

CarrySecond ==
    \E m \in Due(second, first) :
        /\ first' = Append(first, [dir |-> second[m].dir, of |-> m])
        /\ UNCHANGED second

Spec == Init /\ [][Make \/ CarryFirst \/ CarrySecond]_ledgers
=============================================================================
