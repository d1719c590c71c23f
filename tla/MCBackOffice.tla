------------------------------ MODULE MCBackOffice ------------------------------
(***************************************************************************)
(* BackOffice with the parser of its conditions, for TLC: the values of    *)
(* the constants that are records, sequences or sets of them.              *)
(***************************************************************************)
EXTENDS BackOffice, TriggerParser

(* A settlement as the gateway first tells it, without the payout's UTR; corrected in *)
(* its takings and its tax, which does not add up; and corrected in everything.       *)
S(g, f, t, n, r) ==
    [gross |-> g, refund |-> 2, fee |-> f, tax |-> t, adjustment |-> 0, net |-> n, ref |-> r]
StatementsOf == <<S(12, 2, 1, 7, 0), S(14, 2, 2, 7, 1), S(14, 3, 1, 8, 1)>>

\* A note for two orders, and one for the rest of the first of them.
DrawsOf == [n1 |-> [o1 |-> 1, o2 |-> 1], n2 |-> [o1 |-> 1]]
OrderedOf == [o1 |-> 2, o2 |-> 1]
NotesTakenBack == {"n1"}

\* A line whose promotion does not divide by its quantity and one at another rate, with
\* shipping and within the state; and a cart for another state whose two totals are too
\* far apart to be rounded.
L(p, q, o, g) == [price |-> p, qty |-> q, off |-> o, gst |-> g]
CartsOf ==
    << [lines |-> <<L(333, 3, 10, 5), L(250, 1, 0, 12)>>, shipping |-> 1050,
        interState |-> FALSE, drift |-> 1],
       [lines |-> <<L(333, 3, 10, 5), L(199, 1, 0, 18)>>, shipping |-> 0,
        interState |-> TRUE, drift |-> -150] >>
RulesOf == {DefaultRule, [on |-> TRUE, method |-> "commercial", fraction |-> 5]}

\* Two of the webhooks, the first under selection.
WebhooksOf == <<"Item", "Sales Invoice">>

\* What the shipped default of the gate's pair does: too little for ERPNext.
ShippedOf == [way |-> "push", pairs |-> {"price"}]

\* No change; and, in units of which a day has twelve, clocks put on and back an hour (of
\* two units) east and west of Greenwich.
Zone(at, before, after) == [at |-> at, before |-> before, after |-> after]
ZonesOf == {Zone(0, 0, 0), Zone(8, 2, 4), Zone(8, 4, 2), Zone(14, -4, -2), Zone(14, -2, -4)}

ConditionsOf ==
    {<<"a", "is", "set">>,
     <<"a", "is", "set", "or", "b", "==", "1", "and", "a", ">", "1">>,
     <<"not", "(", "a", "is", "not", "set", "and", "b", "is", "set", ")">>}
=============================================================================
