--------------------------------- MODULE GstRates ---------------------------------
(***************************************************************************)
(* The GST rate a product is charged at: refreshProductGst reads the       *)
(* Item's tax template and puts the product, by a rule, on a rate of the   *)
(* store's tax region, in calls of their own for reading the rates,        *)
(* making one, removing rules, adding one and noting the rate on the       *)
(* product.  It runs within the handling of the Item's webhook and of the  *)
(* page of a pull that has the Item; several can be under way.             *)
(*                                                                         *)
(* The template is the Item's own, and its rate does not change: a         *)
(* template or a group that is edited saves no Item, and no refresh comes  *)
(* of it.                                                                  *)
(***************************************************************************)
EXTENDS Integers, Sequences, FiniteSets

CONSTANTS
    RateRefreshers, \* refreshes that can be under way at once
    Percents,       \* the rates of the Item Tax Templates
    DefaultPercent, \* the default rate of the region
    MaxTemplates,   \* bound: times the Item's template is changed
    MaxGstFaults    \* bound: unreadable Items and restarts

ASSUME GstBoundsAreNaturals == MaxTemplates \in Nat /\ MaxGstFaults \in Nat

VARIABLES
    template,     \* the rate of the Item's template in ERPNext, 0 without one
    gstDue,       \* does a webhook or a page of the pull wait to be handled?
    region,       \* the region's other rates, in the order they were made
    rules,        \* those the product has a rule on
    shown,        \* metadata.gst_rate
    taxer,    \* per refresh: where it is, and what it has planned
    byTurns,      \* do the refreshes of the Item happen to take turns?
    unread,       \* was the Item unreadable to the last refresh?
    templates, gstFaults

gstVars == <<template, gstDue, region, rules, shown, taxer, byTurns, unread, templates,
             gstFaults>>

NoRefresh == [pc |-> "off", rate |-> 0, drop |-> {}, add |-> 0]
Shown == {0, DefaultPercent} \cup Percents

GstTypes ==
    /\ template \in {0} \cup Percents
    /\ gstDue \in BOOLEAN /\ byTurns \in BOOLEAN /\ unread \in BOOLEAN
    /\ region \in Seq(Percents \ {DefaultPercent})
    /\ rules \subseteq DOMAIN region
    /\ shown \in Shown
    /\ taxer \in [RateRefreshers ->
                        [pc: {"off", "item", "plan", "make", "drop", "add", "show"}, rate: Shown,
                         drop: SUBSET DOMAIN region, add: 0..Len(region)]]
    /\ templates \in 0..MaxTemplates /\ gstFaults \in 0..MaxGstFaults

GstInit ==
    /\ template = 0 /\ gstDue = FALSE
    /\ region = <<>> /\ rules = {} /\ shown = 0
    /\ taxer = [g \in RateRefreshers |-> NoRefresh]
    /\ byTurns \in BOOLEAN /\ unread = FALSE
    /\ templates = 0 /\ gstFaults = 0

-----------------------------------------------------------------------------
\* The Item is saved with another template, or none.
Retax(p) ==
    /\ templates < MaxTemplates /\ templates' = templates + 1
    /\ p # template /\ template' = p /\ gstDue' = TRUE
    /\ UNCHANGED <<region, rules, shown, taxer, byTurns, unread, gstFaults>>

GstIdle(g) == taxer[g].pc = "off"

StartGst(g) ==
    /\ GstIdle(g) /\ gstDue /\ gstDue' = FALSE
    /\ byTurns => \A h \in RateRefreshers : GstIdle(h)
    /\ taxer' = [taxer EXCEPT ![g].pc = "item"]
    /\ UNCHANGED <<template, region, rules, shown, byTurns, unread, templates, gstFaults>>

\* An Item, or a template, that cannot be read leaves the rate as it is: a note, and the
\* delivery is a success.
ReadItem(g, ok) ==
    /\ taxer[g].pc = "item"
    /\ unread' = ~ok
    /\ IF ok
       THEN /\ taxer' = [taxer EXCEPT ![g].pc = "plan", ![g].rate = template]
            /\ UNCHANGED gstFaults
       ELSE /\ gstFaults < MaxGstFaults /\ gstFaults' = gstFaults + 1
            /\ taxer' = [taxer EXCEPT ![g] = NoRefresh]
    /\ UNCHANGED <<template, gstDue, region, rules, shown, byTurns, templates>>

\* The region's first rate of that percentage, 0 for the default rate or for one to make.
RateFor(p) ==
    LET hits == {i \in DOMAIN region : region[i] = p} IN
    IF hits = {} THEN 0 ELSE CHOOSE i \in hits : \A j \in hits : i <= j

\* Fault: the rules that put the product at another rate are not looked for.
LeftAlone(target) == {}

\* The product's rules on any rate but the one it is to have.
Superseded(target) == rules \ {target}

\* planProductTaxRule: an Item without a template is charged the default rate.
PlanTaxRule(g) ==
    LET p == IF taxer[g].rate = 0 THEN DefaultPercent ELSE taxer[g].rate
        target == IF p = DefaultPercent THEN 0 ELSE RateFor(p)
    IN
    /\ taxer[g].pc = "plan"
    /\ taxer' = [taxer EXCEPT ![g] =
          [pc |-> IF p # DefaultPercent /\ target = 0 THEN "make" ELSE "drop", rate |-> p,
           drop |-> Superseded(target), add |-> IF target \in rules THEN 0 ELSE target]]
    /\ UNCHANGED <<template, gstDue, region, rules, shown, byTurns, unread, templates, gstFaults>>

MakeRate(g) ==
    /\ taxer[g].pc = "make"
    /\ region' = Append(region, taxer[g].rate)
    /\ taxer' = [taxer EXCEPT ![g].pc = "drop", ![g].add = Len(region')]
    /\ UNCHANGED <<template, gstDue, rules, shown, byTurns, unread, templates, gstFaults>>

DropRules(g) ==
    /\ taxer[g].pc = "drop"
    /\ rules' = rules \ taxer[g].drop
    /\ taxer' = [taxer EXCEPT ![g].pc = IF taxer[g].add = 0 THEN "show" ELSE "add"]
    /\ UNCHANGED <<template, gstDue, region, shown, byTurns, unread, templates, gstFaults>>

\* A rule the product has by now is refused, and the rest of the refresh is not done.
AddRule(g) ==
    /\ taxer[g].pc = "add"
    /\ rules' = rules \cup {taxer[g].add}
    /\ taxer' = [taxer EXCEPT ![g] =
                        IF taxer[g].add \in rules THEN NoRefresh ELSE [@ EXCEPT !.pc = "show"]]
    /\ UNCHANGED <<template, gstDue, region, shown, byTurns, unread, templates, gstFaults>>

ShowRate(g) ==
    /\ taxer[g].pc = "show"
    /\ shown' = taxer[g].rate
    /\ taxer' = [taxer EXCEPT ![g] = NoRefresh]
    /\ UNCHANGED <<template, gstDue, region, rules, byTurns, unread, templates, gstFaults>>

\* The process dies: the delivery's row is still pending, or the page is read again.
GstCrash ==
    /\ gstFaults < MaxGstFaults /\ gstFaults' = gstFaults + 1
    /\ gstDue' = (gstDue \/ \E g \in RateRefreshers : ~GstIdle(g))
    /\ taxer' = [g \in RateRefreshers |-> NoRefresh]
    /\ UNCHANGED <<template, region, rules, shown, byTurns, unread, templates>>

-----------------------------------------------------------------------------
GstStep(g) ==
    \/ StartGst(g) \/ PlanTaxRule(g) \/ MakeRate(g) \/ DropRules(g) \/ AddRule(g) \/ ShowRate(g)
    \/ \E ok \in BOOLEAN : ReadItem(g, ok)

GstNext ==
    \/ \E p \in {0} \cup Percents : Retax(p)
    \/ \E g \in RateRefreshers : GstStep(g)
    \/ GstCrash

GstSpec == GstInit /\ [][GstNext]_gstVars

-----------------------------------------------------------------------------
\* What the store charges: the rates the product has a rule on, else the default.
Charged == IF rules = {} THEN {DefaultPercent} ELSE {region[i] : i \in rules}
ItemsRate == IF template = 0 THEN DefaultPercent ELSE template

\* In the end the store charges the Item's rate and shows it, although a restart may
\* have come between the removal of one rule and the next rule; unless the Item could
\* not be read at the last, or the refreshes did not take turns.
ChargedAtItemsRate ==
    <>[](byTurns /\ ~unread => Charged = {ItemsRate} /\ (templates > 0 => shown = ItemsRate))
=============================================================================
