------------------------------- MODULE BackOffice -------------------------------
(***************************************************************************)
(* The parts of the connector that share nothing but the connection to     *)
(* ERPNext, checked side by side: a behaviour is about one of them (part), *)
(* and the others rest in their initial state.                             *)
(***************************************************************************)
EXTENDS WalletMirror, Settlements, StockLevels, Deliveries, InvoiceCopies, TwoWay,
        Customers, CartRounding, GstRates, ErpnextSetup, MappingGate, FieldMapping,
        TriggerCondition

VARIABLE part

Parts == {"wallet", "gateway", "stock", "delivery", "invoice", "two-way",
          "customer", "cart", "gst", "setup", "gate", "field", "trigger"}

officeVars == <<part, walletVars, gatewayVars, stockVars, deliveryVars, copyVars, twoWayVars,
                customerVars, cartVars, gstVars, setupVars, gateVars, fieldVars, triggerVars>>

\* What the last two rest with.
Utc == CHOOSE z \in Zones : z.before = 0 /\ z.after = 0
AnyCondition == CHOOSE c \in Conditions : TRUE

Init ==
    /\ part \in Parts
    /\ WalletInit /\ SettlementInit /\ StockInit /\ DeliveryInit /\ CopyInit /\ TwoWayInit
    /\ CustomersInit /\ CartInit /\ GstInit
    /\ SetupInit /\ GateInit /\ FieldInit /\ TriggerInit
    /\ part # "wallet" => spender = "store"
    /\ part # "gateway" => gstOff = 0
    /\ part # "invoice" => inStep
    /\ part # "two-way" => inOrder
    /\ part # "customer" => order.by = "guest"
    /\ part # "cart" => rule = DefaultRule
    /\ part # "gst" => byTurns
    /\ part # "field" => pair = TextPair /\ zone = Utc
    /\ part # "trigger" => condition = AnyCondition /\ record = [f \in Fields |-> "unset"]

Only(p) ==
    /\ part = p /\ UNCHANGED part
    /\ p # "wallet" => UNCHANGED walletVars
    /\ p # "gateway" => UNCHANGED gatewayVars
    /\ p # "stock" => UNCHANGED stockVars
    /\ p # "delivery" => UNCHANGED deliveryVars
    /\ p # "invoice" => UNCHANGED copyVars
    /\ p # "two-way" => UNCHANGED twoWayVars
    /\ p # "customer" => UNCHANGED customerVars
    /\ p # "cart" => UNCHANGED cartVars
    /\ p # "gst" => UNCHANGED gstVars
    /\ p # "setup" => UNCHANGED setupVars
    /\ p # "gate" => UNCHANGED gateVars
    /\ p # "field" => UNCHANGED fieldVars
    /\ p # "trigger" => UNCHANGED triggerVars

Next ==
    \/ Only("wallet") /\ WalletNext
    \/ Only("gateway") /\ SettlementNext
    \/ Only("stock") /\ StockNext
    \/ Only("delivery") /\ DeliveryNext
    \/ Only("invoice") /\ CopyNext
    \/ Only("two-way") /\ TwoWayNext
    \/ Only("customer") /\ CustomersNext
    \/ Only("cart") /\ CartNext
    \/ Only("gst") /\ GstNext
    \/ Only("setup") /\ SetupNext
    \/ Only("gate") /\ GateNext
    \/ Only("field") /\ FieldNext
    \/ Only("trigger") /\ TriggerNext

Spec == Init /\ [][Next]_officeVars

\* Jobs on a schedule and work in hand go on; nobody is obliged to trade, to edit or
\* to fail.  (A part's steps change its own variables only, so they are the subscript.)
Fairness ==
    /\ \A s \in Sweepers : WF_walletVars(part = "wallet" /\ SweepStep(s))
    /\ \A h \in Appliers : WF_walletVars(part = "wallet" /\ ApplyStep(h))
    /\ WF_gatewayVars(part = "gateway" /\ Hear)
    /\ WF_gatewayVars(part = "gateway" /\ RetrySettlement)
    /\ WF_gatewayVars(part = "gateway" /\ ClerkStep)
    /\ \A r \in Refreshers : WF_stockVars(part = "stock" /\ RefreshStep(r))
    /\ WF_stockVars(part = "stock" /\ \E rate \in Amounts : HearPrice(rate))
    /\ \A n \in Notes : WF_deliveryVars(part = "delivery" /\ PorterStep(n))
    /\ WF_copyVars(part = "invoice" /\ HearerStep)
    /\ WF_copyVars(part = "invoice" /\ HourlyStep)
    /\ WF_copyVars(part = "invoice" /\ MarkStep)
    /\ WF_copyVars(part = "invoice" /\ OpenStep)
    /\ WF_twoWayVars(part = "two-way" /\ HookStep)
    /\ \A p \in Pushers : WF_twoWayVars(part = "two-way" /\ PushStep(p))
    /\ \A w \in CustomerPushers : WF_customerVars(part = "customer" /\ CustomerStep(w))
    /\ WF_customerVars(part = "customer" /\ \E w \in CustomerPushers : HearSave(w))
    /\ WF_customerVars(part = "customer" /\ \E w \in CustomerPushers : RetrySave(w))
    /\ WF_customerVars(part = "customer" /\ \E w \in CustomerPushers : Recover(w))
    /\ \A g \in RateRefreshers : WF_gstVars(part = "gst" /\ GstStep(g))

FairSpec == Spec /\ Fairness

\* Every part keeps to its types, and has every other part at rest.
TypesOK ==
    /\ part \in Parts
    /\ WalletTypes /\ SettlementTypes /\ StockTypes /\ DeliveryTypes /\ CopyTypes
    /\ TwoWayTypes /\ CustomerTypes /\ CartTypes /\ GstTypes
    /\ SetupTypes /\ GateTypes /\ FieldTypes /\ TriggerTypes
=============================================================================
