------------------------------ MODULE WalletMirror ------------------------------
(***************************************************************************)
(* The wallet of one customer, a ledger in the store and a ledger in       *)
(* ERPNext, and the connector that mirrors each movement of one into the   *)
(* other: the sweeps (the five-minute job, the subscriber, the console's   *)
(* button), which push the store's rows oldest first, and the webhook's    *)
(* handlers, which apply what ERPNext posted.                              *)
(*                                                                         *)
(* A movement is one unit of money.  Rows that never travel for what they  *)
(* are (the promo bucket, the mirrors of a credit line, a zero amount) are *)
(* left out, and a Wallet Deposit is a credit like any other: ERPNext      *)
(* replays a repeated key, and a repeated bank reference, without posting. *)
(* Each side refuses a debit its own balance does not cover.  Every        *)
(* webhook arrives in the end, some twice; one that failed is replayed by  *)
(* the retry job.                                                          *)
(***************************************************************************)
EXTENDS Integers, Sequences, FiniteSets

CONSTANTS
    Sweepers,       \* sweeps that can be under way at once
    Appliers,       \* webhook handlers and replays that can be under way at once
    SweepLimit,     \* rows a sweep reads, oldest first
    MaxRows,        \* bound: movements made in the store
    MaxMoves,       \* bound: movements made in ERPNext
    MaxWalletFaults \* bound: refused calls, lost answers and restarts

ASSUME SweepsReadRows == SweepLimit \in Nat \ {0}
ASSUME WalletFaultsAreBounded == MaxWalletFaults \in Nat

VARIABLES
    spender,    \* the side that spends; the other only takes money in
    ledger,     \* the store's rows, oldest first; of: ERPNext's movement it applies
    moves,      \* ERPNext's movements; of: the store's row it carries (medusa_id)
    moveLinks,  \* erpnext_link rows of the two: [name, id]
    walletPaired, \* is the customer, or the wallet, known to the link table?
    sweep,      \* per sweep: where it is, and the rows it has still to do
    inbox,      \* per movement of ERPNext's: its webhook's event row
    applier,    \* per handler: where it is, and with which movement
    walletFaults

walletVars == <<spender, ledger, moves, moveLinks, walletPaired, sweep, inbox, applier,
                walletFaults>>
storeSide == <<ledger, inbox, applier>>
erpSide == <<moves, sweep>>

Sides == {"store", "erpnext"}
Directions == {"credit", "debit"}
NoSweep == [pc |-> "off", todo |-> <<>>, name |-> 0]
NoApplier == [pc |-> "off", move |-> 0]

\* What a list of movements leaves in the wallet.
Balance(l) == Cardinality({i \in DOMAIN l : l[i].dir = "credit"})
              - Cardinality({i \in DOMAIN l : l[i].dir = "debit"})
Covered(l, dir) == dir = "credit" \/ Balance(l) > 0

WalletTypes ==
    /\ spender \in Sides
    /\ ledger \in Seq([dir: Directions, of: 0..Len(moves)])
    /\ moves \in Seq([dir: Directions, of: 0..Len(ledger)])
    /\ moveLinks \subseteq [name: DOMAIN moves, id: DOMAIN ledger]
    /\ walletPaired \in BOOLEAN
    /\ sweep \in [Sweepers -> [pc: {"off", "row", "ask", "post", "link"},
                               todo: Seq(DOMAIN ledger), name: 0..Len(moves)]]
    /\ inbox \in Seq({"own", "due", "failed", "done", "unpaired"})
    /\ DOMAIN inbox = DOMAIN moves
    /\ applier \in [Appliers -> [pc: {"off", "apply", "link"}, move: 0..Len(moves)]]
    /\ walletFaults \in 0..MaxWalletFaults

WalletInit ==
    /\ spender \in Sides
    /\ ledger = <<>> /\ moves = <<>> /\ moveLinks = {} /\ walletPaired = FALSE
    /\ sweep = [s \in Sweepers |-> NoSweep]
    /\ inbox = <<>>
    /\ applier = [h \in Appliers |-> NoApplier]
    /\ walletFaults = 0

-----------------------------------------------------------------------------
(* Money moves *)

Made(l) == Cardinality({i \in DOMAIN l : l[i].of = 0})

StoreMoves(dir) ==
    /\ Made(ledger) < MaxRows
    /\ dir = "debit" => spender = "store"
    /\ Covered(ledger, dir)
    /\ ledger' = Append(ledger, [dir |-> dir, of |-> 0])
    /\ UNCHANGED <<spender, moves, moveLinks, walletPaired, sweep, inbox, applier, walletFaults>>

\* ERPNext posts a movement of its own, and its webhook is due.
ErpnextMoves(dir) ==
    /\ Made(moves) < MaxMoves
    /\ dir = "debit" => spender = "erpnext"
    /\ Covered(moves, dir)
    /\ moves' = Append(moves, [dir |-> dir, of |-> 0])
    /\ inbox' = Append(inbox, "due")
    /\ UNCHANGED <<spender, ledger, moveLinks, walletPaired, sweep, applier, walletFaults>>

Answer == {"ok"} \cup IF walletFaults < MaxWalletFaults THEN {"refused", "lost"} ELSE {}
Answered(ans) ==
    /\ ans \in Answer
    /\ walletFaults' = IF ans = "ok" THEN walletFaults ELSE walletFaults + 1

-----------------------------------------------------------------------------
(* Store -> ERPNext: sweepWalletTransactions, pushWalletTransaction *)

Oldest == IF Len(ledger) < SweepLimit THEN Len(ledger) ELSE SweepLimit

\* The sweep reads the oldest rows of the main bucket, pushed or not.
StartSweep(s) ==
    /\ sweep[s].pc = "off" /\ ledger # <<>>
    /\ sweep' = [sweep EXCEPT ![s] = [pc |-> "row", todo |-> [i \in 1..Oldest |-> i], name |-> 0]]
    /\ UNCHANGED <<spender, moves, moveLinks, walletPaired, walletFaults, storeSide>>

RowOf(s) == Head(sweep[s].todo)
SweepAfter(s) == IF Tail(sweep[s].todo) = <<>> THEN NoSweep
             ELSE [pc |-> "row", todo |-> Tail(sweep[s].todo), name |-> 0]
NextRow(s) == sweep' = [sweep EXCEPT ![s] = SweepAfter(s)]
SweepGoes(s, pc) == sweep' = [sweep EXCEPT ![s].pc = pc]

\* Fault: the sweep goes on to the customer's next row after a failure.
GoesOn(s) == NextRow(s)

\* A failed row holds the customer's later rows back.
Stall(s) == sweep' = [sweep EXCEPT ![s] = NoSweep]

\* Fault: a row applied from ERPNext is sent like any other.
TravelsAnyway(r) == TRUE

\* planOutboundWalletRow: does row r leave the store?
Travels(r) == ledger[r].of = 0

\* The row is passed over, or the customer and the wallets' pair are seen to (the
\* customer's link may be written although the pair then fails).
PlanRow(s, ans) ==
    /\ sweep[s].pc = "row"
    /\ IF ~Travels(RowOf(s))
       THEN /\ ans = "ok" /\ NextRow(s) /\ UNCHANGED <<walletPaired, walletFaults>>
       ELSE /\ Answered(ans)
            /\ IF ans = "ok" THEN walletPaired' = TRUE /\ SweepGoes(s, "ask")
               ELSE walletPaired' \in {walletPaired, TRUE} /\ Stall(s)
    /\ UNCHANGED <<spender, moves, moveLinks, storeSide>>

Carrying(r) == {i \in DOMAIN moves : moves[i].of = r}

\* walletRowPaired: a question ERPNext does not answer counts as "no".
AskErpnext(s, ans) ==
    /\ sweep[s].pc = "ask"
    /\ Answered(ans)
    /\ IF ans = "ok" /\ Carrying(RowOf(s)) # {}
       THEN /\ NextRow(s)
            /\ moveLinks' = moveLinks \cup [name: Carrying(RowOf(s)), id: {RowOf(s)}]
       ELSE SweepGoes(s, "post") /\ UNCHANGED moveLinks
    /\ UNCHANGED <<spender, moves, walletPaired, storeSide>>

\* ERPNext posts the row under its key, or replays what that key posted.
PostRow(s, ans) ==
    LET r == RowOf(s)
        new == Carrying(r) = {}
        done == /\ ans # "refused"
                /\ new => Covered(moves, ledger[r].dir)
    IN
    /\ sweep[s].pc = "post"
    /\ Answered(ans)
    /\ IF done /\ new
       THEN /\ moves' = Append(moves, [dir |-> ledger[r].dir, of |-> r])
            /\ inbox' = Append(inbox, "own")
       ELSE UNCHANGED <<moves, inbox>>
    /\ IF done /\ ans = "ok"
       THEN sweep' = [sweep EXCEPT ![s].pc = "link",
                                   ![s].name = CHOOSE i \in DOMAIN moves' : moves'[i].of = r]
       ELSE Stall(s)
    /\ UNCHANGED <<spender, ledger, moveLinks, walletPaired, applier>>

LinkRow(s) ==
    /\ sweep[s].pc = "link"
    /\ moveLinks' = moveLinks \cup {[name |-> sweep[s].name, id |-> RowOf(s)]}
    /\ NextRow(s)
    /\ UNCHANGED <<spender, moves, walletPaired, walletFaults, storeSide>>

-----------------------------------------------------------------------------
(* ERPNext -> store: applyWalletEvent *)

Linked(m) == \E l \in moveLinks : l.name = m

\* Set up ERPNext's condition: a row this store wrote fires no webhook.
HasWebhook(m) == inbox[m] # "own"

\* A delivery, a repeated one, or the retry job's replay of a failed one.  A
\* wallet no link knows belongs to nobody: nothing is applied, then or later.
TakeUp(h, m) ==
    /\ applier[h].pc = "off"
    /\ HasWebhook(m) /\ inbox[m] \in {"due", "failed"}
    /\ IF Linked(m) THEN inbox' = [inbox EXCEPT ![m] = "done"] /\ UNCHANGED applier
       ELSE IF ~walletPaired THEN inbox' = [inbox EXCEPT ![m] = "unpaired"] /\ UNCHANGED applier
       ELSE /\ applier' = [applier EXCEPT ![h] = [pc |-> "apply", move |-> m]]
            /\ UNCHANGED inbox
    /\ UNCHANGED <<spender, ledger, moveLinks, walletPaired, walletFaults, erpSide>>

\* Fault: the wallet is not given an idempotency key.
NeverApplied(m) == {}

\* The row that carries the key erpnext:wt:<m>.
Applied(m) == {r \in DOMAIN ledger : ledger[r].of = m}

\* Fault: a debit the store refused is taken for handled.
RefusedIsDone == "done"
Refused == "failed"

\* wallet.credit or wallet.debit: a repeated key moves nothing, and a debit
\* the balance does not cover is refused.
ApplyMove(h, ans) ==
    LET m == applier[h].move
        new == Applied(m) = {}
        fits == new => Covered(ledger, moves[m].dir)
    IN
    /\ applier[h].pc = "apply"
    /\ ans # "lost" /\ Answered(ans)
    /\ IF ans = "ok" /\ fits
       THEN /\ ledger' = IF new THEN Append(ledger, [dir |-> moves[m].dir, of |-> m]) ELSE ledger
            /\ applier' = [applier EXCEPT ![h].pc = "link"]
            /\ UNCHANGED inbox
       ELSE /\ inbox' = [inbox EXCEPT ![m] = Refused]
            /\ applier' = [applier EXCEPT ![h] = NoApplier]
            /\ UNCHANGED ledger
    /\ UNCHANGED <<spender, moveLinks, walletPaired, erpSide>>

LinkMove(h) ==
    LET m == applier[h].move IN
    /\ applier[h].pc = "link"
    /\ moveLinks' = moveLinks \cup {[name |-> m, id |-> CHOOSE r \in DOMAIN ledger : ledger[r].of = m]}
    /\ inbox' = [inbox EXCEPT ![m] = "done"]
    /\ applier' = [applier EXCEPT ![h] = NoApplier]
    /\ UNCHANGED <<spender, ledger, walletPaired, walletFaults, erpSide>>

\* The process dies: every sweep and handler with it.  Frappe, unanswered,
\* delivers again.
WalletCrash ==
    /\ walletFaults < MaxWalletFaults /\ walletFaults' = walletFaults + 1
    /\ sweep' = [s \in Sweepers |-> NoSweep]
    /\ applier' = [h \in Appliers |-> NoApplier]
    /\ UNCHANGED <<spender, ledger, moves, moveLinks, walletPaired, inbox>>

-----------------------------------------------------------------------------
SweepStep(s) ==
    \/ StartSweep(s) \/ LinkRow(s)
    \/ \E ans \in Answer : PlanRow(s, ans) \/ AskErpnext(s, ans) \/ PostRow(s, ans)

ApplyStep(h) ==
    \/ \E m \in DOMAIN moves : TakeUp(h, m)
    \/ \E ans \in Answer : ApplyMove(h, ans)
    \/ LinkMove(h)

WalletNext ==
    \/ \E dir \in Directions : StoreMoves(dir) \/ ErpnextMoves(dir)
    \/ \E s \in Sweepers : SweepStep(s)
    \/ \E h \in Appliers : ApplyStep(h)
    \/ WalletCrash

WalletSpec == WalletInit /\ [][WalletNext]_walletVars

-----------------------------------------------------------------------------
(* Properties *)

\* One entry per movement and the store's oldest rows first: overlapping sweeps,
\* repeated webhooks, lost answers and restarts put no movement twice into the other
\* ledger, bring none back to the side that made it, and let none overtake another.
Ledgers == INSTANCE TwoLedgers WITH Ways <- Directions, first <- ledger, second <- moves
MirrorsLedgers == Ledgers!Spec

\* While one side alone spends and the store has no more rows than a sweep reads,
\* the two ledgers agree in the end but for what ERPNext posted before the wallets
\* were paired, whatever was refused, lost or restarted on the way.
LedgersAgree ==
    <>[](/\ \A r \in DOMAIN ledger : ledger[r].of = 0 => Carrying(r) # {}
         /\ \A m \in DOMAIN moves :
               moves[m].of = 0 => Applied(m) # {} \/ inbox[m] = "unpaired")
=============================================================================
