------------------------------ MODULE MoneyProofs ------------------------------
(***************************************************************************)
(* What is proved about the customer's wallet (WalletMirror) and the       *)
(* gateway's settlements (Settlements).                                    *)
(***************************************************************************)
EXTENDS WalletMirror, Settlements, FiniteSetTheorems, TLAPS

-----------------------------------------------------------------------------
(* Two facts both parts need *)

\* A bounded count goes up by one.
LEMMA OneMore ==
    ASSUME NEW max \in Nat, NEW n \in 0..max, n < max
    PROVE  n + 1 \in 0..max /\ 0 \in 0..max
OBVIOUS

\* A sequence of fewer things.
LEMMA SeqOfFewer ==
    ASSUME NEW S, NEW T, NEW s \in Seq(S), \A i \in 1..Len(s) : s[i] \in T
    PROVE  s \in Seq(T)
OBVIOUS

-----------------------------------------------------------------------------
(***************************************************************************)
(* What is proved about WalletMirror for any number of sweeps, handlers,   *)
(* movements, refusals, lost answers and restarts: it implements           *)
(* TwoLedgers.                                                             *)
(*                                                                         *)
(* The store's rows are carried in their order because a sweep works       *)
(* through consecutive rows and leaves none of the customer's behind: all  *)
(* rows before the one in hand that were made in the store are in          *)
(* ERPNext's ledger (InTurn).  Nothing comes back because no handler is    *)
(* given a movement the store wrote (OwnIsNotApplied).                     *)
(***************************************************************************)

USE SweepsReadRows

Entry == [dir: Directions, of: Nat]
InboxStates == {"own", "due", "failed", "done", "unpaired"}
SweepState == [pc: {"off", "row", "ask", "post", "link"}, todo: Seq(Nat), name: Nat]
ApplierState == [pc: {"off", "apply", "link"}, move: Nat]

\* Types, as far as the ledgers depend on them.
WalletShapes ==
    /\ ledger \in Seq(Entry) /\ moves \in Seq(Entry)
    /\ inbox \in Seq(InboxStates) /\ Len(inbox) = Len(moves)
    /\ sweep \in [Sweepers -> SweepState]
    /\ applier \in [Appliers -> ApplierState]

\* Is row r of the store in ERPNext's ledger mv?
IsIn(mv, r) == \E i \in DOMAIN mv : mv[i].of = r

\* A sweep w works through consecutive rows of the ledger l, and what the store made
\* before the row in hand is in mv.
InTurn(w, l, mv) ==
    w.pc # "off" =>
        /\ w.todo # <<>>
        /\ \A i \in DOMAIN w.todo : w.todo[i] = w.todo[1] + i - 1 /\ w.todo[i] \in DOMAIN l
        /\ \A r \in DOMAIN l : r < w.todo[1] /\ l[r].of = 0 => IsIn(mv, r)
        /\ w.pc \in {"ask", "post", "link"} => l[w.todo[1]].of = 0
        /\ w.pc = "link" => IsIn(mv, w.todo[1])

SweepsInTurn == \A s \in Sweepers : InTurn(sweep[s], ledger, moves)

\* What the store wrote into ERPNext's ledger fires no webhook.
OwnIsNotApplied ==
    /\ \A m \in DOMAIN moves : moves[m].of # 0 => inbox[m] = "own"
    /\ \A h \in Appliers : applier[h].pc # "off" =>
           applier[h].move \in DOMAIN moves /\ inbox[applier[h].move] # "own"

WalletInv == WalletShapes /\ SweepsInTurn /\ OwnIsNotApplied

-----------------------------------------------------------------------------
(* Ledgers that grow *)

\* Ledger b is a with entries after it.
Grown(a, b) == Len(a) <= Len(b) /\ \A i \in DOMAIN a : b[i] = a[i]

LEMMA StaysGrown == ASSUME NEW a \in Seq(Entry) PROVE Grown(a, a)
BY DEF Grown

LEMMA AppendGrows ==
    ASSUME NEW a \in Seq(Entry), NEW e \in Entry
    PROVE  /\ Append(a, e) \in Seq(Entry) /\ Grown(a, Append(a, e))
           /\ Len(Append(a, e)) = Len(a) + 1 /\ Append(a, e)[Len(a) + 1] = e
           /\ Len(a) + 1 \in DOMAIN Append(a, e)
BY DEF Grown

\* A sweep in turn stays in turn while the ledgers grow.
LEMMA GrowingKeepsTurn ==
    ASSUME NEW w \in SweepState, NEW l \in Seq(Entry), NEW l2 \in Seq(Entry),
           NEW mv \in Seq(Entry), NEW mv2 \in Seq(Entry),
           Grown(l, l2), Grown(mv, mv2), InTurn(w, l, mv)
    PROVE  InTurn(w, l2, mv2)
<1> SUFFICES ASSUME w.pc # "off" PROVE InTurn(w, l2, mv2)
    BY DEF InTurn
<1>1. \A r : IsIn(mv, r) => IsIn(mv2, r)
    BY DEF IsIn, Grown
<1>2. w.todo \in Seq(Nat) /\ w.todo # <<>> /\ w.todo[1] \in DOMAIN l /\ w.todo[1] \in Nat
    BY DEF SweepState, InTurn
<1>3. DOMAIN l \subseteq DOMAIN l2 /\ \A i \in DOMAIN l : l2[i] = l[i]
    BY DEF Grown
<1>4. \A r \in DOMAIN l2 : r < w.todo[1] => r \in DOMAIN l
    BY <1>2
<1> QED
    BY <1>1, <1>2, <1>3, <1>4 DEF InTurn

\* One sweep goes on and the ledgers stay or grow.
LEMMA OneSweepGoesOn ==
    ASSUME WalletShapes, SweepsInTurn, NEW s \in Sweepers, NEW w \in SweepState,
           sweep' = [sweep EXCEPT ![s] = w],
           ledger' \in Seq(Entry), moves' \in Seq(Entry),
           Grown(ledger, ledger'), Grown(moves, moves'), InTurn(w, ledger', moves')
    PROVE  SweepsInTurn' /\ sweep' \in [Sweepers -> SweepState]
<1>1. sweep' \in [Sweepers -> SweepState]
    BY DEF WalletShapes
<1>2. ASSUME NEW t \in Sweepers PROVE InTurn(sweep'[t], ledger', moves')
    <2>1. CASE t = s
        BY <2>1 DEF WalletShapes
    <2>2. CASE t # s
        <3>1. sweep'[t] = sweep[t] /\ sweep[t] \in SweepState
            BY <2>2 DEF WalletShapes
        <3>2. InTurn(sweep[t], ledger, moves)
            BY DEF SweepsInTurn
        <3> QED
            BY <3>1, <3>2, GrowingKeepsTurn DEF WalletShapes
    <2> QED
        BY <2>1, <2>2
<1> QED
    BY <1>1, <1>2 DEF SweepsInTurn

\* The sweeps stand and the ledgers stay or grow.
LEMMA SweepsStand ==
    ASSUME WalletShapes, SweepsInTurn, UNCHANGED sweep,
           ledger' \in Seq(Entry), moves' \in Seq(Entry),
           Grown(ledger, ledger'), Grown(moves, moves')
    PROVE  SweepsInTurn'
<1> SUFFICES ASSUME NEW t \in Sweepers PROVE InTurn(sweep[t], ledger', moves')
    BY DEF SweepsInTurn
<1>1. sweep[t] \in SweepState /\ InTurn(sweep[t], ledger, moves)
    BY DEF SweepsInTurn, WalletShapes
<1> QED
    BY <1>1, GrowingKeepsTurn DEF WalletShapes

\* A sweep that stopped is in turn.
LEMMA StoppedInTurn == NoSweep \in SweepState /\ InTurn(NoSweep, ledger, moves)
BY DEF NoSweep, SweepState, InTurn

\* A sweep may go on to the next row when the one in hand did not travel or arrived.
LEMMA NextRowInTurn ==
    ASSUME WalletShapes, SweepsInTurn, NEW s \in Sweepers, sweep[s].pc # "off",
           ledger[RowOf(s)].of # 0 \/ IsIn(moves, RowOf(s))
    PROVE  SweepAfter(s) \in SweepState /\ InTurn(SweepAfter(s), ledger, moves)
<1> DEFINE t == sweep[s].todo
<1>1. /\ t \in Seq(Nat) /\ t # <<>> /\ t[1] \in Nat /\ RowOf(s) = t[1]
      /\ \A i \in DOMAIN t : t[i] = t[1] + i - 1 /\ t[i] \in DOMAIN ledger
      /\ \A r \in DOMAIN ledger : r < t[1] /\ ledger[r].of = 0 => IsIn(moves, r)
    BY DEF SweepsInTurn, InTurn, WalletShapes, SweepState, RowOf
<1>2. CASE Tail(t) = <<>>
    BY <1>2, StoppedInTurn DEF SweepAfter
<1>3. CASE Tail(t) # <<>>
    <2> DEFINE w == [pc |-> "row", todo |-> Tail(t), name |-> 0]
    <2>1. SweepAfter(s) = w /\ w.todo = Tail(t) /\ w.pc = "row"
        BY <1>3 DEF SweepAfter
    <2>2. Tail(t) \in Seq(Nat)
        BY <1>1
    <2>3. \A i \in DOMAIN Tail(t) : i + 1 \in DOMAIN t /\ Tail(t)[i] = t[i + 1]
        BY <1>1
    <2>4. 1 \in DOMAIN Tail(t)
        BY <1>3, <2>2
    <2>5. /\ Tail(t)[1] = t[1] + 1
          /\ \A i \in DOMAIN Tail(t) : Tail(t)[i] = t[1] + i /\ Tail(t)[i] \in DOMAIN ledger
        <3> DEFINE u == Tail(t)
        <3>1. \A i \in DOMAIN u : i \in Nat
            BY <2>2
        <3>2. \A i \in DOMAIN u : i + 1 \in DOMAIN t /\ u[i] = t[i + 1]
            BY <2>3
        <3> HIDE DEF u
        <3>3. ASSUME NEW i \in DOMAIN u PROVE u[i] = t[1] + i /\ u[i] \in DOMAIN ledger
            <4>1. t[i + 1] = t[1] + (i + 1) - 1 /\ t[i + 1] \in DOMAIN ledger
                BY <1>1, <3>2
            <4> QED
                BY <1>1, <3>1, <3>2, <4>1
        <3>4. 1 \in DOMAIN u
            BY <2>4 DEF u
        <3> QED
            BY <3>3, <3>4 DEF u
    <2>6. \A i \in DOMAIN Tail(t) : Tail(t)[i] = Tail(t)[1] + i - 1 /\ Tail(t)[i] \in DOMAIN ledger
        <3>1. \A i \in DOMAIN Tail(t) : i \in Nat
            BY <2>2
        <3>2. \A i \in DOMAIN Tail(t) : t[1] + i = (t[1] + 1) + i - 1
            BY <1>1, <3>1
        <3> QED
            BY <2>5, <3>2
    <2>7. \A r \in DOMAIN ledger : r < Tail(t)[1] /\ ledger[r].of = 0 => IsIn(moves, r)
        <3> SUFFICES ASSUME NEW r \in DOMAIN ledger, r < t[1] + 1, ledger[r].of = 0
                     PROVE  IsIn(moves, r)
            BY <2>5
        <3>1. r \in Nat
            BY DEF WalletShapes
        <3>2. r < t[1] \/ r = t[1]
            BY <1>1, <3>1
        <3> QED
            BY <1>1, <3>2
    <2>8. w \in SweepState
        BY <2>2 DEF SweepState
    <2> HIDE DEF w
    <2> QED
        BY <1>3, <2>1, <2>6, <2>7, <2>8 DEF InTurn
<1> QED
    BY <1>2, <1>3

-----------------------------------------------------------------------------
(* The store and ERPNext move money *)

LEMMA StoreMovesKeeps ==
    ASSUME WalletInv, NEW dir \in Directions, StoreMoves(dir)
    PROVE  WalletInv' /\ Ledgers!Make
<1> DEFINE e == [dir |-> dir, of |-> 0]
<1>1. e \in Entry /\ ledger' = Append(ledger, e) /\ UNCHANGED <<moves, inbox, sweep, applier>>
    BY DEF Entry, StoreMoves
<1>2. ledger' \in Seq(Entry) /\ Grown(ledger, ledger') /\ Grown(moves, moves')
    BY <1>1, AppendGrows, StaysGrown DEF WalletInv, WalletShapes
<1>3. SweepsInTurn'
    BY <1>1, <1>2, SweepsStand DEF WalletInv, WalletShapes
<1>4. WalletShapes' /\ OwnIsNotApplied'
    BY <1>1, <1>2 DEF WalletInv, WalletShapes, OwnIsNotApplied
<1>5. Ledgers!Make
    BY <1>1 DEF Ledgers!Make
<1> QED
    BY <1>3, <1>4, <1>5 DEF WalletInv

\* ERPNext's ledger gets an entry, and the inbox what is to become of its webhook.
LEMMA MovesGrow ==
    ASSUME WalletInv, NEW e \in Entry, NEW st \in InboxStates,
           moves' = Append(moves, e), inbox' = Append(inbox, st), UNCHANGED <<ledger, applier>>,
           e.of # 0 => st = "own"
    PROVE  /\ moves' \in Seq(Entry) /\ Grown(moves, moves') /\ Grown(ledger, ledger')
           /\ inbox' \in Seq(InboxStates) /\ Len(inbox') = Len(moves') /\ OwnIsNotApplied'
           /\ Len(moves) + 1 \in DOMAIN moves' /\ moves'[Len(moves) + 1] = e
<1>1. /\ moves \in Seq(Entry) /\ inbox \in Seq(InboxStates) /\ Len(inbox) = Len(moves)
      /\ ledger \in Seq(Entry)
    BY DEF WalletInv, WalletShapes
<1>2. /\ moves' \in Seq(Entry) /\ Grown(moves, moves') /\ Grown(ledger, ledger')
      /\ Len(moves) + 1 \in DOMAIN moves' /\ moves'[Len(moves) + 1] = e
    BY <1>1, AppendGrows, StaysGrown
<1>3. inbox' \in Seq(InboxStates) /\ Len(inbox') = Len(moves')
    BY <1>1
<1>4. \A m \in DOMAIN moves : m \in DOMAIN moves' /\ moves'[m] = moves[m] /\ inbox'[m] = inbox[m]
    BY <1>1
<1>5. \A m \in DOMAIN moves' : m \in DOMAIN moves \/ (m = Len(moves) + 1 /\ inbox'[m] = st)
    BY <1>1
<1>6. OwnIsNotApplied'
    BY <1>2, <1>4, <1>5 DEF WalletInv, OwnIsNotApplied
<1> QED
    BY <1>2, <1>3, <1>6

LEMMA ErpnextMovesKeeps ==
    ASSUME WalletInv, NEW dir \in Directions, ErpnextMoves(dir)
    PROVE  WalletInv' /\ Ledgers!Make
<1> DEFINE e == [dir |-> dir, of |-> 0]
<1>1. /\ e \in Entry /\ e.of = 0 /\ moves' = Append(moves, e) /\ inbox' = Append(inbox, "due")
      /\ "due" \in InboxStates /\ UNCHANGED <<ledger, sweep, applier>>
    BY DEF Entry, ErpnextMoves, InboxStates
<1>2. Ledgers!Make
    BY <1>1 DEF Ledgers!Make
<1> HIDE DEF e
<1>3. /\ moves' \in Seq(Entry) /\ Grown(moves, moves') /\ Grown(ledger, ledger')
      /\ inbox' \in Seq(InboxStates) /\ Len(inbox') = Len(moves') /\ OwnIsNotApplied'
    BY <1>1, MovesGrow
<1>4. SweepsInTurn'
    BY <1>1, <1>3, SweepsStand DEF WalletInv, WalletShapes
<1>5. WalletShapes'
    BY <1>1, <1>3 DEF WalletInv, WalletShapes
<1> QED
    BY <1>2, <1>3, <1>4, <1>5 DEF WalletInv

-----------------------------------------------------------------------------
(* The sweeps *)

\* A sweep that goes on while the ledgers stand.
LEMMA SweepGoesKeeps ==
    ASSUME WalletInv, NEW s \in Sweepers, NEW w \in SweepState, sweep' = [sweep EXCEPT ![s] = w],
           InTurn(w, ledger, moves), UNCHANGED <<ledger, moves, inbox, applier>>
    PROVE  WalletInv' /\ UNCHANGED Ledgers!ledgers
<1>1. Grown(ledger, ledger') /\ Grown(moves, moves')
    BY StaysGrown DEF WalletInv, WalletShapes
<1>2. SweepsInTurn' /\ sweep' \in [Sweepers -> SweepState]
    BY <1>1, OneSweepGoesOn DEF WalletInv, WalletShapes
<1>3. WalletShapes' /\ OwnIsNotApplied'
    BY <1>2 DEF WalletInv, WalletShapes, OwnIsNotApplied
<1> QED
    BY <1>2, <1>3 DEF WalletInv, Ledgers!ledgers

\* SweepGoes: the same rows at another place.
LEMMA GoesIs ==
    ASSUME WalletInv, NEW s \in Sweepers, NEW pc \in {"row", "ask", "post", "link"},
           NEW n \in Nat, sweep[s].pc # "off",
           pc \in {"ask", "post", "link"} => ledger[RowOf(s)].of = 0,
           pc = "link" => IsIn(moves, RowOf(s))
    PROVE  LET w == [sweep[s] EXCEPT !.pc = pc, !.name = n]
               v == [sweep[s] EXCEPT !.pc = pc]
           IN  /\ w \in SweepState /\ InTurn(w, ledger, moves)
               /\ v \in SweepState /\ InTurn(v, ledger, moves)
<1>1. sweep[s] \in SweepState /\ InTurn(sweep[s], ledger, moves)
    BY DEF WalletInv, WalletShapes, SweepsInTurn
<1>2. RowOf(s) = sweep[s].todo[1]
    BY <1>1 DEF RowOf, InTurn, SweepState
<1> DEFINE w == [sweep[s] EXCEPT !.pc = pc, !.name = n]
           v == [sweep[s] EXCEPT !.pc = pc]
<1>3. /\ w \in SweepState /\ w.pc = pc /\ w.todo = sweep[s].todo
      /\ v \in SweepState /\ v.pc = pc /\ v.todo = sweep[s].todo
    BY <1>1 DEF SweepState
<1> HIDE DEF w, v
<1>4. InTurn(w, ledger, moves) /\ InTurn(v, ledger, moves)
    BY <1>1, <1>2, <1>3 DEF InTurn
<1> QED
    BY <1>3, <1>4 DEF w, v

LEMMA StartSweepKeeps ==
    ASSUME WalletInv, NEW s \in Sweepers, StartSweep(s)
    PROVE  WalletInv' /\ UNCHANGED Ledgers!ledgers
<1> DEFINE t == [i \in 1..Oldest |-> i]
           w == [pc |-> "row", todo |-> t, name |-> 0]
<1>1. ledger \in Seq(Entry) /\ ledger # <<>>
    BY DEF WalletInv, WalletShapes, StartSweep
<1>2. Oldest \in Nat /\ Oldest >= 1 /\ Oldest <= Len(ledger)
    BY <1>1 DEF Oldest
<1>3. t \in Seq(Nat) /\ Len(t) = Oldest /\ t # <<>> /\ t[1] = 1
    BY <1>2
<1>4. \A i \in DOMAIN t : t[i] = t[1] + i - 1 /\ t[i] \in DOMAIN ledger
    BY <1>1, <1>2, <1>3
<1>5. \A r \in DOMAIN ledger : ~(r < t[1])
    BY <1>1, <1>3
<1>6. w \in SweepState /\ w.pc = "row" /\ w.todo = t
    BY <1>3 DEF SweepState
<1>7. sweep' = [sweep EXCEPT ![s] = w] /\ UNCHANGED <<ledger, moves, inbox, applier>>
    BY DEF StartSweep, storeSide
<1> HIDE DEF w, t
<1>8. InTurn(w, ledger, moves)
    BY <1>3, <1>4, <1>5, <1>6 DEF InTurn
<1> QED
    BY <1>6, <1>7, <1>8, SweepGoesKeeps

LEMMA PlanRowKeeps ==
    ASSUME WalletInv, NEW s \in Sweepers, NEW ans \in Answer, PlanRow(s, ans)
    PROVE  WalletInv' /\ UNCHANGED Ledgers!ledgers
<1>1. sweep[s].pc = "row" /\ UNCHANGED <<ledger, moves, inbox, applier>>
    BY DEF PlanRow, storeSide
<1>2. CASE ~Travels(RowOf(s))
    <2>1. sweep' = [sweep EXCEPT ![s] = SweepAfter(s)] /\ ledger[RowOf(s)].of # 0
        BY <1>2 DEF PlanRow, NextRow, Travels
    <2> QED
        BY <1>1, <2>1, NextRowInTurn, SweepGoesKeeps DEF WalletInv
<1>3. CASE Travels(RowOf(s)) /\ ans = "ok"
    <2>1. sweep' = [sweep EXCEPT ![s] = [sweep[s] EXCEPT !.pc = "ask"]]
          /\ ledger[RowOf(s)].of = 0
        BY <1>3 DEF PlanRow, SweepGoes, Travels, WalletInv, WalletShapes
    <2>2. LET v == [sweep[s] EXCEPT !.pc = "ask"] IN v \in SweepState /\ InTurn(v, ledger, moves)
        BY <1>1, <2>1, GoesIs
    <2> QED
        BY <1>1, <2>1, <2>2, SweepGoesKeeps
<1>4. CASE Travels(RowOf(s)) /\ ans # "ok"
    <2>1. sweep' = [sweep EXCEPT ![s] = NoSweep]
        BY <1>4 DEF PlanRow, Stall
    <2> QED
        BY <1>1, <2>1, StoppedInTurn, SweepGoesKeeps
<1> QED
    BY <1>2, <1>3, <1>4

LEMMA AskErpnextKeeps ==
    ASSUME WalletInv, NEW s \in Sweepers, NEW ans \in Answer, AskErpnext(s, ans)
    PROVE  WalletInv' /\ UNCHANGED Ledgers!ledgers
<1>1. sweep[s].pc = "ask" /\ UNCHANGED <<ledger, moves, inbox, applier>>
    BY DEF AskErpnext, storeSide
<1>2. CASE ans = "ok" /\ Carrying(RowOf(s)) # {}
    <2>1. sweep' = [sweep EXCEPT ![s] = SweepAfter(s)] /\ IsIn(moves, RowOf(s))
        BY <1>2 DEF AskErpnext, NextRow, Carrying, IsIn
    <2> QED
        BY <1>1, <2>1, NextRowInTurn, SweepGoesKeeps DEF WalletInv
<1>3. CASE ~(ans = "ok" /\ Carrying(RowOf(s)) # {})
    <2>1. sweep' = [sweep EXCEPT ![s] = [sweep[s] EXCEPT !.pc = "post"]]
        BY <1>3 DEF AskErpnext, SweepGoes, WalletInv, WalletShapes
    <2>2. ledger[RowOf(s)].of = 0
        BY <1>1 DEF WalletInv, WalletShapes, SweepsInTurn, InTurn, RowOf, SweepState
    <2>3. LET v == [sweep[s] EXCEPT !.pc = "post"] IN v \in SweepState /\ InTurn(v, ledger, moves)
        BY <1>1, <2>2, GoesIs
    <2> QED
        BY <1>1, <2>1, <2>3, SweepGoesKeeps
<1> QED
    BY <1>2, <1>3

LEMMA LinkRowKeeps ==
    ASSUME WalletInv, NEW s \in Sweepers, LinkRow(s)
    PROVE  WalletInv' /\ UNCHANGED Ledgers!ledgers
<1>1. /\ sweep[s].pc = "link" /\ UNCHANGED <<ledger, moves, inbox, applier>>
      /\ sweep' = [sweep EXCEPT ![s] = SweepAfter(s)]
    BY DEF LinkRow, storeSide, NextRow
<1>2. IsIn(moves, RowOf(s))
    BY <1>1 DEF WalletInv, WalletShapes, SweepsInTurn, InTurn, RowOf, SweepState
<1> QED
    BY <1>1, <1>2, NextRowInTurn, SweepGoesKeeps DEF WalletInv

\* The row a sweep posts is the oldest of the store's that ERPNext does not have.
LEMMA PostedIsOldest ==
    ASSUME WalletInv, NEW s \in Sweepers, sweep[s].pc = "post", Carrying(RowOf(s)) = {}
    PROVE  /\ RowOf(s) \in Ledgers!Due(ledger, moves)
           /\ \A q \in Ledgers!Due(ledger, moves) : RowOf(s) <= q
<1>1. /\ RowOf(s) \in DOMAIN ledger /\ RowOf(s) \in Nat /\ RowOf(s) # 0
      /\ ledger[RowOf(s)].of = 0
      /\ \A r \in DOMAIN ledger : r < RowOf(s) /\ ledger[r].of = 0 => IsIn(moves, r)
    BY DEF WalletInv, WalletShapes, SweepsInTurn, InTurn, RowOf, SweepState
<1>2. RowOf(s) \in Ledgers!Due(ledger, moves)
    BY <1>1 DEF Carrying, Ledgers!Due, Ledgers!MadeIn, Ledgers!CarriedInto
<1>3. ASSUME NEW q \in Ledgers!Due(ledger, moves) PROVE RowOf(s) <= q
    <2>1. q \in DOMAIN ledger /\ q \in Nat /\ q # 0 /\ ledger[q].of = 0
        BY <1>3 DEF Ledgers!Due, Ledgers!MadeIn, WalletInv, WalletShapes
    <2>2. ~IsIn(moves, q)
        BY <1>3, <2>1 DEF Ledgers!Due, Ledgers!CarriedInto, IsIn
    <2> QED
        BY <1>1, <2>1, <2>2
<1> QED
    BY <1>2, <1>3

LEMMA PostRowKeeps ==
    ASSUME WalletInv, NEW s \in Sweepers, NEW ans \in Answer, PostRow(s, ans)
    PROVE  WalletInv' /\ [Ledgers!CarryFirst]_(Ledgers!ledgers)
<1> DEFINE r == RowOf(s)
           n == CHOOSE i \in DOMAIN moves' : moves'[i].of = r
           w == [sweep[s] EXCEPT !.pc = "link", !.name = n]
<1>1. /\ sweep[s].pc = "post" /\ UNCHANGED <<ledger, applier>>
      /\ r \in DOMAIN ledger /\ r \in Nat /\ r # 0 /\ ledger[r] \in Entry /\ ledger[r].of = 0
    BY DEF PostRow, WalletInv, WalletShapes, SweepsInTurn, InTurn, RowOf, SweepState
<1>2. \/ /\ Carrying(r) = {}
         /\ moves' = Append(moves, [dir |-> ledger[r].dir, of |-> r])
         /\ inbox' = Append(inbox, "own")
         /\ sweep' = [sweep EXCEPT ![s] = w] \/ sweep' = [sweep EXCEPT ![s] = NoSweep]
      \/ /\ UNCHANGED <<moves, inbox>>
         /\ sweep' = [sweep EXCEPT ![s] = NoSweep]
      \/ /\ Carrying(r) # {} /\ UNCHANGED <<moves, inbox>>
         /\ sweep' = [sweep EXCEPT ![s] = w]
    BY DEF PostRow, Stall, WalletInv, WalletShapes
<1> HIDE DEF r
<1>3. CASE UNCHANGED <<moves, inbox>> /\ sweep' = [sweep EXCEPT ![s] = NoSweep]
    BY <1>1, <1>3, StoppedInTurn, SweepGoesKeeps
<1>4. CASE Carrying(r) # {} /\ UNCHANGED <<moves, inbox>> /\ sweep' = [sweep EXCEPT ![s] = w]
    <2>1. n \in DOMAIN moves /\ IsIn(moves, r)
        BY <1>4 DEF Carrying, IsIn
    <2>2. n \in Nat
        BY <2>1 DEF WalletInv, WalletShapes
    <2> HIDE DEF n
    <2>3. w \in SweepState /\ InTurn(w, ledger, moves)
        BY <1>1, <2>1, <2>2, GoesIs DEF r
    <2> QED
        BY <1>1, <1>4, <2>3, SweepGoesKeeps
<1>5. CASE /\ Carrying(r) = {}
           /\ moves' = Append(moves, [dir |-> ledger[r].dir, of |-> r])
           /\ inbox' = Append(inbox, "own")
           /\ sweep' = [sweep EXCEPT ![s] = w] \/ sweep' = [sweep EXCEPT ![s] = NoSweep]
    <2> DEFINE e == [dir |-> ledger[r].dir, of |-> r]
    <2>1. e \in Entry /\ e.of = r /\ "own" \in InboxStates
        BY <1>1 DEF Entry, InboxStates
    <2>2. Ledgers!CarryFirst
        BY <1>1, <1>5, PostedIsOldest DEF Ledgers!CarryFirst, r
    <2>3. moves' = Append(moves, e)
        BY <1>5
    <2> HIDE DEF e
    <2>4. /\ moves' \in Seq(Entry) /\ Grown(moves, moves') /\ Grown(ledger, ledger')
          /\ inbox' \in Seq(InboxStates) /\ Len(inbox') = Len(moves') /\ OwnIsNotApplied'
          /\ Len(moves) + 1 \in DOMAIN moves' /\ moves'[Len(moves) + 1] = e
        BY <1>1, <1>5, <2>1, <2>3, MovesGrow
    <2>5. n \in DOMAIN moves' /\ n \in Nat /\ IsIn(moves', r)
        BY <2>1, <2>4 DEF IsIn
    <2> HIDE DEF n
    <2>6. /\ sweep[s] \in SweepState /\ InTurn(sweep[s], ledger', moves')
          /\ ledger' \in Seq(Entry) /\ r = sweep[s].todo[1]
        <3>1. sweep[s] \in SweepState /\ InTurn(sweep[s], ledger, moves) /\ ledger' \in Seq(Entry)
            BY <1>1 DEF WalletInv, WalletShapes, SweepsInTurn
        <3>2. r = sweep[s].todo[1]
            BY <1>1, <3>1 DEF InTurn, RowOf, SweepState, r
        <3> QED
            BY <1>1, <2>4, <3>1, <3>2, GrowingKeepsTurn DEF WalletInv, WalletShapes
    <2>7. w \in SweepState /\ w.pc = "link" /\ w.todo = sweep[s].todo
        BY <2>5, <2>6 DEF SweepState
    <2> HIDE DEF w
    <2>8. InTurn(w, ledger', moves') /\ InTurn(NoSweep, ledger', moves') /\ NoSweep \in SweepState
        BY <1>1, <2>5, <2>6, <2>7 DEF InTurn, NoSweep, SweepState
    <2>9. SweepsInTurn' /\ sweep' \in [Sweepers -> SweepState]
        <3>1. CASE sweep' = [sweep EXCEPT ![s] = w]
            BY <2>4, <2>6, <2>7, <2>8, <3>1, OneSweepGoesOn DEF WalletInv
        <3>2. CASE sweep' = [sweep EXCEPT ![s] = NoSweep]
            BY <2>4, <2>6, <2>8, <3>2, OneSweepGoesOn DEF WalletInv
        <3> QED
            BY <1>5, <3>1, <3>2
    <2>10. WalletShapes'
        BY <1>1, <2>4, <2>9 DEF WalletInv, WalletShapes
    <2> QED
        BY <2>2, <2>4, <2>9, <2>10 DEF WalletInv
<1> QED
    BY <1>2, <1>3, <1>4, <1>5

-----------------------------------------------------------------------------
(* The handlers of ERPNext's webhooks *)

\* A handler goes on, and a movement's row changes unless it is the store's own.
LEMMA HandlerKeeps ==
    ASSUME WalletInv, NEW h \in Appliers, NEW a \in ApplierState,
           applier' = applier \/ applier' = [applier EXCEPT ![h] = a],
           a.pc # "off" => a.move \in DOMAIN moves /\ inbox[a.move] # "own",
           NEW m \in DOMAIN moves, inbox[m] # "own", NEW st \in InboxStates \ {"own"},
           inbox' = inbox \/ inbox' = [inbox EXCEPT ![m] = st],
           UNCHANGED <<moves, sweep>>, ledger' \in Seq(Entry), Grown(ledger, ledger')
    PROVE  WalletInv'
<1>1. inbox \in Seq(InboxStates) /\ moves \in Seq(Entry) /\ Len(inbox) = Len(moves)
    BY DEF WalletInv, WalletShapes
<1>2. DOMAIN inbox = DOMAIN moves /\ m \in DOMAIN inbox
    BY <1>1
<1>3. inbox' \in Seq(InboxStates) /\ Len(inbox') = Len(moves)
    BY <1>1, <1>2
<1>4. \A i \in DOMAIN moves : inbox'[i] = "own" <=> inbox[i] = "own"
    BY <1>1, <1>2
<1>5. applier' \in [Appliers -> ApplierState]
    BY DEF WalletInv, WalletShapes
<1>6. \A g \in Appliers : applier'[g].pc # "off" =>
          applier'[g].move \in DOMAIN moves /\ inbox[applier'[g].move] # "own"
    BY DEF WalletInv, WalletShapes, OwnIsNotApplied
<1>7. OwnIsNotApplied'
    BY <1>4, <1>6 DEF WalletInv, OwnIsNotApplied
<1>8. SweepsInTurn'
    BY <1>1, StaysGrown, SweepsStand DEF WalletInv
<1> QED
    BY <1>1, <1>3, <1>5, <1>7, <1>8 DEF WalletInv, WalletShapes

LEMMA HandlersAre ==
    /\ NoApplier \in ApplierState /\ NoApplier.pc = "off"
    /\ {"due", "failed", "done", "unpaired"} \subseteq InboxStates \ {"own"}
    /\ Refused = "failed"
BY DEF NoApplier, ApplierState, InboxStates, Refused

LEMMA TakeUpKeeps ==
    ASSUME WalletInv, NEW h \in Appliers, NEW m \in DOMAIN moves, TakeUp(h, m)
    PROVE  WalletInv' /\ UNCHANGED Ledgers!ledgers
<1> DEFINE a == [pc |-> "apply", move |-> m]
<1>1. a \in ApplierState /\ a.move = m
    BY DEF ApplierState, WalletInv, WalletShapes
<1>2. /\ inbox[m] # "own" /\ UNCHANGED <<ledger, moves, sweep>>
      /\ \/ applier' = applier /\ inbox' = [inbox EXCEPT ![m] = "done"]
         \/ applier' = applier /\ inbox' = [inbox EXCEPT ![m] = "unpaired"]
         \/ applier' = [applier EXCEPT ![h] = a] /\ inbox' = inbox
    BY DEF TakeUp, HasWebhook, erpSide
<1> HIDE DEF a
<1>3. ledger' \in Seq(Entry) /\ Grown(ledger, ledger')
    BY <1>2, StaysGrown DEF WalletInv, WalletShapes
<1>4. WalletInv'
    BY <1>1, <1>2, <1>3, HandlersAre, HandlerKeeps
<1> QED
    BY <1>2, <1>4 DEF Ledgers!ledgers

LEMMA LinkMoveKeeps ==
    ASSUME WalletInv, NEW h \in Appliers, LinkMove(h)
    PROVE  WalletInv' /\ UNCHANGED Ledgers!ledgers
<1> DEFINE m == applier[h].move
<1>1. m \in DOMAIN moves /\ inbox[m] # "own"
    BY DEF LinkMove, WalletInv, OwnIsNotApplied
<1>2. /\ UNCHANGED <<ledger, moves, sweep>>
      /\ applier' = [applier EXCEPT ![h] = NoApplier] /\ inbox' = [inbox EXCEPT ![m] = "done"]
    BY DEF LinkMove, erpSide
<1> HIDE DEF m
<1>3. ledger' \in Seq(Entry) /\ Grown(ledger, ledger')
    BY <1>2, StaysGrown DEF WalletInv, WalletShapes
<1>4. WalletInv'
    BY <1>1, <1>2, <1>3, HandlersAre, HandlerKeeps
<1> QED
    BY <1>2, <1>4 DEF Ledgers!ledgers

LEMMA ApplyMoveKeeps ==
    ASSUME WalletInv, NEW h \in Appliers, NEW ans \in Answer, ApplyMove(h, ans)
    PROVE  WalletInv' /\ [Ledgers!CarrySecond]_(Ledgers!ledgers)
<1> DEFINE m == applier[h].move
           a == [applier[h] EXCEPT !.pc = "link"]
           e == [dir |-> moves[m].dir, of |-> m]
<1>1. /\ m \in DOMAIN moves /\ m \in Nat /\ m # 0 /\ moves[m] \in Entry
      /\ inbox[m] # "own" /\ moves[m].of = 0
    BY DEF ApplyMove, WalletInv, WalletShapes, OwnIsNotApplied
<1>2. a \in ApplierState /\ a.move = m
    BY DEF ApplierState, WalletInv, WalletShapes
<1>3. /\ UNCHANGED <<moves, sweep>>
      /\ \/ /\ applier' = [applier EXCEPT ![h] = a] /\ inbox' = inbox
            /\ \/ ledger' = ledger
               \/ Applied(m) = {} /\ ledger' = Append(ledger, e)
         \/ /\ applier' = [applier EXCEPT ![h] = NoApplier] /\ ledger' = ledger
            /\ inbox' = [inbox EXCEPT ![m] = Refused]
    BY DEF ApplyMove, erpSide, WalletInv, WalletShapes
<1>4. e \in Entry
    BY <1>1 DEF Entry
<1>5. [Ledgers!CarrySecond]_(Ledgers!ledgers)
    <2>1. CASE ledger' = ledger
        BY <1>3, <2>1 DEF Ledgers!ledgers
    <2>2. CASE Applied(m) = {} /\ ledger' = Append(ledger, e)
        <3>1. m \in Ledgers!Due(moves, ledger)
            BY <1>1, <2>2 DEF Applied, Ledgers!Due, Ledgers!MadeIn, Ledgers!CarriedInto
        <3>2. Ledgers!CarrySecond
            BY <1>3, <2>2, <3>1 DEF Ledgers!CarrySecond
        <3> QED
            BY <3>2
    <2> QED
        BY <1>3, <2>1, <2>2
<1> HIDE DEF m, a, e
<1>6. ledger' \in Seq(Entry) /\ Grown(ledger, ledger')
    BY <1>3, <1>4, StaysGrown, AppendGrows DEF WalletInv, WalletShapes
<1>7. CASE applier' = [applier EXCEPT ![h] = a] /\ inbox' = inbox
    <2>1. "due" \in InboxStates \ {"own"}
        BY HandlersAre
    <2> QED
        BY <1>1, <1>2, <1>3, <1>5, <1>6, <1>7, <2>1, HandlerKeeps
<1>8. CASE applier' = [applier EXCEPT ![h] = NoApplier] /\ inbox' = [inbox EXCEPT ![m] = Refused]
    BY <1>1, <1>3, <1>5, <1>6, <1>8, HandlersAre, HandlerKeeps
<1> QED
    BY <1>3, <1>7, <1>8

-----------------------------------------------------------------------------
(* The invariant and the theorem *)

LEMMA WalletStarts == WalletInit => WalletInv /\ Ledgers!Init
<1> SUFFICES ASSUME WalletInit PROVE WalletInv /\ Ledgers!Init
    OBVIOUS
<1>1. ledger = <<>> /\ moves = <<>> /\ inbox = <<>>
    BY DEF WalletInit
<1>2. NoSweep \in SweepState /\ NoSweep.pc = "off"
    BY DEF NoSweep, SweepState
<1>3. sweep \in [Sweepers -> SweepState] /\ \A s \in Sweepers : sweep[s].pc = "off"
    BY <1>2 DEF WalletInit
<1>4. applier \in [Appliers -> ApplierState] /\ \A h \in Appliers : applier[h].pc = "off"
    BY HandlersAre DEF WalletInit
<1>5. WalletShapes
    BY <1>1, <1>3, <1>4 DEF WalletShapes
<1>6. SweepsInTurn /\ OwnIsNotApplied
    BY <1>1, <1>3, <1>4 DEF SweepsInTurn, InTurn, OwnIsNotApplied
<1> QED
    BY <1>1, <1>5, <1>6 DEF WalletInv, Ledgers!Init

LEMMA WalletCrashKeeps ==
    ASSUME WalletInv, WalletCrash PROVE WalletInv' /\ UNCHANGED Ledgers!ledgers
<1>1. /\ UNCHANGED <<ledger, moves, inbox>>
      /\ sweep' = [s \in Sweepers |-> NoSweep] /\ applier' = [h \in Appliers |-> NoApplier]
    BY DEF WalletCrash
<1>2. NoSweep \in SweepState /\ NoSweep.pc = "off"
    BY DEF NoSweep, SweepState
<1>3. WalletShapes'
    BY <1>1, <1>2, HandlersAre DEF WalletInv, WalletShapes
<1>4. SweepsInTurn'
    BY <1>1, <1>2 DEF SweepsInTurn, InTurn
<1>5. OwnIsNotApplied'
    BY <1>1, HandlersAre DEF WalletInv, OwnIsNotApplied
<1> QED
    BY <1>1, <1>3, <1>4, <1>5 DEF WalletInv, Ledgers!ledgers

\* Every step keeps the invariant, and is a step of the two ledgers or none.
LEMMA WalletStep ==
    ASSUME WalletInv, [WalletNext]_walletVars
    PROVE  /\ WalletInv'
           /\ [Ledgers!Make \/ Ledgers!CarryFirst \/ Ledgers!CarrySecond]_(Ledgers!ledgers)
<1>1. ASSUME NEW dir \in Directions, StoreMoves(dir) \/ ErpnextMoves(dir)
      PROVE  WalletInv' /\ Ledgers!Make
    BY <1>1, StoreMovesKeeps, ErpnextMovesKeeps
<1>2. ASSUME NEW s \in Sweepers, StartSweep(s) \/ LinkRow(s)
      PROVE  WalletInv' /\ UNCHANGED Ledgers!ledgers
    BY <1>2, StartSweepKeeps, LinkRowKeeps
<1>3. ASSUME NEW s \in Sweepers, NEW ans \in Answer, PlanRow(s, ans) \/ AskErpnext(s, ans)
      PROVE  WalletInv' /\ UNCHANGED Ledgers!ledgers
    BY <1>3, PlanRowKeeps, AskErpnextKeeps
<1>4. ASSUME NEW s \in Sweepers, NEW ans \in Answer, PostRow(s, ans)
      PROVE  WalletInv' /\ [Ledgers!CarryFirst]_(Ledgers!ledgers)
    BY <1>4, PostRowKeeps
<1>5. ASSUME NEW h \in Appliers, NEW m \in DOMAIN moves, TakeUp(h, m)
      PROVE  WalletInv' /\ UNCHANGED Ledgers!ledgers
    BY <1>5, TakeUpKeeps
<1>6. ASSUME NEW h \in Appliers, LinkMove(h)
      PROVE  WalletInv' /\ UNCHANGED Ledgers!ledgers
    BY <1>6, LinkMoveKeeps
<1>7. ASSUME NEW h \in Appliers, NEW ans \in Answer, ApplyMove(h, ans)
      PROVE  WalletInv' /\ [Ledgers!CarrySecond]_(Ledgers!ledgers)
    BY <1>7, ApplyMoveKeeps
<1>8. CASE WalletCrash
    BY <1>8, WalletCrashKeeps
<1>9. CASE UNCHANGED walletVars
    <2>1. UNCHANGED <<ledger, moves, inbox, sweep, applier>>
        BY <1>9 DEF walletVars
    <2> QED
        BY <2>1 DEF WalletInv, WalletShapes, SweepsInTurn, OwnIsNotApplied, Ledgers!ledgers
<1> QED
    BY <1>1, <1>2, <1>3, <1>4, <1>5, <1>6, <1>7, <1>8, <1>9 DEF WalletNext, SweepStep, ApplyStep

\* Overlapping sweeps, repeated webhooks, lost answers and restarts, in any number, put no
\* movement twice into the other ledger, bring none back to the side that made it, and
\* let no row of the store overtake an older one.
THEOREM MirrorsLedgersHolds == WalletSpec => MirrorsLedgers
<1>1. WalletSpec => []WalletInv
    BY WalletStarts, WalletStep, PTL DEF WalletSpec
<1>2. WalletInv /\ [WalletNext]_walletVars =>
          [Ledgers!Make \/ Ledgers!CarryFirst \/ Ledgers!CarrySecond]_(Ledgers!ledgers)
    BY WalletStep
<1> QED
    BY <1>1, <1>2, WalletStarts, PTL DEF WalletSpec, MirrorsLedgers, Ledgers!Spec

-----------------------------------------------------------------------------
(***************************************************************************)
(* WalletMirror: what the link table says of the two ledgers.  A link is   *)
(* written of a sweep's row and of the movement that carried it, or of a   *)
(* handler's movement and of the row that carried it, whatever happened    *)
(* between the carrying and the link.                                      *)
(***************************************************************************)

\* The link joins movement and row, of which one carries the other.
Joins(lk, l, mv) ==
    \E n \in DOMAIN mv, i \in DOMAIN l :
        lk = [name |-> n, id |-> i] /\ (mv[n].of = i \/ l[i].of = n)

LinksJoin == \A lk \in moveLinks : Joins(lk, ledger, moves)

\* What a sweep is about to link carries the row in hand.
Names(w, mv) ==
    IF w.pc = "link" THEN w.name \in DOMAIN mv /\ mv[w.name].of = w.todo[1]
    ELSE w.name = 0 /\ (w.pc = "off" => w.todo = <<>>)

\* The movement in a handler's hands is in the store once it is about to be linked.
Brought(x, l, mv) ==
    x.move \in {0} \cup DOMAIN mv /\ (x.pc = "link" => \E r \in DOMAIN l : l[r].of = x.move)

OfKnown(l, mv) ==
    /\ \A r \in DOMAIN l : l[r].of \in {0} \cup DOMAIN mv
    /\ \A m \in DOMAIN mv : mv[m].of \in {0} \cup DOMAIN l

WalletCounts ==
    spender \in Sides /\ walletPaired \in BOOLEAN /\ walletFaults \in 0..MaxWalletFaults

LinkInv ==
    /\ LinksJoin /\ OfKnown(ledger, moves) /\ WalletCounts
    /\ \A s \in Sweepers : Names(sweep[s], moves)
    /\ \A h \in Appliers : Brought(applier[h], ledger, moves)

LEMMA GrowingKeepsLinks ==
    ASSUME NEW l \in Seq(Entry), NEW l2 \in Seq(Entry), NEW mv \in Seq(Entry),
           NEW mv2 \in Seq(Entry), Grown(l, l2), Grown(mv, mv2)
    PROVE  /\ DOMAIN l \subseteq DOMAIN l2 /\ DOMAIN mv \subseteq DOMAIN mv2
           /\ \A lk : Joins(lk, l, mv) => Joins(lk, l2, mv2)
           /\ \A w : Names(w, mv) => Names(w, mv2)
           /\ \A x : Brought(x, l, mv) => Brought(x, l2, mv2)
<1>1. DOMAIN l \subseteq DOMAIN l2 /\ DOMAIN mv \subseteq DOMAIN mv2
      /\ (\A i \in DOMAIN l : l2[i] = l[i]) /\ \A i \in DOMAIN mv : mv2[i] = mv[i]
    BY DEF Grown
<1>2. \A lk : Joins(lk, l, mv) => Joins(lk, l2, mv2)
    BY <1>1 DEF Joins
<1>3. \A w : Names(w, mv) => Names(w, mv2)
    BY <1>1 DEF Names
<1>4. \A x : Brought(x, l, mv) => Brought(x, l2, mv2)
    BY <1>1 DEF Brought
<1> QED
    BY <1>1, <1>2, <1>3, <1>4

\* What a step must see to, the rest being as before.
SweepsGoOn ==
    \/ UNCHANGED sweep
    \/ \E s \in Sweepers, w \in SweepState : sweep' = [sweep EXCEPT ![s] = w] /\ Names(w, moves')
HandlersGoOn ==
    \/ UNCHANGED applier
    \/ \E h \in Appliers, x \in ApplierState :
          applier' = [applier EXCEPT ![h] = x] /\ Brought(x, ledger', moves')
LinksGoOn == \A lk \in moveLinks' : lk \in moveLinks \/ Joins(lk, ledger', moves')

LEMMA LinksKeep ==
    ASSUME WalletInv, WalletInv', LinkInv, Grown(ledger, ledger'), Grown(moves, moves'),
           OfKnown(ledger', moves'), SweepsGoOn, HandlersGoOn, LinksGoOn, WalletCounts'
    PROVE  LinkInv'
<1>1. /\ ledger \in Seq(Entry) /\ ledger' \in Seq(Entry)
      /\ moves \in Seq(Entry) /\ moves' \in Seq(Entry)
      /\ sweep \in [Sweepers -> SweepState] /\ applier \in [Appliers -> ApplierState]
    BY DEF WalletInv, WalletShapes
<1>2. LinksJoin'
    BY <1>1, GrowingKeepsLinks DEF LinkInv, LinksJoin, LinksGoOn
<1>3. \A s \in Sweepers : Names(sweep[s], moves')
    BY <1>1, GrowingKeepsLinks DEF LinkInv
<1>4. \A s \in Sweepers : Names(sweep'[s], moves')
    BY <1>1, <1>3 DEF SweepsGoOn
<1>5. \A h \in Appliers : Brought(applier[h], ledger', moves')
    BY <1>1, GrowingKeepsLinks DEF LinkInv
<1>6. \A h \in Appliers : Brought(applier'[h], ledger', moves')
    BY <1>1, <1>5 DEF HandlersGoOn
<1> QED
    BY <1>2, <1>4, <1>6 DEF LinkInv

LEMMA AnswerCounts ==
    ASSUME WalletCounts, NEW ans, Answered(ans) PROVE walletFaults' \in 0..MaxWalletFaults
<1>1. walletFaults \in 0..MaxWalletFaults /\ MaxWalletFaults \in Nat
    BY WalletFaultsAreBounded DEF WalletCounts
<1>2. CASE ans = "ok"
    BY <1>1, <1>2 DEF Answered
<1>3. CASE ans # "ok"
    <2>1. walletFaults < MaxWalletFaults /\ walletFaults' = walletFaults + 1
        BY <1>3 DEF Answered, Answer
    <2> QED
        BY <1>1, <2>1, OneMore
<1> QED
    BY <1>2, <1>3

\* Steps that leave both ledgers alone.
LEMMA LedgersStand ==
    ASSUME WalletInv, WalletInv', LinkInv, UNCHANGED <<ledger, moves>>,
           SweepsGoOn, HandlersGoOn, LinksGoOn, WalletCounts'
    PROVE  LinkInv'
<1>1. Grown(ledger, ledger') /\ Grown(moves, moves')
    BY StaysGrown DEF WalletInv, WalletShapes
<1>2. OfKnown(ledger', moves')
    BY DEF LinkInv
<1> QED
    BY <1>1, <1>2, LinksKeep

LEMMA MadeKeepsLinks ==
    ASSUME WalletInv, WalletInv', LinkInv, NEW dir \in Directions, StoreMoves(dir) \/ ErpnextMoves(dir)
    PROVE  LinkInv'
<1>1. PICK e \in Entry : e = [dir |-> dir, of |-> 0]
    BY DEF Entry
<1>2. /\ \/ ledger' = Append(ledger, e) /\ moves' = moves
         \/ moves' = Append(moves, e) /\ ledger' = ledger
      /\ UNCHANGED <<spender, moveLinks, walletPaired, sweep, applier, walletFaults>>
    BY <1>1 DEF StoreMoves, ErpnextMoves
<1>3. ledger \in Seq(Entry) /\ moves \in Seq(Entry) /\ e.of = 0
    BY <1>1 DEF WalletInv, WalletShapes
<1>4. Grown(ledger, ledger') /\ Grown(moves, moves')
    BY <1>2, <1>3, AppendGrows, StaysGrown
<1>5. OfKnown(ledger', moves')
    <2>1. DOMAIN ledger \subseteq DOMAIN ledger' /\ DOMAIN moves \subseteq DOMAIN moves'
        BY <1>2, <1>3, AppendGrows
    <2>2. (\A r \in DOMAIN ledger' : (r \in DOMAIN ledger /\ ledger'[r] = ledger[r]) \/ ledger'[r] = e)
          /\ \A m \in DOMAIN moves' : (m \in DOMAIN moves /\ moves'[m] = moves[m]) \/ moves'[m] = e
        BY <1>2, <1>3
    <2> QED
        BY <1>3, <2>1, <2>2 DEF LinkInv, OfKnown
<1>6. WalletCounts'
    BY <1>2 DEF LinkInv, WalletCounts
<1> QED
    BY <1>2, <1>4, <1>5, <1>6, LinksKeep DEF SweepsGoOn, HandlersGoOn, LinksGoOn

\* The states a sweep goes to.
LEMMA SweepsNext ==
    ASSUME WalletInv, LinkInv, NEW s \in Sweepers, NEW mv
    PROVE  /\ NoSweep \in SweepState /\ Names(NoSweep, mv)
           /\ sweep[s].pc # "off" =>
                  SweepAfter(s) \in SweepState /\ Names(SweepAfter(s), mv)
           /\ \A pc \in {"row", "ask", "post"} : sweep[s].pc \notin {"off", "link"} =>
                  /\ [sweep[s] EXCEPT !.pc = pc] \in SweepState
                  /\ Names([sweep[s] EXCEPT !.pc = pc], mv)
<1>1. sweep[s] \in SweepState /\ Names(sweep[s], moves)
      /\ (sweep[s].pc # "off" => sweep[s].todo # <<>>)
    BY DEF WalletInv, WalletShapes, LinkInv, SweepsInTurn, InTurn
<1>2. NoSweep \in SweepState /\ Names(NoSweep, mv)
    BY DEF NoSweep, SweepState, Names
<1>3. ASSUME sweep[s].pc # "off" PROVE SweepAfter(s) \in SweepState /\ Names(SweepAfter(s), mv)
    <2>1. Tail(sweep[s].todo) \in Seq(Nat)
        BY <1>1, <1>3 DEF SweepState
    <2>2. PICK w : w = [pc |-> "row", todo |-> Tail(sweep[s].todo), name |-> 0]
        OBVIOUS
    <2>3. w \in SweepState /\ Names(w, mv)
        BY <2>1, <2>2 DEF SweepState, Names
    <2> QED
        BY <1>2, <2>2, <2>3 DEF SweepAfter
<1>4. ASSUME NEW pc \in {"row", "ask", "post"}, sweep[s].pc \notin {"off", "link"}
      PROVE  /\ [sweep[s] EXCEPT !.pc = pc] \in SweepState
             /\ Names([sweep[s] EXCEPT !.pc = pc], mv)
    <2>1. PICK w : w = [sweep[s] EXCEPT !.pc = pc]
        OBVIOUS
    <2>2. w \in SweepState /\ w.pc = pc /\ w.name = sweep[s].name
        BY <1>1, <2>1 DEF SweepState
    <2>3. Names(w, mv)
        BY <1>1, <1>4, <2>2 DEF Names
    <2> QED
        BY <2>1, <2>2, <2>3
<1> QED
    BY <1>2, <1>3, <1>4

LEMMA SweepKeepsLinks ==
    ASSUME WalletInv, WalletInv', LinkInv, NEW s \in Sweepers, NEW ans \in Answer,
           StartSweep(s) \/ PlanRow(s, ans)
    PROVE  LinkInv'
<1>1. UNCHANGED <<ledger, moves, moveLinks, applier, spender>>
    BY DEF StartSweep, PlanRow, storeSide
<1>2. WalletCounts'
    <2>1. CASE UNCHANGED <<walletPaired, walletFaults>>
        BY <1>1, <2>1 DEF LinkInv, WalletCounts
    <2>2. CASE Answered(ans) /\ walletPaired' \in {walletPaired, TRUE}
        BY <1>1, <2>2, AnswerCounts DEF LinkInv, WalletCounts
    <2> QED
        BY <2>1, <2>2 DEF StartSweep, PlanRow
<1>3. SweepsGoOn
    <2>1. CASE StartSweep(s)
        <3>1. PICK w : w = [pc |-> "row", todo |-> [i \in 1..Oldest |-> i], name |-> 0]
            OBVIOUS
        <3>2. sweep' = [sweep EXCEPT ![s] = w] /\ w = sweep'[s] /\ sweep'[s] \in SweepState
            BY <2>1, <3>1 DEF StartSweep, WalletInv, WalletShapes
        <3>3. Names(w, moves')
            BY <3>1 DEF Names
        <3> QED
            BY <3>2, <3>3 DEF SweepsGoOn
    <2>2. CASE PlanRow(s, ans)
        <3>1. sweep[s].pc = "row" /\ sweep \in [Sweepers -> SweepState]
            BY <2>2 DEF PlanRow, WalletInv, WalletShapes
        <3>2. \/ sweep' = [sweep EXCEPT ![s] = NoSweep]
              \/ sweep' = [sweep EXCEPT ![s] = SweepAfter(s)]
              \/ sweep' = [sweep EXCEPT ![s] = [sweep[s] EXCEPT !.pc = "ask"]]
            BY <2>2, <3>1 DEF PlanRow, NextRow, SweepGoes, Stall
        <3> QED
            BY <3>1, <3>2, SweepsNext DEF SweepsGoOn
    <2> QED
        BY <2>1, <2>2
<1> QED
    BY <1>1, <1>2, <1>3, LedgersStand DEF HandlersGoOn, LinksGoOn

LEMMA LinkKeepsLinks ==
    ASSUME WalletInv, WalletInv', LinkInv, NEW s \in Sweepers, NEW ans \in Answer,
           LinkRow(s) \/ AskErpnext(s, ans)
    PROVE  LinkInv'
<1>1. UNCHANGED <<ledger, moves, applier, spender, walletPaired>> /\ sweep[s].pc \in {"link", "ask"}
    BY DEF LinkRow, AskErpnext, storeSide
<1>2. WalletCounts'
    <2>1. walletFaults' \in 0..MaxWalletFaults
        BY AnswerCounts DEF LinkRow, AskErpnext, LinkInv, WalletCounts
    <2> QED
        BY <1>1, <2>1 DEF LinkInv, WalletCounts
<1>3. sweep[s] \in SweepState /\ RowOf(s) = sweep[s].todo[1] /\ RowOf(s) \in DOMAIN ledger
      /\ Names(sweep[s], moves) /\ sweep \in [Sweepers -> SweepState]
    BY <1>1 DEF WalletInv, WalletShapes, SweepsInTurn, InTurn, RowOf, SweepState, LinkInv
<1>4. SweepsGoOn
    <2>1. \/ sweep' = [sweep EXCEPT ![s] = SweepAfter(s)]
          \/ sweep[s].pc = "ask" /\ sweep' = [sweep EXCEPT ![s] = [sweep[s] EXCEPT !.pc = "post"]]
        BY <1>3 DEF LinkRow, AskErpnext, NextRow, SweepGoes
    <2> QED
        BY <1>1, <2>1, SweepsNext DEF SweepsGoOn
<1>5. LinksGoOn
    <2>1. CASE LinkRow(s)
        <3>1. moveLinks' = moveLinks \cup {[name |-> sweep[s].name, id |-> RowOf(s)]}
              /\ sweep[s].name \in DOMAIN moves /\ moves[sweep[s].name].of = RowOf(s)
            BY <1>3, <2>1 DEF LinkRow, Names
        <3>2. Joins([name |-> sweep[s].name, id |-> RowOf(s)], ledger, moves)
            BY <1>3, <3>1 DEF Joins
        <3> QED
            BY <1>1, <3>1, <3>2 DEF LinksGoOn
    <2>2. CASE AskErpnext(s, ans)
        <3>1. \A lk \in moveLinks' : lk \in moveLinks \/ lk \in [name: Carrying(RowOf(s)), id: {RowOf(s)}]
            BY <2>2 DEF AskErpnext
        <3>2. \A lk \in [name: Carrying(RowOf(s)), id: {RowOf(s)}] : Joins(lk, ledger, moves)
            <4> SUFFICES ASSUME NEW lk \in [name: Carrying(RowOf(s)), id: {RowOf(s)}]
                         PROVE  Joins(lk, ledger, moves)
                OBVIOUS
            <4>1. lk = [name |-> lk.name, id |-> lk.id] /\ lk.id = RowOf(s)
                  /\ lk.name \in DOMAIN moves /\ moves[lk.name].of = RowOf(s)
                BY DEF Carrying
            <4> QED
                BY <1>3, <4>1 DEF Joins
        <3> QED
            BY <1>1, <3>1, <3>2 DEF LinksGoOn
    <2> QED
        BY <2>1, <2>2
<1> QED
    BY <1>1, <1>2, <1>4, <1>5, LedgersStand DEF HandlersGoOn

LEMMA PostKeepsLinks ==
    ASSUME WalletInv, WalletInv', LinkInv, NEW s \in Sweepers, NEW ans \in Answer, PostRow(s, ans)
    PROVE  LinkInv'
<1> DEFINE r == RowOf(s)
           n == CHOOSE i \in DOMAIN moves' : moves'[i].of = r
           w == [sweep[s] EXCEPT !.pc = "link", !.name = n]
<1>1. /\ sweep[s].pc = "post" /\ UNCHANGED <<spender, ledger, moveLinks, walletPaired, applier>>
      /\ r \in DOMAIN ledger /\ r \in Nat /\ ledger[r] \in Entry /\ r = sweep[s].todo[1]
      /\ sweep[s] \in SweepState /\ sweep \in [Sweepers -> SweepState]
    BY DEF PostRow, WalletInv, WalletShapes, SweepsInTurn, InTurn, RowOf, SweepState
<1>2. /\ \/ Carrying(r) = {} /\ moves' = Append(moves, [dir |-> ledger[r].dir, of |-> r])
         \/ UNCHANGED moves
      /\ \/ sweep' = [sweep EXCEPT ![s] = NoSweep]
         \/ /\ sweep' = [sweep EXCEPT ![s] = w]
            /\ Carrying(r) # {} \/ moves' = Append(moves, [dir |-> ledger[r].dir, of |-> r])
      /\ Answered(ans)
    BY <1>1 DEF PostRow, Stall
<1> HIDE DEF r
<1>3. PICK e \in Entry : e = [dir |-> ledger[r].dir, of |-> r]
    BY <1>1 DEF Entry
<1>4. /\ moves \in Seq(Entry) /\ ledger \in Seq(Entry)
      /\ Append(moves, e) \in Seq(Entry) /\ Grown(moves, Append(moves, e))
      /\ Len(Append(moves, e)) = Len(moves) + 1 /\ Append(moves, e)[Len(moves) + 1] = e
      /\ Len(moves) + 1 \in DOMAIN Append(moves, e)
    BY AppendGrows DEF WalletInv, WalletShapes
<1>5. Grown(ledger, ledger') /\ Grown(moves, moves') /\ e.of = r
    BY <1>1, <1>2, <1>3, <1>4, StaysGrown
<1>6. OfKnown(ledger', moves')
    <2>1. CASE UNCHANGED moves
        BY <1>1, <2>1 DEF LinkInv
    <2>2. CASE moves' = Append(moves, e)
        <3>1. \A m \in DOMAIN moves' : (m \in DOMAIN moves /\ moves'[m] = moves[m]) \/ moves'[m] = e
            BY <1>4, <2>2
        <3>2. DOMAIN moves \subseteq DOMAIN moves'
            BY <1>4, <2>2
        <3> QED
            BY <1>1, <1>5, <3>1, <3>2 DEF LinkInv, OfKnown
    <2> QED
        BY <1>2, <1>3, <2>1, <2>2
<1>7. SweepsGoOn
    <2>1. CASE sweep' = [sweep EXCEPT ![s] = NoSweep]
        BY <2>1, SweepsNext DEF SweepsGoOn
    <2>2. CASE /\ sweep' = [sweep EXCEPT ![s] = w]
               /\ Carrying(r) # {} \/ moves' = Append(moves, [dir |-> ledger[r].dir, of |-> r])
        <3>1. \E i \in DOMAIN moves' : moves'[i].of = r
            <4>1. CASE Carrying(r) # {} /\ UNCHANGED moves
                BY <4>1 DEF Carrying
            <4>2. CASE moves' = Append(moves, e)
                BY <1>4, <1>5, <4>2
            <4> QED
                BY <1>2, <1>3, <2>2, <4>1, <4>2
        <3>2. n \in DOMAIN moves' /\ moves'[n].of = r
            BY <3>1
        <3>3. n \in Nat
            BY <3>2 DEF WalletInv, WalletShapes
        <3> HIDE DEF n
        <3>4. w \in SweepState /\ w.pc = "link" /\ w.todo = sweep[s].todo /\ w.name = n
            BY <1>1, <3>3 DEF SweepState
        <3> HIDE DEF w
        <3>5. Names(w, moves')
            BY <1>1, <3>2, <3>4 DEF Names
        <3> QED
            BY <2>2, <3>4, <3>5 DEF SweepsGoOn
    <2> QED
        BY <1>2, <2>1, <2>2
<1>8. WalletCounts'
    BY <1>1, <1>2, AnswerCounts DEF LinkInv, WalletCounts
<1> QED
    BY <1>1, <1>5, <1>6, <1>7, <1>8, LinksKeep DEF HandlersGoOn, LinksGoOn

LEMMA HandlerKeepsLinks ==
    ASSUME WalletInv, WalletInv', LinkInv, NEW h \in Appliers,
           (\E m \in DOMAIN moves : TakeUp(h, m)) \/ LinkMove(h)
    PROVE  LinkInv'
<1>1. UNCHANGED <<ledger, moves, sweep, spender, walletPaired, walletFaults>>
    BY DEF TakeUp, LinkMove, erpSide
<1>2. WalletCounts'
    BY <1>1 DEF LinkInv, WalletCounts
<1>3. NoApplier \in ApplierState /\ Brought(NoApplier, ledger', moves')
    BY DEF NoApplier, ApplierState, Brought
<1>4. CASE LinkMove(h)
    <2> DEFINE m == applier[h].move
               i == CHOOSE r \in DOMAIN ledger : ledger[r].of = m
    <2>1. applier[h].pc = "link" /\ moveLinks' = moveLinks \cup {[name |-> m, id |-> i]}
          /\ applier' = [applier EXCEPT ![h] = NoApplier]
        BY <1>4 DEF LinkMove
    <2>2. m \in DOMAIN moves /\ \E r \in DOMAIN ledger : ledger[r].of = m
        BY <2>1 DEF LinkInv, Brought, WalletInv, OwnIsNotApplied
    <2>3. i \in DOMAIN ledger /\ ledger[i].of = m
        BY <2>2
    <2>4. Joins([name |-> m, id |-> i], ledger, moves)
        BY <2>2, <2>3 DEF Joins
    <2>5. LinksGoOn
        BY <1>1, <2>1, <2>4 DEF LinksGoOn
    <2> QED
        BY <1>1, <1>2, <1>3, <2>1, <2>5, LedgersStand DEF HandlersGoOn, SweepsGoOn
<1>5. ASSUME NEW m \in DOMAIN moves, TakeUp(h, m) PROVE LinkInv'
    <2>1. PICK x : x = [pc |-> "apply", move |-> m]
        OBVIOUS
    <2>2. x \in ApplierState /\ Brought(x, ledger', moves')
        BY <1>1, <2>1 DEF ApplierState, Brought, WalletInv, WalletShapes
    <2>3. UNCHANGED moveLinks /\ (UNCHANGED applier \/ applier' = [applier EXCEPT ![h] = x])
        BY <1>5, <2>1 DEF TakeUp
    <2> QED
        BY <1>1, <1>2, <2>2, <2>3, LedgersStand DEF HandlersGoOn, SweepsGoOn, LinksGoOn
<1> QED
    BY <1>4, <1>5

LEMMA ApplyKeepsLinks ==
    ASSUME WalletInv, WalletInv', LinkInv, NEW h \in Appliers, NEW ans \in Answer, ApplyMove(h, ans)
    PROVE  LinkInv'
<1>1. PICK m : m = applier[h].move
    OBVIOUS
<1>2. PICK x : x = [applier[h] EXCEPT !.pc = "link"]
    OBVIOUS
<1>3. m \in DOMAIN moves /\ m \in Nat /\ moves[m] \in Entry /\ applier[h].pc = "apply"
      /\ applier[h] \in ApplierState
    BY <1>1 DEF ApplyMove, WalletInv, WalletShapes, OwnIsNotApplied
<1>4. PICK e \in Entry : e = [dir |-> moves[m].dir, of |-> m]
    BY <1>3 DEF Entry
<1>5. /\ UNCHANGED <<spender, moves, sweep, moveLinks, walletPaired>> /\ Answered(ans)
      /\ \/ /\ applier' = [applier EXCEPT ![h] = x]
            /\ (Applied(m) # {} /\ ledger' = ledger) \/ ledger' = Append(ledger, e)
         \/ applier' = [applier EXCEPT ![h] = NoApplier] /\ ledger' = ledger
    BY <1>1, <1>2, <1>4 DEF ApplyMove, erpSide, WalletInv, WalletShapes
<1>6. ledger \in Seq(Entry) /\ moves \in Seq(Entry) /\ e.of = m /\ e.of \in {0} \cup DOMAIN moves
    BY <1>3, <1>4 DEF WalletInv, WalletShapes
<1>7. Grown(ledger, ledger') /\ Grown(moves, moves')
    BY <1>5, <1>6, AppendGrows, StaysGrown
<1>8. OfKnown(ledger', moves')
    <2>1. CASE ledger' = ledger
        BY <1>5, <2>1 DEF LinkInv
    <2>2. CASE ledger' = Append(ledger, e)
        <3>1. \A r \in DOMAIN ledger' : (r \in DOMAIN ledger /\ ledger'[r] = ledger[r]) \/ ledger'[r] = e
            BY <1>6, <2>2
        <3>2. DOMAIN ledger \subseteq DOMAIN ledger'
            BY <1>6, <2>2
        <3> QED
            BY <1>5, <1>6, <3>1, <3>2 DEF LinkInv, OfKnown
    <2> QED
        BY <1>5, <2>1, <2>2
<1>9. HandlersGoOn
    <2>1. NoApplier \in ApplierState /\ Brought(NoApplier, ledger', moves')
        BY DEF NoApplier, ApplierState, Brought
    <2>2. x \in ApplierState /\ x.move = m
        BY <1>1, <1>2, <1>3 DEF ApplierState
    <2>3. ASSUME (Applied(m) # {} /\ ledger' = ledger) \/ ledger' = Append(ledger, e)
          PROVE  Brought(x, ledger', moves')
        <3>1. \E r \in DOMAIN ledger' : ledger'[r].of = m
            <4>1. CASE Applied(m) # {} /\ ledger' = ledger
                BY <4>1 DEF Applied
            <4>2. CASE ledger' = Append(ledger, e)
                BY <1>6, <4>2, AppendGrows
            <4> QED
                BY <2>3, <4>1, <4>2
        <3> QED
            BY <1>3, <1>5, <2>2, <3>1 DEF Brought
    <2> QED
        BY <1>5, <2>1, <2>2, <2>3 DEF HandlersGoOn
<1>10. WalletCounts'
    BY <1>5, AnswerCounts DEF LinkInv, WalletCounts
<1> QED
    BY <1>5, <1>7, <1>8, <1>9, <1>10, LinksKeep DEF SweepsGoOn, LinksGoOn

LEMMA LinkStep ==
    ASSUME WalletInv, WalletInv', LinkInv, [WalletNext]_walletVars PROVE LinkInv'
<1>1. CASE WalletCrash
    <2>1. /\ UNCHANGED <<spender, ledger, moves, moveLinks, walletPaired>>
          /\ sweep' = [s \in Sweepers |-> NoSweep] /\ applier' = [h \in Appliers |-> NoApplier]
        BY <1>1 DEF WalletCrash
    <2>2. walletFaults' \in 0..MaxWalletFaults
        BY <1>1, WalletFaultsAreBounded, OneMore DEF WalletCrash, LinkInv, WalletCounts
    <2>3. WalletCounts'
        BY <2>1, <2>2 DEF LinkInv, WalletCounts
    <2>4. LinksJoin' /\ OfKnown(ledger', moves')
        BY <2>1 DEF LinkInv, LinksJoin
    <2>5. (\A s \in Sweepers : Names(sweep'[s], moves'))
          /\ \A h \in Appliers : Brought(applier'[h], ledger', moves')
        BY <2>1 DEF Names, Brought, NoSweep, NoApplier
    <2> QED
        BY <2>3, <2>4, <2>5 DEF LinkInv
<1>2. CASE UNCHANGED walletVars
    <2>1. UNCHANGED <<spender, ledger, moves, moveLinks, walletPaired, sweep, applier, walletFaults>>
        BY <1>2 DEF walletVars
    <2>2. WalletCounts'
        BY <2>1 DEF LinkInv, WalletCounts
    <2> QED
        BY <2>1, <2>2, LedgersStand DEF SweepsGoOn, HandlersGoOn, LinksGoOn
<1>3. ASSUME NEW s \in Sweepers, SweepStep(s) PROVE LinkInv'
    <2>1. "ok" \in Answer
        BY DEF Answer
    <2> QED
        BY <1>3, <2>1, SweepKeepsLinks, LinkKeepsLinks, PostKeepsLinks DEF SweepStep
<1>4. ASSUME NEW h \in Appliers, ApplyStep(h) PROVE LinkInv'
    BY <1>4, HandlerKeepsLinks, ApplyKeepsLinks DEF ApplyStep
<1> QED
    BY <1>1, <1>2, <1>3, <1>4, MadeKeepsLinks DEF WalletNext

LEMMA LinkStarts == WalletInit => LinkInv
<1> SUFFICES ASSUME WalletInit PROVE LinkInv
    OBVIOUS
<1>1. ledger = <<>> /\ moves = <<>> /\ moveLinks = {} /\ walletFaults = 0
    BY DEF WalletInit
<1>2. walletFaults \in 0..MaxWalletFaults
    BY <1>1, WalletFaultsAreBounded
<1>3. WalletCounts
    BY <1>2 DEF WalletInit, WalletCounts
<1>4. LinksJoin /\ OfKnown(ledger, moves)
    BY <1>1 DEF LinksJoin, OfKnown
<1>5. (\A s \in Sweepers : Names(sweep[s], moves))
      /\ \A h \in Appliers : Brought(applier[h], ledger, moves)
    BY DEF WalletInit, Names, Brought, NoSweep, NoApplier
<1> QED
    BY <1>3, <1>4, <1>5 DEF LinkInv

LEMMA WalletHolds == WalletSpec => []WalletInv /\ []LinkInv
<1>1. WalletInv /\ LinkInv /\ [WalletNext]_walletVars => WalletInv' /\ LinkInv'
    BY WalletStep, LinkStep
<1> QED
    BY <1>1, WalletStarts, LinkStarts, PTL DEF WalletSpec

\* Every link of the two ledgers names a row and a movement of which one carries the
\* other, although a sweep or a handler writes it a step after the money moved and other
\* sweeps, repeated webhooks and restarts come between (pushWalletTransaction,
\* walletRowPaired, applyWalletEvent).
THEOREM LinksJoinWhatCarries == WalletSpec => []LinksJoin
<1>1. LinkInv => LinksJoin
    BY DEF LinkInv
<1> QED
    BY <1>1, WalletHolds, PTL

\* An entry of whose number is known to be at most n.
LEMMA EntryUpTo ==
    ASSUME NEW e \in Entry, NEW n \in Nat, e.of \in 0..n
    PROVE  e \in [dir: Directions, of: 0..n]
BY DEF Entry

LEMMA WalletTyped ==
    ASSUME WalletInv, LinkInv PROVE WalletTypes
<1>1. /\ ledger \in Seq(Entry) /\ moves \in Seq(Entry) /\ inbox \in Seq(InboxStates)
      /\ Len(inbox) = Len(moves) /\ sweep \in [Sweepers -> SweepState]
      /\ applier \in [Appliers -> ApplierState]
    BY DEF WalletInv, WalletShapes
<1>2. /\ Len(ledger) \in Nat /\ DOMAIN ledger = 1..Len(ledger)
      /\ Len(moves) \in Nat /\ DOMAIN moves = 1..Len(moves) /\ DOMAIN inbox = DOMAIN moves
    BY <1>1
<1>3. ledger \in Seq([dir: Directions, of: 0..Len(moves)])
    <2>1. \A r \in 1..Len(ledger) : ledger[r] \in [dir: Directions, of: 0..Len(moves)]
        <3> SUFFICES ASSUME NEW r \in 1..Len(ledger)
                     PROVE  ledger[r] \in [dir: Directions, of: 0..Len(moves)]
            OBVIOUS
        <3>1. ledger[r] \in Entry
            BY <1>1, <1>2
        <3>2. ledger[r].of \in 0..Len(moves)
            BY <1>2 DEF LinkInv, OfKnown
        <3> QED
            BY <1>2, <3>1, <3>2, EntryUpTo
    <2> QED
        BY <1>1, <2>1, SeqOfFewer
<1>4. moves \in Seq([dir: Directions, of: 0..Len(ledger)])
    <2>1. \A m \in 1..Len(moves) : moves[m] \in [dir: Directions, of: 0..Len(ledger)]
        <3> SUFFICES ASSUME NEW m \in 1..Len(moves)
                     PROVE  moves[m] \in [dir: Directions, of: 0..Len(ledger)]
            OBVIOUS
        <3>1. moves[m] \in Entry
            BY <1>1, <1>2
        <3>2. moves[m].of \in 0..Len(ledger)
            BY <1>2 DEF LinkInv, OfKnown
        <3> QED
            BY <1>2, <3>1, <3>2, EntryUpTo
    <2> QED
        BY <1>1, <2>1, SeqOfFewer
<1>5. moveLinks \subseteq [name: DOMAIN moves, id: DOMAIN ledger]
    BY DEF LinkInv, LinksJoin, Joins
<1>6. \A s \in Sweepers : sweep[s] \in [pc: {"off", "row", "ask", "post", "link"},
                               todo: Seq(DOMAIN ledger), name: 0..Len(moves)]
    <2> SUFFICES ASSUME NEW s \in Sweepers
                 PROVE  sweep[s] \in [pc: {"off", "row", "ask", "post", "link"},
                               todo: Seq(DOMAIN ledger), name: 0..Len(moves)]
        OBVIOUS
    <2>1. sweep[s] \in SweepState /\ InTurn(sweep[s], ledger, moves) /\ Names(sweep[s], moves)
        BY <1>1 DEF WalletInv, SweepsInTurn, LinkInv
    <2>2. /\ sweep[s].todo \in Seq(Nat)
          /\ \A i \in DOMAIN sweep[s].todo : sweep[s].todo[i] \in DOMAIN ledger
        BY <2>1 DEF SweepState, InTurn, Names
    <2>3. sweep[s].todo \in Seq(DOMAIN ledger)
        BY <2>2
    <2>4. sweep[s].name \in 0..Len(moves)
        BY <1>2, <2>1 DEF Names
    <2> QED
        BY <2>1, <2>3, <2>4 DEF SweepState
<1>7. \A h \in Appliers : applier[h] \in [pc: {"off", "apply", "link"}, move: 0..Len(moves)]
    BY <1>1, <1>2 DEF LinkInv, Brought, ApplierState
<1> QED
    BY <1>1, <1>2, <1>3, <1>4, <1>5, <1>6, <1>7
    DEF LinkInv, WalletCounts, WalletTypes, InboxStates

LEMMA WalletIsTyped == WalletSpec => []WalletTypes
<1>1. WalletInv /\ LinkInv => WalletTypes
    BY WalletTyped
<1> QED
    BY <1>1, WalletHolds, PTL

HIDE SweepsReadRows

-----------------------------------------------------------------------------
(***************************************************************************)
(* What is proved about Settlements for any statements, refusals, lost     *)
(* answers, restarts, replays and meddling: a second paper of a kind       *)
(* stands only where a search did not show the first, the payout is never  *)
(* booked without its fee (BookedInTurn), and a verdict of success is one  *)
(* about the statement in the row, unless a restart took the booking of    *)
(* that statement out of line (ClearsTheAccount).                          *)
(*                                                                         *)
(* SettlementInv says what the clerk may rely on: a paper is made only     *)
(* where none stands or one was missed, and the desk gets to the payout    *)
(* only over a fee that was submitted.  ClearingInv says whose figures the papers have: what is *)
(* on the desk is the statement's at the head of the line, and the row     *)
(* holds the last of the line unless it holds one that does not add up.    *)
(***************************************************************************)

USE StatementsAreFigures

Versions == 1..Len(Statements)
PaperStates == {"draft", "submitted", "cancelled", "deleted"}
Paper == [st: PaperStates, fee: Int, tax: Int, net: Int, ref: Int]
Clerk == [pc: {"off", "find", "write", "link", "submit"}, at: Papers, doc: Nat]

\* Types.
SettlementShapes ==
    /\ said \in 0..Len(Statements)
    /\ heard \in Seq(Versions) /\ line \in Seq(Versions)
    /\ gateRow \in [st: {"none", "pending", "failed", "success"}, of: 0..Len(Statements)]
    /\ gateRow.st # "none" => gateRow.of \in Versions
    /\ line # <<>> => gateRow.st # "none"
    /\ clerk \in Clerk
    /\ books \in [Papers -> Seq(Paper)]
    /\ bookLinks \in [Papers -> SUBSET Nat]
    /\ \A k \in Papers : bookLinks[k] \subseteq DOMAIN books[k]
    /\ gstOff \in Int
    /\ missed \subseteq Papers

Stands(k, n) == books[k][n].st \in {"draft", "submitted"}
FeeBooked == SubmittedPapers(Invoice) # {} \/ ByHand(Invoice)

OneStands ==
    \A k \in Papers \ missed :
        \A m, n \in DOMAIN books[k] : Stands(k, m) /\ Stands(k, n) => m = n
NoneShown(k) == Standing(k) = {} \/ k \in missed
PayoutAfterFee == books[Payout] # <<>> => FeeBooked

\* What is on the clerk's desk.
AtTheDesk ==
    /\ clerk.pc = "write" => \/ clerk.doc \in DOMAIN books[clerk.at]
                             \/ clerk.doc = 0 /\ NoneShown(clerk.at)
    /\ clerk.pc \in {"link", "submit"} => clerk.doc \in DOMAIN books[clerk.at]
    /\ clerk.at = Payout => FeeBooked

SettlementInv == SettlementShapes /\ OneStands /\ PayoutAfterFee /\ AtTheDesk

-----------------------------------------------------------------------------
(* What a verdict says of the books *)

\* A paper has the figures of a statement.
Matches(k, d, s) ==
    IF k = Invoice THEN d.fee = s.fee /\ Magnitude(d.tax - s.tax) <= GstTolerance
    ELSE d.net = s.net

\* A kind's paper was submitted with the figures of a statement, and only people undo that.
Booked(k, s) ==
    \/ ByHand(k)
    \/ \E n \in DOMAIN books[k] : books[k][n].st = "submitted" /\ Matches(k, books[k][n], s)

\* Only what adds up stands in line, and the row holds the last of it or what does not.
InLine ==
    /\ clerk.pc # "off" => line # <<>>
    /\ \A i \in DOMAIN line : AddsUp(Statements[line[i]])
    /\ line # <<>> /\ AddsUp(Statements[gateRow.of]) => gateRow.of = line[Len(line)]

\* What the clerk has written, and what is booked when the payout's turn comes.
OnTheDesk ==
    /\ clerk.pc \in {"link", "submit"} =>
          /\ books[clerk.at][clerk.doc].st \in {"draft", "deleted"}
          /\ books[clerk.at][clerk.doc].fee = Statement.fee
          /\ books[clerk.at][clerk.doc].net = Statement.net
    /\ clerk.pc # "off" /\ clerk.at = Payout => Booked(Invoice, Statement)

VerdictHolds ==
    gateRow.st = "success" /\ line = <<>> /\ AddsUp(Statements[gateRow.of]) /\
    gateRow.of \notin forsaken =>
        \A k \in Papers : Booked(k, Statements[gateRow.of])

ClearingInv == InLine /\ OnTheDesk /\ VerdictHolds

-----------------------------------------------------------------------------
(* The books *)

LEMMA PapersAre == Invoice \in Papers /\ Payout \in Papers /\ Invoice # Payout
BY DEF Papers, Invoice, Payout

LEMMA OffIs == Off \in Clerk /\ Off.pc = "off" /\ Off.at = Invoice
BY PapersAre DEF Off, Clerk

\* A paper takes the step from one state to another.
Steps(old, new) ==
    \/ new = old
    \/ old = "draft" /\ new \in {"submitted", "deleted"}
    \/ old = "submitted" /\ new = "cancelled"

\* A paper that is written over, submitted, cancelled or deleted gives no other one a
\* place, and leaves the fee booked.
LEMMA PaperSteps ==
    ASSUME SettlementInv, NEW k \in Papers, NEW n \in DOMAIN books[k], NEW d \in Paper,
           books' = books \/ books' = [books EXCEPT ![k][n] = d],
           Steps(books[k][n].st, d.st), missed' = missed
    PROVE  /\ books' \in [Papers -> Seq(Paper)] /\ OneStands' /\ PayoutAfterFee'
           /\ FeeBooked => FeeBooked'
           /\ \A j \in Papers : DOMAIN books'[j] = DOMAIN books[j]
           /\ \A j \in Papers : Standing(j) = {} => Standing(j)' = {}
           /\ books' = [books EXCEPT ![k][n] = d] => books'[k][n] = d
<1>1. books \in [Papers -> Seq(Paper)] /\ books[k] \in Seq(Paper)
    BY DEF SettlementInv, SettlementShapes
<1>2. CASE books' = books
    <2>1. OneStands' /\ PayoutAfterFee' /\ (FeeBooked <=> FeeBooked')
        BY <1>2 DEF SettlementInv, OneStands, PayoutAfterFee, FeeBooked, Stands, SubmittedPapers,
                    ByHand
    <2>2. \A j \in Papers : Standing(j)' = Standing(j)
        BY <1>2 DEF Standing
    <2>3. books = [books EXCEPT ![k][n] = d] => books[k][n] = d
        <3> DEFINE b == [books[k] EXCEPT ![n] = d]
        <3>1. b[n] = d
            BY <1>1
        <3> HIDE DEF b
        <3>2. [books EXCEPT ![k] = b][k] = b
            BY <1>1
        <3> QED
            BY <3>1, <3>2 DEF b
    <2> QED
        BY <1>1, <1>2, <2>1, <2>2, <2>3
<1>3. CASE books' = [books EXCEPT ![k][n] = d]
    <2> DEFINE b == [books[k] EXCEPT ![n] = d]
    <2>1. b \in Seq(Paper) /\ DOMAIN b = DOMAIN books[k] /\ b[n] = d
          /\ \A m \in DOMAIN books[k] : m # n => b[m] = books[k][m]
        BY <1>1
    <2>2. books' = [books EXCEPT ![k] = b]
        BY <1>3
    <2> HIDE DEF b
    <2>3. books' \in [Papers -> Seq(Paper)] /\ books'[k] = b
          /\ \A j \in Papers : j # k => books'[j] = books[j]
        BY <1>1, <2>1, <2>2
    <2>4. \A j \in Papers : /\ DOMAIN books'[j] = DOMAIN books[j]
                            /\ \A m \in DOMAIN books[j] : Steps(books[j][m].st, books'[j][m].st)
        BY <2>1, <2>3 DEF Steps
    <2>5. \A j \in Papers : \A m \in DOMAIN books[j] : Stands(j, m)' => Stands(j, m)
        BY <2>4 DEF Stands, Steps
    <2>6. OneStands'
        BY <2>4, <2>5 DEF SettlementInv, OneStands
    <2>7. FeeBooked => FeeBooked'
        <3>1. \A m \in DOMAIN books[Invoice] : /\ m \in DOMAIN books'[Invoice]
                                              /\ Steps(books[Invoice][m].st, books'[Invoice][m].st)
            BY <2>4, PapersAre
        <3>2. ASSUME NEW m \in DOMAIN books[Invoice],
                     books[Invoice][m].st \in {"submitted", "cancelled"}
              PROVE  books'[Invoice][m].st \in {"submitted", "cancelled"}
            BY <3>1, <3>2 DEF Steps
        <3> QED
            BY <3>1, <3>2 DEF FeeBooked, SubmittedPapers, ByHand
    <2>8. books'[Payout] # <<>> => books[Payout] # <<>>
        <3>1. books'[Payout] \in Seq(Paper) /\ books[Payout] \in Seq(Paper)
            BY <1>1, <2>3, PapersAre
        <3>2. DOMAIN books'[Payout] = DOMAIN books[Payout]
            BY <2>4, PapersAre
        <3> QED
            BY <3>1, <3>2
    <2>9. PayoutAfterFee'
        BY <2>7, <2>8 DEF SettlementInv, PayoutAfterFee
    <2>10. \A j \in Papers : Standing(j) = {} => Standing(j)' = {}
        BY <2>4, <2>5 DEF Standing, Stands
    <2> QED
        BY <2>1, <2>3, <2>4, <2>6, <2>7, <2>9, <2>10
<1> QED
    BY <1>2, <1>3

\* A draft that is made where none stands that was not missed, and after the fee if it is the payout.
LEMMA PaperMade ==
    ASSUME SettlementInv, NEW k \in Papers, NEW d \in Paper, d.st = "draft",
           books' = [books EXCEPT ![k] = Append(@, d)], NoneShown(k),
           missed' = missed, k = Payout => FeeBooked
    PROVE  /\ books' \in [Papers -> Seq(Paper)] /\ OneStands' /\ PayoutAfterFee'
           /\ FeeBooked => FeeBooked'
           /\ \A j \in Papers : DOMAIN books[j] \subseteq DOMAIN books'[j]
           /\ Len(books[k]) + 1 \in DOMAIN books'[k] /\ Len(books[k]) + 1 \in Nat
<1>1. books \in [Papers -> Seq(Paper)] /\ books[k] \in Seq(Paper)
    BY DEF SettlementInv, SettlementShapes
<1> DEFINE b == Append(books[k], d)
           new == Len(books[k]) + 1
<1>2. b \in Seq(Paper) /\ DOMAIN b = DOMAIN books[k] \cup {new} /\ new \in Nat
      /\ b[new] = d /\ \A m \in DOMAIN books[k] : b[m] = books[k][m]
    BY <1>1
<1>3. books' = [books EXCEPT ![k] = b]
    OBVIOUS
<1> HIDE DEF b, new
<1>4. books' \in [Papers -> Seq(Paper)] /\ books'[k] = b
      /\ \A j \in Papers : j # k => books'[j] = books[j]
    BY <1>1, <1>2, <1>3
<1>5. \A j \in Papers : /\ DOMAIN books[j] \subseteq DOMAIN books'[j]
                        /\ \A m \in DOMAIN books[j] : books'[j][m] = books[j][m]
    BY <1>2, <1>4
<1>6. OneStands'
    <2>1. k \notin missed => \A m \in DOMAIN books[k] : ~Stands(k, m)
        BY DEF Standing, Stands, NoneShown
    <2>2. k \notin missed => \A m \in DOMAIN books'[k] : Stands(k, m)' => m = new
        BY <1>2, <1>4, <2>1 DEF Stands
    <2>3. \A j \in Papers : j # k => \A m \in DOMAIN books'[j] : Stands(j, m)' <=> Stands(j, m)
        BY <1>4 DEF Stands
    <2> QED
        BY <1>4, <2>2, <2>3 DEF SettlementInv, OneStands
<1>7. FeeBooked => FeeBooked'
    BY <1>5, PapersAre DEF FeeBooked, SubmittedPapers, ByHand
<1>8. PayoutAfterFee'
    BY <1>4, <1>7 DEF SettlementInv, PayoutAfterFee
<1> QED
    BY <1>2, <1>4, <1>5, <1>6, <1>7, <1>8 DEF new

LEMMA StatementIs ==
    ASSUME NEW v \in Versions
    PROVE  Statements[v] \in
              [gross: Int, refund: Int, fee: Int, tax: Int, adjustment: Int, net: Int, ref: Int]
<1> DEFINE S == [gross: Int, refund: Int, fee: Int, tax: Int, adjustment: Int, net: Int,
                 ref: Int]
<1>1. Statements \in Seq(S)
    OBVIOUS
<1> HIDE DEF S
<1>2. Statements[v] \in S
    BY <1>1 DEF Versions
<1> QED
    BY <1>2 DEF S

\* A paper, and what becomes of it when its state changes.
LEMMA PaperIs ==
    ASSUME SettlementShapes, NEW k \in Papers, NEW n \in DOMAIN books[k]
    PROVE  books[k][n] \in Paper /\ books[k][n].st \in PaperStates
<1>1. books[k] \in Seq(Paper)
    BY DEF SettlementShapes
<1>2. books[k][n] \in Paper
    BY <1>1
<1> QED
    BY <1>2 DEF Paper

LEMMA OtherState ==
    ASSUME NEW d \in Paper, NEW st \in PaperStates
    PROVE  [d EXCEPT !.st = st] \in Paper /\ [d EXCEPT !.st = st].st = st
BY DEF Paper

\* What a statement says of the fee and the payout.
LEMMA FilledIs ==
    ASSUME SettlementShapes, line # <<>>, NEW st \in PaperStates
    PROVE  Filled(st) \in Paper /\ Filled(st).st = st
<1>1. Head(line) \in Versions
    BY DEF SettlementShapes
<1>2. Statement \in [gross: Int, refund: Int, fee: Int, tax: Int, adjustment: Int, net: Int,
                      ref: Int]
    BY <1>1, StatementIs DEF Statement
<1>3. /\ Statement.fee \in Int /\ Statement.tax \in Int /\ Statement.net \in Int
      /\ Statement.ref \in Int
    BY <1>2
<1> QED
    BY <1>3 DEF Filled, Paper, SettlementShapes

-----------------------------------------------------------------------------
(* How a step of the clerk's ends *)

\* Books and links after a step are in order.
BooksKeep ==
    /\ books' \in [Papers -> Seq(Paper)] /\ OneStands' /\ PayoutAfterFee'
    /\ bookLinks' \in [Papers -> SUBSET Nat]
    /\ \A k \in Papers : bookLinks'[k] \subseteq DOMAIN books'[k]
    /\ missed' \subseteq Papers

LEMMA QuietBooks ==
    ASSUME SettlementInv, UNCHANGED <<books, bookLinks, missed>>
    PROVE  BooksKeep /\ (FeeBooked <=> FeeBooked')
           /\ \A k \in Papers : Standing(k)' = Standing(k)
BY DEF SettlementInv, SettlementShapes, BooksKeep, OneStands, PayoutAfterFee, FeeBooked, Stands,
       SubmittedPapers, ByHand, Standing

\* The row has its verdict and the desk is empty.
LEMMA DoneKeeps ==
    ASSUME SettlementInv, AtDesk(clerk.pc), NEW st \in {"failed", "success"}, Done(st), BooksKeep
    PROVE  SettlementInv'
<1>1. /\ line' \in Seq(Versions) /\ clerk' = Off /\ line # <<>>
      /\ UNCHANGED <<said, heard, gstOff>>
    BY DEF Done, SettlementInv, SettlementShapes, AtDesk, gateway
<1>2. /\ gateRow' \in [st: {"none", "pending", "failed", "success"}, of: 0..Len(Statements)]
      /\ gateRow'.st # "none" /\ gateRow'.of \in Versions
    BY <1>1 DEF Done, SettlementInv, SettlementShapes
<1>3. SettlementShapes'
    BY <1>1, <1>2, OffIs DEF SettlementInv, SettlementShapes, BooksKeep
<1>4. AtTheDesk'
    BY <1>1, OffIs, PapersAre DEF AtTheDesk
<1> QED
    BY <1>3, <1>4 DEF SettlementInv, BooksKeep

\* The clerk goes on.
LEMMA MovesKeeps ==
    ASSUME SettlementInv, AtDesk(clerk.pc), BooksKeep, NEW k \in Papers, NEW n \in Nat,
           NEW pc \in {"find", "write", "link", "submit"}, Moves(pc, k, n),
           k = Payout => FeeBooked',
           pc = "write" => n \in DOMAIN books'[k] \/ (n = 0 /\ NoneShown(k)'),
           pc \in {"link", "submit"} => n \in DOMAIN books'[k]
    PROVE  SettlementInv'
<1>1. /\ clerk' \in Clerk /\ clerk'.pc = pc /\ clerk'.at = k /\ clerk'.doc = n
      /\ UNCHANGED <<said, heard, gstOff, gateRow, line>>
    BY DEF Moves, Clerk, AtDesk, gateway
<1>2. SettlementShapes'
    BY <1>1 DEF SettlementInv, SettlementShapes, BooksKeep
<1>3. AtTheDesk'
    BY <1>1 DEF AtTheDesk
<1> QED
    BY <1>2, <1>3 DEF SettlementInv, BooksKeep

\* One of the two is settled.
LEMMA SettledKeeps ==
    ASSUME SettlementInv, AtDesk(clerk.pc), BooksKeep, NEW k \in Papers, Settled(k),
           k = Invoice => FeeBooked'
    PROVE  SettlementInv'
<1>1. CASE k = Invoice
    BY <1>1, PapersAre, MovesKeeps DEF Settled
<1>2. CASE k # Invoice
    BY <1>2, DoneKeeps DEF Settled
<1> QED
    BY <1>1, <1>2

-----------------------------------------------------------------------------
(* The clerk's steps *)

LEMMA CheckKeeps ==
    ASSUME SettlementInv, NEW re \in Replies, Check(re) PROVE SettlementInv'
<1>1. AtDesk(clerk.pc) /\ BooksKeep
    BY QuietBooks DEF Check, AtDesk
<1>2. CASE re = "ok"
    BY <1>1, <1>2, PapersAre, MovesKeeps DEF Check
<1>3. CASE re # "ok"
    BY <1>1, <1>3, DoneKeeps DEF Check
<1> QED
    BY <1>2, <1>3

\* The desk finds a paper that is there, gives up, or makes a new one where none was shown.
LEMMA FindPaperIs ==
    ASSUME SettlementInv, NEW re, FindPaper(re), NEW k \in Papers, k = clerk.at
    PROVE  /\ AtDesk(clerk.pc) /\ clerk.pc = "find" /\ line # <<>> /\ UNCHANGED books
           /\ bookLinks' \in [Papers -> SUBSET Nat]
           /\ \A j \in Papers : bookLinks'[j] \subseteq DOMAIN books'[j]
           /\ missed \subseteq missed' /\ missed' \subseteq Papers
           /\ \/ Moves("write", k, 0) /\ NoneShown(k)'
              \/ GiveUp(k)
              \/ \E n \in DOMAIN books[k] :
                    /\ n \in Nat /\ n # 0
                    /\ \/ books[k][n].st = "draft" /\ Moves("write", k, n)
                       \/ books[k][n].st = "cancelled" /\ Settled(k)
                       \/ books[k][n].st = "submitted" /\ Agrees(k, books[k][n]) /\ Settled(k)
<1>1. AtDesk(clerk.pc) /\ clerk.pc = "find" /\ line # <<>> /\ UNCHANGED books
    BY DEF FindPaper, AtDesk
<1>2. /\ books \in [Papers -> Seq(Paper)] /\ bookLinks \in [Papers -> SUBSET Nat]
      /\ \A j \in Papers : bookLinks[j] \subseteq DOMAIN books[j]
      /\ missed \subseteq Papers
    BY DEF SettlementInv, SettlementShapes
<1>3. \A n \in DOMAIN books[k] : n \in Nat /\ n # 0 /\ books[k][n].st \in PaperStates
    BY <1>2, PaperIs DEF SettlementInv
<1>4. \A n \in Standing(k) : n \in DOMAIN books[k] /\ books[k][n].st # "deleted"
    BY DEF Standing
<1>5. ASSUME NEW over \in SUBSET Standing(k), Anew(k, over),
             over = {} => Standing(k) = {}
      PROVE  /\ bookLinks' \in [Papers -> SUBSET Nat]
             /\ \A j \in Papers : bookLinks'[j] \subseteq DOMAIN books'[j]
             /\ missed \subseteq missed' /\ missed' \subseteq Papers
             /\ Moves("write", k, 0) /\ NoneShown(k)'
    <2>1. /\ Moves("write", k, 0) /\ bookLinks' = [bookLinks EXCEPT ![k] = {}]
          /\ missed' = IF over = {} THEN missed ELSE missed \cup {k}
        BY <1>5 DEF Anew
    <2>2. NoneShown(k)'
        BY <1>1, <1>5, <2>1 DEF NoneShown, Standing
    <2> QED
        BY <1>1, <1>2, <2>1, <2>2
<1>6. CASE re = "ok" /\ \E n \in Candidates(k) : n # 0 /\ Take(k, n)
    <2>1. PICK n \in Candidates(k) : n # 0 /\ Take(k, n)
        BY <1>6
    <2>2. n \in DOMAIN books[k] /\ books[k][n].st \in {"draft", "submitted", "cancelled"}
        <3>1. n \in LinkedPapers(k) \/ n \in Standing(k)
            BY <2>1 DEF Candidates, Search
        <3>2. n \in DOMAIN books[k] /\ books[k][n].st # "deleted"
            BY <1>2, <1>4, <3>1 DEF LinkedPapers
        <3> QED
            BY <1>3, <3>2 DEF PaperStates
    <2>3. /\ bookLinks' = [bookLinks EXCEPT ![k] = IF LinkedPapers(k) # {} THEN @ ELSE {n}]
          /\ missed' = missed
        BY <2>1 DEF Take
    <2>4. /\ bookLinks' \in [Papers -> SUBSET Nat]
          /\ \A j \in Papers : bookLinks'[j] \subseteq DOMAIN books'[j]
        <3> DEFINE new == IF LinkedPapers(k) # {} THEN bookLinks[k] ELSE {n}
        <3>1. bookLinks' = [bookLinks EXCEPT ![k] = new]
            BY <2>3
        <3>2. new \in SUBSET Nat /\ new \subseteq DOMAIN books[k]
            BY <1>2, <1>3, <2>2
        <3> HIDE DEF new
        <3> QED
            BY <1>1, <1>2, <3>1, <3>2
    <2>5. \/ books[k][n].st = "draft" /\ Moves("write", k, n)
          \/ books[k][n].st = "cancelled" /\ Settled(k)
          \/ books[k][n].st = "submitted" /\ Agrees(k, books[k][n]) /\ Settled(k)
          \/ GiveUp(k)
        BY <2>1, <2>2 DEF Take
    <2> QED
        BY <1>1, <1>2, <1>3, <2>2, <2>3, <2>4, <2>5
<1>7. CASE /\ re = "ok" /\ 0 \in Candidates(k)
           /\ Anew(k, {n \in Standing(k) : k = Payout /\ books[k][n].ref # Statement.ref})
    <2> DEFINE over == {n \in Standing(k) : k = Payout /\ books[k][n].ref # Statement.ref}
    <2>1. 0 \notin LinkedPapers(k) /\ 0 \notin Search(k)
        BY <1>2, <1>3, <1>4 DEF LinkedPapers, Search
    <2>2. Search(k) = {}
        BY <1>7, <2>1 DEF Candidates
    <2>3. over = {} => Standing(k) = {}
        BY <2>2 DEF Search
    <2>4. over \in SUBSET Standing(k) /\ Anew(k, over)
        BY <1>7
    <2> HIDE DEF over
    <2> QED
        BY <1>1, <1>5, <2>3, <2>4
<1>8. CASE re # "ok" /\ Anew(k, Standing(k))
    BY <1>1, <1>5, <1>8
<1>9. CASE GiveUp(k) /\ UNCHANGED <<bookLinks, missed>>
    BY <1>1, <1>2, <1>9
<1> QED
    BY <1>6, <1>7, <1>8, <1>9 DEF FindPaper

LEMMA FindPaperKeeps ==
    ASSUME SettlementInv, NEW re \in Replies, FindPaper(re) PROVE SettlementInv'
<1>k. PICK k \in Papers : k = clerk.at
    BY DEF SettlementInv, SettlementShapes, Clerk
<1>1. /\ AtDesk(clerk.pc) /\ clerk.pc = "find" /\ line # <<>> /\ UNCHANGED books
      /\ bookLinks' \in [Papers -> SUBSET Nat]
      /\ \A j \in Papers : bookLinks'[j] \subseteq DOMAIN books'[j]
      /\ missed \subseteq missed' /\ missed' \subseteq Papers
      /\ \/ Moves("write", k, 0) /\ NoneShown(k)'
         \/ GiveUp(k)
         \/ \E n \in DOMAIN books[k] :
               /\ n \in Nat /\ n # 0
               /\ \/ books[k][n].st = "draft" /\ Moves("write", k, n)
                  \/ books[k][n].st = "cancelled" /\ Settled(k)
                  \/ books[k][n].st = "submitted" /\ Agrees(k, books[k][n]) /\ Settled(k)
    BY <1>k, FindPaperIs
<1>2. BooksKeep /\ (FeeBooked <=> FeeBooked')
    BY <1>1 DEF SettlementInv, SettlementShapes, BooksKeep, OneStands, PayoutAfterFee, FeeBooked,
                Stands, SubmittedPapers, ByHand
<1>3. k = Payout => FeeBooked'
    BY <1>k, <1>1, <1>2 DEF SettlementInv, AtTheDesk
<1>4. CASE Moves("write", k, 0) /\ NoneShown(k)'
    BY <1>1, <1>2, <1>3, <1>4, MovesKeeps
<1>5. CASE GiveUp(k)
    BY <1>1, <1>2, <1>5, DoneKeeps DEF GiveUp
<1>6. ASSUME NEW n \in DOMAIN books[k], n \in Nat, books[k][n].st = "draft", Moves("write", k, n)
      PROVE  SettlementInv'
    <2>1. n \in DOMAIN books'[k]
        BY <1>1
    <2> QED
        BY <1>1, <1>2, <1>3, <1>6, <2>1, MovesKeeps
<1>7. ASSUME NEW n \in DOMAIN books[k], books[k][n].st \in {"submitted", "cancelled"}, Settled(k)
      PROVE  SettlementInv'
    <2>1. k = Invoice => FeeBooked'
        BY <1>2, <1>7 DEF FeeBooked, SubmittedPapers, ByHand
    <2> QED
        BY <1>1, <1>2, <1>7, <2>1, SettledKeeps
<1> QED
    BY <1>1, <1>4, <1>5, <1>6, <1>7

LEMMA WritePaperKeeps ==
    ASSUME SettlementInv, NEW re \in Replies, WritePaper(re) PROVE SettlementInv'
<1> DEFINE k == clerk.at
           n == clerk.doc
<1>1. /\ AtDesk(clerk.pc) /\ UNCHANGED <<bookLinks, missed>> /\ k \in Papers
      /\ k = Payout => FeeBooked
      /\ n \in Nat /\ line # <<>>
      /\ n \in DOMAIN books[k] \/ (n = 0 /\ NoneShown(k))
    BY DEF WritePaper, AtDesk, SettlementInv, SettlementShapes, Clerk, AtTheDesk
<1>2. Filled("draft") \in Paper /\ Filled("draft").st = "draft"
    BY <1>1, FilledIs DEF SettlementInv, PaperStates
<1>3. \/ books' = books /\ Done("failed")
      \/ /\ n = 0 /\ books' = [books EXCEPT ![k] = Append(@, Filled("draft"))]
         /\ Done("failed") \/ Moves("link", k, Len(books[k]) + 1)
      \/ /\ n # 0 /\ books[k][n].st = "draft" /\ books' = [books EXCEPT ![k][n] = Filled("draft")]
         /\ Done("failed") \/ Moves("submit", k, n)
    BY DEF WritePaper, GiveUp
<1>4. /\ bookLinks \in [Papers -> SUBSET Nat] /\ books \in [Papers -> Seq(Paper)]
      /\ \A j \in Papers : bookLinks[j] \subseteq DOMAIN books[j]
      /\ missed \subseteq Papers
    BY DEF SettlementInv, SettlementShapes
<1> HIDE DEF k, n
<1>5. CASE books' = books /\ Done("failed")
    BY <1>1, <1>5, QuietBooks, DoneKeeps
<1>6. CASE /\ n = 0 /\ books' = [books EXCEPT ![k] = Append(@, Filled("draft"))]
           /\ Done("failed") \/ Moves("link", k, Len(books[k]) + 1)
    <2>1. n \notin DOMAIN books[k]
        BY <1>1, <1>4, <1>6
    <2>2. /\ books' \in [Papers -> Seq(Paper)] /\ OneStands' /\ PayoutAfterFee'
          /\ FeeBooked => FeeBooked'
          /\ \A j \in Papers : DOMAIN books[j] \subseteq DOMAIN books'[j]
          /\ Len(books[k]) + 1 \in DOMAIN books'[k] /\ Len(books[k]) + 1 \in Nat
        BY <1>1, <1>2, <1>6, <2>1, PaperMade
    <2>3. BooksKeep
        BY <1>1, <1>4, <2>2 DEF BooksKeep
    <2> QED
        BY <1>1, <1>6, <2>2, <2>3, DoneKeeps, MovesKeeps
<1>7. CASE /\ n # 0 /\ books[k][n].st = "draft" /\ books' = [books EXCEPT ![k][n] = Filled("draft")]
           /\ Done("failed") \/ Moves("submit", k, n)
    <2>1. n \in DOMAIN books[k]
        BY <1>1, <1>7
    <2>2. Steps(books[k][n].st, Filled("draft").st)
        BY <1>2, <1>7 DEF Steps
    <2>3. /\ books' \in [Papers -> Seq(Paper)] /\ OneStands' /\ PayoutAfterFee'
          /\ FeeBooked => FeeBooked'
          /\ \A j \in Papers : DOMAIN books'[j] = DOMAIN books[j]
        BY <1>1, <1>2, <1>7, <2>1, <2>2, PaperSteps
    <2>4. BooksKeep
        BY <1>1, <1>4, <2>3 DEF BooksKeep
    <2> QED
        BY <1>1, <1>7, <2>1, <2>3, <2>4, DoneKeeps, MovesKeeps
<1> QED
    BY <1>3, <1>5, <1>6, <1>7

LEMMA LinkPaperKeeps == ASSUME SettlementInv, LinkPaper PROVE SettlementInv'
<1> DEFINE k == clerk.at
           n == clerk.doc
<1>1. /\ AtDesk(clerk.pc) /\ UNCHANGED <<books, missed>> /\ k \in Papers
      /\ k = Payout => FeeBooked
      /\ n \in Nat /\ n \in DOMAIN books[k] /\ Moves("submit", k, n)
      /\ bookLinks' = [bookLinks EXCEPT ![k] = bookLinks[k] \cup {n}]
    BY DEF LinkPaper, AtDesk, SettlementInv, SettlementShapes, Clerk, AtTheDesk
<1> HIDE DEF k, n
<1>2. /\ bookLinks' \in [Papers -> SUBSET Nat] /\ books \in [Papers -> Seq(Paper)]
      /\ \A j \in Papers : bookLinks'[j] \subseteq DOMAIN books'[j]
      /\ missed \subseteq Papers
    BY <1>1 DEF SettlementInv, SettlementShapes
<1>3. BooksKeep /\ (FeeBooked <=> FeeBooked')
    BY <1>1, <1>2 DEF SettlementInv, BooksKeep, OneStands, PayoutAfterFee, FeeBooked,
                      Stands, SubmittedPapers, ByHand
<1> QED
    BY <1>1, <1>3, MovesKeeps

LEMMA SubmitPaperKeeps ==
    ASSUME SettlementInv, NEW re \in Replies, SubmitPaper(re) PROVE SettlementInv'
<1> DEFINE k == clerk.at
           n == clerk.doc
           d == books[k][n]
           e == [d EXCEPT !.st = "submitted"]
<1>1. /\ AtDesk(clerk.pc) /\ UNCHANGED <<bookLinks, missed>> /\ k \in Papers
      /\ k = Payout => FeeBooked
      /\ n \in Nat /\ n \in DOMAIN books[k]
    BY DEF SubmitPaper, AtDesk, SettlementInv, SettlementShapes, Clerk, AtTheDesk
<1>2. /\ bookLinks \in [Papers -> SUBSET Nat] /\ books \in [Papers -> Seq(Paper)]
      /\ \A j \in Papers : bookLinks[j] \subseteq DOMAIN books[j]
      /\ missed \subseteq Papers
    BY DEF SettlementInv, SettlementShapes
<1>3. d \in Paper /\ e \in Paper /\ e.st = "submitted"
    <2>1. d \in Paper /\ "submitted" \in PaperStates
        BY <1>1, PaperIs DEF SettlementInv, PaperStates
    <2> QED
        BY <2>1, OtherState
<1>4. \/ books' = books /\ Done("failed")
      \/ /\ d.st = "draft" /\ books' = [books EXCEPT ![k][n] = e]
         /\ Done("failed") \/ Settled(k)
      \/ d.st \notin {"draft", "deleted"} /\ books' = books /\ Settled(k)
    BY <1>1, <1>2 DEF SubmitPaper, GiveUp
<1>5. CASE books' = books /\ Done("failed")
    BY <1>1, <1>5, QuietBooks, DoneKeeps
<1>6. CASE d.st \notin {"draft", "deleted"} /\ books' = books /\ Settled(k)
    <2>1. k = Invoice => FeeBooked
        BY <1>1, <1>3, <1>6 DEF FeeBooked, SubmittedPapers, ByHand, Paper, PaperStates
    <2> QED
        BY <1>1, <1>6, <2>1, QuietBooks, SettledKeeps
<1>7. CASE /\ d.st = "draft" /\ books' = [books EXCEPT ![k][n] = e]
           /\ Done("failed") \/ Settled(k)
    <2>1. Steps(d.st, e.st)
        BY <1>3, <1>7 DEF Steps
    <2> HIDE DEF e
    <2>2. /\ books' \in [Papers -> Seq(Paper)] /\ OneStands' /\ PayoutAfterFee'
          /\ \A j \in Papers : DOMAIN books'[j] = DOMAIN books[j]
          /\ books'[k][n] = e
        BY <1>1, <1>3, <1>7, <2>1, PaperSteps
    <2>3. BooksKeep
        BY <1>1, <1>2, <2>2 DEF BooksKeep
    <2>4. k = Invoice => FeeBooked'
        BY <1>1, <1>3, <2>2 DEF FeeBooked, SubmittedPapers
    <2> QED
        BY <1>1, <1>7, <2>3, <2>4, DoneKeeps, SettledKeeps
<1> QED
    BY <1>4, <1>5, <1>6, <1>7

-----------------------------------------------------------------------------
(* The gateway, the books' keepers, the row and restarts *)

\* What leaves books and desk alone keeps what is said of them.
LEMMA DeskStands ==
    ASSUME SettlementInv, UNCHANGED <<books, bookLinks, missed, clerk>>, SettlementShapes'
    PROVE  SettlementInv'
<1>1. BooksKeep /\ (FeeBooked <=> FeeBooked') /\ \A k \in Papers : Standing(k)' = Standing(k)
    BY QuietBooks
<1>2. clerk.at \in Papers
    BY DEF SettlementInv, SettlementShapes, Clerk
<1>3. AtTheDesk'
    BY <1>1, <1>2 DEF SettlementInv, AtTheDesk, NoneShown
<1> QED
    BY <1>1, <1>3 DEF SettlementInv, BooksKeep

LEMMA EmitKeeps == ASSUME SettlementInv, Emit \/ FixSupplier PROVE SettlementInv'
<1>1. CASE Emit
    <2>1. said' \in 0..Len(Statements) /\ said + 1 \in Versions
        BY <1>1 DEF Emit, SettlementInv, SettlementShapes, Versions
    <2>2. heard' \in Seq(Versions)
        BY <1>1, <2>1 DEF Emit, SettlementInv, SettlementShapes
    <2>3. SettlementShapes'
        BY <1>1, <2>1, <2>2 DEF Emit, SettlementInv, SettlementShapes
    <2> QED
        BY <1>1, <2>3, DeskStands DEF Emit
<1>2. CASE FixSupplier
    <2>1. gstOff' \in Int
        BY <1>2 DEF FixSupplier
    <2>2. SettlementShapes'
        BY <1>2, <2>1 DEF FixSupplier, SettlementInv, SettlementShapes
    <2> QED
        BY <1>2, <2>2, DeskStands DEF FixSupplier
<1> QED
    BY <1>1, <1>2

LEMMA RecordIs ==
    ASSUME SettlementShapes, NEW v \in Versions, Record(v)
    PROVE  /\ line' \in Seq(Versions)
           /\ gateRow' \in [st: {"none", "pending", "failed", "success"}, of: 0..Len(Statements)]
           /\ gateRow'.st # "none" /\ gateRow'.of \in Versions
<1>1. Len(Statements) \in Nat /\ v \in 0..Len(Statements)
    BY DEF Versions
<1>2. line \in Seq(Versions) /\ Append(line, v) \in Seq(Versions)
    BY DEF SettlementShapes
<1>3. \/ gateRow' = [st |-> "pending", of |-> v] /\ line' = Append(line, v)
      \/ gateRow' = [st |-> "failed", of |-> v] /\ line' = line
    BY DEF Record
<1>4. line' \in Seq(Versions)
    BY <1>2, <1>3
<1> QED
    BY <1>1, <1>3, <1>4

LEMMA HearKeeps ==
    ASSUME SettlementInv, Hear \/ RetrySettlement \/ PressReplay PROVE SettlementInv'
<1>1. PICK v \in Versions : Record(v) /\ heard' \in Seq(Versions)
    <2>1. CASE Hear
        <3>1. heard \in Seq(Versions) /\ heard # <<>> /\ heard' = Tail(heard) /\ Record(Head(heard))
            BY <2>1 DEF Hear, SettlementInv, SettlementShapes
        <3>2. Head(heard) \in Versions /\ Tail(heard) \in Seq(Versions)
            BY <3>1
        <3> QED
            BY <3>1, <3>2
    <2>2. CASE RetrySettlement
        BY <2>2 DEF RetrySettlement, SettlementInv, SettlementShapes
    <2>3. CASE PressReplay
        BY <2>3 DEF PressReplay, SettlementInv, SettlementShapes
    <2> QED
        BY <2>1, <2>2, <2>3
<1>2. UNCHANGED <<said, clerk, books, bookLinks, gstOff, missed>>
    BY <1>1 DEF Record
<1>3. SettlementShapes'
    BY <1>1, <1>2, RecordIs DEF SettlementInv, SettlementShapes
<1> QED
    BY <1>2, <1>3, DeskStands

LEMMA MeddleKeeps ==
    ASSUME SettlementInv, NEW k \in Papers, NEW n \in DOMAIN books[k], Meddle(k, n)
    PROVE  SettlementInv'
<1> DEFINE d == books[k][n]
           st == IF d.st = "draft" THEN "deleted" ELSE "cancelled"
           e == [d EXCEPT !.st = st]
<1>1. /\ UNCHANGED <<said, heard, gateRow, line, clerk, bookLinks, gstOff, missed>>
      /\ d.st \in {"draft", "submitted"}
    BY DEF Meddle
<1>2. books' = [books EXCEPT ![k][n] = e]
    BY DEF Meddle
<1>3. d \in Paper /\ e \in Paper /\ e.st = st
    <2>1. d \in Paper
        BY PaperIs DEF SettlementInv
    <2>2. st \in PaperStates
        BY DEF PaperStates
    <2> QED
        BY <2>1, <2>2, OtherState
<1>4. Steps(d.st, e.st)
    BY <1>1, <1>3 DEF Steps
<1> HIDE DEF e
<1>5. /\ books' \in [Papers -> Seq(Paper)] /\ OneStands' /\ PayoutAfterFee'
      /\ FeeBooked => FeeBooked'
      /\ \A j \in Papers : DOMAIN books'[j] = DOMAIN books[j]
      /\ \A j \in Papers : Standing(j) = {} => Standing(j)' = {}
    BY <1>1, <1>2, <1>3, <1>4, PaperSteps
<1>6. SettlementShapes'
    BY <1>1, <1>5 DEF SettlementInv, SettlementShapes
<1>7. AtTheDesk'
    BY <1>1, <1>5 DEF SettlementInv, AtTheDesk, NoneShown, SettlementShapes, Clerk
<1> QED
    BY <1>5, <1>6, <1>7 DEF SettlementInv

LEMMA GatewayCrashKeeps == ASSUME SettlementInv, GatewayCrash PROVE SettlementInv'
<1>1. /\ line' = <<>> /\ clerk' = Off
      /\ UNCHANGED <<said, heard, gateRow, books, bookLinks, gstOff, missed>>
    BY DEF GatewayCrash
<1>2. BooksKeep
    BY <1>1, QuietBooks
<1>3. SettlementShapes'
    BY <1>1, OffIs DEF SettlementInv, SettlementShapes
<1>4. AtTheDesk'
    BY <1>1, OffIs, PapersAre DEF AtTheDesk
<1> QED
    BY <1>2, <1>3, <1>4 DEF SettlementInv, BooksKeep

-----------------------------------------------------------------------------
(* The invariant and the theorem *)

LEMMA SettlementStarts == SettlementInit => SettlementInv
<1> SUFFICES ASSUME SettlementInit PROVE SettlementInv
    OBVIOUS
<1>1. /\ books = [k \in Papers |-> <<>>] /\ bookLinks = [k \in Papers |-> {}]
      /\ \A k \in Papers : books[k] = <<>> /\ DOMAIN books[k] = {}
    BY DEF SettlementInit
<1>2. gstOff \in Int
    BY DEF SettlementInit
<1>3. SettlementShapes
    BY <1>1, <1>2, OffIs DEF SettlementInit, SettlementShapes
<1>4. OneStands /\ PayoutAfterFee
    BY <1>1, PapersAre DEF OneStands, PayoutAfterFee
<1>5. AtTheDesk
    BY OffIs, PapersAre DEF SettlementInit, AtTheDesk
<1> QED
    BY <1>3, <1>4, <1>5 DEF SettlementInv

LEMMA SettlementStep ==
    ASSUME SettlementInv, [SettlementNext]_gatewayVars PROVE SettlementInv'
<1>1. CASE LinkPaper
    BY <1>1, LinkPaperKeeps
<1>2. ASSUME NEW re \in Replies,
             Check(re) \/ FindPaper(re) \/ WritePaper(re) \/ SubmitPaper(re)
      PROVE  SettlementInv'
    BY <1>2, CheckKeeps, FindPaperKeeps, WritePaperKeeps, SubmitPaperKeeps
<1>3. CASE Emit \/ FixSupplier
    BY <1>3, EmitKeeps
<1>4. CASE Hear \/ RetrySettlement \/ PressReplay
    BY <1>4, HearKeeps
<1>5. ASSUME NEW k \in Papers, NEW n \in DOMAIN books[k], Meddle(k, n) PROVE SettlementInv'
    BY <1>5, MeddleKeeps
<1>6. CASE GatewayCrash
    BY <1>6, GatewayCrashKeeps
<1>7. CASE UNCHANGED gatewayVars
    <2>1. SettlementShapes'
        BY <1>7 DEF gatewayVars, SettlementInv, SettlementShapes
    <2> QED
        BY <1>7, <2>1, DeskStands DEF gatewayVars
<1> QED
    BY <1>1, <1>2, <1>3, <1>4, <1>5, <1>6, <1>7 DEF SettlementNext, ClerkStep

LEMMA SettlementHolds == SettlementSpec => []SettlementInv
BY SettlementStarts, SettlementStep, PTL DEF SettlementSpec

\* For any statements, corrections, refusals, lost answers, restarts, replays and meddling,
\* the bookings leave one standing paper of a kind at most, unless a search of that kind
\* did not show one that stood (it was not answered, or went by another reference), and
\* the payout is never booked without its fee.
THEOREM BookedInTurnHolds == SettlementSpec => []BookedInTurn
<1>1. ASSUME SettlementInv PROVE BookedInTurn
    <2>1. ASSUME NEW k \in Papers \ missed PROVE Cardinality(Standing(k)) <= 1
        <3>1. \A m, n \in Standing(k) : m = n
            BY <1>1 DEF SettlementInv, OneStands, Stands, Standing
        <3>2. Standing(k) = {} \/ \E n : Standing(k) = {n}
            BY <3>1
        <3>3. CASE Standing(k) = {}
            BY <3>3, FS_EmptySet
        <3>4. ASSUME NEW n, Standing(k) = {n} PROVE Cardinality(Standing(k)) <= 1
            <4>1. Cardinality({n}) = 1
                BY FS_Singleton
            <4> QED
                BY <3>4, <4>1
        <3> QED
            BY <3>2, <3>3, <3>4
    <2> QED
        BY <1>1, <2>1 DEF SettlementInv, PayoutAfterFee, FeeBooked, BookedInTurn
<1>2. SettlementInv => BookedInTurn
    BY <1>1
<1> QED
    BY <1>2, SettlementHolds, PTL

-----------------------------------------------------------------------------
(* The books go on, and what was booked stays so *)

\* Papers that were submitted keep their figures, or are cancelled for good.
LivesOn(d, e) ==
    /\ d.st = "cancelled" => e.st = "cancelled"
    /\ d.st = "submitted" => e = d \/ e.st = "cancelled"
BooksGoOn ==
    \A k \in Papers : \A n \in DOMAIN books[k] :
        n \in DOMAIN books'[k] /\ LivesOn(books[k][n], books'[k][n])

LEMMA BookedStays ==
    ASSUME BooksGoOn, NEW k \in Papers, NEW s, Booked(k, s)
    PROVE  Booked(k, s)'
<1>1. CASE ByHand(k)
    BY <1>1 DEF BooksGoOn, LivesOn, Booked, ByHand
<1>2. ASSUME NEW n \in DOMAIN books[k], books[k][n].st = "submitted", Matches(k, books[k][n], s)
      PROVE  Booked(k, s)'
    <2>1. n \in DOMAIN books'[k] /\ (books'[k][n] = books[k][n] \/ books'[k][n].st = "cancelled")
        BY <1>2 DEF BooksGoOn, LivesOn
    <2> QED
        BY <1>2, <2>1 DEF Booked, ByHand, Matches
<1> QED
    BY <1>1, <1>2 DEF Booked

LEMMA QuietBooksGoOn == ASSUME UNCHANGED books PROVE BooksGoOn
BY DEF BooksGoOn, LivesOn

LEMMA PaperGoesOn ==
    ASSUME SettlementShapes, NEW k \in Papers, NEW n \in DOMAIN books[k], NEW d \in Paper,
           books' = [books EXCEPT ![k][n] = d], LivesOn(books[k][n], d)
    PROVE  BooksGoOn /\ books'[k][n] = d /\ n \in DOMAIN books'[k]
           /\ \A j \in Papers : \A m \in DOMAIN books[j] :
                 j # k \/ m # n => books'[j][m] = books[j][m]
<1>1. books \in [Papers -> Seq(Paper)] /\ books[k] \in Seq(Paper)
    BY DEF SettlementShapes
<1> DEFINE b == [books[k] EXCEPT ![n] = d]
<1>2. DOMAIN b = DOMAIN books[k] /\ b[n] = d /\ \A m \in DOMAIN books[k] : m # n => b[m] = books[k][m]
    BY <1>1
<1>3. books' = [books EXCEPT ![k] = b]
    OBVIOUS
<1> HIDE DEF b
<1>4. books'[k] = b /\ \A j \in Papers : j # k => books'[j] = books[j]
    BY <1>1, <1>3
<1> QED
    BY <1>2, <1>4 DEF BooksGoOn, LivesOn

LEMMA PaperMadeGoesOn ==
    ASSUME SettlementShapes, NEW k \in Papers, NEW d \in Paper,
           books' = [books EXCEPT ![k] = Append(@, d)]
    PROVE  BooksGoOn /\ books'[k][Len(books[k]) + 1] = d
<1>1. books \in [Papers -> Seq(Paper)] /\ books[k] \in Seq(Paper)
    BY DEF SettlementShapes
<1> DEFINE b == Append(books[k], d)
           new == Len(books[k]) + 1
<1>2. /\ \A m \in DOMAIN books[k] : m \in DOMAIN b /\ b[m] = books[k][m]
      /\ b[new] = d
    BY <1>1
<1>3. books' = [books EXCEPT ![k] = b]
    OBVIOUS
<1> HIDE DEF b, new
<1>4. books'[k] = b /\ \A j \in Papers : j # k => books'[j] = books[j]
    BY <1>1, <1>3
<1> QED
    BY <1>2, <1>4 DEF BooksGoOn, LivesOn, new

-----------------------------------------------------------------------------
(* How a step of the clerk's ends, for what is booked *)

\* The line behind its head.
LEMMA TailOf ==
    ASSUME NEW l \in Seq(Versions), l # <<>>
    PROVE  /\ Head(l) = l[1] /\ Head(l) \in Versions
           /\ \A i \in DOMAIN Tail(l) : i + 1 \in DOMAIN l /\ Tail(l)[i] = l[i + 1]
           /\ Tail(l) = <<>> => l[Len(l)] = Head(l)
           /\ Tail(l) # <<>> => Tail(l)[Len(Tail(l))] = l[Len(l)]
<1>1. Head(l) = l[1] /\ Head(l) \in Versions /\ Len(l) \in Nat /\ Len(l) >= 1
    OBVIOUS
<1>2. /\ Len(Tail(l)) = Len(l) - 1 /\ DOMAIN Tail(l) = 1..(Len(l) - 1)
      /\ \A i \in 1..(Len(l) - 1) : Tail(l)[i] = l[i + 1]
    OBVIOUS
<1>3. PICK t \in Seq(Versions) : t = Tail(l)
    <2>1. Tail(l) \in Seq(Versions)
        OBVIOUS
    <2> QED
        BY <2>1
<1>4. t = <<>> <=> Len(t) = 0
    OBVIOUS
<1>5. DOMAIN l = 1..Len(l)
    OBVIOUS
<1>6. CASE Len(t) = 0
    <2>1. Len(l) = 1
        BY <1>1, <1>2, <1>3, <1>6
    <2> QED
        BY <1>1, <1>2, <1>3, <1>4, <1>5, <1>6, <2>1
<1>7. CASE Len(t) # 0
    <2>1. Len(l) > 1 /\ Len(t) = Len(l) - 1
        BY <1>1, <1>2, <1>3, <1>7
    <2>2. Len(t) \in 1..(Len(l) - 1) /\ Len(t) + 1 = Len(l)
        BY <1>1, <2>1
    <2>3. t[Len(t)] = l[Len(l)]
        BY <1>2, <1>3, <2>2
    <2>4. \A i \in DOMAIN t : i + 1 \in DOMAIN l /\ t[i] = l[i + 1]
        BY <1>1, <1>2, <1>3, <1>5
    <2> QED
        BY <1>1, <1>3, <1>4, <1>7, <2>3, <2>4
<1> QED
    BY <1>6, <1>7

LEMMA AppendIs ==
    ASSUME NEW l \in Seq(Versions), NEW v \in Versions
    PROVE  /\ Append(l, v) # <<>> /\ Append(l, v)[Len(l) + 1] = v
           /\ Len(Append(l, v)) = Len(l) + 1
           /\ \A i \in DOMAIN Append(l, v) :
                 i = Len(l) + 1 \/ (i \in DOMAIN l /\ Append(l, v)[i] = l[i])
<1>1. Len(l) \in Nat /\ DOMAIN l = 1..Len(l)
    OBVIOUS
<1>2. PICK a \in Seq(Versions) : a = Append(l, v)
    <2>1. Append(l, v) \in Seq(Versions)
        OBVIOUS
    <2> QED
        BY <2>1
<1>3. Len(a) = Len(l) + 1 /\ a[Len(l) + 1] = v /\ DOMAIN a = 1..(Len(l) + 1)
    BY <1>2
<1>4. \A i \in 1..Len(l) : a[i] = l[i]
    BY <1>2
<1>5. a # <<>>
    BY <1>1, <1>3
<1>6. \A i \in DOMAIN a : i = Len(l) + 1 \/ (i \in DOMAIN l /\ a[i] = l[i])
    BY <1>1, <1>3, <1>4
<1> QED
    BY <1>2, <1>3, <1>5, <1>6

LEMMA DoneClears ==
    ASSUME SettlementInv, ClearingInv, line # <<>>, UNCHANGED forsaken, BooksGoOn,
           NEW st \in {"failed", "success"}, Done(st),
           NEW s, s = Statement, st = "success" => \A k \in Papers : Booked(k, s)'
    PROVE  ClearingInv'
<1>1. /\ line' = Tail(line) /\ clerk' = Off /\ gateRow'.st = st /\ gateRow'.of = gateRow.of
      /\ line \in Seq(Versions) /\ clerk'.pc = "off"
    BY OffIs DEF Done, SettlementInv, SettlementShapes
<1>2. /\ Head(line) = line[1] /\ Head(line) \in Versions
      /\ \A i \in DOMAIN Tail(line) : i + 1 \in DOMAIN line /\ Tail(line)[i] = line[i + 1]
      /\ Tail(line) = <<>> => line[Len(line)] = Head(line)
      /\ Tail(line) # <<>> => Tail(line)[Len(Tail(line))] = line[Len(line)]
    BY <1>1, TailOf
<1>3. InLine'
    BY <1>1, <1>2 DEF ClearingInv, InLine
<1>4. OnTheDesk'
    BY <1>1 DEF OnTheDesk
<1>5. VerdictHolds'
    <2> SUFFICES ASSUME st = "success", Tail(line) = <<>>, AddsUp(Statements[gateRow.of])
                 PROVE  \A k \in Papers : Booked(k, Statements[gateRow.of])'
        BY <1>1 DEF VerdictHolds
    <2>1. Statements[gateRow.of] = s
        BY <1>2 DEF ClearingInv, InLine, Statement
    <2> QED
        BY <1>1, <2>1 DEF Booked
<1> QED
    BY <1>3, <1>4, <1>5 DEF ClearingInv

LEMMA MovesClears ==
    ASSUME SettlementInv, ClearingInv, line # <<>>, UNCHANGED forsaken, BooksGoOn,
           NEW k \in Papers, NEW n, NEW pc \in {"find", "write", "link", "submit"}, Moves(pc, k, n),
           NEW s, s = Statement, k = Payout => Booked(Invoice, s)',
           pc \in {"link", "submit"} =>
              /\ books'[k][n].st \in {"draft", "deleted"}
              /\ books'[k][n].fee = s.fee /\ books'[k][n].net = s.net
    PROVE  ClearingInv'
<1>1. /\ clerk'.pc = pc /\ clerk'.at = k /\ clerk'.doc = n /\ UNCHANGED <<gateRow, line>>
      /\ Statement' = s
    BY DEF Moves, Statement
<1>2. InLine' /\ VerdictHolds'
    BY <1>1 DEF ClearingInv, InLine, VerdictHolds
<1>3. Booked(Invoice, s)' => Booked(Invoice, Statement)'
    BY <1>1 DEF Booked
<1>4. OnTheDesk'
    BY <1>1, <1>3 DEF OnTheDesk
<1> QED
    BY <1>2, <1>4 DEF ClearingInv

LEMMA SettledClears ==
    ASSUME SettlementInv, ClearingInv, line # <<>>, clerk.pc # "off", UNCHANGED forsaken,
           BooksGoOn,
           NEW k \in Papers, k = clerk.at, Settled(k), NEW s, s = Statement, Booked(k, s)'
    PROVE  ClearingInv'
<1>1. k = Invoice \/ k = Payout
    BY DEF Papers
<1>2. CASE k = Invoice
    BY <1>2, PapersAre, MovesClears DEF Settled
<1>3. CASE k = Payout
    <2>1. Booked(Invoice, s)
        BY <1>3 DEF ClearingInv, OnTheDesk, Booked
    <2>2. Booked(Invoice, s)' /\ Booked(Payout, s)'
        BY <1>3, <2>1, BookedStays, PapersAre
    <2>3. Done("success")
        BY <1>3, PapersAre DEF Settled
    <2> QED
        BY <2>2, <2>3, DoneClears DEF Papers
<1> QED
    BY <1>1, <1>2, <1>3

-----------------------------------------------------------------------------
(* Every step keeps what a verdict says *)

LEMMA CheckClears ==
    ASSUME SettlementInv, ClearingInv, NEW re \in Replies, Check(re) PROVE ClearingInv'
<1>1. /\ line # <<>> /\ BooksGoOn /\ UNCHANGED forsaken
      /\ Moves("find", Invoice, 0) \/ Done("failed")
    BY QuietBooksGoOn DEF Check, AtDesk, gateway
<1> QED
    BY <1>1, PapersAre, DoneClears, MovesClears

LEMMA FindPaperClears ==
    ASSUME SettlementInv, ClearingInv, NEW re \in Replies, FindPaper(re) PROVE ClearingInv'
<1>k. PICK k \in Papers : k = clerk.at
    BY DEF SettlementInv, SettlementShapes, Clerk
<1>s. PICK s : s = Statement
    OBVIOUS
<1>1. /\ AtDesk(clerk.pc) /\ clerk.pc = "find" /\ line # <<>> /\ UNCHANGED books
      /\ \/ Moves("write", k, 0) /\ NoneShown(k)'
         \/ GiveUp(k)
         \/ \E n \in DOMAIN books[k] :
               /\ n \in Nat /\ n # 0
               /\ \/ books[k][n].st = "draft" /\ Moves("write", k, n)
                  \/ books[k][n].st = "cancelled" /\ Settled(k)
                  \/ books[k][n].st = "submitted" /\ Agrees(k, books[k][n]) /\ Settled(k)
    BY <1>k, FindPaperIs
<1>f. UNCHANGED forsaken
    BY <1>1 DEF AtDesk, gateway
<1>2. BooksGoOn
    BY <1>1, QuietBooksGoOn
<1>3. k = Payout => Booked(Invoice, s)'
    <2>1. k = Payout => Booked(Invoice, s)
        BY <1>k, <1>s, <1>1 DEF ClearingInv, OnTheDesk
    <2> QED
        BY <1>2, <2>1, BookedStays, PapersAre
<1>4. CASE GiveUp(k)
    BY <1>f, <1>s, <1>1, <1>2, <1>4, DoneClears DEF GiveUp
<1>5. ASSUME NEW n, Moves("write", k, n) PROVE ClearingInv'
    BY <1>f, <1>s, <1>1, <1>2, <1>3, <1>5, MovesClears
<1>6. ASSUME NEW n \in DOMAIN books[k], Settled(k),
             \/ books[k][n].st = "cancelled"
             \/ books[k][n].st = "submitted" /\ Agrees(k, books[k][n])
      PROVE  ClearingInv'
    <2>1. Agrees(k, books[k][n]) <=> Matches(k, books[k][n], s)
        BY <1>s DEF Agrees, Matches
    <2>2. Booked(k, s)
        BY <1>6, <2>1 DEF Booked, ByHand
    <2>3. Booked(k, s)'
        BY <1>2, <2>2, BookedStays
    <2> QED
        BY <1>f, <1>k, <1>s, <1>1, <1>2, <1>6, <2>3, SettledClears
<1> QED
    BY <1>1, <1>4, <1>5, <1>6


LEMMA WritePaperClears ==
    ASSUME SettlementInv, ClearingInv, NEW re \in Replies, WritePaper(re) PROVE ClearingInv'
<1>k. PICK k \in Papers : k = clerk.at
    BY DEF SettlementInv, SettlementShapes, Clerk
<1>n. PICK n : n = clerk.doc
    OBVIOUS
<1>s. PICK s : s = Statement
    OBVIOUS
<1>f. PICK f \in Paper : f = Filled("draft") /\ f.st = "draft" /\ f.fee = s.fee /\ f.net = s.net
    <2>1. line # <<>> /\ "draft" \in PaperStates
        BY DEF WritePaper, AtDesk, PaperStates
    <2>2. Filled("draft") \in Paper /\ Filled("draft").st = "draft"
        BY <2>1, FilledIs DEF SettlementInv
    <2>3. Filled("draft").fee = s.fee /\ Filled("draft").net = s.net
        BY <1>s DEF Filled
    <2> QED
        BY <2>2, <2>3
<1>1. line # <<>> /\ clerk.pc = "write" /\ UNCHANGED forsaken
      /\ (n = 0 \/ n \in DOMAIN books[k])
    BY <1>k, <1>n DEF WritePaper, AtDesk, gateway, SettlementInv, AtTheDesk
<1>2. \/ books' = books /\ Done("failed")
      \/ /\ n = 0 /\ books' = [books EXCEPT ![k] = Append(@, f)]
         /\ Done("failed") \/ Moves("link", k, Len(books[k]) + 1)
      \/ /\ n # 0 /\ books[k][n].st = "draft" /\ books' = [books EXCEPT ![k][n] = f]
         /\ Done("failed") \/ Moves("submit", k, n)
    BY <1>k, <1>n, <1>f DEF WritePaper, GiveUp
<1>3. BooksGoOn => (k = Payout => Booked(Invoice, s)')
    <2>1. k = Payout => Booked(Invoice, s)
        BY <1>k, <1>s, <1>1 DEF ClearingInv, OnTheDesk
    <2> QED
        BY <2>1, BookedStays, PapersAre
<1>4. CASE books' = books /\ Done("failed")
    BY <1>s, <1>1, <1>4, QuietBooksGoOn, DoneClears
<1>5. CASE /\ n = 0 /\ books' = [books EXCEPT ![k] = Append(@, f)]
           /\ Done("failed") \/ Moves("link", k, Len(books[k]) + 1)
    <2>1. BooksGoOn /\ books'[k][Len(books[k]) + 1] = f
        BY <1>5, PaperMadeGoesOn DEF SettlementInv
    <2> QED
        BY <1>s, <1>f, <1>1, <1>3, <1>5, <2>1, DoneClears, MovesClears
<1>6. CASE /\ n # 0 /\ books[k][n].st = "draft" /\ books' = [books EXCEPT ![k][n] = f]
           /\ Done("failed") \/ Moves("submit", k, n)
    <2>1. LivesOn(books[k][n], f)
        BY <1>6 DEF LivesOn
    <2>2. BooksGoOn /\ books'[k][n] = f
        <3>1. /\ SettlementShapes /\ n \in DOMAIN books[k] /\ books \in [Papers -> Seq(Paper)]
              /\ books' = [books EXCEPT ![k][n] = f]
            BY <1>1, <1>6 DEF SettlementInv, SettlementShapes
        <3> QED
            BY <2>1, <3>1, PaperGoesOn
    <2> QED
        BY <1>s, <1>f, <1>1, <1>3, <1>6, <2>2, DoneClears, MovesClears
<1> QED
    BY <1>2, <1>4, <1>5, <1>6

LEMMA LinkPaperClears ==
    ASSUME SettlementInv, ClearingInv, LinkPaper PROVE ClearingInv'
<1>k. PICK k \in Papers : k = clerk.at
    BY DEF SettlementInv, SettlementShapes, Clerk
<1>n. PICK n : n = clerk.doc
    OBVIOUS
<1>s. PICK s : s = Statement
    OBVIOUS
<1>1. /\ line # <<>> /\ clerk.pc = "link" /\ UNCHANGED <<books, forsaken>>
      /\ Moves("submit", k, n)
    BY <1>k, <1>n DEF LinkPaper, AtDesk, gateway
<1>2. /\ books[k][n].st \in {"draft", "deleted"}
      /\ books[k][n].fee = s.fee /\ books[k][n].net = s.net
      /\ k = Payout => Booked(Invoice, s)
    BY <1>k, <1>n, <1>s, <1>1 DEF ClearingInv, OnTheDesk
<1>3. BooksGoOn
    BY <1>1, QuietBooksGoOn
<1>4. k = Payout => Booked(Invoice, s)'
    BY <1>2, <1>3, BookedStays, PapersAre
<1> QED
    BY <1>s, <1>1, <1>2, <1>3, <1>4, MovesClears

LEMMA SubmitPaperClears ==
    ASSUME SettlementInv, ClearingInv, NEW re \in Replies, SubmitPaper(re) PROVE ClearingInv'
<1>k. PICK k \in Papers : k = clerk.at
    BY DEF SettlementInv, SettlementShapes, Clerk
<1>n. PICK n : n = clerk.doc
    OBVIOUS
<1>s. PICK s : s = Statement
    OBVIOUS
<1>1. /\ line # <<>> /\ clerk.pc = "submit" /\ UNCHANGED forsaken /\ n \in DOMAIN books[k]
      /\ books[k][n].st \in {"draft", "deleted"}
      /\ books[k][n].fee = s.fee /\ books[k][n].net = s.net
    BY <1>k, <1>n, <1>s DEF SubmitPaper, AtDesk, gateway, SettlementInv, AtTheDesk, ClearingInv,
                            OnTheDesk
<1>d. PICK d \in Paper : d = books[k][n]
    BY <1>1, PaperIs DEF SettlementInv
<1>e. PICK e \in Paper : e = [d EXCEPT !.st = "submitted"] /\ e.st = "submitted"
                         /\ e.fee = d.fee /\ e.tax = d.tax /\ e.net = d.net
    <2>1. [d EXCEPT !.st = "submitted"] \in Paper
        BY DEF Paper, PaperStates
    <2> QED
        BY <2>1 DEF Paper
<1>2. \/ books' = books /\ Done("failed")
      \/ /\ books' = [books EXCEPT ![k][n] = e]
         /\ Done("failed") \/ (Settled(k) /\ (k = Invoice => GstAgrees(d)))
    BY <1>k, <1>n, <1>1, <1>d, <1>e DEF SubmitPaper, GiveUp
<1>3. CASE books' = books /\ Done("failed")
    BY <1>s, <1>1, <1>3, QuietBooksGoOn, DoneClears
<1>4. CASE /\ books' = [books EXCEPT ![k][n] = e]
           /\ Done("failed") \/ (Settled(k) /\ (k = Invoice => GstAgrees(d)))
    <2>1. LivesOn(books[k][n], e)
        BY <1>1 DEF LivesOn
    <2>2. BooksGoOn /\ books'[k][n] = e /\ n \in DOMAIN books'[k]
        <3>1. /\ SettlementShapes /\ books \in [Papers -> Seq(Paper)]
              /\ books' = [books EXCEPT ![k][n] = e]
            BY <1>4 DEF SettlementInv, SettlementShapes
        <3> QED
            BY <1>1, <2>1, <3>1, PaperGoesOn
    <2>3. CASE Done("failed")
        BY <1>s, <1>1, <2>2, <2>3, DoneClears
    <2>4. CASE Settled(k) /\ (k = Invoice => GstAgrees(d))
        <3>1. Matches(k, e, s)
            BY <1>s, <1>1, <1>d, <1>e, <2>4, PapersAre DEF Matches, GstAgrees, Papers
        <3>2. Booked(k, s)'
            BY <1>e, <2>2, <3>1 DEF Booked, Matches
        <3> QED
            BY <1>k, <1>s, <1>1, <2>2, <2>4, <3>2, SettledClears
    <2> QED
        BY <1>4, <2>3, <2>4
<1> QED
    BY <1>2, <1>3, <1>4

\* What leaves the clerk and the statement on the desk alone.
LEMMA DeskClears ==
    ASSUME ClearingInv, InLine', VerdictHolds', UNCHANGED clerk, BooksGoOn,
           clerk.pc # "off" => Head(line') = Head(line),
           clerk.pc \in {"link", "submit"} =>
              LET d == books[clerk.at][clerk.doc]
                  e == books'[clerk.at][clerk.doc]
              IN  e.st \in {d.st, "deleted"} /\ e.fee = d.fee /\ e.net = d.net
    PROVE  ClearingInv'
<1>1. ASSUME clerk.pc # "off", clerk.at = Payout PROVE Booked(Invoice, Statement)'
    <2>1. PICK s : s = Statement
        OBVIOUS
    <2>2. Statement' = s
        BY <1>1, <2>1 DEF Statement
    <2>3. Booked(Invoice, s)
        BY <1>1, <2>1 DEF ClearingInv, OnTheDesk
    <2>4. Booked(Invoice, s)'
        BY <2>3, BookedStays, PapersAre
    <2> QED
        BY <2>2, <2>4 DEF Booked
<1>2. clerk.pc # "off" => Statement' = Statement
    BY DEF Statement
<1>3. OnTheDesk'
    BY <1>1, <1>2 DEF ClearingInv, OnTheDesk
<1> QED
    BY <1>3 DEF ClearingInv

LEMMA OthersClear ==
    ASSUME SettlementInv, ClearingInv, UNCHANGED <<gateRow, line, clerk, books, forsaken>>
    PROVE  ClearingInv'
<1>1. InLine'
    BY DEF ClearingInv, InLine
<1>2. VerdictHolds'
    BY DEF ClearingInv, VerdictHolds, Booked, ByHand
<1>3. BooksGoOn
    BY QuietBooksGoOn
<1> QED
    BY <1>1, <1>2, <1>3, DeskClears

LEMMA HearClears ==
    ASSUME SettlementInv, ClearingInv, Hear \/ RetrySettlement \/ PressReplay PROVE ClearingInv'
<1>1. PICK v \in Versions : Record(v)
    <2>1. CASE Hear
        <3>1. heard \in Seq(Versions) /\ heard # <<>> /\ Record(Head(heard))
            BY <2>1 DEF Hear, SettlementInv, SettlementShapes
        <3>2. Head(heard) \in Versions
            BY <3>1
        <3> QED
            BY <3>1, <3>2
    <2>2. CASE RetrySettlement
        BY <2>2 DEF RetrySettlement, SettlementInv, SettlementShapes
    <2>3. CASE PressReplay
        BY <2>3 DEF PressReplay, SettlementInv, SettlementShapes
    <2> QED
        BY <2>1, <2>2, <2>3
<1>2. UNCHANGED <<clerk, books>>
    BY <1>1 DEF Record
<1>3. line \in Seq(Versions) /\ gateRow'.st # "success" /\ gateRow'.of = v
      /\ \/ AddsUp(Statements[v]) /\ line' = Append(line, v)
         \/ ~AddsUp(Statements[v]) /\ line' = line
    <2>1. line \in Seq(Versions)
        BY DEF SettlementInv, SettlementShapes
    <2>2. \/ /\ AddsUp(Statements[v]) /\ line' = Append(line, v)
             /\ gateRow' = [st |-> "pending", of |-> v]
          \/ /\ ~AddsUp(Statements[v]) /\ line' = line
             /\ gateRow' = [st |-> "failed", of |-> v]
        BY <1>1 DEF Record
    <2>3. gateRow'.st # "success" /\ gateRow'.of = v
        <3>1. PICK st \in {"pending", "failed"} : gateRow' = [st |-> st, of |-> v]
            BY <2>2
        <3>2. gateRow'.st = st /\ gateRow'.of = v
            BY <3>1
        <3> QED
            BY <3>1, <3>2
    <2> QED
        BY <2>1, <2>2, <2>3
<1>4. InLine' /\ (line # <<>> => Head(line') = Head(line))
    <2>1. CASE AddsUp(Statements[v]) /\ line' = Append(line, v)
        <3>1. /\ Append(line, v) # <<>> /\ Append(line, v)[Len(line) + 1] = v
              /\ Len(Append(line, v)) = Len(line) + 1
              /\ \A i \in DOMAIN Append(line, v) :
                    i = Len(line) + 1 \/ (i \in DOMAIN line /\ Append(line, v)[i] = line[i])
            BY <1>3, AppendIs
        <3>2. line # <<>> => Head(Append(line, v)) = Head(line)
            BY <1>3
        <3> QED
            BY <1>2, <1>3, <2>1, <3>1, <3>2 DEF ClearingInv, InLine
    <2>2. CASE ~AddsUp(Statements[v]) /\ line' = line
        BY <1>2, <1>3, <2>2 DEF ClearingInv, InLine
    <2> QED
        BY <1>3, <2>1, <2>2
<1>5. VerdictHolds'
    BY <1>3 DEF VerdictHolds
<1>6. clerk.pc # "off" => Head(line') = Head(line)
    BY <1>4 DEF ClearingInv, InLine
<1>7. BooksGoOn
    BY <1>2, QuietBooksGoOn
<1> QED
    BY <1>2, <1>4, <1>5, <1>6, <1>7, DeskClears

LEMMA MeddleClears ==
    ASSUME SettlementInv, ClearingInv, NEW k \in Papers, NEW n \in DOMAIN books[k], Meddle(k, n)
    PROVE  ClearingInv'
<1>d. PICK d \in Paper : d = books[k][n]
    BY PaperIs DEF SettlementInv
<1>e. PICK e \in Paper :
          /\ e = [d EXCEPT !.st = IF d.st = "draft" THEN "deleted" ELSE "cancelled"]
          /\ e.st = IF d.st = "draft" THEN "deleted" ELSE "cancelled"
          /\ e.fee = d.fee /\ e.net = d.net
    <2>1. [d EXCEPT !.st = IF d.st = "draft" THEN "deleted" ELSE "cancelled"] \in Paper
        BY DEF Paper, PaperStates
    <2> QED
        BY <2>1 DEF Paper
<1>1. /\ UNCHANGED <<gateRow, line, clerk, forsaken>> /\ d.st \in {"draft", "submitted"}
      /\ books' = [books EXCEPT ![k][n] = e]
    BY <1>d, <1>e DEF Meddle
<1>2. LivesOn(books[k][n], e)
    BY <1>d, <1>e, <1>1 DEF LivesOn
<1>3. /\ BooksGoOn /\ books'[k][n] = e
      /\ \A j \in Papers : \A m \in DOMAIN books[j] : j # k \/ m # n => books'[j][m] = books[j][m]
    <2>1. SettlementShapes /\ books \in [Papers -> Seq(Paper)]
        BY DEF SettlementInv, SettlementShapes
    <2> QED
        BY <1>1, <1>2, <2>1, PaperGoesOn
<1>4. ASSUME clerk.pc \in {"link", "submit"}
      PROVE  LET b == books[clerk.at][clerk.doc]
                 c == books'[clerk.at][clerk.doc]
             IN  c.st \in {b.st, "deleted"} /\ c.fee = b.fee /\ c.net = b.net
    <2>1. /\ clerk.at \in Papers /\ clerk.doc \in DOMAIN books[clerk.at]
          /\ books[clerk.at][clerk.doc].st \in {"draft", "deleted"}
        BY <1>4 DEF SettlementInv, SettlementShapes, AtTheDesk, Clerk, ClearingInv, OnTheDesk
    <2>2. CASE clerk.at = k /\ clerk.doc = n
        BY <1>d, <1>e, <1>1, <1>3, <2>1, <2>2
    <2>3. CASE clerk.at # k \/ clerk.doc # n
        BY <1>3, <2>1, <2>3
    <2> QED
        BY <2>2, <2>3
<1>5. InLine'
    BY <1>1 DEF ClearingInv, InLine
<1>6. VerdictHolds'
    <2> SUFFICES ASSUME gateRow.st = "success", line = <<>>, AddsUp(Statements[gateRow.of]),
                        gateRow.of \notin forsaken, NEW j \in Papers
                 PROVE  Booked(j, Statements[gateRow.of])'
        BY <1>1 DEF VerdictHolds
    <2>1. PICK s : s = Statements[gateRow.of]
        OBVIOUS
    <2>2. Booked(j, s)'
        BY <1>3, <2>1, BookedStays DEF ClearingInv, VerdictHolds
    <2> QED
        BY <1>1, <2>1, <2>2 DEF Booked
<1> QED
    BY <1>1, <1>3, <1>4, <1>5, <1>6, DeskClears

LEMMA GatewayCrashClears == ASSUME ClearingInv, GatewayCrash PROVE ClearingInv'
<1>1. /\ line' = <<>> /\ clerk'.pc = "off" /\ UNCHANGED <<gateRow, books>>
      /\ gateRow.st = "success" => gateRow.of \in forsaken'
    BY OffIs DEF GatewayCrash
<1>2. InLine'
    BY <1>1 DEF InLine
<1>3. OnTheDesk'
    BY <1>1 DEF OnTheDesk
<1>4. VerdictHolds'
    BY <1>1 DEF VerdictHolds
<1> QED
    BY <1>2, <1>3, <1>4 DEF ClearingInv

LEMMA ClearingStarts == SettlementInit => ClearingInv
BY OffIs DEF SettlementInit, ClearingInv, InLine, OnTheDesk, VerdictHolds

LEMMA ClearingStep ==
    ASSUME SettlementInv, ClearingInv, [SettlementNext]_gatewayVars PROVE ClearingInv'
<1>1. CASE LinkPaper
    BY <1>1, LinkPaperClears
<1>2. ASSUME NEW re \in Replies,
             Check(re) \/ FindPaper(re) \/ WritePaper(re) \/ SubmitPaper(re)
      PROVE  ClearingInv'
    BY <1>2, CheckClears, FindPaperClears, WritePaperClears, SubmitPaperClears
<1>3. CASE Emit \/ FixSupplier
    BY <1>3, OthersClear DEF Emit, FixSupplier
<1>4. CASE Hear \/ RetrySettlement \/ PressReplay
    BY <1>4, HearClears
<1>5. ASSUME NEW k \in Papers, NEW n \in DOMAIN books[k], Meddle(k, n) PROVE ClearingInv'
    BY <1>5, MeddleClears
<1>6. CASE GatewayCrash
    BY <1>6, GatewayCrashClears
<1>7. CASE UNCHANGED gatewayVars
    BY <1>7, OthersClear DEF gatewayVars
<1> QED
    BY <1>1, <1>2, <1>3, <1>4, <1>5, <1>6, <1>7 DEF SettlementNext, ClerkStep

\* For any statements, corrections, refusals, lost answers, restarts, replays and meddling:
\* a row that says success of a statement that adds up has its takings, less the refunds,
\* out of the clearing account, once - where no search missed a paper, nobody cancelled
\* one, and no restart took the booking of that very statement out of line.
THEOREM ClearsTheAccountHolds == SettlementSpec => []ClearsTheAccount
<1>1. ASSUME SettlementInv, ClearingInv PROVE ClearsTheAccount
    <2> DEFINE s == Statements[gateRow.of]
    <2> SUFFICES ASSUME gateRow.st = "success", AddsUp(s), line = <<>>,
                        ~ByHand(Invoice), ~ByHand(Payout), missed = {},
                        gateRow.of \notin forsaken
                 PROVE  \E i \in DOMAIN books[Invoice], j \in DOMAIN books[Payout] :
                            /\ SubmittedPapers(Invoice) = {i} /\ SubmittedPapers(Payout) = {j}
                            /\ Magnitude(books[Invoice][i].fee + books[Invoice][i].tax
                                 + books[Payout][j].net - (s.gross - s.refund)) <= GstTolerance
        BY DEF ClearsTheAccount
    <2>1. PICK i \in DOMAIN books[Invoice] :
              books[Invoice][i].st = "submitted" /\ Matches(Invoice, books[Invoice][i], s)
        BY <1>1, PapersAre DEF ClearingInv, VerdictHolds, Booked
    <2>2. PICK j \in DOMAIN books[Payout] :
              books[Payout][j].st = "submitted" /\ Matches(Payout, books[Payout][j], s)
        BY <1>1, PapersAre DEF ClearingInv, VerdictHolds, Booked
    <2>3. gateRow.of \in Versions
        BY <1>1 DEF SettlementInv, SettlementShapes
    <2>4. s \in [gross: Int, refund: Int, fee: Int, tax: Int, adjustment: Int, net: Int, ref: Int]
        BY <2>3, StatementIs
    <2>5. /\ s.gross \in Int /\ s.refund \in Int /\ s.fee \in Int /\ s.tax \in Int
          /\ s.adjustment = 0 /\ s.net \in Int
          /\ s.gross - s.refund - s.fee - s.tax + s.adjustment = s.net
        BY <2>4 DEF AddsUp
    <2>6. books[Invoice][i] \in Paper /\ books[Payout][j] \in Paper
        BY <1>1, PaperIs, PapersAre DEF SettlementInv
    <2>7. /\ books[Invoice][i].tax \in Int /\ books[Invoice][i].fee = s.fee
          /\ Magnitude(books[Invoice][i].tax - s.tax) <= GstTolerance
          /\ books[Payout][j].net = s.net
        BY <2>1, <2>2, <2>6, PapersAre DEF Matches, Paper
    <2> HIDE DEF s
    <2>8. books[Invoice][i].fee + books[Invoice][i].tax + books[Payout][j].net
              - (s.gross - s.refund) = books[Invoice][i].tax - s.tax
        BY <2>5, <2>7
    <2>9. SubmittedPapers(Invoice) = {i} /\ SubmittedPapers(Payout) = {j}
        <3>1. \A k \in Papers : \A m, n \in SubmittedPapers(k) : m = n
            BY <1>1 DEF SettlementInv, OneStands, Stands, SubmittedPapers
        <3>2. i \in SubmittedPapers(Invoice) /\ j \in SubmittedPapers(Payout)
            BY <2>1, <2>2 DEF SubmittedPapers
        <3> QED
            BY <3>1, <3>2, PapersAre
    <2> QED
        BY <2>7, <2>8, <2>9
<1>2. SettlementInv /\ ClearingInv => ClearsTheAccount
    BY <1>1
<1>3. SettlementInit => SettlementInv /\ ClearingInv
    BY SettlementStarts, ClearingStarts
<1>4. SettlementInv /\ ClearingInv /\ [SettlementNext]_gatewayVars => (SettlementInv /\ ClearingInv)'
    BY SettlementStep, ClearingStep
<1> QED
    BY <1>2, <1>3, <1>4, PTL DEF SettlementSpec
-----------------------------------------------------------------------------
(* Settlements: the rest of its types *)

\* No entry is beyond what was said.
UpTo(seq, n) == \A i \in DOMAIN seq : seq[i] <= n

\* Only what was said is heard, recorded or booked; the clerk looks for a paper with
\* nothing in hand; and trouble is counted.
OnlyWhatWasSaid ==
    /\ UpTo(heard, said) /\ UpTo(line, said) /\ gateRow.of <= said /\ forsaken \subseteq 1..said
    /\ clerk.pc # "off" => line # <<>>
    /\ clerk.pc \in {"off", "find"} => clerk.doc = 0
TroubleCounted == gatewayFaults \in 0..MaxGatewayFaults /\ meddles \in 0..MaxMeddles

LEMMA TailUpTo ==
    ASSUME NEW S, NEW seq \in Seq(S), NEW n, seq # <<>>, UpTo(seq, n)
    PROVE  UpTo(Tail(seq), n) /\ Head(seq) <= n
<1>1. Head(seq) = seq[1] /\ 1 \in DOMAIN seq
    OBVIOUS
<1>2. ASSUME NEW i \in DOMAIN Tail(seq) PROVE Tail(seq)[i] = seq[i + 1] /\ i + 1 \in DOMAIN seq
    OBVIOUS
<1> QED
    BY <1>1, <1>2 DEF UpTo

LEMMA AppendUpTo ==
    ASSUME NEW S, NEW seq \in Seq(S), NEW n, NEW v \in S, v <= n, UpTo(seq, n)
    PROVE  UpTo(Append(seq, v), n)
<1>1. ASSUME NEW i \in DOMAIN Append(seq, v)
      PROVE  (i \in DOMAIN seq /\ Append(seq, v)[i] = seq[i]) \/ Append(seq, v)[i] = v
    OBVIOUS
<1> QED
    BY <1>1 DEF UpTo

LEMMA RecordsWhatWasSaid ==
    ASSUME SettlementInv, OnlyWhatWasSaid, NEW v \in Versions, v <= said, Record(v),
           UpTo(heard', said)
    PROVE  OnlyWhatWasSaid'
<1>1. line \in Seq(Versions)
    BY DEF SettlementInv, SettlementShapes
<1>2. UpTo(Append(line, v), said)
    BY <1>1, AppendUpTo DEF OnlyWhatWasSaid
<1>3. gateRow'.of = v /\ (line' = Append(line, v) \/ line' = line)
    <2>1. CASE AddsUp(Statements[v])
        BY <2>1 DEF Record
    <2>2. CASE ~AddsUp(Statements[v])
        BY <2>2 DEF Record
    <2> QED
        BY <2>1, <2>2
<1>4. UpTo(line', said)
    BY <1>2, <1>3 DEF OnlyWhatWasSaid
<1>5. line # <<>> => line' # <<>>
    BY <1>1, <1>3
<1>6. UNCHANGED <<said, clerk>> /\ forsaken' \subseteq forsaken
    BY DEF Record
<1> QED
    BY <1>3, <1>4, <1>5, <1>6 DEF OnlyWhatWasSaid

\* The clerk goes on, or is done.
LEMMA DeskSaysNothing ==
    ASSUME SettlementInv, OnlyWhatWasSaid, line # <<>>, UNCHANGED <<said, heard, forsaken>>,
           \/ \E st \in {"failed", "success"} : Done(st)
           \/ \E pc, k, n : Moves(pc, k, n) /\ (pc \in {"off", "find"} => n = 0)
    PROVE  OnlyWhatWasSaid'
<1>1. ASSUME NEW st \in {"failed", "success"}, Done(st) PROVE OnlyWhatWasSaid'
    <2>1. line \in Seq(Versions)
        BY DEF SettlementInv, SettlementShapes
    <2>2. line' = Tail(line) /\ clerk' = Off /\ gateRow' = [gateRow EXCEPT !.st = st]
        BY <1>1 DEF Done
    <2>3. UpTo(line', said)
        BY <2>1, <2>2, TailUpTo DEF OnlyWhatWasSaid
    <2>4. gateRow'.of = gateRow.of
        BY <2>2 DEF SettlementInv, SettlementShapes
    <2> QED
        BY <2>2, <2>3, <2>4 DEF OnlyWhatWasSaid, Off
<1>2. ASSUME NEW pc, NEW k, NEW n, Moves(pc, k, n), pc \in {"off", "find"} => n = 0
      PROVE  OnlyWhatWasSaid'
    BY <1>2 DEF Moves, OnlyWhatWasSaid
<1> QED
    BY <1>1, <1>2

LEMMA DeskGoesOn ==
    ASSUME NEW k, Settled(k) \/ GiveUp(k)
    PROVE  \/ \E st \in {"failed", "success"} : Done(st)
           \/ \E pc, kk, n : Moves(pc, kk, n) /\ (pc \in {"off", "find"} => n = 0)
<1>1. Done("failed") \/ Done("success") \/ Moves("find", Payout, 0)
    BY DEF Settled, GiveUp
<1> QED
    BY <1>1

LEMMA ClerkSaysNothing ==
    ASSUME SettlementInv, OnlyWhatWasSaid, ClerkStep PROVE OnlyWhatWasSaid'
<1>1. CASE LinkPaper
    <2>1. line # <<>> /\ UNCHANGED <<said, heard, forsaken>> /\ Moves("submit", clerk.at, clerk.doc)
        BY <1>1 DEF LinkPaper, AtDesk, gateway
    <2> QED
        BY <2>1, DeskSaysNothing
<1>2. ASSUME NEW re \in Replies, Check(re) PROVE OnlyWhatWasSaid'
    <2>1. line # <<>> /\ UNCHANGED <<said, heard, forsaken>> /\ (Done("failed") \/ Moves("find", Invoice, 0))
        BY <1>2 DEF Check, AtDesk, gateway
    <2> QED
        BY <2>1, DeskSaysNothing
<1>3. ASSUME NEW re \in Replies, FindPaper(re) PROVE OnlyWhatWasSaid'
    <2>k. PICK k \in Papers : k = clerk.at
        BY DEF SettlementInv, SettlementShapes, Clerk
    <2>1. line # <<>> /\ UNCHANGED <<said, heard, forsaken>>
        BY <1>3 DEF FindPaper, AtDesk, gateway
    <2>2. GiveUp(k) \/ Settled(k) \/ \E n : Moves("write", k, n)
        BY <1>3, <2>k, FindPaperIs
    <2>3. ASSUME NEW n, Moves("write", k, n) PROVE OnlyWhatWasSaid'
        BY <2>1, <2>3, DeskSaysNothing
    <2> QED
        BY <2>1, <2>2, <2>3, DeskGoesOn, DeskSaysNothing
<1>4. ASSUME NEW re \in Replies, WritePaper(re) PROVE OnlyWhatWasSaid'
    <2>k. PICK k, n : k = clerk.at /\ n = clerk.doc
        OBVIOUS
    <2>1. line # <<>> /\ UNCHANGED <<said, heard, forsaken>>
        BY <1>4 DEF WritePaper, AtDesk, gateway
    <2>2. GiveUp(k) \/ Moves("link", k, Len(books[k]) + 1) \/ Moves("submit", k, n)
        BY <1>4, <2>k DEF WritePaper
    <2>3. ASSUME NEW pc \in {"link", "submit"}, NEW m, Moves(pc, k, m) PROVE OnlyWhatWasSaid'
        <3>1. \E pp, kk, nn : Moves(pp, kk, nn) /\ (pp \in {"off", "find"} => nn = 0)
            BY <2>3
        <3> QED
            BY <2>1, <3>1, DeskSaysNothing
    <2> QED
        BY <2>1, <2>2, <2>3, DeskGoesOn, DeskSaysNothing
<1>5. ASSUME NEW re \in Replies, SubmitPaper(re) PROVE OnlyWhatWasSaid'
    <2>k. PICK k : k = clerk.at
        OBVIOUS
    <2>1. line # <<>> /\ UNCHANGED <<said, heard, forsaken>>
        BY <1>5 DEF SubmitPaper, AtDesk, gateway
    <2>2. GiveUp(k) \/ Settled(k)
        BY <1>5, <2>k DEF SubmitPaper
    <2> QED
        BY <2>1, <2>2, DeskGoesOn, DeskSaysNothing
<1> QED
    BY <1>1, <1>2, <1>3, <1>4, <1>5 DEF ClerkStep

LEMMA OnlyWhatWasSaidStep ==
    ASSUME SettlementInv, OnlyWhatWasSaid, [SettlementNext]_gatewayVars PROVE OnlyWhatWasSaid'
<1>0. heard \in Seq(Versions) /\ line \in Seq(Versions) /\ said \in Nat /\ gateRow.of \in Nat
    BY DEF SettlementInv, SettlementShapes
<1>1. ASSUME UNCHANGED <<said, heard, gateRow, line, clerk, forsaken>> PROVE OnlyWhatWasSaid'
    BY <1>1 DEF OnlyWhatWasSaid
<1>2. CASE Emit
    <2>1. said' = said + 1 /\ heard' = Append(heard, said + 1) /\ said + 1 \in Versions
          /\ UNCHANGED <<gateRow, line, clerk, forsaken>>
        BY <1>0, <1>2 DEF Emit, Versions
    <2>2. UpTo(heard, said + 1) /\ UpTo(line, said + 1) /\ gateRow.of <= said + 1
        <3>1. ASSUME NEW q \in Seq(Versions), UpTo(q, said) PROVE UpTo(q, said + 1)
            <4>1. ASSUME NEW i \in DOMAIN q PROVE q[i] <= said + 1
                <5>1. q[i] \in Versions /\ q[i] <= said
                    BY <3>1, <4>1 DEF UpTo
                <5>2. q[i] \in Nat
                    BY <5>1 DEF Versions
                <5> QED
                    BY <1>0, <5>1, <5>2
            <4> QED
                BY <4>1 DEF UpTo
        <3> QED
            BY <1>0, <3>1 DEF OnlyWhatWasSaid
    <2>3. UpTo(heard', said + 1)
        BY <1>0, <2>1, <2>2, AppendUpTo
    <2>4. 1..said \subseteq 1..said'
        BY <1>0, <2>1
    <2> QED
        BY <2>1, <2>2, <2>3, <2>4 DEF OnlyWhatWasSaid
<1>3. CASE Hear
    <2>1. PICK v : v = Head(heard)
        OBVIOUS
    <2>2. heard # <<>> /\ heard' = Tail(heard) /\ Record(v)
        BY <1>3, <2>1 DEF Hear
    <2>3. v \in Versions
        BY <1>0, <2>1, <2>2
    <2>4. v <= said /\ UpTo(heard', said)
        BY <1>0, <2>1, <2>2, TailUpTo DEF OnlyWhatWasSaid
    <2> QED
        BY <2>2, <2>3, <2>4, RecordsWhatWasSaid
<1>4. CASE RetrySettlement \/ PressReplay
    <2>1. PICK v : v = gateRow.of
        OBVIOUS
    <2>2. Record(v) /\ UNCHANGED heard /\ gateRow.st # "none"
        BY <1>4, <2>1 DEF RetrySettlement, PressReplay
    <2>3. v \in Versions /\ v <= said /\ UpTo(heard', said)
        BY <2>1, <2>2 DEF SettlementInv, SettlementShapes, OnlyWhatWasSaid
    <2> QED
        BY <2>2, <2>3, RecordsWhatWasSaid
<1>5. CASE ClerkStep
    BY <1>5, ClerkSaysNothing
<1>6. CASE GatewayCrash
    <2>1. line' = <<>> /\ clerk' = Off /\ UNCHANGED <<said, heard, gateRow>>
        BY <1>6 DEF GatewayCrash, gateway
    <2>2. UpTo(line', said)
        BY <2>1 DEF UpTo
    <2>3. forsaken' \subseteq 1..said
        <3>1. gateRow.st = "success" => gateRow.of \in 1..said
            BY <1>0 DEF SettlementInv, SettlementShapes, Versions, OnlyWhatWasSaid
        <3> QED
            BY <1>6, <3>1 DEF GatewayCrash, OnlyWhatWasSaid
    <2> QED
        BY <2>1, <2>2, <2>3 DEF OnlyWhatWasSaid, Off
<1>7. ASSUME NEW k, NEW n, Meddle(k, n) PROVE OnlyWhatWasSaid'
    BY <1>1, <1>7 DEF Meddle
<1>8. CASE FixSupplier
    BY <1>1, <1>8 DEF FixSupplier
<1> QED
    BY <1>1, <1>2, <1>3, <1>4, <1>5, <1>6, <1>7, <1>8 DEF SettlementNext, gatewayVars

LEMMA RepliesAreCounted ==
    ASSUME TroubleCounted, NEW re, Replied(re)
    PROVE  gatewayFaults' \in 0..MaxGatewayFaults
<1>1. gatewayFaults \in 0..MaxGatewayFaults /\ MaxGatewayFaults \in Nat
    BY GatewayTroubleIsBounded DEF TroubleCounted
<1>2. CASE re = "ok"
    BY <1>1, <1>2 DEF Replied
<1>3. CASE re # "ok"
    <2>1. gatewayFaults < MaxGatewayFaults /\ gatewayFaults' = gatewayFaults + 1
        BY <1>3 DEF Replied, Replies
    <2> QED
        BY <1>1, <2>1, OneMore
<1> QED
    BY <1>2, <1>3

LEMMA TroubleStaysCounted ==
    ASSUME TroubleCounted, [SettlementNext]_gatewayVars PROVE TroubleCounted'
<1>1. ASSUME UNCHANGED <<gatewayFaults, meddles>> PROVE TroubleCounted'
    BY <1>1 DEF TroubleCounted
<1>2. ASSUME NEW re, Replied(re), UNCHANGED meddles PROVE TroubleCounted'
    BY <1>2, RepliesAreCounted DEF TroubleCounted
<1>3. CASE Emit \/ FixSupplier \/ Hear \/ RetrySettlement
    BY <1>1, <1>3 DEF Emit, FixSupplier, Hear, RetrySettlement, Record
<1>4. CASE LinkPaper
    BY <1>1, <1>4 DEF LinkPaper, AtDesk, gateway
<1>5. ASSUME NEW re \in Replies, Check(re) \/ FindPaper(re) \/ WritePaper(re) PROVE TroubleCounted'
    BY <1>2, <1>5 DEF Check, FindPaper, WritePaper, AtDesk, gateway
<1>6. ASSUME NEW re \in Replies, SubmitPaper(re) PROVE TroubleCounted'
    BY <1>1, <1>2, <1>6 DEF SubmitPaper, AtDesk, gateway
<1>7. CASE GatewayCrash
    <2>1. gatewayFaults' = gatewayFaults + 1 /\ gatewayFaults < MaxGatewayFaults
          /\ UNCHANGED meddles
        BY <1>7 DEF GatewayCrash, gateway
    <2> QED
        BY <2>1, OneMore, GatewayTroubleIsBounded DEF TroubleCounted
<1>8. ASSUME NEW k, NEW n, Meddle(k, n) \/ PressReplay PROVE TroubleCounted'
    <2>1. meddles' = meddles + 1 /\ meddles < MaxMeddles /\ UNCHANGED gatewayFaults
        BY <1>8 DEF Meddle, PressReplay, Record
    <2> QED
        BY <2>1, OneMore, GatewayTroubleIsBounded DEF TroubleCounted
<1> QED
    BY <1>1, <1>3, <1>4, <1>5, <1>6, <1>7, <1>8 DEF SettlementNext, ClerkStep, gatewayVars

LEMMA SettlementTyped ==
    ASSUME SettlementInv, OnlyWhatWasSaid, TroubleCounted PROVE SettlementTypes
<1>1. /\ said \in 0..Len(Statements) /\ said \in Nat /\ clerk \in Clerk
      /\ books \in [Papers -> Seq(Paper)]
      /\ \A k \in Papers : bookLinks[k] \subseteq DOMAIN books[k]
      /\ heard \in Seq(Versions) /\ line \in Seq(Versions)
      /\ gateRow \in [st: {"none", "pending", "failed", "success"}, of: 0..Len(Statements)]
      /\ missed \subseteq Papers
    BY DEF SettlementInv, SettlementShapes
<1>2. ASSUME NEW seq \in Seq(Versions), UpTo(seq, said) PROVE seq \in Seq(1..said)
    <2>1. ASSUME NEW i \in DOMAIN seq PROVE seq[i] \in 1..said
        <3>1. seq[i] \in Versions /\ seq[i] <= said
            BY <1>2, <2>1 DEF UpTo
        <3> QED
            BY <1>1, <3>1 DEF Versions
    <2>2. seq \in Seq(Versions) /\ \A i \in 1..Len(seq) : seq[i] \in 1..said
        BY <2>1
    <2> QED
        BY <2>2, SeqOfFewer
<1>3. heard \in Seq(1..said) /\ line \in Seq(1..said)
    BY <1>1, <1>2 DEF OnlyWhatWasSaid
<1>4. gateRow \in [st: {"none", "pending", "failed", "success"}, of: 0..said]
    <2>1. gateRow.of \in 0..said
        BY <1>1 DEF OnlyWhatWasSaid
    <2> QED
        BY <1>1, <2>1
<1>5. clerk.doc \in 0..Len(books[clerk.at])
    <2>1. PICK k \in Papers, n \in Nat : k = clerk.at /\ n = clerk.doc
        BY <1>1 DEF Clerk
    <2>2. books[k] \in Seq(Paper)
        BY <1>1
    <2>3. n = 0 \/ n \in DOMAIN books[k]
        <3>1. clerk.pc \in {"off", "find", "write", "link", "submit"}
            BY <1>1 DEF Clerk
        <3> QED
            BY <2>1, <3>1 DEF SettlementInv, AtTheDesk, OnlyWhatWasSaid
    <2>4. n \in 0..Len(books[k])
        BY <2>2, <2>3
    <2> QED
        BY <2>1, <2>4
<1>6. \A k \in Papers : \A n \in DOMAIN books[k] :
          books[k][n].st \in {"draft", "submitted", "cancelled", "deleted"}
    BY PaperIs DEF SettlementInv, PaperStates
<1> QED
    BY <1>1, <1>3, <1>4, <1>5, <1>6 DEF SettlementTypes, Clerk, OnlyWhatWasSaid, TroubleCounted

LEMMA SettlementIsTyped == SettlementSpec => []SettlementTypes
<1>1. SettlementInit => OnlyWhatWasSaid
    BY DEF SettlementInit, OnlyWhatWasSaid, UpTo, Off
<1>2. SettlementInit => TroubleCounted
    BY GatewayTroubleIsBounded DEF SettlementInit, TroubleCounted
<1>3. SettlementInv /\ OnlyWhatWasSaid /\ [SettlementNext]_gatewayVars => OnlyWhatWasSaid'
    BY OnlyWhatWasSaidStep
<1>4. TroubleCounted /\ [SettlementNext]_gatewayVars => TroubleCounted'
    BY TroubleStaysCounted
<1>5. SettlementInv /\ OnlyWhatWasSaid /\ TroubleCounted => SettlementTypes
    BY SettlementTyped
<1> QED
    BY <1>1, <1>2, <1>3, <1>4, <1>5, SettlementHolds, PTL DEF SettlementSpec
=============================================================================
