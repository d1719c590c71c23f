------------------------------ MODULE OfficeProofs ------------------------------
(*****************************************************************************)
(* The parts of the back office together: each goes on as its own module     *)
(* says, whatever the others do (BackOffice), so what is proved of a part    *)
(* holds of the whole.  Before that, what is proved of the parts that have   *)
(* no module of proofs of their own: the two-way echo window (TwoWay), the   *)
(* GST rates of products (GstRates), stock levels (StockLevels) and the      *)
(* typing of conditions (TriggerCondition).                                  *)
(*****************************************************************************)
EXTENDS BackOffice, MoneyProofs, ShopperProofs, CustomerProofs, OperatorProofs,
        FiniteSetTheorems, SequenceTheorems, FunctionTheorems, TLAPS

-----------------------------------------------------------------------------
(***************************************************************************)
(* TwoWay, for any pushes at once, edits and orders of webhooks: where     *)
(* webhooks come in order and a record is pushed by one at a time, the two *)
(* sides are in step whenever nothing is under way (StepInv); and every    *)
(* step of any behaviour leaves less to be done (Work), so that no change  *)
(* bounces for ever.  That a push or a webhook in hand is carried on with  *)
(* is all EndsInStep needs besides, and that is fairness.                  *)
(***************************************************************************)

PushOff(p) == pusher[p].pc = "off"

\* A person's change in ERPNext is on its way into the store.
ComesIn == applying.pc = "write" \/ \E i \in DOMAIN sent : sent[i].by = "person"

\* What a push has read is what the store holds, or the store has an event to come.
PushIsOfNow == \A p \in Pushers : PushOff(p) \/ emitted > 0 \/ pusher[p].val = here

OnePush == \A p, q \in Pushers : PushOff(p) \/ PushOff(q) \/ p = q

InStepAtRest == ComesIn \/ emitted > 0 \/ (\E p \in Pushers : ~PushOff(p)) \/ here = there

StepInv == TwoWayTypes /\ (inOrder => OnePush /\ PushIsOfNow /\ InStepAtRest)

-----------------------------------------------------------------------------
(* Types *)

LEMMA SeqOfMore ==
    ASSUME NEW S, NEW T, S \subseteq T, NEW s \in Seq(S)
    PROVE  s \in Seq(T)
<1>1. Len(s) \in Nat /\ s \in [1..Len(s) -> S]
    OBVIOUS
<1>2. s \in [1..Len(s) -> T]
    BY <1>1
<1> QED
    BY <1>1, <1>2

LEMMA AppendTyped ==
    ASSUME NEW S, NEW s \in Seq(S), NEW x \in S
    PROVE  Append(s, x) \in Seq(S)
OBVIOUS

LEMMA ElementOf ==
    ASSUME NEW S, NEW s \in Seq(S), NEW i \in DOMAIN s PROVE s[i] \in S
OBVIOUS

\* Without the i-th.
LEMMA WithoutIs ==
    ASSUME NEW S, NEW s \in Seq(S), NEW i \in DOMAIN s
    PROVE  /\ Without(s, i) \in Seq(S) /\ Len(Without(s, i)) = Len(s) - 1
           /\ \A j \in 1..(Len(s) - 1) : Without(s, i)[j] = IF j < i THEN s[j] ELSE s[j + 1]
<1>1. i \in 1..Len(s) /\ Len(s) \in Nat
    OBVIOUS
<1> DEFINE a == SubSeq(s, 1, i - 1)
           b == SubSeq(s, i + 1, Len(s))
<1>2. a \in Seq(S) /\ Len(a) = i - 1 /\ \A j \in 1..(i - 1) : a[j] = s[j]
    BY <1>1
<1>3. b \in Seq(S) /\ Len(b) = Len(s) - i /\ \A j \in 1..(Len(s) - i) : b[j] = s[i + j]
    BY <1>1
<1>4. Without(s, i) = a \o b
    BY DEF Without
<1> HIDE DEF a, b
<1>5. /\ a \o b \in Seq(S) /\ Len(a \o b) = Len(s) - 1
      /\ \A j \in 1..(Len(s) - 1) : (a \o b)[j] = IF j < i THEN a[j] ELSE b[j - (i - 1)]
    <2>1. /\ a \o b \in Seq(S) /\ Len(a \o b) = Len(a) + Len(b)
          /\ \A j \in 1..(Len(a) + Len(b)) :
                (a \o b)[j] = IF j <= Len(a) THEN a[j] ELSE b[j - Len(a)]
        BY <1>2, <1>3, ConcatProperties
    <2>2. Len(a) = i - 1 /\ Len(b) = Len(s) - i
        BY <1>2, <1>3
    <2>3. Len(a) + Len(b) = Len(s) - 1
        BY <1>1, <2>2
    <2>4. ASSUME NEW j \in 1..(Len(s) - 1)
          PROVE  (a \o b)[j] = IF j < i THEN a[j] ELSE b[j - (i - 1)]
        <3>1. j <= i - 1 <=> j < i
            BY <1>1
        <3>2. (a \o b)[j] = IF j <= i - 1 THEN a[j] ELSE b[j - (i - 1)]
            BY <2>1, <2>2, <2>3
        <3> QED
            BY <3>1, <3>2
    <2> QED
        BY <2>1, <2>3, <2>4
<1>6. \A j \in 1..(Len(s) - 1) : (a \o b)[j] = IF j < i THEN s[j] ELSE s[j + 1]
    <2> SUFFICES ASSUME NEW j \in 1..(Len(s) - 1)
                 PROVE  (a \o b)[j] = IF j < i THEN s[j] ELSE s[j + 1]
        OBVIOUS
    <2>1. CASE j < i
        BY <1>1, <1>2, <1>5, <2>1
    <2>2. CASE ~(j < i)
        <3>1. j - (i - 1) \in 1..(Len(s) - i) /\ i + (j - (i - 1)) = j + 1
            BY <1>1, <2>2
        <3> QED
            BY <1>3, <1>5, <2>2, <3>1
    <2> QED
        BY <2>1, <2>2
<1> QED
    BY <1>4, <1>5, <1>6

LEMMA TwoWayTyped ==
    ASSUME TwoWayTypes, [TwoWayNext]_twoWayVars PROVE TwoWayTypes'
<1> USE EditsAreBounded DEF TwoWayTypes
<1>1. /\ edits \in Nat /\ here \in 0..edits /\ there \in 0..edits /\ emitted \in Nat
      /\ sent \in Seq([val: 0..edits, by: {"person", "store"}])
      /\ applying \in [pc: {"off", "write", "done"}, val: 0..edits]
    OBVIOUS
<1>2. CASE EditHere \/ EditThere
    <2>1. /\ edits' = edits + 1 /\ edits' \in 0..MaxEdits /\ 0..edits \subseteq 0..edits'
          /\ edits + 1 \in 0..edits'
        BY <1>2, <1>1 DEF EditHere, EditThere
    <2>2. sent \in Seq([val: 0..edits', by: {"person", "store"}])
        <3>1. [val: 0..edits, by: {"person", "store"}]
                \subseteq [val: 0..edits', by: {"person", "store"}]
            BY <2>1
        <3> QED
            BY <1>1, <3>1, SeqOfMore
    <2>3. sent' \in Seq([val: 0..edits', by: {"person", "store"}])
        <3>1. [val |-> edits + 1, by |-> "person"] \in [val: 0..edits', by: {"person", "store"}]
            BY <2>1
        <3>2. Append(sent, [val |-> edits + 1, by |-> "person"])
                  \in Seq([val: 0..edits', by: {"person", "store"}])
            BY <2>2, <3>1, AppendTyped
        <3> QED
            BY <1>2, <2>2, <3>2 DEF EditHere, EditThere, Sends
    <2>4. applying' \in [pc: {"off", "write", "done"}, val: 0..edits']
        BY <1>2, <2>1, <1>1 DEF EditHere, EditThere
    <2>5. pusher' \in [Pushers -> [pc: {"off", "recent", "compare", "put"}, val: 0..edits']]
        BY <1>2, <2>1 DEF EditHere, EditThere
    <2>6. here' \in 0..edits' /\ there' \in 0..edits' /\ emitted' \in Nat
        BY <1>2, <1>1, <2>1 DEF EditHere, EditThere
    <2>7. inOrder' \in BOOLEAN /\ recent' \in BOOLEAN
        BY <1>2 DEF EditHere, EditThere
    <2> QED
        BY <2>1, <2>3, <2>4, <2>5, <2>6, <2>7
<1>3. CASE WindowPasses \/ ApplyHook \/ HookDone
    <2>1. applying' \in [pc: {"off", "write", "done"}, val: 0..edits] /\ here' \in 0..edits
        <3>1. applying.val \in 0..edits
            BY <1>1
        <3>2. CASE WindowPasses
            BY <1>1, <3>2 DEF WindowPasses
        <3>3. CASE ApplyHook
            BY <1>1, <3>1, <3>3 DEF ApplyHook
        <3>4. CASE HookDone
            BY <1>1, <3>4 DEF HookDone, NoHook
        <3> QED
            BY <1>3, <3>2, <3>3, <3>4
    <2>2. UNCHANGED <<inOrder, there, sent, pusher, edits>> /\ emitted' \in Nat
        BY <1>1, <1>3 DEF WindowPasses, ApplyHook, HookDone
    <2>3. recent' \in BOOLEAN
        BY <1>3 DEF WindowPasses, ApplyHook, HookDone
    <2> QED
        BY <2>1, <2>2, <2>3
<1>4. ASSUME NEW i \in DOMAIN sent, TakeHook(i) PROVE TwoWayTypes'
    <2>1. sent' \in Seq([val: 0..edits, by: {"person", "store"}])
        BY <1>1, <1>4, WithoutIs DEF TakeHook
    <2>2. sent[i].val \in 0..edits
        <3>1. sent[i] \in [val: 0..edits, by: {"person", "store"}]
            BY <1>1, ElementOf
        <3> QED
            BY <3>1
    <2>3. applying' \in [pc: {"off", "write", "done"}, val: 0..edits]
        BY <2>2, <1>1, <1>4 DEF TakeHook, NoHook
    <2> QED
        BY <1>1, <1>4, <2>1, <2>3 DEF TakeHook
<1>5. ASSUME NEW p \in Pushers, PushStep(p) PROVE TwoWayTypes'
    <2>1. \A pc \in {"off", "recent", "compare", "put"}, v \in 0..edits : Pushes(p, pc, v) =>
              pusher' \in [Pushers -> [pc: {"off", "recent", "compare", "put"}, val: 0..edits]]
        BY DEF Pushes
    <2>2. pusher[p].val \in 0..edits /\ 0 \in 0..edits
        BY <1>1
    <2>3. CASE BeginPush(p)
        BY <1>1, <2>1, <2>3 DEF BeginPush
    <2>4. CASE AskRecent(p)
        BY <1>1, <2>1, <2>2, <2>4 DEF AskRecent
    <2>5. CASE Compare(p)
        BY <1>1, <2>1, <2>2, <2>5 DEF Compare
    <2>6. CASE Put(p)
        <3>1. [val |-> pusher[p].val, by |-> "store"] \in [val: 0..edits, by: {"person", "store"}]
            BY <2>2
        <3>2. sent' \in Seq([val: 0..edits, by: {"person", "store"}])
            BY <1>1, <2>6, <3>1, AppendTyped DEF Put, Sends
        <3> QED
            BY <1>1, <2>1, <2>2, <2>6, <3>2 DEF Put
    <2> QED
        BY <1>5, <2>3, <2>4, <2>5, <2>6 DEF PushStep
<1>6. CASE UNCHANGED twoWayVars
    BY <1>6 DEF twoWayVars
<1> QED
    BY <1>2, <1>3, <1>4, <1>5, <1>6 DEF TwoWayNext, HookStep

LEMMA TwoWayStarts == TwoWayInit => StepInv
<1> SUFFICES ASSUME TwoWayInit PROVE StepInv
    OBVIOUS
<1>1. NoPush \in [pc: {"off", "recent", "compare", "put"}, val: 0..0] /\ NoPush.pc = "off"
    BY DEF NoPush
<1>2. pusher \in [Pushers -> [pc: {"off", "recent", "compare", "put"}, val: 0..edits]]
    BY <1>1 DEF TwoWayInit
<1>3. applying \in [pc: {"off", "write", "done"}, val: 0..edits]
    BY DEF TwoWayInit, NoHook
<1>4. TwoWayTypes
    <2>1. /\ here \in 0..edits /\ there \in 0..edits /\ emitted \in Nat /\ edits \in 0..MaxEdits
          /\ sent \in Seq([val: 0..edits, by: {"person", "store"}])
        BY EditsAreBounded DEF TwoWayInit
    <2>2. inOrder \in BOOLEAN /\ recent \in BOOLEAN
        BY DEF TwoWayInit
    <2> QED
        BY <1>2, <1>3, <2>1, <2>2 DEF TwoWayTypes
<1>5. OnePush /\ PushIsOfNow /\ InStepAtRest
    BY <1>1 DEF TwoWayInit, OnePush, PushIsOfNow, PushOff, InStepAtRest
<1> QED
    BY <1>4, <1>5 DEF StepInv

-----------------------------------------------------------------------------
(* In step at rest *)

LEMMA PushesMake ==
    ASSUME NEW p \in Pushers, NEW c, NEW v, Pushes(p, c, v), NEW S, pusher \in [Pushers -> S]
    PROVE  /\ pusher'[p].pc = c /\ pusher'[p].val = v
           /\ \A q \in Pushers : q # p => pusher'[q] = pusher[q]
BY DEF Pushes

\* Where no push is taken up, nothing but the record and the events matters.
LEMMA PushersRest ==
    ASSUME StepInv, inOrder, UNCHANGED <<inOrder, pusher>>,
           (emitted' = emitted /\ here' = here) \/ emitted' > 0
    PROVE  OnePush' /\ PushIsOfNow'
<1>1. OnePush'
    <2>1. OnePush
        BY DEF StepInv
    <2> QED
        BY <2>1 DEF OnePush, PushOff
<1>2. CASE emitted' = emitted /\ here' = here
    <2>1. PushIsOfNow
        BY DEF StepInv
    <2> QED
        BY <1>1, <1>2, <2>1 DEF PushIsOfNow, PushOff
<1>3. CASE emitted' > 0
    BY <1>1, <1>3 DEF PushIsOfNow
<1> QED
    BY <1>1, <1>2, <1>3

LEMMA StepKept == ASSUME StepInv, [TwoWayNext]_twoWayVars PROVE StepInv'
<1>1. TwoWayTypes /\ TwoWayTypes'
    BY TwoWayTyped DEF StepInv
<1> SUFFICES ASSUME inOrder' PROVE OnePush' /\ PushIsOfNow' /\ InStepAtRest'
    BY <1>1 DEF StepInv
<1>2. inOrder
    BY DEF TwoWayNext, EditHere, EditThere, WindowPasses, HookStep, ApplyHook, HookDone, TakeHook,
           PushStep, BeginPush, AskRecent, Compare, Put, twoWayVars
<1>3. /\ emitted \in Nat /\ OnePush /\ PushIsOfNow /\ InStepAtRest
      /\ sent \in Seq([val: 0..edits, by: {"person", "store"}])
      /\ pusher \in [Pushers -> [pc: {"off", "recent", "compare", "put"}, val: 0..edits]]
    BY <1>1, <1>2 DEF StepInv, TwoWayTypes
<1>4. CASE EditHere
    <2>0. emitted' = emitted + 1 /\ UNCHANGED <<inOrder, pusher>>
        BY <1>4 DEF EditHere
    <2>1. emitted' > 0
        BY <1>3, <2>0
    <2> QED
        BY <1>2, <2>0, <2>1, PushersRest DEF InStepAtRest
<1>5. CASE EditThere
    <2>1. /\ emitted' = emitted /\ here' = here /\ UNCHANGED <<inOrder, pusher>>
          /\ sent' = Append(sent, [val |-> edits + 1, by |-> "person"])
        BY <1>5 DEF EditThere, Sends
    <2>2. Len(sent) + 1 \in DOMAIN sent' /\ sent'[Len(sent) + 1].by = "person"
        BY <1>3, <2>1
    <2>3. ComesIn'
        BY <2>2 DEF ComesIn
    <2> QED
        BY <1>2, <2>1, <2>3, PushersRest DEF InStepAtRest
<1>6. CASE WindowPasses
    <2>1. UNCHANGED <<inOrder, here, there, emitted, sent, applying, pusher>>
        BY <1>6 DEF WindowPasses
    <2> QED
        BY <1>2, <1>3, <2>1, PushersRest DEF InStepAtRest, ComesIn, PushOff
<1>7. CASE ApplyHook
    <2>0. emitted' = emitted + 1 /\ UNCHANGED <<inOrder, pusher>>
        BY <1>7 DEF ApplyHook
    <2>1. emitted' > 0
        BY <1>3, <2>0
    <2> QED
        BY <1>2, <2>0, <2>1, PushersRest DEF InStepAtRest
<1>8. CASE HookDone
    <2>1. /\ UNCHANGED <<inOrder, here, there, emitted, sent, pusher>>
          /\ applying.pc = "done"
        BY <1>8 DEF HookDone
    <2> QED
        BY <1>2, <1>3, <2>1, PushersRest DEF InStepAtRest, ComesIn, PushOff
<1>9. ASSUME NEW i \in DOMAIN sent, TakeHook(i)
      PROVE  OnePush' /\ PushIsOfNow' /\ InStepAtRest'
    <2>1. /\ UNCHANGED <<inOrder, here, there, emitted, pusher>> /\ applying.pc = "off"
          /\ sent' = Without(sent, i) /\ i = 1
          /\ applying' = IF OwnWrite(sent[i]) THEN NoHook ELSE [pc |-> "write", val |-> sent[i].val]
        BY <1>2, <1>9 DEF TakeHook
    <2>2. ComesIn => ComesIn'
        <3>1. CASE sent[i].by = "person"
            BY <2>1, <3>1 DEF ComesIn, OwnWrite
        <3>2. ASSUME sent[i].by # "person", NEW j \in DOMAIN sent, sent[j].by = "person"
              PROVE  ComesIn'
            <4>1. j - 1 \in 1..(Len(sent) - 1) /\ ~(j - 1 < i) /\ (j - 1) + 1 = j
                BY <1>3, <2>1, <3>2
            <4>0. i \in DOMAIN sent /\ sent' = Without(sent, i)
                BY <1>9, <2>1
            <4>2. /\ Len(sent') = Len(sent) - 1
                  /\ sent' \in Seq([val: 0..edits, by: {"person", "store"}])
                  /\ \A k \in 1..(Len(sent) - 1) : sent'[k] = IF k < i THEN sent[k] ELSE sent[k + 1]
                BY <1>3, <4>0, WithoutIs
            <4>3. j - 1 \in DOMAIN sent' /\ sent'[j - 1] = sent[j]
                BY <4>1, <4>2
            <4> QED
                BY <3>2, <4>3 DEF ComesIn
        <3> QED
            BY <2>1, <3>1, <3>2 DEF ComesIn
    <2> QED
        BY <1>2, <1>3, <2>1, <2>2, PushersRest DEF InStepAtRest, PushOff
<1>10. ASSUME NEW p \in Pushers, PushStep(p)
       PROVE  OnePush' /\ PushIsOfNow' /\ InStepAtRest'
    <2>1. CASE BeginPush(p)
        <3>0. Pushes(p, "recent", here) /\ here' = here /\ \A q \in Pushers : PushOff(q)
            BY <1>2, <2>1 DEF BeginPush, PushOff
        <3>1. /\ \A q \in Pushers : PushOff(q)
              /\ pusher'[p].pc = "recent" /\ pusher'[p].val = here /\ here' = here
              /\ \A q \in Pushers : q # p => pusher'[q] = pusher[q]
            BY <1>3, <3>0, PushesMake
        <3> QED
            BY <3>1 DEF OnePush, PushIsOfNow, InStepAtRest, PushOff
    <2>2. \A q \in Pushers : q # p /\ ~PushOff(p) => PushOff(q)
        BY <1>3 DEF OnePush
    <2>3. CASE AskRecent(p) \/ (Compare(p) /\ Changes(pusher[p].val))
        <3>1. /\ ~PushOff(p) /\ ~(PushOff(p)') /\ pusher'[p].val = pusher[p].val
              /\ \A q \in Pushers : q # p => pusher'[q] = pusher[q]
            BY <1>3, <2>3, PushesMake DEF AskRecent, Compare, PushOff
        <3>2. UNCHANGED <<here, emitted>>
            BY <2>3 DEF AskRecent, Compare
        <3> QED
            BY <1>3, <2>2, <3>1, <3>2 DEF OnePush, PushIsOfNow, InStepAtRest, PushOff
    <2>4. CASE (Compare(p) /\ ~Changes(pusher[p].val)) \/ Put(p)
        <3>1. /\ ~PushOff(p) /\ PushOff(p)' /\ there' = pusher[p].val
              /\ \A q \in Pushers : q # p => pusher'[q] = pusher[q]
              /\ UNCHANGED <<here, emitted>>
            BY <1>3, <2>4, PushesMake DEF Compare, Put, PushOff, Changes
        <3>2. \A q \in Pushers : PushOff(q)'
            BY <2>2, <3>1 DEF PushOff
        <3>3. emitted' > 0 \/ here' = there'
            BY <1>3, <3>1 DEF PushIsOfNow
        <3> QED
            BY <3>2, <3>3 DEF OnePush, PushIsOfNow, InStepAtRest, PushOff
    <2> QED
        BY <1>10, <2>1, <2>3, <2>4 DEF PushStep, Compare
<1>11. CASE UNCHANGED twoWayVars
    BY <1>3, <1>11 DEF twoWayVars, OnePush, PushIsOfNow, InStepAtRest, ComesIn, PushOff
<1> QED
    BY <1>4, <1>5, <1>6, <1>7, <1>8, <1>9, <1>10, <1>11 DEF TwoWayNext, HookStep

-----------------------------------------------------------------------------
(* What is left to be done *)

PushesAt(c) == {p \in Pushers : pusher[p].pc = c}
PushesOn == {p \in Pushers : ~PushOff(p)}
ByPeople(s) == {i \in DOMAIN s : s[i].by = "person"}

HookWork == IF applying.pc = "write" THEN 8 ELSE IF applying.pc = "done" THEN 2 ELSE 0
PushWork == 4 * Cardinality(PushesAt("recent")) + 3 * Cardinality(PushesAt("compare"))
            + 2 * Cardinality(PushesAt("put"))

\* The steps that may still be taken, at most.
Work == 10 * (MaxEdits - edits) + 8 * Cardinality(ByPeople(sent)) + Len(sent) + 5 * emitted
        + HookWork + PushWork + (IF recent THEN 1 ELSE 0)

FewPushes == IsFiniteSet(PushesOn)

LEMMA FewByPeople ==
    ASSUME NEW S, NEW s \in Seq(S)
    PROVE  IsFiniteSet(ByPeople(s)) /\ Cardinality(ByPeople(s)) \in Nat
<1>1. DOMAIN s = 1..Len(s) /\ Len(s) \in Nat
    OBVIOUS
<1>2. IsFiniteSet(1..Len(s))
    BY <1>1, FS_Interval
<1>3. ByPeople(s) \subseteq 1..Len(s)
    BY <1>1 DEF ByPeople
<1> QED
    BY <1>2, <1>3, FS_Subset, FS_CardinalityType

LEMMA ByPeopleGrow ==
    ASSUME NEW S, NEW s \in Seq(S), NEW h \in S
    PROVE  /\ h.by = "person" =>
                  Cardinality(ByPeople(Append(s, h))) = Cardinality(ByPeople(s)) + 1
           /\ h.by # "person" => ByPeople(Append(s, h)) = ByPeople(s)
<1>1. /\ DOMAIN Append(s, h) = 1..(Len(s) + 1) /\ Len(s) \in Nat /\ DOMAIN s = 1..Len(s)
      /\ \A i \in 1..Len(s) : Append(s, h)[i] = s[i]
      /\ Append(s, h)[Len(s) + 1] = h
    OBVIOUS
<1>2. CASE h.by = "person"
    <2>1. ByPeople(Append(s, h)) = ByPeople(s) \cup {Len(s) + 1}
        BY <1>1, <1>2 DEF ByPeople
    <2>2. Len(s) + 1 \notin ByPeople(s)
        BY <1>1 DEF ByPeople
    <2> QED
        BY <1>2, <2>1, <2>2, FewByPeople, FS_AddElement
<1>3. CASE h.by # "person"
    BY <1>1, <1>3 DEF ByPeople
<1> QED
    BY <1>2, <1>3

\* Without the i-th the later ones move up by one.
LEMMA ByPeopleShrink ==
    ASSUME NEW S, NEW s \in Seq(S), NEW i \in DOMAIN s
    PROVE  Cardinality(ByPeople(Without(s, i))) =
               Cardinality(ByPeople(s)) - (IF s[i].by = "person" THEN 1 ELSE 0)
<1> DEFINE t == Without(s, i)
           up == [j \in ByPeople(t) |-> IF j < i THEN j ELSE j + 1]
<1>1. /\ t \in Seq(S) /\ Len(t) = Len(s) - 1
      /\ \A j \in 1..(Len(s) - 1) : t[j] = IF j < i THEN s[j] ELSE s[j + 1]
    BY WithoutIs
<1> HIDE DEF t
<1>2. DOMAIN t = 1..(Len(s) - 1) /\ DOMAIN s = 1..Len(s) /\ Len(s) \in Nat
    BY <1>1
<1>3. \A j \in ByPeople(t) : up[j] \in ByPeople(s) \ {i}
    BY <1>1, <1>2 DEF ByPeople
<1>4. \A j, k \in ByPeople(t) : up[j] = up[k] => j = k
    BY <1>2 DEF ByPeople
<1>5. \A k \in ByPeople(s) \ {i} : \E j \in ByPeople(t) : up[j] = k
    <2> SUFFICES ASSUME NEW k \in ByPeople(s) \ {i} PROVE \E j \in ByPeople(t) : up[j] = k
        OBVIOUS
    <2>1. CASE k < i
        <3>1. k \in ByPeople(t) /\ up[k] = k
            BY <1>1, <1>2, <2>1 DEF ByPeople
        <3> QED
            BY <3>1
    <2>2. CASE ~(k < i)
        <3>1. k - 1 \in ByPeople(t) /\ up[k - 1] = k
            <4>1. k - 1 \in 1..(Len(s) - 1) /\ ~(k - 1 < i) /\ (k - 1) + 1 = k
                BY <1>2, <2>2 DEF ByPeople
            <4>2. t[k - 1] = s[k]
                BY <1>1, <4>1
            <4> QED
                BY <1>2, <4>1, <4>2 DEF ByPeople
        <3> QED
            BY <3>1
    <2> QED
        BY <2>1, <2>2
<1>6. up \in Bijection(ByPeople(t), ByPeople(s) \ {i})
    BY <1>3, <1>4, <1>5, Fun_IsBij
<1>7. IsFiniteSet(ByPeople(t)) /\ IsFiniteSet(ByPeople(s))
    BY <1>1, FewByPeople
<1>8. Cardinality(ByPeople(s) \ {i}) = Cardinality(ByPeople(t))
    BY <1>6, <1>7, FS_Bijection DEF ExistsBijection
<1>9. i \in ByPeople(s) <=> s[i].by = "person"
    BY DEF ByPeople
<1>10. Cardinality(ByPeople(s) \ {i}) =
           IF i \in ByPeople(s) THEN Cardinality(ByPeople(s)) - 1 ELSE Cardinality(ByPeople(s))
    BY <1>7, FS_RemoveElement
<1>11. Cardinality(ByPeople(s)) \in Nat
    BY FewByPeople
<1> QED
    BY <1>8, <1>9, <1>10, <1>11 DEF t

\* One push moves from one place to another.
LEMMA OnePushMoves ==
    ASSUME NEW S, pusher \in [Pushers -> S], NEW p \in Pushers, NEW c, NEW v, Pushes(p, c, v)
    PROVE  \A k : /\ k = c => PushesAt(k)' = PushesAt(k) \cup {p}
                  /\ k # c => PushesAt(k)' = PushesAt(k) \ {p}
<1>1. pusher'[p].pc = c /\ \A q \in Pushers : q # p => pusher'[q] = pusher[q]
    BY PushesMake
<1> QED
    BY <1>1 DEF PushesAt

LEMMA FewAt ==
    ASSUME FewPushes, NEW k \in {"recent", "compare", "put"}
    PROVE  IsFiniteSet(PushesAt(k)) /\ Cardinality(PushesAt(k)) \in Nat
<1>1. PushesAt(k) \subseteq PushesOn
    BY DEF PushesAt, PushesOn, PushOff
<1> QED
    BY <1>1, FS_Subset, FS_CardinalityType DEF FewPushes

\* What a push from one place to another changes in the count at each.
LEMMA CountMoves ==
    ASSUME FewPushes, NEW S, pusher \in [Pushers -> S], NEW p \in Pushers, NEW c, NEW v,
           Pushes(p, c, v), NEW k \in {"recent", "compare", "put"}
    PROVE  /\ Cardinality(PushesAt(k))' \in Nat
           /\ k = c /\ pusher[p].pc # k => Cardinality(PushesAt(k))' = Cardinality(PushesAt(k)) + 1
           /\ k # c /\ pusher[p].pc = k => Cardinality(PushesAt(k))' = Cardinality(PushesAt(k)) - 1
           /\ k # c /\ pusher[p].pc # k => Cardinality(PushesAt(k))' = Cardinality(PushesAt(k))
<1>1. IsFiniteSet(PushesAt(k)) /\ Cardinality(PushesAt(k)) \in Nat
    BY FewAt
<1>2. p \in PushesAt(k) <=> pusher[p].pc = k
    BY DEF PushesAt
<1>3. CASE k = c
    <2>1. PushesAt(k)' = PushesAt(k) \cup {p}
        BY <1>3, OnePushMoves
    <2>2. /\ IsFiniteSet(PushesAt(k)')
          /\ Cardinality(PushesAt(k)') =
                 IF p \in PushesAt(k) THEN Cardinality(PushesAt(k))
                  ELSE Cardinality(PushesAt(k)) + 1
        BY <1>1, <2>1, FS_AddElement
    <2> QED
        BY <1>1, <1>2, <1>3, <2>2
<1>4. CASE k # c
    <2>1. PushesAt(k)' = PushesAt(k) \ {p}
        BY <1>4, OnePushMoves
    <2>2. /\ IsFiniteSet(PushesAt(k)')
          /\ Cardinality(PushesAt(k)') =
                 IF p \in PushesAt(k) THEN Cardinality(PushesAt(k)) - 1
                  ELSE Cardinality(PushesAt(k))
        BY <1>1, <2>1, FS_RemoveElement
    <2>3. Cardinality(PushesAt(k)') \in Nat
        BY <2>2, FS_CardinalityType
    <2> QED
        BY <1>1, <1>2, <1>4, <2>2, <2>3
<1> QED
    BY <1>3, <1>4

LEMMA FewStayFew ==
    ASSUME FewPushes, NEW S, pusher \in [Pushers -> S], NEW p \in Pushers, NEW c, NEW v,
           Pushes(p, c, v)
    PROVE  FewPushes'
<1>1. \A q \in Pushers : q # p => pusher'[q] = pusher[q]
    BY PushesMake
<1>2. PushesOn' \subseteq PushesOn \cup {p}
    BY <1>1 DEF PushesOn, PushOff
<1> QED
    BY <1>2, FS_AddElement, FS_Subset DEF FewPushes

LEMMA WorkIsCounted ==
    ASSUME TwoWayTypes, FewPushes
    PROVE  /\ Work \in Nat /\ edits \in 0..MaxEdits /\ MaxEdits \in Nat /\ emitted \in Nat
           /\ Len(sent) \in Nat /\ Cardinality(ByPeople(sent)) \in Nat
           /\ HookWork \in {0, 2, 8} /\ PushWork \in Nat
           /\ sent \in Seq([val: 0..edits, by: {"person", "store"}])
           /\ pusher \in [Pushers -> [pc: {"off", "recent", "compare", "put"}, val: 0..edits]]
<1>1. /\ edits \in 0..MaxEdits /\ MaxEdits \in Nat /\ emitted \in Nat
      /\ sent \in Seq([val: 0..edits, by: {"person", "store"}])
      /\ pusher \in [Pushers -> [pc: {"off", "recent", "compare", "put"}, val: 0..edits]]
    BY EditsAreBounded DEF TwoWayTypes
<1>2. Len(sent) \in Nat /\ Cardinality(ByPeople(sent)) \in Nat
    BY <1>1, FewByPeople
<1>3. HookWork \in {0, 2, 8}
    BY DEF HookWork
<1>4. PushWork \in Nat
    <2>1. /\ Cardinality(PushesAt("recent")) \in Nat /\ Cardinality(PushesAt("compare")) \in Nat
          /\ Cardinality(PushesAt("put")) \in Nat
        BY FewAt
    <2> QED
        BY <2>1 DEF PushWork
<1>5. Work \in Nat
    BY <1>1, <1>2, <1>3, <1>4 DEF Work
<1> QED
    BY <1>1, <1>2, <1>3, <1>4, <1>5

\* What a step of one push does to the work of them all.
LEMMA PushWorkFalls ==
    ASSUME TwoWayTypes, FewPushes, NEW p \in Pushers, NEW c, NEW v, Pushes(p, c, v)
    PROVE  LET was == pusher[p].pc IN
           /\ was = "off" /\ c = "recent" => PushWork' = PushWork + 4
           /\ was = "recent" /\ c \in {"compare", "put"} => PushWork' < PushWork
           /\ was = "compare" /\ c \in {"put", "off"} => PushWork' < PushWork
           /\ was = "put" /\ c = "off" => PushWork' = PushWork - 2
           /\ PushWork' \in Nat
<1>1. pusher \in [Pushers -> [pc: {"off", "recent", "compare", "put"}, val: 0..edits]]
    BY WorkIsCounted
<1>2. \A k \in {"recent", "compare", "put"} :
          /\ Cardinality(PushesAt(k)) \in Nat /\ Cardinality(PushesAt(k))' \in Nat
          /\ k = c /\ pusher[p].pc # k => Cardinality(PushesAt(k))' = Cardinality(PushesAt(k)) + 1
          /\ k # c /\ pusher[p].pc = k => Cardinality(PushesAt(k))' = Cardinality(PushesAt(k)) - 1
          /\ k # c /\ pusher[p].pc # k => Cardinality(PushesAt(k))' = Cardinality(PushesAt(k))
    BY <1>1, CountMoves, FewAt
<1> DEFINE r == Cardinality(PushesAt("recent"))
           m == Cardinality(PushesAt("compare"))
           u == Cardinality(PushesAt("put"))
           r1 == Cardinality(PushesAt("recent"))'
           m1 == Cardinality(PushesAt("compare"))'
           u1 == Cardinality(PushesAt("put"))'
<1>3. r \in Nat /\ m \in Nat /\ u \in Nat /\ r1 \in Nat /\ m1 \in Nat /\ u1 \in Nat
    BY <1>2
<1>4. PushWork = 4 * r + 3 * m + 2 * u /\ PushWork' = 4 * r1 + 3 * m1 + 2 * u1
    BY DEF PushWork
<1>5. /\ pusher[p].pc = "off" /\ c = "recent" => r1 = r + 1 /\ m1 = m /\ u1 = u
      /\ pusher[p].pc = "recent" /\ c = "compare" => r1 = r - 1 /\ m1 = m + 1 /\ u1 = u
      /\ pusher[p].pc = "recent" /\ c = "put" => r1 = r - 1 /\ m1 = m /\ u1 = u + 1
      /\ pusher[p].pc = "compare" /\ c = "put" => r1 = r /\ m1 = m - 1 /\ u1 = u + 1
      /\ pusher[p].pc = "compare" /\ c = "off" => r1 = r /\ m1 = m - 1 /\ u1 = u
      /\ pusher[p].pc = "put" /\ c = "off" => r1 = r /\ m1 = m /\ u1 = u - 1
    BY <1>2
<1> HIDE DEF r, m, u, r1, m1, u1
<1>6. PICK x, y : x = PushWork /\ y = PushWork'
    OBVIOUS
<1>7. x = 4 * r + 3 * m + 2 * u /\ y = 4 * r1 + 3 * m1 + 2 * u1
    BY <1>4, <1>6
<1>8. /\ pusher[p].pc = "off" /\ c = "recent" => y = x + 4
      /\ pusher[p].pc = "recent" /\ c \in {"compare", "put"} => y < x
      /\ pusher[p].pc = "compare" /\ c \in {"put", "off"} => y < x
      /\ pusher[p].pc = "put" /\ c = "off" => y = x - 2
      /\ y \in Nat
    BY <1>3, <1>5, <1>7
<1> QED
    BY <1>6, <1>8

LEMMA PushWorkRests == ASSUME UNCHANGED pusher PROVE PushWork' = PushWork /\ FewPushes' = FewPushes
BY DEF PushWork, PushesAt, FewPushes, PushesOn, PushOff

LEMMA WorkFalls ==
    ASSUME TwoWayTypes, FewPushes, TwoWayNext
    PROVE  FewPushes' /\ Work' < Work
<1> DEFINE d == MaxEdits - edits
           b == Cardinality(ByPeople(sent))
           n == Len(sent)
           w == IF recent THEN 1 ELSE 0
<1>1. /\ edits \in 0..MaxEdits /\ MaxEdits \in Nat /\ emitted \in Nat
      /\ HookWork \in {0, 2, 8} /\ PushWork \in Nat
      /\ sent \in Seq([val: 0..edits, by: {"person", "store"}])
      /\ pusher \in [Pushers -> [pc: {"off", "recent", "compare", "put"}, val: 0..edits]]
    BY WorkIsCounted
<1>2. d \in Nat /\ b \in Nat /\ n \in Nat /\ w \in {0, 1}
    BY <1>1, WorkIsCounted
<1>3. /\ Work = 10 * d + 8 * b + n + 5 * emitted + HookWork + PushWork + w
      /\ Work' = 10 * d' + 8 * b' + n' + 5 * emitted' + HookWork' + PushWork' + w'
    BY DEF Work
<1>4. CASE EditHere
    <2>1. d' = d - 1 /\ emitted' = emitted + 1 /\ UNCHANGED <<sent, applying, pusher, recent>>
        BY <1>1, <1>4 DEF EditHere
    <2>2. b' = b /\ n' = n /\ w' = w /\ HookWork' = HookWork
        BY <2>1 DEF HookWork
    <2>3. PushWork' = PushWork /\ FewPushes'
        BY <2>1, PushWorkRests
    <2> HIDE DEF d, b, n, w
    <2> QED
        BY <1>1, <1>2, <1>3, <2>1, <2>2, <2>3
<1>5. CASE EditThere
    <2>1. /\ d' = d - 1 /\ UNCHANGED <<emitted, applying, pusher, recent>>
          /\ sent' = Append(sent, [val |-> edits + 1, by |-> "person"])
        BY <1>1, <1>5 DEF EditThere, Sends
    <2>2. b' = b + 1 /\ n' = n + 1 /\ w' = w /\ HookWork' = HookWork
        <3>1. sent \in Seq([val: Nat, by: {"person", "store"}])
            <4>1. [val: 0..edits, by: {"person", "store"}]
                  \subseteq [val: Nat, by: {"person", "store"}]
                BY <1>1
            <4>2. PICK S, T : /\ S = [val: 0..edits, by: {"person", "store"}]
                              /\ T = [val: Nat, by: {"person", "store"}]
                OBVIOUS
            <4>3. S \subseteq T /\ sent \in Seq(S)
                BY <1>1, <4>1, <4>2
            <4>4. sent \in Seq(T)
                BY <4>3, SeqOfMore
            <4> QED
                BY <4>2, <4>4
        <3>2. [val |-> edits + 1, by |-> "person"] \in [val: Nat, by: {"person", "store"}]
            BY <1>1
        <3>3. b' = b + 1
            BY <2>1, <3>1, <3>2, ByPeopleGrow
        <3>4. n' = n + 1
            BY <1>1, <2>1
        <3> QED
            BY <2>1, <3>3, <3>4 DEF HookWork
    <2>3. PushWork' = PushWork /\ FewPushes'
        BY <2>1, PushWorkRests
    <2> HIDE DEF d, b, n, w
    <2> QED
        BY <1>1, <1>2, <1>3, <2>1, <2>2, <2>3
<1>6. CASE WindowPasses
    <2>1. d' = d /\ UNCHANGED <<emitted, sent, applying, pusher>> /\ w = 1 /\ w' = 0
        BY <1>6 DEF WindowPasses
    <2>2. b' = b /\ n' = n /\ HookWork' = HookWork
        BY <2>1 DEF HookWork
    <2>3. PushWork' = PushWork /\ FewPushes'
        BY <2>1, PushWorkRests
    <2> HIDE DEF d, b, n, w
    <2> QED
        BY <1>1, <1>2, <1>3, <2>1, <2>2, <2>3
<1>7. CASE ApplyHook
    <2>1. /\ d' = d /\ emitted' = emitted + 1 /\ UNCHANGED <<sent, pusher, recent>>
          /\ applying.pc = "write" /\ applying'.pc = "done"
        <3>1. applying \in [pc: {"off", "write", "done"}, val: 0..edits]
            BY DEF TwoWayTypes
        <3> QED
            BY <1>7, <3>1 DEF ApplyHook
    <2>2. b' = b /\ n' = n /\ w' = w /\ HookWork = 8 /\ HookWork' = 2
        BY <2>1 DEF HookWork
    <2>3. PushWork' = PushWork /\ FewPushes'
        BY <2>1, PushWorkRests
    <2> HIDE DEF d, b, n, w
    <2> QED
        BY <1>1, <1>2, <1>3, <2>1, <2>2, <2>3
<1>8. CASE HookDone
    <2>1. d' = d /\ UNCHANGED <<emitted, sent, pusher>>
          /\ applying.pc = "done" /\ applying'.pc = "off"
        BY <1>8 DEF HookDone, NoHook
    <2>2. b' = b /\ n' = n /\ w' = 1 /\ HookWork = 2 /\ HookWork' = 0
        BY <1>8, <2>1 DEF HookWork, HookDone
    <2>3. PushWork' = PushWork /\ FewPushes'
        BY <2>1, PushWorkRests
    <2> HIDE DEF d, b, n, w
    <2> QED
        BY <1>1, <1>2, <1>3, <2>1, <2>2, <2>3
<1>9. ASSUME NEW i \in DOMAIN sent, TakeHook(i) PROVE FewPushes' /\ Work' < Work
    <2>1. /\ d' = d /\ UNCHANGED <<emitted, pusher, recent>> /\ applying.pc = "off"
          /\ sent' = Without(sent, i)
        BY <1>9 DEF TakeHook
    <2>2. sent[i].by = "person" => applying'.pc = "write"
        BY <1>9 DEF TakeHook, OwnWrite
    <2>3. sent[i].by # "person" => applying'.pc = "off"
        <3>1. sent[i] \in [val: 0..edits, by: {"person", "store"}]
            BY <1>1, <1>9, ElementOf
        <3> QED
            BY <1>9, <3>1 DEF TakeHook, OwnWrite, NoHook
    <2>4. b' = b - (IF sent[i].by = "person" THEN 1 ELSE 0) /\ n' = n - 1
        BY <1>1, <1>9, <2>1, WithoutIs, ByPeopleShrink
    <2>5. w' = w /\ HookWork = 0 /\ HookWork' = IF sent[i].by = "person" THEN 8 ELSE 0
        BY <2>1, <2>2, <2>3 DEF HookWork
    <2>6. PushWork' = PushWork /\ FewPushes'
        BY <2>1, PushWorkRests
    <2> HIDE DEF d, b, n, w
    <2>7. CASE sent[i].by = "person"
        <3>1. b' = b - 1 /\ n' = n - 1 /\ HookWork = 0 /\ HookWork' = 8 /\ w' = w
            BY <2>4, <2>5, <2>7
        <3> QED
            BY <1>1, <1>2, <1>3, <2>1, <2>6, <3>1
    <2>8. CASE sent[i].by # "person"
        <3>1. b' = b /\ n' = n - 1 /\ HookWork = 0 /\ HookWork' = 0 /\ w' = w
            BY <1>1, <1>2, <1>3, <2>4, <2>5, <2>8
        <3> QED
            BY <1>1, <1>2, <1>3, <2>1, <2>6, <3>1
    <2> QED
        BY <2>7, <2>8
<1>10. ASSUME NEW p \in Pushers, PushStep(p) PROVE FewPushes' /\ Work' < Work
    <2>1. d' = d /\ w' = w /\ HookWork' = HookWork
        BY <1>10 DEF PushStep, BeginPush, AskRecent, Compare, Put, HookWork
    <2>2. CASE BeginPush(p)
        <3>1. /\ emitted' = emitted - 1 /\ b' = b /\ n' = n
              /\ pusher[p].pc = "off" /\ Pushes(p, "recent", here)
            BY <2>2 DEF BeginPush
        <3>2. FewPushes' /\ PushWork' = PushWork + 4
            BY <1>1, <3>1, FewStayFew, PushWorkFalls
        <3> HIDE DEF d, b, n, w
        <3> QED
            BY <1>1, <1>2, <1>3, <2>1, <3>1, <3>2
    <2>3. CASE AskRecent(p) \/ Compare(p)
        <3>1. UNCHANGED emitted /\ b' = b /\ n' = n
            BY <2>3 DEF AskRecent, Compare
        <3>2. \E c \in {"compare", "put", "off"} : \E v :
                  /\ Pushes(p, c, v)
                  /\ \/ pusher[p].pc = "recent" /\ c \in {"compare", "put"}
                     \/ pusher[p].pc = "compare" /\ c \in {"put", "off"}
            BY <2>3 DEF AskRecent, Compare
        <3>3. FewPushes' /\ PushWork' < PushWork /\ PushWork' \in Nat
            BY <1>1, <3>2, FewStayFew, PushWorkFalls
        <3> HIDE DEF d, b, n, w
        <3> QED
            <4>1. /\ Work = 10 * d + 8 * b + n + 5 * emitted + HookWork + w + PushWork
                  /\ Work' = 10 * d + 8 * b + n + 5 * emitted + HookWork + w + PushWork'
                BY <1>1, <1>2, <1>3, <2>1, <3>1, <3>3
            <4>2. PICK z : z = 10 * d + 8 * b + n + 5 * emitted + HookWork + w
                OBVIOUS
            <4>3. z \in Nat
                BY <1>1, <1>2, <4>2
            <4> QED
                BY <1>1, <3>3, <4>1, <4>2, <4>3
    <2>4. CASE Put(p)
        <3>1. /\ emitted' = emitted /\ pusher[p].pc = "put" /\ Pushes(p, "off", 0)
              /\ sent' = Append(sent, [val |-> pusher[p].val, by |-> "store"])
            BY <2>4 DEF Put, Sends
        <3>2. [val |-> pusher[p].val, by |-> "store"] \in [val: 0..edits, by: {"person", "store"}]
            BY <1>1
        <3>3. b' = b
            <4> DEFINE S == [val: 0..edits, by: {"person", "store"}]
                       h == [val |-> pusher[p].val, by |-> "store"]
            <4>1. sent \in Seq(S) /\ h \in S
                BY <1>1, <3>2
            <4>2. h.by # "person"
                OBVIOUS
            <4>3. sent' = Append(sent, h)
                BY <3>1
            <4> HIDE DEF S, h
            <4>4. ByPeople(Append(sent, h)) = ByPeople(sent)
                BY <4>1, <4>2, ByPeopleGrow
            <4> QED
                BY <4>3, <4>4
        <3>4. n' = n + 1
            BY <1>1, <3>1
        <3>5. FewPushes' /\ PushWork' = PushWork - 2
            BY <1>1, <3>1, FewStayFew, PushWorkFalls
        <3> HIDE DEF d, b, n, w
        <3> QED
            BY <1>1, <1>2, <1>3, <2>1, <3>1, <3>3, <3>4, <3>5
    <2> QED
        BY <1>10, <2>2, <2>3, <2>4 DEF PushStep
<1> QED
    BY <1>4, <1>5, <1>6, <1>7, <1>8, <1>9, <1>10 DEF TwoWayNext, HookStep

LEMMA FewAtFirst == TwoWayInit => FewPushes
<1> SUFFICES ASSUME TwoWayInit PROVE FewPushes
    OBVIOUS
<1>1. PushesOn = {}
    BY DEF TwoWayInit, NoPush, PushesOn, PushOff
<1> QED
    BY <1>1, FS_EmptySet DEF FewPushes

-----------------------------------------------------------------------------
\* Whenever no webhook, event or push of the record is under way, and webhooks come in
\* order and one push at a time runs, the store and ERPNext show the same: neither the
\* echo window nor the own-write test drops a person's edit.
THEOREM RestsInStep == TwoWaySpec => [](Quiet /\ inOrder => here = there)
<1>1. StepInv => (Quiet /\ inOrder => here = there)
    BY DEF StepInv, InStepAtRest, Quiet, ComesIn, PushOff
<1> QED
    BY <1>1, TwoWayStarts, StepKept, PTL DEF TwoWaySpec

\* No change bounces for ever, in whatever order webhooks and pushes come and go: each
\* step but a stutter leaves less work, of which there is at most ten steps' for each
\* edit, so the steps come to an end.
THEOREM NothingBounces == TwoWaySpec => [](Work \in Nat) /\ [][Work' < Work]_twoWayVars
<1> DEFINE I == TwoWayTypes /\ FewPushes
<1>1. TwoWayInit => I
    BY TwoWayStarts, FewAtFirst DEF StepInv
<1>2. I /\ [TwoWayNext]_twoWayVars => I'
    <2> SUFFICES ASSUME I, [TwoWayNext]_twoWayVars PROVE I'
        OBVIOUS
    <2>1. CASE TwoWayNext
        BY <2>1, TwoWayTyped, WorkFalls
    <2>2. CASE UNCHANGED twoWayVars
        BY <2>2, TwoWayTyped, PushWorkRests DEF twoWayVars
    <2> QED
        BY <2>1, <2>2
<1>3. I => Work \in Nat
    BY WorkIsCounted
<1>4. I /\ [TwoWayNext]_twoWayVars => [Work' < Work]_twoWayVars
    BY WorkFalls
<1> HIDE DEF I
<1> QED
    BY <1>1, <1>2, <1>3, <1>4, PTL DEF TwoWaySpec

-----------------------------------------------------------------------------
(***************************************************************************)
(* GstRates, for any rates, templates, refreshes at once, unreadable Items *)
(* and restarts: where the refreshes of an Item take turns, the product is *)
(* charged at the Item's rate, and shows it, whenever none is under way or *)
(* due and the last could read the Item (GstInv).  A refresh in hand will  *)
(* leave the product with the rules it planned (LeavesWith), and what it   *)
(* planned is the Item's rate unless news of the Item waits (TaxerIsRight).*)
(***************************************************************************)

TaxerPlaces == {"off", "item", "plan", "make", "drop", "add", "show"}

\* The rules rs, on rates of the region rg, charge p.
ChargesRate(rs, rg, p) ==
    IF p = DefaultPercent THEN rs = {} ELSE \E i \in DOMAIN rg : rs = {i} /\ rg[i] = p

\* The rules that the refresh t leaves of rs.
LeavesWith(t, rs) == (rs \ t.drop) \cup ({t.add} \ {0})

OneTaxes == \A g, h \in RateRefreshers : GstIdle(g) \/ GstIdle(h) \/ g = h

TaxerIsRight(t) ==
    /\ t.pc = "plan" => gstDue \/ t.rate = template
    /\ t.pc \in {"make", "drop", "add", "show"} => gstDue \/ t.rate = ItemsRate
    /\ t.pc = "make" => t.drop = rules
    /\ t.pc = "drop" => t.add \notin rules /\ ChargesRate(LeavesWith(t, rules), region, t.rate)
    /\ t.pc = "add" => rules = {} /\ ChargesRate({t.add}, region, t.rate)
    /\ t.pc = "show" => ChargesRate(rules, region, t.rate)

RatesAtRest ==
    (\A g \in RateRefreshers : GstIdle(g)) /\ ~gstDue /\ ~unread =>
        ChargesRate(rules, region, ItemsRate) /\ (templates > 0 => shown = ItemsRate)

\* What is to be made is a rate of the region, and what is to be added is there.
PlanIsPossible(t) ==
    /\ t.pc = "make" => t.rate \in Percents \ {DefaultPercent}
    /\ t.pc = "add" => t.add # 0

GstInv ==
    /\ GstTypes /\ \A g \in RateRefreshers : PlanIsPossible(taxer[g])
    /\ byTurns => OneTaxes /\ RatesAtRest /\ \A g \in RateRefreshers : TaxerIsRight(taxer[g])

-----------------------------------------------------------------------------
TaxerTypes(n) == [pc: TaxerPlaces, rate: Shown, drop: SUBSET (1..n), add: 0..n]

LEMMA GstTyping ==
    ASSUME GstTypes
    PROVE  /\ region \in Seq(Percents \ {DefaultPercent}) /\ Len(region) \in Nat
           /\ DOMAIN region = 1..Len(region) /\ rules \subseteq 1..Len(region)
           /\ taxer \in [RateRefreshers -> TaxerTypes(Len(region))]
           /\ template \in {0} \cup Percents /\ shown \in Shown
BY DEF GstTypes, TaxerTypes, TaxerPlaces

LEMMA TaxerField ==
    ASSUME NEW n, NEW t \in TaxerTypes(n)
    PROVE  /\ t.pc \in TaxerPlaces /\ t.rate \in Shown /\ t.drop \subseteq 1..n /\ t.add \in 0..n
           /\ \A c \in TaxerPlaces : [t EXCEPT !.pc = c] \in TaxerTypes(n)
           /\ \A c \in TaxerPlaces, r \in Shown : [t EXCEPT !.pc = c, !.rate = r] \in TaxerTypes(n)
BY DEF TaxerTypes

\* A refresh that goes to c, and one that also has the rule to add.
LEMMA MovesOn ==
    ASSUME NEW n, NEW x \in TaxerTypes(n), NEW c \in TaxerPlaces, NEW t, t = [x EXCEPT !.pc = c]
    PROVE  t \in TaxerTypes(n) /\ t.pc = c /\ t.rate = x.rate /\ t.drop = x.drop /\ t.add = x.add
BY DEF TaxerTypes

LEMMA TaxerMakes ==
    ASSUME NEW n \in Nat, NEW x \in TaxerTypes(n), NEW t,
           t = [x EXCEPT !.pc = "drop", !.add = n + 1]
    PROVE  /\ t \in TaxerTypes(n + 1)
           /\ t.pc = "drop" /\ t.rate = x.rate /\ t.drop = x.drop /\ t.add = n + 1
<1>1. x \in [pc: TaxerPlaces, rate: Shown, drop: SUBSET (1..n), add: 0..n]
    BY DEF TaxerTypes
<1>2. t \in [pc: TaxerPlaces, rate: Shown, drop: SUBSET (1..n), add: {n + 1}]
    BY <1>1 DEF TaxerPlaces
<1>3. t.pc = "drop" /\ t.rate = x.rate /\ t.drop = x.drop /\ t.add = n + 1
    BY <1>1
<1>4. SUBSET (1..n) \subseteq SUBSET (1..(n + 1)) /\ {n + 1} \subseteq 0..(n + 1)
    OBVIOUS
<1> QED
    BY <1>2, <1>3, <1>4 DEF TaxerTypes

LEMMA NoRefreshIs ==
    ASSUME NEW n \in Nat
    PROVE  /\ NoRefresh \in TaxerTypes(n) /\ NoRefresh.pc = "off"
           /\ PlanIsPossible(NoRefresh) /\ TaxerIsRight(NoRefresh)
BY DEF NoRefresh, TaxerTypes, TaxerPlaces, Shown, PlanIsPossible, TaxerIsRight

\* The rest of the types.
GstCounts ==
    /\ gstDue \in BOOLEAN /\ byTurns \in BOOLEAN /\ unread \in BOOLEAN
    /\ templates \in 0..MaxTemplates /\ gstFaults \in 0..MaxGstFaults

LEMMA TypedAgain ==
    ASSUME region \in Seq(Percents \ {DefaultPercent}), rules \subseteq 1..Len(region),
           taxer \in [RateRefreshers -> TaxerTypes(Len(region))],
           template \in {0} \cup Percents, shown \in Shown, GstCounts
    PROVE  GstTypes
BY DEF GstTypes, GstCounts, TaxerTypes, TaxerPlaces

\* Only MakeRate touches the region: types for the other steps.
LEMMA TypedWithRegion ==
    ASSUME GstTypes, region' = region, GstCounts',
           rules' \subseteq 1..Len(region), shown' \in Shown, template' \in {0} \cup Percents,
           taxer' \in [RateRefreshers -> TaxerTypes(Len(region))]
    PROVE  GstTypes'
<1>1. region \in Seq(Percents \ {DefaultPercent})
    BY GstTyping
<1> QED
    BY <1>1 DEF GstTypes, GstCounts, TaxerTypes, TaxerPlaces

LEMMA AloneAtWork ==
    ASSUME GstInv, NEW g \in RateRefreshers, ~GstIdle(g)
    PROVE  byTurns => \A h \in RateRefreshers : h # g => GstIdle(h)
BY DEF GstInv, OneTaxes

\* What a step of the refresh g must see to, the others being at rest.
LEMMA OneGoesOn ==
    ASSUME GstInv, UNCHANGED byTurns, NEW g \in RateRefreshers, NEW t,
           byTurns => \A h \in RateRefreshers : h # g => GstIdle(h),
           taxer' = [taxer EXCEPT ![g] = t], GstTypes', PlanIsPossible(t),
           byTurns => TaxerIsRight(t)',
           byTurns /\ t.pc = "off" => RatesAtRest'
    PROVE  GstInv'
<1>1. taxer \in [RateRefreshers -> TaxerTypes(Len(region))]
    BY GstTyping DEF GstInv
<1>2. taxer'[g] = t /\ \A h \in RateRefreshers : h # g => taxer'[h] = taxer[h]
    BY <1>1
<1>3. \A h \in RateRefreshers : PlanIsPossible(taxer'[h])
    BY <1>2 DEF GstInv
<1>4. ASSUME byTurns
      PROVE  OneTaxes' /\ RatesAtRest' /\ \A h \in RateRefreshers : TaxerIsRight(taxer[h])'
    <2>1. \A h \in RateRefreshers : h # g => GstIdle(h)
        BY <1>4
    <2>2. \A h \in RateRefreshers : h # g => taxer'[h].pc = "off"
        BY <1>2, <2>1 DEF GstIdle
    <2>3. OneTaxes'
        BY <2>2 DEF OneTaxes, GstIdle
    <2>4. \A h \in RateRefreshers : TaxerIsRight(taxer[h])'
        <3>1. TaxerIsRight(taxer[g])'
            BY <1>2, <1>4 DEF TaxerIsRight
        <3>2. \A h \in RateRefreshers : h # g => TaxerIsRight(taxer[h])'
            BY <2>2 DEF TaxerIsRight
        <3> QED
            BY <3>1, <3>2
    <2>5. RatesAtRest'
        <3>1. CASE t.pc = "off"
            BY <1>4, <3>1
        <3>2. CASE t.pc # "off"
            BY <1>2, <3>2 DEF RatesAtRest, GstIdle
        <3> QED
            BY <3>1, <3>2
    <2> QED
        BY <2>3, <2>4, <2>5
<1> QED
    BY <1>3, <1>4 DEF GstInv

LEMMA RetaxKeeps ==
    ASSUME GstInv, NEW p \in {0} \cup Percents, Retax(p) PROVE GstInv'
<1>1. /\ templates' = templates + 1 /\ templates < MaxTemplates /\ template' = p /\ gstDue' = TRUE
      /\ UNCHANGED <<region, rules, shown, taxer, byTurns, unread, gstFaults>>
    BY DEF Retax
<1>2. GstTypes'
    <2>1. GstCounts'
        <3>1. templates' \in 0..MaxTemplates
            BY <1>1, GstBoundsAreNaturals DEF GstInv, GstTypes
        <3> QED
            BY <1>1, <3>1 DEF GstInv, GstTypes, GstCounts
    <2>2. /\ rules' \subseteq 1..Len(region) /\ shown' \in Shown
          /\ taxer' \in [RateRefreshers -> TaxerTypes(Len(region))]
        BY <1>1, GstTyping DEF GstInv
    <2> QED
        BY <1>1, <2>1, <2>2, TypedWithRegion DEF GstInv
<1>3. OneTaxes => OneTaxes'
    BY <1>1 DEF OneTaxes, GstIdle
<1>4. RatesAtRest'
    BY <1>1 DEF RatesAtRest
<1>5. \A g \in RateRefreshers : TaxerIsRight(taxer[g]) => TaxerIsRight(taxer[g])'
    BY <1>1 DEF TaxerIsRight
<1> QED
    BY <1>1, <1>2, <1>3, <1>4, <1>5 DEF GstInv

LEMMA StartGstKeeps ==
    ASSUME GstInv, NEW g \in RateRefreshers, StartGst(g) PROVE GstInv'
<1>1. PICK t : t = [taxer[g] EXCEPT !.pc = "item"]
    OBVIOUS
<1>2. /\ taxer' = [taxer EXCEPT ![g] = t] /\ gstDue' = FALSE
      /\ byTurns => \A h \in RateRefreshers : GstIdle(h)
      /\ UNCHANGED <<template, region, rules, shown, byTurns, unread, templates, gstFaults>>
    BY <1>1 DEF StartGst
<1>3. taxer[g] \in TaxerTypes(Len(region)) /\ rules \subseteq 1..Len(region) /\ shown \in Shown
      /\ taxer \in [RateRefreshers -> TaxerTypes(Len(region))] /\ template \in {0} \cup Percents
    BY GstTyping DEF GstInv
<1>4. t \in TaxerTypes(Len(region)) /\ t.pc = "item"
    BY <1>1, <1>3, MovesOn DEF TaxerPlaces
<1>5. GstTypes'
    <2>1. taxer' \in [RateRefreshers -> TaxerTypes(Len(region))]
        BY <1>2, <1>3, <1>4
    <2>2. GstCounts'
        BY <1>2 DEF GstInv, GstTypes, GstCounts
    <2> QED
        BY <1>2, <1>3, <2>1, <2>2, TypedWithRegion DEF GstInv
<1>6. PlanIsPossible(t) /\ TaxerIsRight(t)'
    BY <1>4 DEF PlanIsPossible, TaxerIsRight
<1> QED
    BY <1>2, <1>4, <1>5, <1>6, OneGoesOn

LEMMA ReadItemKeeps ==
    ASSUME GstInv, NEW g \in RateRefreshers, NEW ok \in BOOLEAN, ReadItem(g, ok) PROVE GstInv'
<1>1. PICK t : t = IF ok THEN [taxer[g] EXCEPT !.pc = "plan", !.rate = template] ELSE NoRefresh
    OBVIOUS
<1>2. /\ taxer' = [taxer EXCEPT ![g] = t] /\ unread' = ~ok /\ ~GstIdle(g)
      /\ UNCHANGED <<template, gstDue, region, rules, shown, byTurns, templates>>
    BY <1>1 DEF ReadItem, GstIdle
<1>3. taxer[g] \in TaxerTypes(Len(region)) /\ rules \subseteq 1..Len(region) /\ shown \in Shown
      /\ taxer \in [RateRefreshers -> TaxerTypes(Len(region))] /\ template \in {0} \cup Percents
      /\ Len(region) \in Nat /\ template \in Shown
    BY GstTyping DEF GstInv, Shown
<1>4. ok => t \in TaxerTypes(Len(region)) /\ t.pc = "plan" /\ t.rate = template
    BY <1>1, <1>3, TaxerField DEF TaxerPlaces, TaxerTypes
<1>5. t \in TaxerTypes(Len(region)) /\ PlanIsPossible(t)
    BY <1>1, <1>3, <1>4, NoRefreshIs DEF PlanIsPossible
<1>6. GstTypes'
    <2>1. taxer' \in [RateRefreshers -> TaxerTypes(Len(region))]
        BY <1>2, <1>3, <1>5
    <2>2. gstFaults' \in 0..MaxGstFaults
        BY GstBoundsAreNaturals DEF ReadItem, GstInv, GstTypes
    <2>3. GstCounts'
        BY <1>2, <2>2 DEF GstInv, GstTypes, GstCounts
    <2> QED
        BY <1>2, <1>3, <2>1, <2>3, TypedWithRegion DEF GstInv
<1>7. TaxerIsRight(t)'
    <2>1. CASE ok
        BY <1>2, <1>4, <2>1 DEF TaxerIsRight
    <2>2. CASE ~ok
        BY <1>1, <2>2, <1>3, NoRefreshIs DEF TaxerIsRight
    <2> QED
        BY <2>1, <2>2
<1>8. t.pc = "off" => RatesAtRest'
    BY <1>2, <1>4 DEF RatesAtRest
<1> QED
    BY <1>2, <1>5, <1>6, <1>7, <1>8, AloneAtWork, OneGoesOn

\* The rate found is the region's.
LEMMA RateForIs ==
    ASSUME GstTypes, NEW p
    PROVE  /\ RateFor(p) \in 0..Len(region) /\ 0 \notin rules
           /\ RateFor(p) # 0 => region[RateFor(p)] = p
           /\ RateFor(p) = 0 => \A i \in DOMAIN region : region[i] # p
<1> DEFINE hits == {i \in DOMAIN region : region[i] = p}
<1>1. DOMAIN region = 1..Len(region) /\ Len(region) \in Nat /\ rules \subseteq 1..Len(region)
    BY GstTyping
<1>2. RateFor(p) = IF hits = {} THEN 0 ELSE CHOOSE i \in hits : \A j \in hits : i <= j
    BY DEF RateFor
<1>3. hits # {} => \E i \in hits : \A j \in hits : i <= j
    <2>1. hits \in SUBSET Nat
        BY <1>1
    <2> QED
        BY <2>1, LeastOne
<1>4. hits # {} => RateFor(p) \in hits
    BY <1>2, <1>3
<1> QED
    <2>1. CASE hits = {}
        BY <1>1, <1>2, <2>1
    <2>2. CASE hits # {}
        BY <1>1, <1>4, <2>2
    <2> QED
        BY <2>1, <2>2

LEMMA PlanKeeps ==
    ASSUME GstInv, NEW g \in RateRefreshers, PlanTaxRule(g) PROVE GstInv'
<1>1. PICK p : p = IF taxer[g].rate = 0 THEN DefaultPercent ELSE taxer[g].rate
    OBVIOUS
<1>2. PICK target : target = IF p = DefaultPercent THEN 0 ELSE RateFor(p)
    OBVIOUS
<1>3. PICK t : t = [pc |-> IF p # DefaultPercent /\ target = 0 THEN "make" ELSE "drop", rate |-> p,
                    drop |-> Superseded(target), add |-> IF target \in rules THEN 0 ELSE target]
    OBVIOUS
<1>4. /\ taxer' = [taxer EXCEPT ![g] = t] /\ taxer[g].pc = "plan" /\ ~GstIdle(g)
      /\ UNCHANGED <<template, gstDue, region, rules, shown, byTurns, unread, templates, gstFaults>>
    BY <1>1, <1>2, <1>3 DEF PlanTaxRule, GstIdle
<1>5. taxer[g] \in TaxerTypes(Len(region)) /\ rules \subseteq 1..Len(region) /\ shown \in Shown
      /\ taxer \in [RateRefreshers -> TaxerTypes(Len(region))] /\ template \in {0} \cup Percents
      /\ Len(region) \in Nat /\ DOMAIN region = 1..Len(region) /\ taxer[g].rate \in Shown
    BY GstTyping, TaxerField DEF GstInv
<1>6. /\ RateFor(p) \in 0..Len(region) /\ 0 \notin rules
      /\ RateFor(p) # 0 => region[RateFor(p)] = p
    BY RateForIs DEF GstInv
<1>7. /\ p \in Shown /\ p # DefaultPercent => p \in Percents \ {DefaultPercent}
    BY <1>1, <1>5 DEF Shown
<1>8. p \in Shown /\ target \in 0..Len(region)
    BY <1>1, <1>2, <1>5, <1>6 DEF Shown
<1>9. /\ t.pc = IF p # DefaultPercent /\ target = 0 THEN "make" ELSE "drop"
      /\ t.rate = p /\ t.drop = rules \ {target} /\ t.add = IF target \in rules THEN 0 ELSE target
      /\ t \in TaxerTypes(Len(region))
    BY <1>3, <1>5, <1>8 DEF Superseded, TaxerTypes, TaxerPlaces
<1>10. GstTypes'
    <2>1. taxer' \in [RateRefreshers -> TaxerTypes(Len(region))]
        BY <1>4, <1>5, <1>9
    <2>2. GstCounts'
        BY <1>4 DEF GstInv, GstTypes, GstCounts
    <2> QED
        BY <1>4, <1>5, <2>1, <2>2, TypedWithRegion DEF GstInv
<1>11. PlanIsPossible(t)
    <2>1. taxer[g].rate \in Shown /\ (p # DefaultPercent => p = taxer[g].rate /\ p # 0)
        BY <1>1, <1>5
    <2> QED
        BY <1>7, <1>8, <1>9, <2>1 DEF PlanIsPossible, Shown
<1>12. byTurns => TaxerIsRight(t)'
    <2> SUFFICES ASSUME byTurns PROVE TaxerIsRight(t)'
        OBVIOUS
    <2>1. gstDue \/ p = ItemsRate
        BY <1>1, <1>4 DEF GstInv, TaxerIsRight, ItemsRate
    <2>2. gstDue' = gstDue /\ ItemsRate' = ItemsRate /\ rules' = rules /\ region' = region
        BY <1>4 DEF ItemsRate
    <2>3. CASE t.pc = "make"
        BY <1>6, <1>9, <2>1, <2>2, <2>3 DEF TaxerIsRight
    <2>4. CASE t.pc = "drop"
        <3>1. t.add \notin rules
            BY <1>6, <1>9
        <3>2. LeavesWith(t, rules) = IF target = 0 THEN {} ELSE {target}
            BY <1>6, <1>9 DEF LeavesWith
        <3>3. ChargesRate(LeavesWith(t, rules), region, t.rate)
            BY <1>2, <1>5, <1>6, <1>8, <1>9, <2>4, <3>2 DEF ChargesRate
        <3> QED
            BY <1>9, <2>1, <2>2, <2>4, <3>1, <3>3 DEF TaxerIsRight, ChargesRate
    <2> QED
        BY <1>9, <2>3, <2>4
<1>13. t.pc # "off"
    BY <1>9
<1> QED
    BY <1>4, <1>10, <1>11, <1>12, <1>13, AloneAtWork, OneGoesOn

LEMMA MakeRateKeeps ==
    ASSUME GstInv, NEW g \in RateRefreshers, MakeRate(g) PROVE GstInv'
<1>1. /\ region \in Seq(Percents \ {DefaultPercent}) /\ Len(region) \in Nat
      /\ DOMAIN region = 1..Len(region) /\ rules \subseteq 1..Len(region)
      /\ taxer \in [RateRefreshers -> TaxerTypes(Len(region))]
      /\ template \in {0} \cup Percents /\ shown \in Shown
    BY GstTyping DEF GstInv
<1>2. taxer[g].pc = "make" /\ taxer[g].rate \in Percents \ {DefaultPercent} /\ ~GstIdle(g)
    BY DEF GstInv, MakeRate, PlanIsPossible, GstIdle
<1>3. /\ region' = Append(region, taxer[g].rate)
      /\ UNCHANGED <<template, gstDue, rules, shown, byTurns, unread, templates, gstFaults>>
    BY DEF MakeRate
<1>4. /\ region' \in Seq(Percents \ {DefaultPercent}) /\ Len(region') = Len(region) + 1
      /\ \A i \in 1..Len(region) : region'[i] = region[i]
      /\ region'[Len(region) + 1] = taxer[g].rate /\ DOMAIN region' = 1..(Len(region) + 1)
    BY <1>1, <1>2, <1>3
<1>5. PICK t : t = [taxer[g] EXCEPT !.pc = "drop", !.add = Len(region) + 1]
    OBVIOUS
<1>6. taxer' = [taxer EXCEPT ![g] = t]
    BY <1>4, <1>5 DEF MakeRate
<1>7. /\ t.pc = "drop" /\ t.add = Len(region) + 1 /\ t.rate = taxer[g].rate
      /\ t.drop = taxer[g].drop
      /\ t \in TaxerTypes(Len(region) + 1)
    <2>1. taxer[g] \in TaxerTypes(Len(region))
        BY <1>1
    <2> QED
        <3>1. PICK n \in Nat : n = Len(region)
            BY <1>1
        <3>2. PICK x \in TaxerTypes(n) : x = taxer[g]
            BY <2>1, <3>1
        <3>3. t = [x EXCEPT !.pc = "drop", !.add = n + 1]
            BY <1>5, <3>1, <3>2
        <3>4. /\ t \in TaxerTypes(n + 1)
              /\ t.pc = "drop" /\ t.rate = x.rate /\ t.drop = x.drop /\ t.add = n + 1
            BY <3>3, TaxerMakes
        <3> QED
            BY <3>1, <3>2, <3>4
<1>8. GstTypes'
    <2>1. taxer' \in [RateRefreshers -> TaxerTypes(Len(region) + 1)]
        <3>1. TaxerTypes(Len(region)) \subseteq TaxerTypes(Len(region) + 1)
            BY <1>1 DEF TaxerTypes
        <3> QED
            BY <1>1, <1>6, <1>7, <3>1
    <2>2. GstCounts'
        BY <1>3 DEF GstInv, GstTypes, GstCounts
    <2>3. rules' \subseteq 1..Len(region')
        BY <1>1, <1>3, <1>4
    <2> QED
        BY <1>1, <1>3, <1>4, <2>1, <2>2, <2>3 DEF GstTypes, GstCounts, TaxerTypes, TaxerPlaces
<1>9. PlanIsPossible(t)
    BY <1>7 DEF PlanIsPossible
<1>10. byTurns => TaxerIsRight(t)'
    <2> SUFFICES ASSUME byTurns PROVE TaxerIsRight(t)'
        OBVIOUS
    <2>1. (gstDue \/ t.rate = ItemsRate) /\ t.drop = rules
        BY <1>2, <1>7 DEF GstInv, TaxerIsRight
    <2>2. gstDue' = gstDue /\ ItemsRate' = ItemsRate /\ rules' = rules
        BY <1>3 DEF ItemsRate
    <2>3. LeavesWith(t, rules) = {Len(region) + 1} /\ t.add \notin rules
        BY <1>1, <1>7, <2>1 DEF LeavesWith
    <2>4. ChargesRate(LeavesWith(t, rules), region', t.rate)
        BY <1>1, <1>2, <1>4, <1>7, <2>3 DEF ChargesRate
    <2> QED
        BY <1>7, <2>1, <2>2, <2>3, <2>4 DEF TaxerIsRight
<1>11. t.pc # "off"
    BY <1>7
<1> QED
    BY <1>3, <1>6, <1>8, <1>9, <1>10, <1>11, <1>2, AloneAtWork, OneGoesOn

LEMMA DropKeeps ==
    ASSUME GstInv, NEW g \in RateRefreshers, DropRules(g) PROVE GstInv'
<1>1. PICK t : t = [taxer[g] EXCEPT !.pc = IF taxer[g].add = 0 THEN "show" ELSE "add"]
    OBVIOUS
<1>2. /\ taxer' = [taxer EXCEPT ![g] = t] /\ taxer[g].pc = "drop" /\ ~GstIdle(g)
      /\ rules' = rules \ taxer[g].drop
      /\ UNCHANGED <<template, gstDue, region, shown, byTurns, unread, templates, gstFaults>>
    BY <1>1 DEF DropRules, GstIdle
<1>3. taxer[g] \in TaxerTypes(Len(region)) /\ rules \subseteq 1..Len(region) /\ shown \in Shown
      /\ taxer \in [RateRefreshers -> TaxerTypes(Len(region))] /\ template \in {0} \cup Percents
    BY GstTyping DEF GstInv
<1>4. /\ t.pc = IF taxer[g].add = 0 THEN "show" ELSE "add"
      /\ t.rate = taxer[g].rate /\ t.drop = taxer[g].drop /\ t.add = taxer[g].add
      /\ t \in TaxerTypes(Len(region))
    <2>1. PICK c \in TaxerPlaces : c = IF taxer[g].add = 0 THEN "show" ELSE "add"
        BY DEF TaxerPlaces
    <2>2. t = [taxer[g] EXCEPT !.pc = c]
        BY <1>1, <2>1
    <2> QED
        BY <1>3, <2>1, <2>2, MovesOn
<1>5. GstTypes'
    <2>1. taxer' \in [RateRefreshers -> TaxerTypes(Len(region))] /\ rules' \subseteq 1..Len(region)
        BY <1>2, <1>3, <1>4
    <2>2. GstCounts'
        BY <1>2 DEF GstInv, GstTypes, GstCounts
    <2> QED
        BY <1>2, <1>3, <2>1, <2>2, TypedWithRegion DEF GstInv
<1>6. PlanIsPossible(t) /\ t.pc # "off"
    BY <1>4 DEF PlanIsPossible
<1>7. byTurns => TaxerIsRight(t)'
    <2> SUFFICES ASSUME byTurns PROVE TaxerIsRight(t)'
        OBVIOUS
    <2>1. /\ gstDue \/ t.rate = ItemsRate
          /\ ChargesRate(rules' \cup ({t.add} \ {0}), region, t.rate)
        BY <1>2, <1>4 DEF GstInv, TaxerIsRight, LeavesWith
    <2>2. gstDue' = gstDue /\ ItemsRate' = ItemsRate /\ region' = region
        BY <1>2 DEF ItemsRate
    <2>3. CASE t.add = 0
        <3>1. rules' \cup ({t.add} \ {0}) = rules'
            BY <2>3
        <3> QED
            BY <1>4, <2>1, <2>2, <2>3, <3>1 DEF TaxerIsRight
    <2>4. CASE t.add # 0
        <3>1. t.add \notin rules'
            BY <1>2, <1>4 DEF GstInv, TaxerIsRight
        <3>2. rules' \cup ({t.add} \ {0}) = rules' \cup {t.add}
            BY <2>4
        <3>3. rules' = {}
            BY <2>1, <3>1, <3>2 DEF ChargesRate
        <3>4. ChargesRate({t.add}, region, t.rate)
            BY <2>1, <3>2, <3>3
        <3> QED
            BY <1>4, <2>1, <2>2, <2>4, <3>3, <3>4 DEF TaxerIsRight
    <2> QED
        BY <2>3, <2>4
<1> QED
    BY <1>2, <1>5, <1>6, <1>7, AloneAtWork, OneGoesOn

LEMMA AddKeeps ==
    ASSUME GstInv, NEW g \in RateRefreshers, AddRule(g) PROVE GstInv'
<1>1. PICK t : t = IF taxer[g].add \in rules THEN NoRefresh ELSE [taxer[g] EXCEPT !.pc = "show"]
    OBVIOUS
<1>2. /\ taxer' = [taxer EXCEPT ![g] = t] /\ taxer[g].pc = "add" /\ ~GstIdle(g)
      /\ rules' = rules \cup {taxer[g].add}
      /\ UNCHANGED <<template, gstDue, region, shown, byTurns, unread, templates, gstFaults>>
    BY <1>1 DEF AddRule, GstIdle
<1>3. taxer[g] \in TaxerTypes(Len(region)) /\ rules \subseteq 1..Len(region) /\ shown \in Shown
      /\ taxer \in [RateRefreshers -> TaxerTypes(Len(region))] /\ template \in {0} \cup Percents
      /\ Len(region) \in Nat
    BY GstTyping DEF GstInv
<1>4. taxer[g].add \in 1..Len(region)
    <2>1. taxer[g].add # 0
        BY <1>2 DEF GstInv, PlanIsPossible
    <2>2. taxer[g].add \in 0..Len(region)
        BY <1>3, TaxerField
    <2> QED
        BY <1>3, <2>1, <2>2
<1>5. taxer[g].add \notin rules =>
          t \in TaxerTypes(Len(region)) /\ t.pc = "show" /\ t.rate = taxer[g].rate
    BY <1>1, <1>3, MovesOn DEF TaxerPlaces
<1>6. t \in TaxerTypes(Len(region)) /\ PlanIsPossible(t)
    BY <1>1, <1>3, <1>5, NoRefreshIs DEF PlanIsPossible
<1>7. GstTypes'
    <2>1. taxer' \in [RateRefreshers -> TaxerTypes(Len(region))] /\ rules' \subseteq 1..Len(region)
        BY <1>2, <1>3, <1>4, <1>6
    <2>2. GstCounts'
        BY <1>2 DEF GstInv, GstTypes, GstCounts
    <2> QED
        BY <1>2, <1>3, <2>1, <2>2, TypedWithRegion DEF GstInv
<1>8. byTurns => TaxerIsRight(t)' /\ t.pc # "off"
    <2> SUFFICES ASSUME byTurns PROVE TaxerIsRight(t)' /\ t.pc # "off"
        OBVIOUS
    <2>1. /\ gstDue \/ taxer[g].rate = ItemsRate
          /\ rules = {} /\ ChargesRate({taxer[g].add}, region, taxer[g].rate)
        BY <1>2 DEF GstInv, TaxerIsRight
    <2>2. gstDue' = gstDue /\ ItemsRate' = ItemsRate /\ region' = region /\ rules' = {taxer[g].add}
        BY <1>2, <2>1 DEF ItemsRate
    <2> QED
        BY <1>5, <2>1, <2>2 DEF TaxerIsRight
<1> QED
    BY <1>2, <1>6, <1>7, <1>8, AloneAtWork, OneGoesOn

LEMMA ShowKeeps ==
    ASSUME GstInv, NEW g \in RateRefreshers, ShowRate(g) PROVE GstInv'
<1>1. /\ taxer' = [taxer EXCEPT ![g] = NoRefresh] /\ taxer[g].pc = "show" /\ ~GstIdle(g)
      /\ shown' = taxer[g].rate
      /\ UNCHANGED <<template, gstDue, region, rules, byTurns, unread, templates, gstFaults>>
    BY DEF ShowRate, GstIdle
<1>2. taxer[g] \in TaxerTypes(Len(region)) /\ rules \subseteq 1..Len(region) /\ Len(region) \in Nat
      /\ taxer \in [RateRefreshers -> TaxerTypes(Len(region))] /\ template \in {0} \cup Percents
    BY GstTyping DEF GstInv
<1>3. /\ NoRefresh \in TaxerTypes(Len(region)) /\ NoRefresh.pc = "off"
      /\ PlanIsPossible(NoRefresh) /\ TaxerIsRight(NoRefresh)'
    BY <1>2, NoRefreshIs DEF TaxerIsRight
<1>4. GstTypes'
    <2>1. taxer' \in [RateRefreshers -> TaxerTypes(Len(region))] /\ shown' \in Shown
        BY <1>1, <1>2, <1>3, TaxerField
    <2>2. GstCounts'
        BY <1>1 DEF GstInv, GstTypes, GstCounts
    <2> QED
        BY <1>1, <1>2, <2>1, <2>2, TypedWithRegion DEF GstInv
<1>5. byTurns => RatesAtRest'
    <2> SUFFICES ASSUME byTurns PROVE RatesAtRest'
        OBVIOUS
    <2>1. (gstDue \/ taxer[g].rate = ItemsRate) /\ ChargesRate(rules, region, taxer[g].rate)
        BY <1>1 DEF GstInv, TaxerIsRight
    <2>2. ItemsRate' = ItemsRate
        BY <1>1 DEF ItemsRate
    <2> QED
        BY <1>1, <2>1, <2>2 DEF RatesAtRest
<1> QED
    BY <1>1, <1>3, <1>4, <1>5, AloneAtWork, OneGoesOn

LEMMA GstCrashKeeps == ASSUME GstInv, GstCrash PROVE GstInv'
<1>1. /\ gstDue' = (gstDue \/ \E g \in RateRefreshers : ~GstIdle(g))
      /\ taxer' = [g \in RateRefreshers |-> NoRefresh] /\ gstFaults' = gstFaults + 1
      /\ UNCHANGED <<template, region, rules, shown, byTurns, unread, templates>>
    BY DEF GstCrash
<1>2. rules \subseteq 1..Len(region) /\ Len(region) \in Nat /\ template \in {0} \cup Percents
      /\ shown \in Shown
    BY GstTyping DEF GstInv
<1>3. NoRefresh \in TaxerTypes(Len(region)) /\ NoRefresh.pc = "off" /\ PlanIsPossible(NoRefresh)
    BY <1>2, NoRefreshIs
<1>4. \A g \in RateRefreshers : taxer'[g] = NoRefresh
    BY <1>1
<1>5. GstTypes'
    <2>1. taxer' \in [RateRefreshers -> TaxerTypes(Len(region))]
        BY <1>1, <1>3
    <2>2. gstFaults' \in 0..MaxGstFaults
        BY GstBoundsAreNaturals DEF GstCrash, GstInv, GstTypes
    <2>3. GstCounts'
        BY <1>1, <2>2 DEF GstInv, GstTypes, GstCounts
    <2> QED
        BY <1>1, <1>2, <2>1, <2>3, TypedWithRegion DEF GstInv
<1>6. OneTaxes' /\ \A g \in RateRefreshers : TaxerIsRight(taxer[g])' /\ PlanIsPossible(taxer[g])'
    BY <1>3, <1>4 DEF OneTaxes, GstIdle, TaxerIsRight, PlanIsPossible
<1>7. RatesAtRest => RatesAtRest'
    <2>1. ~gstDue' => ~gstDue /\ \A g \in RateRefreshers : GstIdle(g)
        BY <1>1
    <2> QED
        BY <1>1, <2>1 DEF RatesAtRest, ItemsRate
<1> QED
    BY <1>1, <1>5, <1>6, <1>7 DEF GstInv

LEMMA GstStarts == GstInit => GstInv
<1> SUFFICES ASSUME GstInit PROVE GstInv
    OBVIOUS
<1>1. /\ region = <<>> /\ rules = {} /\ shown = 0 /\ template = 0 /\ ~gstDue /\ ~unread
      /\ \A g \in RateRefreshers : taxer[g] = NoRefresh
      /\ taxer = [g \in RateRefreshers |-> NoRefresh] /\ templates = 0
    BY DEF GstInit
<1>2. NoRefresh \in TaxerTypes(0) /\ NoRefresh.pc = "off" /\ PlanIsPossible(NoRefresh)
      /\ TaxerIsRight(NoRefresh)
    BY NoRefreshIs
<1>3. GstTypes
    <2>1. region \in Seq(Percents \ {DefaultPercent}) /\ Len(region) = 0
        BY <1>1
    <2>2. taxer \in [RateRefreshers -> TaxerTypes(Len(region))] /\ rules \subseteq 1..Len(region)
        <3>1. taxer \in [RateRefreshers -> TaxerTypes(0)] /\ rules \subseteq 1..0
            BY <1>1, <1>2
        <3> QED
            BY <2>1, <3>1
    <2>3. GstCounts
        <3>1. templates \in 0..MaxTemplates /\ gstFaults \in 0..MaxGstFaults
            BY GstBoundsAreNaturals DEF GstInit
        <3>2. gstDue \in BOOLEAN /\ byTurns \in BOOLEAN /\ unread \in BOOLEAN
            BY DEF GstInit
        <3> QED
            BY <3>1, <3>2 DEF GstCounts
    <2> QED
        BY <1>1, <2>1, <2>2, <2>3, TypedAgain DEF Shown
<1>4. OneTaxes /\ \A g \in RateRefreshers : TaxerIsRight(taxer[g]) /\ PlanIsPossible(taxer[g])
    BY <1>1, <1>2 DEF OneTaxes, GstIdle
<1>5. RatesAtRest
    BY <1>1 DEF RatesAtRest, ChargesRate, ItemsRate
<1> QED
    BY <1>3, <1>4, <1>5 DEF GstInv

LEMMA GstKept == ASSUME GstInv, [GstNext]_gstVars PROVE GstInv'
<1>1. ASSUME NEW g \in RateRefreshers, GstStep(g) PROVE GstInv'
    BY <1>1, StartGstKeeps, ReadItemKeeps, PlanKeeps, MakeRateKeeps, DropKeeps, AddKeeps, ShowKeeps
    DEF GstStep
<1>2. CASE UNCHANGED gstVars
    <2>1. UNCHANGED <<template, gstDue, region, rules, shown, taxer, byTurns, unread, templates,
                      gstFaults>>
        BY <1>2 DEF gstVars
    <2>2. GstTypes'
        BY <2>1 DEF GstInv, GstTypes
    <2>3. (OneTaxes => OneTaxes') /\ (RatesAtRest => RatesAtRest')
        BY <2>1 DEF OneTaxes, RatesAtRest, GstIdle, ItemsRate
    <2>4. \A g \in RateRefreshers : TaxerIsRight(taxer[g]) => TaxerIsRight(taxer[g])'
        BY <2>1 DEF TaxerIsRight, ItemsRate
    <2> QED
        BY <2>1, <2>2, <2>3, <2>4 DEF GstInv
<1> QED
    BY <1>1, <1>2, RetaxKeeps, GstCrashKeeps DEF GstNext

\* Whenever no refresh of the product is under way or due, and the last could read its
\* Item, the product is charged at the Item's rate and shows it: no order of planning,
\* removing and adding rules, broken off by restarts, leaves another; where the
\* refreshes take turns.
THEOREM RestsAtItemsRate ==
    GstSpec => [](byTurns /\ (\A g \in RateRefreshers : GstIdle(g)) /\ ~gstDue /\ ~unread =>
                      Charged = {ItemsRate} /\ (templates > 0 => shown = ItemsRate))
<1>1. GstInv => (byTurns /\ (\A g \in RateRefreshers : GstIdle(g)) /\ ~gstDue /\ ~unread =>
                     Charged = {ItemsRate} /\ (templates > 0 => shown = ItemsRate))
    <2> SUFFICES ASSUME GstInv, byTurns, \A g \in RateRefreshers : GstIdle(g), ~gstDue, ~unread
                 PROVE  Charged = {ItemsRate} /\ (templates > 0 => shown = ItemsRate)
        OBVIOUS
    <2>1. ChargesRate(rules, region, ItemsRate) /\ (templates > 0 => shown = ItemsRate)
        BY DEF GstInv, RatesAtRest
    <2>2. CASE ItemsRate = DefaultPercent
        BY <2>1, <2>2 DEF ChargesRate, Charged
    <2>3. CASE ItemsRate # DefaultPercent
        <3>1. PICK i \in DOMAIN region : rules = {i} /\ region[i] = ItemsRate
            BY <2>1, <2>3 DEF ChargesRate
        <3> QED
            BY <2>1, <3>1 DEF Charged
    <2> QED
        BY <2>2, <2>3
<1> QED
    BY <1>1, GstStarts, GstKept, PTL DEF GstSpec

-----------------------------------------------------------------------------
(***************************************************************************)
(* StockLevels, for any orders, refreshes at once, rates and bounds.  What *)
(* a refresh writes is never below nothing, and only fulfilments take the  *)
(* level further down; so a level below nothing is owed to units the store *)
(* has handed over (OwedToGone).                                           *)
(***************************************************************************)

\* Units delivered, of which the store has used the reservation up.
LeftUnheld == {o \in StoreOrders : salesOrder[o] = "delivered"} \ holds

OwedToGone == level + Cardinality(LeftUnheld) >= 0

\* What a refresh in hand carries.
ReadIsKept(x) ==
    /\ x.pc \in {"orders", "held"} => x.qty <= MaxStock
    /\ x.pc = "write" => x.qty \in 0..(MaxStock + Cardinality(StoreOrders))
    /\ x.pc = "set" => x.qty \in Amounts

StockInv == StockTypes /\ OwedToGone /\ \A r \in Refreshers : ReadIsKept(refresher[r])

RefresherTypes ==
    [pc: {"off", "bin", "orders", "held", "write", "prices", "set"}, qty: Int,
     open: SUBSET StoreOrders]

LEMMA StockCounts ==
    /\ IsFiniteSet(StoreOrders) /\ Cardinality(StoreOrders) \in Nat
    /\ \A S \in SUBSET StoreOrders :
          IsFiniteSet(S) /\ Cardinality(S) \in Nat /\ Cardinality(S) <= Cardinality(StoreOrders)
BY StockIsCounted, FS_CardinalityType, FS_Subset

LEMMA RestingIsKept == Resting \in RefresherTypes /\ ReadIsKept(Resting)
BY DEF Resting, RefresherTypes, ReadIsKept

LEMMA ReadingIs ==
    ASSUME NEW pc \in {"off", "bin", "orders", "held", "write", "prices", "set"},
           NEW qty \in Int, NEW open \in SUBSET StoreOrders
    PROVE  /\ Reading(pc, qty, open) \in RefresherTypes
           /\ Reading(pc, qty, open).pc = pc /\ Reading(pc, qty, open).qty = qty
BY DEF Reading, RefresherTypes

\* A step of a refresh: it carries what it should, and the store's side is as it is shown.
LEMMA RefresherKeeps ==
    ASSUME StockInv, NEW r \in Refreshers, NEW x \in RefresherTypes, ReadIsKept(x),
           refresher' = [refresher EXCEPT ![r] = x], UNCHANGED <<stockOfErp, priceNews>>,
           UNCHANGED <<holds, variant>>, stockFaults' \in 0..MaxStockFaults, price' \in Amounts,
           level' = level \/ level' \in 0..(MaxStock + Cardinality(StoreOrders))
    PROVE  StockInv'
<1>1. UNCHANGED <<onHand, salesOrder, itemPrice, stockMoves, holds, variant, priceNews>>
    BY DEF stockOfErp
<1>2. level \in -Cardinality(StoreOrders)..(MaxStock + Cardinality(StoreOrders))
      /\ MaxStock \in Nat /\ Cardinality(StoreOrders) \in Nat
    BY StockIsCounted, StockCounts DEF StockInv, StockTypes
<1>3. level' \in -Cardinality(StoreOrders)..(MaxStock + Cardinality(StoreOrders))
    BY <1>2
<1>4. refresher' \in [Refreshers -> RefresherTypes]
    BY DEF StockInv, StockTypes, RefresherTypes
<1>5. StockTypes'
    BY <1>1, <1>3, <1>4 DEF StockInv, StockTypes, RefresherTypes
<1>6. LeftUnheld' = LeftUnheld /\ Cardinality(LeftUnheld) \in Nat
    BY <1>1, StockCounts DEF LeftUnheld
<1>7. OwedToGone'
    BY <1>2, <1>6 DEF StockInv, OwedToGone
<1>8. \A s \in Refreshers : ReadIsKept(refresher'[s])
    BY DEF StockInv, StockTypes
<1>9. \A s \in Refreshers : ReadIsKept(refresher[s])'
    BY <1>8 DEF ReadIsKept, Amounts
<1> QED
    BY <1>5, <1>7, <1>9 DEF StockInv

LEMMA HearsCounts == ASSUME StockInv, NEW h, Hears(h) PROVE stockFaults' \in 0..MaxStockFaults
<1>1. stockFaults \in 0..MaxStockFaults /\ MaxStockFaults \in Nat
    BY StockIsCounted DEF StockInv, StockTypes
<1>2. CASE h = TRUE
    BY <1>1, <1>2 DEF Hears
<1>3. CASE h # TRUE
    <2>1. h = FALSE /\ stockFaults < MaxStockFaults
        BY <1>3 DEF Hears, Heard
    <2>2. stockFaults' = stockFaults + 1
        BY <2>1 DEF Hears
    <2> QED
        BY <1>1, <2>1, <2>2
<1> QED
    BY <1>2, <1>3

LEMMA RefreshReads ==
    ASSUME StockInv, NEW r \in Refreshers, NEW h \in Heard,
           ReadBin(r, h) \/ ReadOrders(r, h) \/ ReadPrice(r, h)
    PROVE  StockInv'
<1>1. /\ UNCHANGED <<stockOfErp, priceNews, holds, variant, level, price>> /\ Hears(h)
    BY DEF ReadBin, ReadOrders, ReadPrice, At, stockOfStore
<1>2. stockFaults' \in 0..MaxStockFaults
    BY <1>1, HearsCounts
<1>3. /\ onHand \in 0..MaxStock /\ MaxStock \in Nat /\ price \in Amounts /\ itemPrice \in Amounts
      /\ Amounts \subseteq Int /\ Promised \in SUBSET StoreOrders
      /\ refresher[r] \in RefresherTypes /\ ReadIsKept(refresher[r])
    BY StockIsCounted DEF StockInv, StockTypes, Amounts, Promised, RefresherTypes
<1>4. price' \in Amounts
    BY <1>1, <1>3
<1>5. PICK n \in Int : n = onHand - Cardinality(Promised) /\ n <= MaxStock
    BY <1>3, StockCounts
<1>6. PICK q \in Int : q = refresher[r].qty
    BY <1>3 DEF RefresherTypes
<1>7. \E x \in RefresherTypes : ReadIsKept(x) /\ refresher' = [refresher EXCEPT ![r] = x]
    <2>1. CASE ReadBin(r, h)
        <3>1. ReadIsKept(Reading("orders", n, {})) /\ ReadIsKept(Reading("prices", 0, {}))
            BY <1>5, ReadingIs DEF ReadIsKept
        <3>2. Reading("orders", n, {}) \in RefresherTypes
              /\ Reading("prices", 0, {}) \in RefresherTypes
            BY ReadingIs
        <3> QED
            BY <1>5, <2>1, <3>1, <3>2 DEF ReadBin, Goes
    <2>2. CASE ReadOrders(r, h)
        <3>1. PICK O \in SUBSET StoreOrders : O = IF h THEN Promised ELSE {}
            BY <1>3
        <3>2. refresher[r].pc = "orders" /\ q <= MaxStock
            BY <1>3, <1>6, <2>2 DEF ReadOrders, At, ReadIsKept
        <3>3. Reading("held", q, O) \in RefresherTypes /\ ReadIsKept(Reading("held", q, O))
            BY <3>2, ReadingIs DEF ReadIsKept
        <3> QED
            BY <1>6, <2>2, <3>1, <3>3 DEF ReadOrders, Goes
    <2>3. CASE ReadPrice(r, h)
        <3>1. Reading("set", itemPrice, {}) \in RefresherTypes
              /\ ReadIsKept(Reading("set", itemPrice, {}))
            BY <1>3, ReadingIs DEF ReadIsKept
        <3> QED
            BY <2>3, <3>1, RestingIsKept DEF ReadPrice, Goes, Rests
    <2> QED
        BY <2>1, <2>2, <2>3
<1> QED
    BY <1>1, <1>2, <1>4, <1>7, RefresherKeeps

LEMMA RefreshWrites ==
    ASSUME StockInv, NEW r \in Refreshers,
           StartRefresh(r) \/ ReadHeld(r) \/ WriteLevel(r) \/ SetPrice(r)
    PROVE  StockInv'
<1>1. /\ UNCHANGED <<stockOfErp, priceNews, holds, variant, stockFaults>>
    BY DEF StartRefresh, ReadHeld, WriteLevel, SetPrice, At, stockOfStore
<1>2. /\ stockFaults' \in 0..MaxStockFaults /\ price \in Amounts
      /\ refresher[r] \in RefresherTypes /\ ReadIsKept(refresher[r])
      /\ MaxStock \in Nat /\ Safety \in Nat /\ Cardinality(StoreOrders) \in Nat
    BY <1>1, StockIsCounted, StockCounts DEF StockInv, StockTypes, RefresherTypes
<1>3. refresher[r].qty \in Int /\ refresher[r].open \in SUBSET StoreOrders
    BY <1>2 DEF RefresherTypes
<1>4. CASE StartRefresh(r)
    <2>1. Reading("bin", 0, {}) \in RefresherTypes /\ ReadIsKept(Reading("bin", 0, {}))
        BY ReadingIs DEF ReadIsKept
    <2>2. refresher' = [refresher EXCEPT ![r] = Reading("bin", 0, {})] /\ UNCHANGED <<level, price>>
        BY <1>4 DEF StartRefresh, Goes, stockOfStore
    <2> QED
        BY <1>1, <1>2, <2>1, <2>2, RefresherKeeps
<1>5. CASE ReadHeld(r)
    <2>1. PICK n \in Int : n = refresher[r].qty /\ n <= MaxStock
        BY <1>2, <1>3, <1>5 DEF ReadHeld, At, ReadIsKept
    <2>2. PICK k \in Nat : k = HeldByStore(refresher[r].open) /\ k <= Cardinality(StoreOrders)
        <3>1. refresher[r].open \cap holds \in SUBSET StoreOrders
            BY <1>3
        <3> QED
            BY <3>1, StockCounts DEF HeldByStore
    <2>3. PICK q : q = Sellable(n, k)
        OBVIOUS
    <2>4. q \in 0..(MaxStock + Cardinality(StoreOrders))
        BY <1>2, <2>1, <2>2, <2>3 DEF Sellable
    <2>5. Reading("write", q, {}) \in RefresherTypes /\ ReadIsKept(Reading("write", q, {}))
        BY <2>4, ReadingIs DEF ReadIsKept
    <2>6. refresher' = [refresher EXCEPT ![r] = Reading("write", q, {})]
          /\ UNCHANGED <<level, price>>
        BY <1>5, <2>1, <2>2, <2>3 DEF ReadHeld, Goes, stockOfStore
    <2> QED
        BY <1>1, <1>2, <2>5, <2>6, RefresherKeeps
<1>6. CASE WriteLevel(r)
    <2>1. refresher[r].qty \in 0..(MaxStock + Cardinality(StoreOrders))
        BY <1>2, <1>6 DEF WriteLevel, At, ReadIsKept
    <2>2. Reading("prices", 0, {}) \in RefresherTypes /\ ReadIsKept(Reading("prices", 0, {}))
        BY ReadingIs DEF ReadIsKept
    <2>3. refresher' = [refresher EXCEPT ![r] = Reading("prices", 0, {})] /\ UNCHANGED price
          /\ (level' = level \/ level' = refresher[r].qty)
        BY <1>6 DEF WriteLevel, Goes
    <2> QED
        BY <1>1, <1>2, <2>1, <2>2, <2>3, RefresherKeeps
<1>7. CASE SetPrice(r)
    <2>1. refresher[r].qty \in Amounts
        BY <1>2, <1>7 DEF SetPrice, At, ReadIsKept
    <2>2. refresher' = [refresher EXCEPT ![r] = Resting] /\ UNCHANGED level /\ price' \in Amounts
        BY <1>2, <1>7, <2>1 DEF SetPrice, Rests, Priced
    <2> QED
        BY <1>1, <1>2, <2>2, RestingIsKept, RefresherKeeps
<1> QED
    BY <1>4, <1>5, <1>6, <1>7

\* The level goes down only with a unit handed over.
OneUnitEach ==
    \/ level' = level /\ LeftUnheld \subseteq LeftUnheld'
    \/ level' = level - 1 /\ \E o : o \notin LeftUnheld /\ LeftUnheld' = LeftUnheld \cup {o}

\* A step that leaves the refreshes alone.
LEMMA StockGoesOn ==
    ASSUME StockInv, UNCHANGED <<refresher, stockFaults>>, onHand' \in 0..MaxStock,
           salesOrder' \in [StoreOrders -> {"none", "draft", "submitted", "delivered", "closed"}],
           holds' \subseteq StoreOrders, variant' \in BOOLEAN, stockMoves' \in 0..MaxStockMoves,
           itemPrice' \in Amounts, price' \in Amounts, priceNews' \subseteq Amounts,
           OneUnitEach
    PROVE  StockInv'
<1>1. LeftUnheld' \in SUBSET StoreOrders /\ LeftUnheld \in SUBSET StoreOrders
    BY DEF LeftUnheld
<1>2. IsFiniteSet(LeftUnheld') /\ IsFiniteSet(LeftUnheld)
      /\ Cardinality(LeftUnheld) \in Nat /\ Cardinality(LeftUnheld') \in Nat
      /\ Cardinality(LeftUnheld') <= Cardinality(StoreOrders) /\ Cardinality(StoreOrders) \in Nat
    BY <1>1, StockCounts
<1>3. level \in -Cardinality(StoreOrders)..(MaxStock + Cardinality(StoreOrders))
      /\ level + Cardinality(LeftUnheld) >= 0 /\ MaxStock \in Nat
    BY StockIsCounted DEF StockInv, StockTypes, OwedToGone
<1>4. level' + Cardinality(LeftUnheld') >= 0 /\ level' <= level /\ level' \in Int
    <2>1. CASE level' = level /\ LeftUnheld \subseteq LeftUnheld'
        <3>1. Cardinality(LeftUnheld) <= Cardinality(LeftUnheld')
            BY <1>2, <2>1, FS_Subset
        <3> QED
            BY <1>2, <1>3, <2>1, <3>1
    <2>2. ASSUME level' = level - 1, NEW o, o \notin LeftUnheld, LeftUnheld' = LeftUnheld \cup {o}
          PROVE  level' + Cardinality(LeftUnheld') >= 0 /\ level' <= level /\ level' \in Int
        <3>1. Cardinality(LeftUnheld') = Cardinality(LeftUnheld) + 1
            BY <1>2, <2>2, FS_AddElement
        <3> QED
            BY <1>2, <1>3, <2>2, <3>1
    <2> QED
        BY <2>1, <2>2 DEF OneUnitEach
<1>5. level' \in -Cardinality(StoreOrders)..(MaxStock + Cardinality(StoreOrders))
    BY <1>2, <1>3, <1>4
<1>6. StockTypes'
    BY <1>5 DEF StockInv, StockTypes, Amounts
<1>7. \A r \in Refreshers : ReadIsKept(refresher[r])'
    BY DEF StockInv, ReadIsKept, Amounts
<1> QED
    BY <1>4, <1>6, <1>7 DEF StockInv, OwedToGone

LEMMA StockTrades ==
    ASSUME StockInv, (\E n \in {-1, 1} : MoveStock(n)) \/ VariantMade
                     \/ \E rate \in Amounts : Reprice(rate) \/ HearPrice(rate)
    PROVE  StockInv'
<1>1. /\ UNCHANGED <<salesOrder, holds, level, refresher, stockFaults>>
      /\ onHand' \in 0..MaxStock /\ variant' \in BOOLEAN /\ stockMoves' \in 0..MaxStockMoves
      /\ itemPrice' \in Amounts /\ price' \in Amounts /\ priceNews' \subseteq Amounts
    <2>1. CASE \E n \in {-1, 1} : MoveStock(n)
        BY <2>1, StockIsCounted DEF MoveStock, StockInv, StockTypes, stockOfStore
    <2>2. CASE VariantMade
        BY <2>2 DEF VariantMade, StockInv, StockTypes, stockOfErp
    <2>3. ASSUME NEW rate \in Amounts, Reprice(rate)
          PROVE  <1>1!:
        BY <2>3, StockIsCounted DEF Reprice, StockInv, StockTypes, stockOfStore
    <2>4. ASSUME NEW rate \in Amounts, HearPrice(rate)
          PROVE  <1>1!:
        BY <2>4 DEF HearPrice, Priced, StockInv, StockTypes, stockOfErp
    <2> QED
        BY <2>1, <2>2, <2>3, <2>4
<1>2. OneUnitEach
    BY <1>1 DEF LeftUnheld, OneUnitEach
<1>3. salesOrder' \in [StoreOrders -> {"none", "draft", "submitted", "delivered", "closed"}]
      /\ holds' \subseteq StoreOrders
    BY <1>1 DEF StockInv, StockTypes
<1> QED
    BY <1>1, <1>2, <1>3, StockGoesOn

LEMMA OrdersMove ==
    ASSUME StockInv, NEW o \in StoreOrders, Staff(o) \/ Checkout(o) \/ Fulfil(o) \/ StoreCancels(o)
    PROVE  StockInv'
<1>1. /\ salesOrder \in [StoreOrders -> {"none", "draft", "submitted", "delivered", "closed"}]
      /\ holds \subseteq StoreOrders /\ onHand \in 0..MaxStock /\ MaxStock \in Nat
    BY StockIsCounted DEF StockInv, StockTypes
<1>2. /\ UNCHANGED <<refresher, stockFaults, variant, stockMoves, itemPrice, price, priceNews>>
    BY DEF Staff, Checkout, Fulfil, StoreCancels, stockOfErp, stockOfStore
<1>3. /\ variant' \in BOOLEAN /\ stockMoves' \in 0..MaxStockMoves
      /\ itemPrice' \in Amounts /\ price' \in Amounts /\ priceNews' \subseteq Amounts
    BY <1>2 DEF StockInv, StockTypes
<1>4. CASE Staff(o)
    <2>1. onHand' \in 0..MaxStock /\ holds' = holds /\ level' = level
        BY <1>1, <1>4 DEF Staff, stockOfStore
    <2>2. PICK st \in {"submitted", "closed", "delivered"} :
              salesOrder' = [salesOrder EXCEPT ![o] = st] /\ salesOrder[o] # "delivered"
        BY <1>4 DEF Staff, Becomes
    <2>3. OneUnitEach
        BY <1>1, <2>1, <2>2 DEF LeftUnheld, OneUnitEach
    <2>4. salesOrder' \in [StoreOrders -> {"none", "draft", "submitted", "delivered", "closed"}]
        BY <1>1, <2>2
    <2> QED
        BY <1>1, <1>2, <1>3, <2>1, <2>3, <2>4, StockGoesOn
<1>5. CASE Checkout(o) \/ StoreCancels(o)
    <2>1. onHand' = onHand /\ level' = level /\ holds' \subseteq StoreOrders
        BY <1>1, <1>5 DEF Checkout, StoreCancels
    <2>2. PICK st \in {"draft", "closed"} :
              salesOrder' = [salesOrder EXCEPT ![o] = st] /\ salesOrder[o] # "delivered"
        BY <1>5 DEF Checkout, StoreCancels, Becomes
    <2>3. \A x : x # o => (x \in holds' <=> x \in holds)
        BY <1>5 DEF Checkout, StoreCancels
    <2>4. OneUnitEach
        BY <1>1, <2>1, <2>2, <2>3 DEF LeftUnheld, OneUnitEach
    <2>5. salesOrder' \in [StoreOrders -> {"none", "draft", "submitted", "delivered", "closed"}]
        BY <1>1, <2>2
    <2> QED
        BY <1>1, <1>2, <1>3, <2>1, <2>4, <2>5, StockGoesOn
<1>6. CASE Fulfil(o)
    <2>1. onHand' = onHand /\ salesOrder' = salesOrder /\ level' = level - 1 /\ holds' = holds \ {o}
          /\ salesOrder[o] = "delivered" /\ o \in holds
        BY <1>6 DEF Fulfil, stockOfErp
    <2>2. o \notin LeftUnheld /\ LeftUnheld' = LeftUnheld \cup {o}
        BY <2>1 DEF LeftUnheld
    <2>3. OneUnitEach
        BY <2>1, <2>2 DEF OneUnitEach
    <2>4. holds' \subseteq StoreOrders /\ onHand' \in 0..MaxStock
          /\ salesOrder' \in [StoreOrders -> {"none", "draft", "submitted", "delivered", "closed"}]
        BY <1>1, <2>1
    <2> QED
        BY <1>2, <1>3, <2>3, <2>4, StockGoesOn
<1> QED
    BY <1>4, <1>5, <1>6

LEMMA StockStarts == StockInit => StockInv
<1> SUFFICES ASSUME StockInit PROVE StockInv
    OBVIOUS
<1>1. LeftUnheld = {} /\ Cardinality(LeftUnheld) \in Nat /\ Cardinality(StoreOrders) \in Nat
    BY StockCounts DEF StockInit, LeftUnheld
<1>2. refresher \in [Refreshers -> RefresherTypes] /\ \A r \in Refreshers : ReadIsKept(refresher[r])
    BY RestingIsKept DEF StockInit
<1>3. onHand = 1 /\ level = 0 /\ stockMoves = 0 /\ stockFaults = 0 /\ variant = FALSE /\ holds = {}
      /\ salesOrder = [o \in StoreOrders |-> "none"] /\ itemPrice = 0 /\ priceNews = {} /\ price = 0
    BY DEF StockInit
<1>4. StockTypes
    <2>1. level \in -Cardinality(StoreOrders)..(MaxStock + Cardinality(StoreOrders))
        BY <1>1, <1>3, StockIsCounted
    <2>2. refresher \in [Refreshers ->
                    [pc: {"off", "bin", "orders", "held", "write", "prices", "set"},
                        qty: Int, open: SUBSET StoreOrders]]
        BY <1>2 DEF RefresherTypes
    <2>3. salesOrder \in [StoreOrders -> {"none", "draft", "submitted", "delivered", "closed"}]
        BY <1>3
    <2>4. onHand \in 0..MaxStock /\ stockMoves \in 0..MaxStockMoves
          /\ stockFaults \in 0..MaxStockFaults
        BY <1>3, StockIsCounted
    <2> QED
        BY <1>3, <2>1, <2>2, <2>3, <2>4 DEF StockTypes, Amounts
<1>5. OwedToGone
    BY <1>1, <1>3 DEF OwedToGone
<1> QED
    BY <1>2, <1>4, <1>5 DEF StockInv

LEMMA StockKept == ASSUME StockInv, [StockNext]_stockVars PROVE StockInv'
<1>1. CASE StockNext
    <2>1. ASSUME NEW r \in Refreshers, RefreshStep(r) PROVE StockInv'
        BY <2>1, RefreshReads, RefreshWrites DEF RefreshStep
    <2> QED
        BY <1>1, <2>1, StockTrades, OrdersMove DEF StockNext
<1>2. CASE UNCHANGED stockVars
    BY <1>2 DEF stockVars, StockInv, StockTypes, OwedToGone, LeftUnheld, ReadIsKept, Amounts
<1> QED
    BY <1>1, <1>2

\* A level below nothing is owed to units the store has handed over: no refresh, however
\* old what it read, takes the level below nothing.
THEOREM LevelIsOwed == StockSpec => []OwedToGone
<1>1. StockInv => OwedToGone
    BY DEF StockInv
<1> QED
    BY <1>1, StockStarts, StockKept, PTL DEF StockSpec

-----------------------------------------------------------------------------
(* TriggerCondition: whatever is typed, a condition is tokens. *)

LEMMA TypedIsTokens ==
    ASSUME TriggerTypes, NEW next \in Seq(Tokens), Types(next)
    PROVE  TriggerTypes'
<1>1. typed \in 0..MaxTyping /\ MaxTyping \in Nat /\ typed < MaxTyping /\ typed' = typed + 1
    BY TriggerAssumption DEF TriggerTypes, Types
<1> QED
    BY <1>1 DEF TriggerTypes, Types

LEMMA PartsOfTokens ==
    ASSUME NEW s \in Seq(Tokens), NEW p \in 1..(Len(s) + 1)
    PROVE  SubSeq(s, 1, p - 1) \in Seq(Tokens) /\ SubSeq(s, p, Len(s)) \in Seq(Tokens)
<1>1. Len(s) \in Nat /\ DOMAIN s = 1..Len(s) /\ \A i \in 1..Len(s) : s[i] \in Tokens
    BY ElementOfSeq, LenProperties
<1>2. SubSeq(s, 1, p - 1) \in Seq(Tokens)
    BY <1>1, SubSeqProperties
<1>3. SubSeq(s, p, Len(s)) \in Seq(Tokens)
    BY <1>1, SubSeqProperties
<1> QED
    BY <1>2, <1>3

LEMMA TriggerKept == ASSUME TriggerTypes, [TriggerNext]_triggerVars PROVE TriggerTypes'
<1>1. condition \in Seq(Tokens) /\ Len(condition) \in Nat /\ DOMAIN condition = 1..Len(condition)
    BY LenProperties DEF TriggerTypes
<1>2. ASSUME NEW p \in DOMAIN condition, NEW t \in Tokens, Types([condition EXCEPT ![p] = t])
      PROVE  TriggerTypes'
    <2>1. [condition EXCEPT ![p] = t] \in Seq(Tokens)
        BY <1>1, <1>2, ExceptSeq
    <2> QED
        BY <1>2, <2>1, TypedIsTokens
<1>3. ASSUME NEW p \in 1..Len(condition) + 1, NEW t \in Tokens,
             Types(Seqs!InsertAt(condition, p, t))
      PROVE  TriggerTypes'
    <2>1. PICK a \in Seq(Tokens), b \in Seq(Tokens) :
              a = SubSeq(condition, 1, p - 1) /\ b = SubSeq(condition, p, Len(condition))
        BY <1>1, PartsOfTokens
    <2>2. a \o <<t>> \o b \in Seq(Tokens)
        BY ConcatProperties
    <2>3. Seqs!InsertAt(condition, p, t) = a \o <<t>> \o b
        BY <2>1 DEF Seqs!InsertAt
    <2> QED
        BY <1>3, <2>2, <2>3, TypedIsTokens
<1>4. ASSUME NEW p \in DOMAIN condition, Types(Seqs!RemoveAt(condition, p))
      PROVE  TriggerTypes'
    <2>1. p \in 1..(Len(condition) + 1) /\ p + 1 \in 1..(Len(condition) + 1)
        BY <1>1
    <2>2. PICK a \in Seq(Tokens), b \in Seq(Tokens) :
              a = SubSeq(condition, 1, p - 1) /\ b = SubSeq(condition, p + 1, Len(condition))
        BY <1>1, <2>1, PartsOfTokens
    <2>3. Seqs!RemoveAt(condition, p) = a \o b /\ a \o b \in Seq(Tokens)
        BY <2>2, ConcatProperties DEF Seqs!RemoveAt
    <2> QED
        BY <1>4, <2>3, TypedIsTokens
<1>5. ASSUME NEW f \in Fields, NEW v \in FieldValues, Touch(f, v) PROVE TriggerTypes'
    BY <1>5 DEF Touch, TriggerTypes
<1>6. CASE UNCHANGED triggerVars
    BY <1>6 DEF triggerVars, TriggerTypes
<1> QED
    BY <1>2, <1>3, <1>4, <1>5, <1>6 DEF TriggerNext

LEMMA TriggerStarts == TriggerInit => TriggerTypes
<1> SUFFICES ASSUME TriggerInit PROVE TriggerTypes
    OBVIOUS
<1>1. condition \in Seq(Tokens) /\ Len(condition) <= MaxLength
    BY TriggerAssumption DEF TriggerInit
<1>2. record \in [Fields -> FieldValues] /\ typed \in 0..MaxTyping
    BY TriggerAssumption DEF TriggerInit
<1> QED
    BY <1>1, <1>2 DEF TriggerTypes

-----------------------------------------------------------------------------
(***************************************************************************)
(* The office.  A behaviour is about one part, and its steps leave the     *)
(* others alone: seen from each part, it is a behaviour of that part       *)
(* alone.  So what is proved of the parts holds here, and with it the type *)
(* invariant of the whole and every other safety property BackOffice is    *)
(* checked for.                                                            *)
(***************************************************************************)

LEMMA WalletGoesOn == Spec => WalletSpec
<1>1. Init => WalletInit
    BY DEF Init
<1>2. [Next]_officeVars => [WalletNext]_walletVars
    BY DEF Next, officeVars, Only
<1> QED
    BY <1>1, <1>2, PTL DEF Spec, WalletSpec

LEMMA SettlementGoesOn == Spec => SettlementSpec
<1>1. Init => SettlementInit
    BY DEF Init
<1>2. [Next]_officeVars => [SettlementNext]_gatewayVars
    BY DEF Next, officeVars, Only
<1> QED
    BY <1>1, <1>2, PTL DEF Spec, SettlementSpec

LEMMA StockGoesOnAlone == Spec => StockSpec
<1>1. Init => StockInit
    BY DEF Init
<1>2. [Next]_officeVars => [StockNext]_stockVars
    BY DEF Next, officeVars, Only
<1> QED
    BY <1>1, <1>2, PTL DEF Spec, StockSpec

LEMMA DeliveryGoesOn == Spec => DeliverySpec
<1>1. Init => DeliveryInit
    BY DEF Init
<1>2. [Next]_officeVars => [DeliveryNext]_deliveryVars
    BY DEF Next, officeVars, Only
<1> QED
    BY <1>1, <1>2, PTL DEF Spec, DeliverySpec

LEMMA CopyGoesOn == Spec => CopySpec
<1>1. Init => CopyInit
    BY DEF Init
<1>2. [Next]_officeVars => [CopyNext]_copyVars
    BY DEF Next, officeVars, Only
<1> QED
    BY <1>1, <1>2, PTL DEF Spec, CopySpec

LEMMA TwoWayGoesOn == Spec => TwoWaySpec
<1>1. Init => TwoWayInit
    BY DEF Init
<1>2. [Next]_officeVars => [TwoWayNext]_twoWayVars
    BY DEF Next, officeVars, Only
<1> QED
    BY <1>1, <1>2, PTL DEF Spec, TwoWaySpec

LEMMA CustomersGoOn == Spec => CustomersSpec
<1>1. Init => CustomersInit
    BY DEF Init
<1>2. [Next]_officeVars => [CustomersNext]_customerVars
    BY DEF Next, officeVars, Only
<1> QED
    BY <1>1, <1>2, PTL DEF Spec, CustomersSpec

LEMMA CartGoesOn == Spec => CartSpec
<1>1. Init => CartInit
    BY DEF Init
<1>2. [Next]_officeVars => [CartNext]_cartVars
    BY DEF Next, officeVars, Only
<1> QED
    BY <1>1, <1>2, PTL DEF Spec, CartSpec

LEMMA GstGoesOn == Spec => GstSpec
<1>1. Init => GstInit
    BY DEF Init
<1>2. [Next]_officeVars => [GstNext]_gstVars
    BY DEF Next, officeVars, Only
<1> QED
    BY <1>1, <1>2, PTL DEF Spec, GstSpec

LEMMA SetupGoesOn == Spec => SetupSpec
<1>1. Init => SetupInit
    BY DEF Init
<1>2. [Next]_officeVars => [SetupNext]_setupVars
    BY DEF Next, officeVars, Only
<1> QED
    BY <1>1, <1>2, PTL DEF Spec, SetupSpec

LEMMA GateGoesOn == Spec => GateSpec
<1>1. Init => GateInit
    BY DEF Init
<1>2. [Next]_officeVars => [GateNext]_gateVars
    BY DEF Next, officeVars, Only
<1> QED
    BY <1>1, <1>2, PTL DEF Spec, GateSpec

LEMMA FieldGoesOn == Spec => FieldSpec
<1>1. Init => FieldInit
    BY DEF Init
<1>2. [Next]_officeVars => [FieldNext]_fieldVars
    BY DEF Next, officeVars, Only
<1> QED
    BY <1>1, <1>2, PTL DEF Spec, FieldSpec

LEMMA TriggerGoesOn == Spec => TriggerSpec
<1>1. Init => TriggerInit
    BY DEF Init
<1>2. [Next]_officeVars => [TriggerNext]_triggerVars
    BY DEF Next, officeVars, Only
<1> QED
    BY <1>1, <1>2, PTL DEF Spec, TriggerSpec

\* Every variable of every part holds what it is said to hold, for any number of jobs,
\* handlers and pushes at once, of edits, and of calls refused or lost.
THEOREM OfficeIsTyped == Spec => []TypesOK
<1>1. Spec => [](WalletTypes /\ SettlementTypes)
    BY WalletGoesOn, WalletIsTyped, SettlementGoesOn, SettlementIsTyped, PTL
<1>2. Spec => [](DeliveryTypes /\ CartTypes)
    BY DeliveryGoesOn, DeliveryIsTyped, CartGoesOn, CartIsTyped, PTL
<1>3. Spec => [](CopyTypes /\ CustomerTypes)
    BY CopyGoesOn, CopyIsTyped, CustomersGoOn, CustomerIsTyped, PTL
<1>4. Spec => [](SetupTypes /\ FieldTypes)
    BY SetupGoesOn, SetupIsTyped, FieldGoesOn, FieldIsTyped, PTL
<1>5. Spec => []GateTypes
    <2>1. GateInv => GateTypes
        BY DEF GateInv
    <2> QED
        BY <2>1, GateGoesOn, GateHolds, PTL
<1>6. Spec => []StockTypes
    <2>1. StockInv => StockTypes
        BY DEF StockInv
    <2>2. StockInv /\ [StockNext]_stockVars => StockInv'
        BY StockKept
    <2> QED
        BY <2>1, <2>2, StockGoesOnAlone, StockStarts, PTL DEF StockSpec
<1>7. Spec => []TwoWayTypes
    <2>1. StepInv => TwoWayTypes
        BY DEF StepInv
    <2>2. StepInv /\ [TwoWayNext]_twoWayVars => StepInv'
        BY StepKept
    <2> QED
        BY <2>1, <2>2, TwoWayGoesOn, TwoWayStarts, PTL DEF TwoWaySpec
<1>8. Spec => []GstTypes
    <2>1. GstInv => GstTypes
        BY DEF GstInv
    <2>2. GstInv /\ [GstNext]_gstVars => GstInv'
        BY GstKept
    <2> QED
        BY <2>1, <2>2, GstGoesOn, GstStarts, PTL DEF GstSpec
<1>9. Spec => []TriggerTypes
    <2>1. TriggerTypes /\ [TriggerNext]_triggerVars => TriggerTypes'
        BY TriggerKept
    <2> QED
        BY <2>1, TriggerGoesOn, TriggerStarts, PTL DEF TriggerSpec
<1>10. Spec => [](part \in Parts)
    <2>1. Init => part \in Parts
        BY DEF Init
    <2>2. part \in Parts /\ [Next]_officeVars => (part \in Parts)'
        BY DEF Next, Only, officeVars
    <2> QED
        BY <2>1, <2>2, PTL DEF Spec
<1>11. ASSUME part \in Parts,
              WalletTypes /\ SettlementTypes /\ StockTypes /\ DeliveryTypes /\ CopyTypes,
              TwoWayTypes /\ CustomerTypes /\ CartTypes /\ GstTypes,
              SetupTypes /\ GateTypes /\ FieldTypes /\ TriggerTypes
       PROVE  TypesOK
    BY <1>11 DEF TypesOK
<1> QED
    BY <1>1, <1>2, <1>3, <1>4, <1>5, <1>6, <1>7, <1>8, <1>9, <1>10, <1>11, PTL

\* What each part promises holds of the office: settlements are booked in turn and clear
\* the account, units are fulfilled once and their reversal told, an invoice offered is
\* issued, a cart is charged what its document comes to, and a setup run without an error
\* left ERPNext ready, each but for what its definition names.
THEOREM OfficeKeepsItsWord ==
    Spec => []( /\ BookedInTurn /\ ClearsTheAccount /\ FulfilledOnce /\ ReversalIsTold
                /\ OfferedIsIssued /\ PaidIsInvoiced /\ OkMeansReady )
<1>1. Spec => [](BookedInTurn /\ ClearsTheAccount)
    BY SettlementGoesOn, BookedInTurnHolds, ClearsTheAccountHolds, PTL
<1>2. Spec => [](FulfilledOnce /\ ReversalIsTold)
    BY DeliveryGoesOn, FulfilledOnceHolds, ReversalIsToldHolds, PTL
<1>3. Spec => [](OfferedIsIssued /\ PaidIsInvoiced /\ OkMeansReady)
    BY CopyGoesOn, OfferedIsIssuedHolds, CartGoesOn, PaidIsInvoicedHolds, SetupGoesOn,
       OkMeansReadyHolds, PTL
<1> QED
    BY <1>1, <1>2, <1>3, PTL

\* And so does what no step of theirs may do: the wallet's two ledgers mirror each
\* other, a second Customer needs a reason, a retired Address stays off, nothing goes
\* live untried but what its definition names, and a pair copied both ways stays as it is.
THEOREM OfficeStepsWell ==
    /\ Spec => MirrorsLedgers /\ SecondNeedsReason /\ RetiredStaysOff /\ LiveWasTried
    /\ NoMidnightIsLost => (Spec => CopiesSettle)
<1>1. Spec => MirrorsLedgers /\ LiveWasTried
    BY WalletGoesOn, MirrorsLedgersHolds, GateGoesOn, LiveWasTriedHolds, PTL
<1>2. Spec => SecondNeedsReason /\ RetiredStaysOff
    BY CustomersGoOn, SecondHasReason, RetiredStaysOffHolds, PTL
<1>3. NoMidnightIsLost => (Spec => CopiesSettle)
    BY FieldGoesOn, CopiesSettleHolds, PTL
<1> QED
    BY <1>1, <1>2, <1>3, PTL
=================================================================================
