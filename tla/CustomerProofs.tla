---------------------------- MODULE CustomerProofs -----------------------------
(*****************************************************************************)
(* Of Customers, for any number of pushes at once, failed calls and          *)
(* restarts: a second Customer needs a reason, and a retired Address stays   *)
(* retired.  Of InvoiceCopies, for any number of failed calls and lost       *)
(* files: the customer is offered an invoice only while it is submitted.     *)
(*****************************************************************************)
EXTENDS Customers, InvoiceCopies, SequenceTheorems, TLAPS

-----------------------------------------------------------------------------
(* Customers: the inductive invariant *)

CustomerPushes == [pc: {"off", "look", "read", "write", "link", "address", "linkAddress"},
                   for: {"save", "order", "orderOnly"}, doc: Nat,
                   listed: BOOLEAN, blind: BOOLEAN]
Documented == Nat \ {0}

AddressShapes == addrDocs \in Seq(BOOLEAN) /\ addrLinks \subseteq Nat

CustomerShapes ==
    /\ customers \in Nat /\ living \subseteq Documented
    /\ \A l \in custLinks : l.doc \in Documented
    /\ push \in [CustomerPushers -> CustomerPushes]
    /\ AddressShapes

\* What is linked was made, and whoever makes a Customer with its eyes open finds none living.
MakesNoSecond ==
    \A w \in CustomerPushers :
        /\ push[w].pc = "link" => push[w].doc # 0
        /\ push[w].pc = "write" /\ push[w].doc = 0 /\ ~push[w].blind => living = {}

CustomerInv == CustomerShapes /\ MakesNoSecond

-----------------------------------------------------------------------------
(* A push's record *)

LEMMA PushRecord ==
    ASSUME NEW A, NEW B, NEW C, NEW D, NEW E, NEW x \in A, NEW y \in C, NEW z \in E,
           NEW f \in B, NEW g \in D, NEW p \in [pc: A, for: B, doc: C, listed: D, blind: E]
    PROVE  /\ [p EXCEPT !.pc = x] \in [pc: A, for: B, doc: C, listed: D, blind: E]
           /\ [p EXCEPT !.pc = x, !.doc = y] \in [pc: A, for: B, doc: C, listed: D, blind: E]
           /\ [p EXCEPT !.pc = x, !.doc = y, !.blind = z]
                 \in [pc: A, for: B, doc: C, listed: D, blind: E]
           /\ [p EXCEPT !.blind = z] \in [pc: A, for: B, doc: C, listed: D, blind: E]
           /\ [p EXCEPT !.pc = x, !.for = f, !.listed = g]
                 \in [pc: A, for: B, doc: C, listed: D, blind: E]
           /\ [p EXCEPT !.pc = x, !.listed = g] \in [pc: A, for: B, doc: C, listed: D, blind: E]
OBVIOUS

LEMMA NoPushIsOff == NoCustomerPush \in CustomerPushes /\ NoCustomerPush.pc = "off"
BY DEF NoCustomerPush, CustomerPushes

\* One push moves, and no Customer is made or linked.
LEMMA PushMoves ==
    ASSUME CustomerInv, NEW w \in CustomerPushers, NEW p \in CustomerPushes,
           push' = [push EXCEPT ![w] = p], living' \subseteq living,
           UNCHANGED <<customers, custLinks>>, AddressShapes',
           p.pc # "link",
           p.pc = "write" /\ p.doc = 0 /\ ~p.blind => living = {}
    PROVE  CustomerInv'
<1>1. push' \in [CustomerPushers -> CustomerPushes] /\ push'[w] = p
      /\ \A v \in CustomerPushers : v # w => push'[v] = push[v]
    BY DEF CustomerInv, CustomerShapes
<1>2. CustomerShapes'
    BY <1>1 DEF CustomerInv, CustomerShapes
<1>3. MakesNoSecond'
    BY <1>1 DEF CustomerInv, MakesNoSecond
<1> QED
    BY <1>2, <1>3 DEF CustomerInv

LEMMA PushesStay ==
    ASSUME CustomerInv, UNCHANGED <<push, customers, custLinks>>, living' \subseteq living,
           AddressShapes'
    PROVE  CustomerInv'
BY DEF CustomerInv, CustomerShapes, MakesNoSecond

-----------------------------------------------------------------------------
(* The actions *)

LEMMA BeginsKeeps ==
    ASSUME CustomerInv, NEW w \in CustomerPushers, NEW for \in {"save", "order", "orderOnly"},
           Begins(w, for), UNCHANGED <<documents, addressBook>>
    PROVE  CustomerInv'
<1> DEFINE p == [NoCustomerPush EXCEPT !.pc = "look", !.for = for, !.listed = address = "kept"]
<1>1. p \in CustomerPushes /\ p.pc = "look"
    BY DEF NoCustomerPush, CustomerPushes
<1>2. push' = [push EXCEPT ![w] = p] /\ UNCHANGED <<living, customers, custLinks>>
    BY DEF Begins, documents
<1> HIDE DEF p
<1> QED
    BY <1>1, <1>2, PushMoves DEF CustomerInv, CustomerShapes, AddressShapes, addressBook

LEMMA EndsKeeps ==
    ASSUME CustomerInv, NEW w \in CustomerPushers, Ends(w), UNCHANGED documents,
           AddressShapes'
    PROVE  CustomerInv'
BY NoPushIsOff, PushMoves DEF Ends, documents

LEMMA StartsKeep ==
    ASSUME CustomerInv, NEW w \in CustomerPushers,
           HearSave(w) \/ RetrySave(w) \/ Recover(w) \/ StartOrder(w)
    PROVE  CustomerInv'
<1>1. UNCHANGED <<documents, addressBook>> /\ AddressShapes'
    BY DEF HearSave, RetrySave, Recover, StartOrder, addressBook, CustomerInv, CustomerShapes,
           AddressShapes
<1>2. ASSUME UNCHANGED push PROVE CustomerInv'
    BY <1>1, <1>2, PushesStay DEF documents
<1>3. ASSUME NEW for \in {"save", "order", "orderOnly"}, Begins(w, for) PROVE CustomerInv'
    BY <1>1, <1>3, BeginsKeeps
<1>4. CASE RetrySave(w)
    <2> DEFINE p == [NoCustomerPush EXCEPT !.pc = "look", !.listed = failedSave = "listed"]
    <2>1. p \in CustomerPushes /\ p.pc = "look"
        BY DEF NoCustomerPush, CustomerPushes
    <2>2. push' = [push EXCEPT ![w] = p] /\ UNCHANGED <<living, customers, custLinks>>
        BY <1>4 DEF RetrySave, documents
    <2> HIDE DEF p
    <2> QED
        BY <1>1, <2>1, <2>2, PushMoves
<1> QED
    BY <1>2, <1>3, <1>4 DEF HearSave, Recover, StartOrder

LEMMA LookUpKeeps ==
    ASSUME CustomerInv, NEW w \in CustomerPushers, NEW ans, LookUp(w, ans) PROVE CustomerInv'
<1> DEFINE linked == IF Mapped(w) THEN Known ELSE {}
           found == IF linked # {} THEN linked ELSE IF ans = "ok" THEN FoundByEmail ELSE {}
<1>1. UNCHANGED <<documents, addressBook>> /\ AddressShapes'
    BY DEF LookUp, addressBook, CustomerInv, CustomerShapes, AddressShapes
<1>2. CASE Ends(w)
    BY <1>1, <1>2, EndsKeeps
<1>3. CASE ~Ends(w)
    <2>1. found \subseteq Documented
        BY DEF CustomerInv, CustomerShapes, Known, FoundByEmail
    <2>2. PICK d \in IF found = {} THEN {0} ELSE found :
             push' = [push EXCEPT ![w].pc = IF d = 0 THEN "write" ELSE "read",
                                  ![w].doc = d, ![w].blind = (found = {} /\ ans # "ok")]
        BY <1>3 DEF LookUp
    <2>3. d \in Nat /\ (d = 0 <=> found = {})
        BY <2>1 DEF Documented
    <2>4. found = {} /\ ans = "ok" => living = {}
        BY DEF FoundByEmail
    <2> DEFINE pc == IF d = 0 THEN "write" ELSE "read"
               blind == (found = {} /\ ans # "ok")
               p == [push[w] EXCEPT !.pc = pc, !.doc = d, !.blind = blind]
    <2>5. push[w] \in CustomerPushes /\ push \in [CustomerPushers -> CustomerPushes]
        BY DEF CustomerInv, CustomerShapes
    <2>6. pc \in {"write", "read"} /\ blind \in BOOLEAN
        OBVIOUS
    <2>7. d = 0 /\ ~blind => living = {}
        BY <2>3, <2>4
    <2>8. push' = [push EXCEPT ![w].pc = pc, ![w].doc = d, ![w].blind = blind]
        BY <2>2
    <2> HIDE DEF pc, blind
    <2>9. push' = [push EXCEPT ![w] = p]
        BY <2>5, <2>8
    <2>10. p \in CustomerPushes /\ p.pc = pc /\ p.doc = d /\ p.blind = blind
        BY <2>3, <2>5, <2>6 DEF CustomerPushes
    <2> HIDE DEF p
    <2> QED
        BY <1>1, <2>6, <2>7, <2>9, <2>10, PushMoves DEF documents
<1> QED
    BY <1>2, <1>3

LEMMA ReadCustomerKeeps ==
    ASSUME CustomerInv, NEW w \in CustomerPushers, NEW ans, ReadCustomer(w, ans)
    PROVE  CustomerInv'
<1> DEFINE d == IF ans = "ok" THEN NoneIfGone(push[w].doc) ELSE push[w].doc
           blind == (d = 0)
           p == [push[w] EXCEPT !.pc = "write", !.doc = d, !.blind = blind]
<1>1. UNCHANGED <<documents, addressBook>> /\ AddressShapes'
      /\ push' = [push EXCEPT ![w].pc = "write", ![w].doc = d, ![w].blind = blind]
      /\ push[w] \in CustomerPushes /\ push \in [CustomerPushers -> CustomerPushes]
    BY DEF ReadCustomer, addressBook, CustomerInv, CustomerShapes, AddressShapes
<1>2. d \in Nat /\ blind \in BOOLEAN
    BY <1>1 DEF NoneIfGone, CustomerPushes
<1>3. d = 0 => blind
    OBVIOUS
<1> HIDE DEF d, blind
<1>4. push' = [push EXCEPT ![w] = p]
    BY <1>1
<1>5. p \in CustomerPushes /\ p.pc = "write" /\ p.doc = d /\ p.blind = blind
    BY <1>1, <1>2 DEF CustomerPushes
<1> HIDE DEF p
<1> QED
    BY <1>1, <1>3, <1>4, <1>5, PushMoves DEF documents

\* Who makes a Customer while another lives decided on what ERPNext did not say.
LEMMA WriteCustomerKeeps ==
    ASSUME CustomerInv, NEW w \in CustomerPushers, NEW ans, WriteCustomer(w, ans)
    PROVE  /\ CustomerInv'
           /\ customers' # customers /\ living # {} =>
                 push[w].pc = "write" /\ push'[w] # push[w] /\ push[w].blind
<1> DEFINE new == push[w].doc = 0
           taken == ans # "refused" /\ (new \/ push[w].doc \in living)
           doc == IF new THEN customers' ELSE push[w].doc
           p == IF taken /\ ans = "ok" THEN [push[w] EXCEPT !.pc = "link", !.doc = doc]
                ELSE NoCustomerPush
           q(v) == [push[v] EXCEPT !.blind = @ \/ (taken /\ new /\ v \in Outdated(w))]
<1>1. /\ UNCHANGED <<custLinks, addrDocs, addrLinks>> /\ push[w].pc = "write"
      /\ push \in [CustomerPushers -> CustomerPushes] /\ customers \in Nat
    BY DEF WriteCustomer, addressBook, CustomerInv, CustomerShapes, AddressShapes
<1>2. /\ \/ taken /\ new /\ customers' = customers + 1 /\ living' = living \cup {customers'}
         \/ ~(taken /\ new) /\ UNCHANGED <<customers, living>>
      /\ push' = [v \in CustomerPushers |-> IF v = w THEN p ELSE q(v)]
    BY DEF WriteCustomer
<1>3. customers' \in Nat /\ living' \subseteq Documented /\ (taken /\ new => customers' # 0)
    BY <1>1, <1>2 DEF CustomerInv, CustomerShapes, Documented
<1>4. doc \in Nat /\ (taken /\ ans = "ok" => doc # 0)
    BY <1>1, <1>3 DEF CustomerPushes
<1> HIDE DEF doc
<1>5. p \in CustomerPushes /\ p.pc \in {"link", "off"} /\ (p.pc = "link" => p.doc # 0)
    <2>1. CASE taken /\ ans = "ok"
        BY <1>1, <1>4, <2>1 DEF CustomerPushes
    <2>2. CASE ~(taken /\ ans = "ok")
        BY <2>2, NoPushIsOff
    <2> QED
        BY <2>1, <2>2
<1>6. \A v \in CustomerPushers :
          /\ q(v) \in CustomerPushes /\ q(v).pc = push[v].pc /\ q(v).doc = push[v].doc
          /\ push[v].blind => q(v).blind
          /\ taken /\ new /\ v \in Outdated(w) => q(v).blind
    <2> SUFFICES ASSUME NEW v \in CustomerPushers
                 PROVE  /\ q(v) \in CustomerPushes /\ q(v).pc = push[v].pc
                        /\ q(v).doc = push[v].doc
                        /\ push[v].blind => q(v).blind
                        /\ taken /\ new /\ v \in Outdated(w) => q(v).blind
        OBVIOUS
    <2> DEFINE b == push[v].blind \/ (taken /\ new /\ v \in Outdated(w))
    <2>1. b \in BOOLEAN /\ q(v) = [push[v] EXCEPT !.blind = b] /\ push[v] \in CustomerPushes
        BY <1>1
    <2>2. (push[v].blind => b) /\ (taken /\ new /\ v \in Outdated(w) => b)
        OBVIOUS
    <2> HIDE DEF b, q
    <2> QED
        BY <2>1, <2>2 DEF CustomerPushes
<1> HIDE DEF p, q
<1>7. /\ push'[w] = p /\ push' \in [CustomerPushers -> CustomerPushes]
      /\ \A v \in CustomerPushers : v # w => push'[v] = q(v)
    BY <1>2, <1>5, <1>6
<1>8. CustomerShapes'
    BY <1>1, <1>3, <1>7 DEF CustomerInv, CustomerShapes, AddressShapes
<1>9. MakesNoSecond'
    <2> SUFFICES ASSUME NEW v \in CustomerPushers
                 PROVE  /\ push'[v].pc = "link" => push'[v].doc # 0
                        /\ push'[v].pc = "write" /\ push'[v].doc = 0 /\ ~push'[v].blind
                              => living' = {}
        BY DEF MakesNoSecond
    <2>1. CASE v = w
        BY <1>5, <1>7, <2>1
    <2>2. CASE v # w /\ taken /\ new
        BY <1>6, <1>7, <2>2 DEF Outdated, CustomerInv, MakesNoSecond
    <2>3. CASE v # w /\ ~(taken /\ new)
        BY <1>2, <1>6, <1>7, <2>3 DEF CustomerInv, MakesNoSecond
    <2> QED
        BY <2>1, <2>2, <2>3
<1>10. customers' # customers /\ living # {} => push[w].blind
    BY <1>1, <1>2 DEF CustomerInv, MakesNoSecond
<1> QED
    BY <1>1, <1>5, <1>7, <1>8, <1>9, <1>10 DEF CustomerInv

LEMMA LinkCustomerKeeps ==
    ASSUME CustomerInv, NEW w \in CustomerPushers, LinkCustomer(w) PROVE CustomerInv'
<1> DEFINE p == [push[w] EXCEPT !.pc = "address"]
<1>1. /\ UNCHANGED <<living, customers, addrDocs, addrLinks>> /\ push[w].pc = "link"
      /\ push \in [CustomerPushers -> CustomerPushes] /\ push[w] \in CustomerPushes
      /\ AddressShapes
    BY DEF LinkCustomer, addressBook, CustomerInv, CustomerShapes, AddressShapes
<1>2. PICK who : custLinks' = {l \in custLinks : l.doc # push[w].doc}
                                \cup {[doc |-> push[w].doc, who |-> who]}
    BY DEF LinkCustomer
<1>3. push[w].doc \in Documented
    BY <1>1 DEF CustomerInv, MakesNoSecond, CustomerPushes, Documented
<1>4. \A l \in custLinks' : l.doc \in Documented
    BY <1>2, <1>3 DEF CustomerInv, CustomerShapes
<1>5. p \in CustomerPushes /\ p.pc = "address"
    BY <1>1 DEF CustomerPushes
<1>6. push' = [push EXCEPT ![w] = p] \/ push' = [push EXCEPT ![w] = NoCustomerPush]
    BY <1>1 DEF LinkCustomer, Ends
<1> HIDE DEF p
<1>7. PICK r : r \in CustomerPushes /\ r.pc \in {"address", "off"}
               /\ push' = [push EXCEPT ![w] = r]
    BY <1>5, <1>6, NoPushIsOff
<1>8. push' \in [CustomerPushers -> CustomerPushes] /\ push'[w] = r
      /\ \A v \in CustomerPushers : v # w => push'[v] = push[v]
    BY <1>1, <1>7
<1>9. CustomerShapes'
    BY <1>1, <1>4, <1>8 DEF CustomerInv, CustomerShapes, AddressShapes
<1>10. MakesNoSecond'
    BY <1>1, <1>7, <1>8 DEF CustomerInv, MakesNoSecond
<1> QED
    BY <1>9, <1>10 DEF CustomerInv

-----------------------------------------------------------------------------
(* The address *)

\* No Address is enabled that was not.
NoneEnabled ==
    AddressShapes' /\ \A d \in DOMAIN addrDocs : ~addrDocs[d] => ~addrDocs'[d]

LEMMA NoneEnabledBySame ==
    ASSUME CustomerInv, UNCHANGED addressBook PROVE NoneEnabled
BY DEF NoneEnabled, CustomerInv, CustomerShapes, AddressShapes, addressBook

LEMMA SyncAddressKeeps ==
    ASSUME CustomerInv, NEW w \in CustomerPushers, NEW ans, SyncAddress(w, ans)
    PROVE  CustomerInv' /\ NoneEnabled
<1>1. UNCHANGED <<living, customers, custLinks>> /\ UNCHANGED documents
      /\ push[w] \in CustomerPushes /\ push \in [CustomerPushers -> CustomerPushes]
    BY DEF SyncAddress, documents, CustomerInv, CustomerShapes
<1>2. addrDocs \in Seq(BOOLEAN) /\ addrLinks \subseteq Nat /\ UNCHANGED addrLinks
    BY DEF SyncAddress, CustomerInv, CustomerShapes, AddressShapes
<1>3. addrDocs' = addrDocs \/ addrDocs' = Append(addrDocs, TRUE)
    BY DEF SyncAddress, Rewritten
<1>4. NoneEnabled
    <2>1. CASE addrDocs' = addrDocs
        BY <1>2, <2>1, NoneEnabledBySame DEF addressBook
    <2>2. CASE addrDocs' = Append(addrDocs, TRUE)
        <3>1. PICK s \in Seq(BOOLEAN) : s = addrDocs
            BY <1>2
        <3>2. Append(s, TRUE) \in Seq(BOOLEAN)
            OBVIOUS
        <3>3. \A d \in 1..Len(s) : Append(s, TRUE)[d] = s[d]
            OBVIOUS
        <3> QED
            BY <1>2, <2>2, <3>1, <3>2, <3>3 DEF NoneEnabled, AddressShapes
    <2> QED
        BY <1>3, <2>1, <2>2
<1>5. CASE Ends(w)
    BY <1>1, <1>4, <1>5, EndsKeeps DEF NoneEnabled
<1>6. CASE ~Ends(w)
    <2>1. PICK d : push' = [push EXCEPT ![w].pc = "linkAddress", ![w].doc = d] /\ d \in Nat
        <3>1. PICK e \in IF addrLinks = {} THEN {0} ELSE addrLinks :
                 push' = [push EXCEPT ![w].pc = "linkAddress",
                                      ![w].doc = IF e = 0 THEN Len(addrDocs') ELSE e]
            BY <1>6 DEF SyncAddress, Succeeds
        <3>2. Len(addrDocs') \in Nat
            <4>1. PICK s \in Seq(BOOLEAN) : s = addrDocs'
                BY <1>4 DEF NoneEnabled, AddressShapes
            <4> QED
                BY <4>1
        <3> DEFINE d == IF e = 0 THEN Len(addrDocs') ELSE e
        <3>3. d \in Nat
            BY <1>2, <3>2
        <3> QED
            BY <3>1, <3>3
    <2> DEFINE p == [push[w] EXCEPT !.pc = "linkAddress", !.doc = d]
    <2>2. push' = [push EXCEPT ![w] = p]
        BY <1>1, <2>1
    <2>3. p \in CustomerPushes /\ p.pc = "linkAddress"
        BY <1>1, <2>1 DEF CustomerPushes
    <2> HIDE DEF p
    <2> QED
        BY <1>1, <1>4, <2>2, <2>3, PushMoves DEF NoneEnabled
<1> QED
    BY <1>4, <1>5, <1>6

LEMMA LinkAddressKeeps ==
    ASSUME CustomerInv, NEW w \in CustomerPushers, LinkAddress(w)
    PROVE  CustomerInv' /\ NoneEnabled
<1>1. AddressShapes /\ UNCHANGED <<addrDocs, documents>> /\ Ends(w)
      /\ addrLinks' = addrLinks \cup {push[w].doc} /\ push[w] \in CustomerPushes
    BY DEF LinkAddress, Succeeds, CustomerInv, CustomerShapes
<1>2. AddressShapes' /\ NoneEnabled
    BY <1>1 DEF AddressShapes, NoneEnabled, CustomerPushes
<1> QED
    BY <1>1, <1>2, EndsKeeps

LEMMA RetireAddressKeeps ==
    ASSUME CustomerInv, NEW ans, RetireAddress(ans) PROVE CustomerInv' /\ NoneEnabled
<1>1. addrDocs \in Seq(BOOLEAN) /\ UNCHANGED <<push, living, customers, custLinks, addrLinks>>
      /\ addrLinks \subseteq Nat
    BY DEF RetireAddress, documents, CustomerInv, CustomerShapes, AddressShapes
<1>2. NoneEnabled
    <2>1. CASE UNCHANGED addrDocs
        BY <1>1, <2>1, NoneEnabledBySame DEF addressBook
    <2>2. ASSUME NEW d, addrDocs' = [addrDocs EXCEPT ![d] = FALSE] PROVE NoneEnabled
        <3>1. PICK s \in Seq(BOOLEAN) : s = addrDocs
            BY <1>1
        <3>2. s \in [1..Len(s) -> BOOLEAN] /\ Len(s) \in Nat
            OBVIOUS
        <3>3. [s EXCEPT ![d] = FALSE] \in [1..Len(s) -> BOOLEAN]
            BY <3>2
        <3>4. [s EXCEPT ![d] = FALSE] \in Seq(BOOLEAN)
            BY <3>2, <3>3
        <3>5. \A i \in DOMAIN s : ~s[i] => ~[s EXCEPT ![d] = FALSE][i]
            OBVIOUS
        <3> QED
            BY <1>1, <2>2, <3>1, <3>4, <3>5 DEF NoneEnabled, AddressShapes
    <2> QED
        BY <2>1, <2>2 DEF RetireAddress
<1> QED
    BY <1>1, <1>2, PushesStay DEF NoneEnabled

LEMMA CustomerCrashKeeps ==
    ASSUME CustomerInv, CustomerCrash PROVE CustomerInv'
<1>1. push' = [w \in CustomerPushers |-> NoCustomerPush]
      /\ UNCHANGED <<living, customers, custLinks, addressBook>>
    BY DEF CustomerCrash, documents
<1>2. push' \in [CustomerPushers -> CustomerPushes]
      /\ \A w \in CustomerPushers : push'[w].pc = "off"
    BY <1>1, NoPushIsOff
<1>3. CustomerShapes' /\ MakesNoSecond'
    BY <1>1, <1>2 DEF CustomerInv, CustomerShapes, MakesNoSecond, AddressShapes, addressBook
<1> QED
    BY <1>3 DEF CustomerInv

-----------------------------------------------------------------------------
(* The theorems *)

LEMMA CustomersInitHolds == CustomersInit => CustomerInv
<1> SUFFICES ASSUME CustomersInit PROVE CustomerInv
    OBVIOUS
<1>1. push \in [CustomerPushers -> CustomerPushes]
      /\ \A w \in CustomerPushers : push[w].pc = "off"
    BY NoPushIsOff DEF CustomersInit
<1> QED
    BY <1>1 DEF CustomersInit, CustomerInv, CustomerShapes, MakesNoSecond, AddressShapes

\* What a step may do.
MadeWithReason ==
    customers' # customers /\ living # {} =>
        \E w \in CustomerPushers : push[w].pc = "write" /\ push'[w] # push[w] /\ push[w].blind

LEMMA CustomersNextHolds ==
    ASSUME CustomerInv, [CustomersNext]_customerVars
    PROVE  CustomerInv' /\ MadeWithReason /\ NoneEnabled
<1>1. CASE Approve \/ KeepAddress \/ DropAddress \/ PlaceOrder \/ UNCHANGED customerVars
    <2>1. UNCHANGED <<push, living, customers, custLinks, addressBook>>
        BY <1>1 DEF Approve, KeepAddress, DropAddress, PlaceOrder, customerVars, documents,
                    addressBook
    <2> QED
        BY <2>1, PushesStay, NoneEnabledBySame DEF MadeWithReason, NoneEnabled
<1>2. ASSUME NEW d \in living, StaffDelete(d)
      PROVE  CustomerInv' /\ MadeWithReason /\ NoneEnabled
    <2>1. UNCHANGED <<push, customers, custLinks, addressBook>> /\ living' \subseteq living
        BY <1>2 DEF StaffDelete
    <2> QED
        BY <2>1, PushesStay, NoneEnabledBySame DEF MadeWithReason, NoneEnabled
<1>3. ASSUME NEW w \in CustomerPushers,
             HearSave(w) \/ RetrySave(w) \/ Recover(w) \/ StartOrder(w)
      PROVE  CustomerInv' /\ MadeWithReason /\ NoneEnabled
    <2>1. UNCHANGED <<customers, addressBook>>
        BY <1>3 DEF HearSave, RetrySave, Recover, StartOrder, documents
    <2> QED
        BY <1>3, <2>1, StartsKeep, NoneEnabledBySame DEF MadeWithReason
<1>4. ASSUME NEW w \in CustomerPushers, NEW ans, LookUp(w, ans) \/ ReadCustomer(w, ans)
      PROVE  CustomerInv' /\ MadeWithReason /\ NoneEnabled
    <2>1. UNCHANGED <<customers, addressBook>>
        BY <1>4 DEF LookUp, ReadCustomer, documents
    <2> QED
        BY <1>4, <2>1, LookUpKeeps, ReadCustomerKeeps, NoneEnabledBySame DEF MadeWithReason
<1>5. ASSUME NEW w \in CustomerPushers, NEW ans, WriteCustomer(w, ans)
      PROVE  CustomerInv' /\ MadeWithReason /\ NoneEnabled
    <2>1. UNCHANGED addressBook
        BY <1>5 DEF WriteCustomer
    <2> QED
        BY <1>5, <2>1, WriteCustomerKeeps, NoneEnabledBySame DEF MadeWithReason
<1>6. ASSUME NEW w \in CustomerPushers, LinkCustomer(w)
      PROVE  CustomerInv' /\ MadeWithReason /\ NoneEnabled
    <2>1. UNCHANGED <<customers, addressBook>>
        BY <1>6 DEF LinkCustomer
    <2> QED
        BY <1>6, <2>1, LinkCustomerKeeps, NoneEnabledBySame DEF MadeWithReason
<1>7. ASSUME NEW w \in CustomerPushers, LinkAddress(w)
      PROVE  CustomerInv' /\ MadeWithReason /\ NoneEnabled
    <2>1. UNCHANGED customers
        BY <1>7 DEF LinkAddress, documents
    <2> QED
        BY <1>7, <2>1, LinkAddressKeeps DEF MadeWithReason
<1>8. ASSUME NEW w \in CustomerPushers, NEW ans, SyncAddress(w, ans)
      PROVE  CustomerInv' /\ MadeWithReason /\ NoneEnabled
    <2>1. UNCHANGED customers
        BY <1>8 DEF SyncAddress, documents
    <2> QED
        BY <1>8, <2>1, SyncAddressKeeps DEF MadeWithReason
<1>9. ASSUME NEW ans, RetireAddress(ans)
      PROVE  CustomerInv' /\ MadeWithReason /\ NoneEnabled
    <2>1. UNCHANGED customers
        BY <1>9 DEF RetireAddress, documents
    <2> QED
        BY <1>9, <2>1, RetireAddressKeeps DEF MadeWithReason
<1>10. CASE CustomerCrash
    <2>1. UNCHANGED <<customers, addressBook>>
        BY <1>10 DEF CustomerCrash, documents
    <2> QED
        BY <1>10, <2>1, CustomerCrashKeeps, NoneEnabledBySame DEF MadeWithReason
<1> QED
    BY <1>1, <1>2, <1>3, <1>4, <1>5, <1>6, <1>7, <1>8, <1>9, <1>10
       DEF CustomersNext, CustomerStep

LEMMA CustomerInvHolds == CustomersSpec => []CustomerInv
<1>1. CustomerInv /\ [CustomersNext]_customerVars => CustomerInv'
    BY CustomersNextHolds
<1> QED
    BY <1>1, CustomersInitHolds, PTL DEF CustomersSpec

\* For any pushes at once, refusals, lost answers, deletions and restarts: pushCustomerDoc
\* and ensureCustomerForOrder make a second Customer for an email only where a search was
\* not answered, a link led to a document that is gone, or another push made one in between.
THEOREM SecondHasReason == CustomersSpec => SecondNeedsReason
<1>1. CustomerInv /\ [CustomersNext]_customerVars =>
          [customers' # customers /\ living # {} =>
             \E w \in CustomerPushers : push[w].pc = "write" /\ push'[w] # push[w] /\ push[w].blind
          ]_customerVars
    BY CustomersNextHolds DEF MadeWithReason
<1> QED
    BY <1>1, CustomerInvHolds, PTL DEF CustomersSpec, SecondNeedsReason

\* Under the same: an Address that addressRemoved disabled is not enabled by syncAddress.
THEOREM RetiredStaysOffHolds == CustomersSpec => RetiredStaysOff
<1>1. CustomerInv /\ [CustomersNext]_customerVars =>
          [\A d \in DOMAIN addrDocs : ~addrDocs[d] => ~addrDocs'[d]]_customerVars
    BY CustomersNextHolds DEF NoneEnabled
<1> QED
    BY <1>1, CustomerInvHolds, PTL DEF CustomersSpec, RetiredStaysOff

-----------------------------------------------------------------------------
(* Customers: what its variables hold *)

\* A push works with a Customer there was, or with an Address there is.
DocIs(p, made, filed) ==
    IF p.pc = "linkAddress" THEN p.doc \in 1..filed ELSE p.doc \in 0..made

OrderIs(o, made) == o \in [by: Askers, state: {"none", "waits", "has"}, doc: 0..made]
LinksAre(made) == [doc: 1..made, who: Askers]

\* No link, no push and no order names a document that was never made.
DocsAreKnown ==
    /\ living \subseteq 1..customers
    /\ custLinks \subseteq LinksAre(customers)
    /\ addrLinks \subseteq 1..Len(addrDocs)
    /\ \A w \in CustomerPushers : DocIs(push[w], customers, Len(addrDocs))
    /\ OrderIs(order, customers)

PersonIsTyped ==
    /\ approved \in BOOLEAN /\ saves \in BOOLEAN
    /\ address \in {"none", "kept", "deleted"} /\ removal \in {"none", "due", "done"}
    /\ failedSave \in {"none", "listed", "bare"}
    /\ custFaults \in 0..MaxCustomerFaults

LEMMA DocStays ==
    ASSUME NEW p, NEW m \in Nat, NEW n \in Nat, NEW m2 \in Nat, NEW n2 \in Nat,
           m <= m2, n <= n2, DocIs(p, m, n)
    PROVE  DocIs(p, m2, n2)
BY DEF DocIs

LEMMA NoPushKnows == ASSUME NEW m \in Nat, NEW n \in Nat PROVE DocIs(NoCustomerPush, m, n)
BY DEF DocIs, NoCustomerPush

LEMMA OrderStays ==
    ASSUME NEW o, NEW m \in Nat, NEW m2 \in Nat, m <= m2, OrderIs(o, m) PROVE OrderIs(o, m2)
BY DEF OrderIs

LEMMA LinksStay ==
    ASSUME NEW m \in Nat, NEW m2 \in Nat, m <= m2 PROVE LinksAre(m) \subseteq LinksAre(m2)
BY DEF LinksAre

LEMMA KnownIsLinked == ASSUME DocsAreKnown, NEW d \in Known PROVE d \in 1..customers
BY DEF DocsAreKnown, Known, LinksAre

LEMMA OrderHas ==
    ASSUME DocsAreKnown, NEW d \in 1..customers, OrderGets(d) PROVE OrderIs(order', customers)
<1>1. PICK o : o = order
    OBVIOUS
<1>2. o \in [by: Askers, state: {"none", "waits", "has"}, doc: 0..customers]
    BY <1>1 DEF DocsAreKnown, OrderIs
<1>3. order' = [o EXCEPT !.state = "has", !.doc = d] /\ d \in 0..customers
    BY <1>1 DEF OrderGets
<1> QED
    BY <1>2, <1>3 DEF OrderIs

LEMMA OrderTakesKnown ==
    ASSUME DocsAreKnown, NEW d \in Known, OrderGets(d) PROVE OrderIs(order', customers)
BY KnownIsLinked, OrderHas

LEMMA AddressesCounted == ASSUME CustomerInv PROVE Len(addrDocs) \in Nat
<1>1. PICK s \in Seq(BOOLEAN) : s = addrDocs
    BY DEF CustomerInv, CustomerShapes, AddressShapes
<1> QED
    BY <1>1

\* A step of one push, which may add a Customer or an Address.
LEMMA DocsMove ==
    ASSUME CustomerInv, DocsAreKnown, NEW w \in CustomerPushers, NEW p,
           \A v \in CustomerPushers : IF v = w THEN push'[v] = p
                                      ELSE push'[v].pc = push[v].pc /\ push'[v].doc = push[v].doc,
           customers' \in Nat, customers <= customers', living' \subseteq 1..customers',
           custLinks' \subseteq LinksAre(customers'),
           Len(addrDocs') \in Nat, Len(addrDocs) <= Len(addrDocs'),
           addrLinks' \subseteq 1..Len(addrDocs'),
           DocIs(p, customers', Len(addrDocs')), OrderIs(order', customers')
    PROVE  DocsAreKnown'
<1>1. Len(addrDocs) \in Nat /\ customers \in Nat
    BY AddressesCounted DEF CustomerInv, CustomerShapes
<1>2. ASSUME NEW v \in CustomerPushers PROVE DocIs(push'[v], customers', Len(addrDocs'))
    <2>1. CASE v = w
        BY <2>1
    <2>2. CASE v # w
        <3>1. DocIs(push[v], customers', Len(addrDocs'))
            BY <1>1, DocStays DEF DocsAreKnown
        <3> QED
            BY <2>2, <3>1 DEF DocIs
    <2> QED
        BY <2>1, <2>2
<1> QED
    BY <1>2 DEF DocsAreKnown

\* A step of one push that leaves the Customers and the Addresses as they are.
LEMMA PushKnows ==
    ASSUME CustomerInv, DocsAreKnown, NEW w \in CustomerPushers, NEW p,
           push' = [push EXCEPT ![w] = p], UNCHANGED <<documents, addressBook>>,
           DocIs(p, customers, Len(addrDocs)), OrderIs(order', customers)
    PROVE  DocsAreKnown'
<1>1. \A v \in CustomerPushers : IF v = w THEN push'[v] = p
                                 ELSE push'[v].pc = push[v].pc /\ push'[v].doc = push[v].doc
    BY DEF CustomerInv, CustomerShapes
<1>2. UNCHANGED <<living, customers, custLinks, addrDocs, addrLinks>> /\ customers \in Nat
      /\ Len(addrDocs) \in Nat
    BY AddressesCounted DEF documents, addressBook, CustomerInv, CustomerShapes
<1>3. /\ living \subseteq 1..customers /\ custLinks \subseteq LinksAre(customers)
      /\ addrLinks \subseteq 1..Len(addrDocs)
    BY DEF DocsAreKnown
<1>4. DocIs(p, customers', Len(addrDocs')) /\ OrderIs(order', customers')
    BY <1>2
<1> QED
    BY <1>1, <1>2, <1>3, <1>4, DocsMove

LEMMA NoPushKnowsMore ==
    ASSUME CustomerInv, DocsAreKnown, UNCHANGED <<push, customers, custLinks, addressBook>>,
           living' \subseteq living, OrderIs(order', customers)
    PROVE  DocsAreKnown'
BY DEF DocsAreKnown, addressBook

LEMMA StartsKnow ==
    ASSUME CustomerInv, DocsAreKnown, NEW w \in CustomerPushers,
           HearSave(w) \/ RetrySave(w) \/ Recover(w) \/ StartOrder(w)
    PROVE  DocsAreKnown'
<1>1. UNCHANGED <<documents, addressBook>> /\ customers \in Nat /\ Len(addrDocs) \in Nat
    BY AddressesCounted DEF HearSave, RetrySave, Recover, StartOrder, CustomerInv,
                            CustomerShapes
<1>2. ASSUME UNCHANGED push, OrderIs(order', customers) PROVE DocsAreKnown'
    BY <1>1, <1>2, NoPushKnowsMore DEF documents
<1>3. ASSUME NEW for, Begins(w, for), UNCHANGED order PROVE DocsAreKnown'
    <2> DEFINE p == [NoCustomerPush EXCEPT !.pc = "look", !.for = for,
                                           !.listed = address = "kept"]
    <2>1. push' = [push EXCEPT ![w] = p]
        BY <1>3 DEF Begins
    <2>2. p.pc = "look" /\ p.doc = 0
        BY DEF NoCustomerPush
    <2> HIDE DEF p
    <2>3. DocIs(p, customers, Len(addrDocs)) /\ OrderIs(order', customers)
        BY <1>1, <1>3, <2>2 DEF DocIs, DocsAreKnown
    <2> QED
        BY <1>1, <2>1, <2>3, PushKnows
<1>4. CASE HearSave(w)
    BY <1>2, <1>3, <1>4 DEF HearSave, DocsAreKnown
<1>5. CASE Recover(w)
    BY <1>3, <1>5 DEF Recover
<1>6. CASE StartOrder(w)
    <2>1. ASSUME NEW d \in Known, OrderGets(d) PROVE OrderIs(order', customers)
        BY <2>1, OrderTakesKnown
    <2> QED
        BY <1>2, <1>3, <1>6, <2>1 DEF StartOrder
<1>7. CASE RetrySave(w)
    <2> DEFINE p == [NoCustomerPush EXCEPT !.pc = "look", !.listed = failedSave = "listed"]
    <2>1. push' = [push EXCEPT ![w] = p] /\ UNCHANGED order
        BY <1>7 DEF RetrySave
    <2>2. p.pc = "look" /\ p.doc = 0
        BY DEF NoCustomerPush
    <2> HIDE DEF p
    <2>3. DocIs(p, customers, Len(addrDocs)) /\ OrderIs(order', customers)
        BY <1>1, <2>1, <2>2 DEF DocIs, DocsAreKnown
    <2> QED
        BY <1>1, <2>1, <2>3, PushKnows
<1> QED
    BY <1>4, <1>5, <1>6, <1>7

LEMMA LookUpKnows ==
    ASSUME CustomerInv, DocsAreKnown, NEW w \in CustomerPushers, NEW ans, LookUp(w, ans)
    PROVE  DocsAreKnown'
<1> DEFINE linked == IF Mapped(w) THEN Known ELSE {}
           found == IF linked # {} THEN linked ELSE IF ans = "ok" THEN FoundByEmail ELSE {}
<1>1. UNCHANGED <<documents, addressBook>> /\ customers \in Nat /\ Len(addrDocs) \in Nat
    BY AddressesCounted DEF LookUp, CustomerInv, CustomerShapes
<1>2. found \subseteq 1..customers
    <2>1. Known \subseteq 1..customers /\ living \subseteq 1..customers
        BY KnownIsLinked DEF DocsAreKnown
    <2> QED
        BY <2>1 DEF FoundByEmail
<1>3. \/ (\E d \in found : OrderGets(d)) /\ Ends(w)
      \/ UNCHANGED order /\ \E d \in IF found = {} THEN {0} ELSE found :
            push' = [push EXCEPT ![w].pc = IF d = 0 THEN "write" ELSE "read",
                                 ![w].doc = d, ![w].blind = (found = {} /\ ans # "ok")]
    BY DEF LookUp
<1> HIDE DEF found
<1>4. ASSUME NEW d \in found, OrderGets(d), Ends(w) PROVE DocsAreKnown'
    <2>1. push' = [push EXCEPT ![w] = NoCustomerPush]
        BY <1>4 DEF Ends
    <2>2. OrderIs(order', customers)
        BY <1>2, <1>4, OrderHas
    <2> QED
        BY <1>1, <2>1, <2>2, NoPushKnows, PushKnows
<1>5. ASSUME NEW d \in IF found = {} THEN {0} ELSE found, UNCHANGED order,
             push' = [push EXCEPT ![w].pc = IF d = 0 THEN "write" ELSE "read",
                                  ![w].doc = d, ![w].blind = (found = {} /\ ans # "ok")]
      PROVE  DocsAreKnown'
    <2> DEFINE pc == IF d = 0 THEN "write" ELSE "read"
               blind == (found = {} /\ ans # "ok")
    <2>1. /\ pc \in {"write", "read"}
          /\ push' = [push EXCEPT ![w].pc = pc, ![w].doc = d, ![w].blind = blind]
        BY <1>5
    <2> HIDE DEF pc, blind
    <2>2. d \in 0..customers
        BY <1>1, <1>2
    <2> DEFINE p == [push[w] EXCEPT !.pc = pc, !.doc = d, !.blind = blind]
    <2>3. push[w] \in CustomerPushes /\ push \in [CustomerPushers -> CustomerPushes]
        BY DEF CustomerInv, CustomerShapes
    <2>4. push' = [push EXCEPT ![w] = p]
        BY <2>1, <2>3
    <2>5. p.pc = pc /\ p.doc = d
        BY <2>3 DEF CustomerPushes
    <2> HIDE DEF p
    <2>6. DocIs(p, customers, Len(addrDocs)) /\ OrderIs(order', customers)
        BY <1>5, <2>1, <2>2, <2>5 DEF DocIs, DocsAreKnown
    <2> QED
        BY <1>1, <2>4, <2>6, PushKnows
<1> QED
    BY <1>3, <1>4, <1>5

LEMMA ReadCustomerKnows ==
    ASSUME CustomerInv, DocsAreKnown, NEW w \in CustomerPushers, NEW ans, ReadCustomer(w, ans)
    PROVE  DocsAreKnown'
<1> DEFINE d == IF ans = "ok" THEN NoneIfGone(push[w].doc) ELSE push[w].doc
<1>1. UNCHANGED <<documents, addressBook, order>> /\ customers \in Nat /\ Len(addrDocs) \in Nat
      /\ push[w] \in CustomerPushes /\ push \in [CustomerPushers -> CustomerPushes]
      /\ push[w].pc = "read"
    BY AddressesCounted DEF ReadCustomer, CustomerInv, CustomerShapes
<1>2. PICK blind : push' = [push EXCEPT ![w].pc = "write", ![w].doc = d, ![w].blind = blind]
    BY DEF ReadCustomer
<1>3. d \in 0..customers
    BY <1>1 DEF DocsAreKnown, DocIs, NoneIfGone
<1> HIDE DEF d
<1> DEFINE p == [push[w] EXCEPT !.pc = "write", !.doc = d, !.blind = blind]
<1>4. push' = [push EXCEPT ![w] = p]
    BY <1>1, <1>2
<1>5. p.pc = "write" /\ p.doc = d
    BY <1>1 DEF CustomerPushes
<1> HIDE DEF p
<1>6. DocIs(p, customers, Len(addrDocs)) /\ OrderIs(order', customers)
    BY <1>1, <1>3, <1>5 DEF DocIs, DocsAreKnown
<1> QED
    BY <1>1, <1>4, <1>6, PushKnows

LEMMA WriteCustomerKnows ==
    ASSUME CustomerInv, DocsAreKnown, NEW w \in CustomerPushers, NEW ans, WriteCustomer(w, ans)
    PROVE  DocsAreKnown'
<1> DEFINE new == push[w].doc = 0
           taken == ans # "refused" /\ (new \/ push[w].doc \in living)
           doc == IF new THEN customers' ELSE push[w].doc
           p == IF taken /\ ans = "ok" THEN [push[w] EXCEPT !.pc = "link", !.doc = doc]
                ELSE NoCustomerPush
           q(v) == [push[v] EXCEPT !.blind = @ \/ (taken /\ new /\ v \in Outdated(w))]
<1>1. /\ UNCHANGED <<custLinks, addrDocs, addrLinks, order>> /\ push[w].pc = "write"
      /\ push \in [CustomerPushers -> CustomerPushes] /\ customers \in Nat
      /\ Len(addrDocs) \in Nat /\ push[w] \in CustomerPushes
    BY AddressesCounted DEF WriteCustomer, addressBook, CustomerInv, CustomerShapes
<1>2. /\ \/ taken /\ new /\ customers' = customers + 1 /\ living' = living \cup {customers'}
         \/ ~(taken /\ new) /\ UNCHANGED <<customers, living>>
      /\ push' = [v \in CustomerPushers |-> IF v = w THEN p ELSE q(v)]
    BY DEF WriteCustomer
<1>3. push[w].doc \in 0..customers
    BY <1>1 DEF DocsAreKnown, DocIs
<1>4. doc \in 0..customers' /\ customers' \in Nat /\ customers <= customers'
    BY <1>1, <1>2, <1>3
<1>5. living' \subseteq 1..customers'
    BY <1>1, <1>2 DEF DocsAreKnown
<1> HIDE DEF doc
<1>6. DocIs(p, customers', Len(addrDocs'))
    <2>1. CASE taken /\ ans = "ok"
        <3>1. p.pc = "link" /\ p.doc = doc
            BY <1>1, <2>1 DEF CustomerPushes
        <3> HIDE DEF p
        <3> QED
            BY <1>4, <3>1 DEF DocIs
    <2>2. CASE ~(taken /\ ans = "ok")
        BY <1>1, <1>4, <2>2, NoPushKnows
    <2> QED
        BY <2>1, <2>2
<1>7. \A v \in CustomerPushers : q(v).pc = push[v].pc /\ q(v).doc = push[v].doc
    <2> SUFFICES ASSUME NEW v \in CustomerPushers
                 PROVE  q(v).pc = push[v].pc /\ q(v).doc = push[v].doc
        OBVIOUS
    <2>1. PICK b : q(v) = [push[v] EXCEPT !.blind = b]
        OBVIOUS
    <2>2. push[v] \in CustomerPushes
        BY <1>1
    <2> HIDE DEF q
    <2> QED
        BY <2>1, <2>2 DEF CustomerPushes
<1> HIDE DEF p, q
<1>8. \A v \in CustomerPushers : IF v = w THEN push'[v] = p
                                 ELSE push'[v].pc = push[v].pc /\ push'[v].doc = push[v].doc
    BY <1>2, <1>7
<1>9. custLinks' \subseteq LinksAre(customers') /\ addrLinks' \subseteq 1..Len(addrDocs')
      /\ OrderIs(order', customers')
    BY <1>1, <1>4, LinksStay, OrderStays DEF DocsAreKnown
<1> QED
    BY <1>1, <1>4, <1>5, <1>6, <1>8, <1>9, DocsMove

LEMMA LinkCustomerKnows ==
    ASSUME CustomerInv, DocsAreKnown, NEW w \in CustomerPushers, LinkCustomer(w)
    PROVE  DocsAreKnown'
<1> DEFINE who == IF Mapped(w) THEN "customer" ELSE order.by
<1>1. /\ UNCHANGED <<living, customers, addrDocs, addrLinks>> /\ push[w].pc = "link"
      /\ push \in [CustomerPushers -> CustomerPushes] /\ push[w] \in CustomerPushes
      /\ customers \in Nat /\ Len(addrDocs) \in Nat
    BY AddressesCounted DEF LinkCustomer, addressBook, CustomerInv, CustomerShapes
<1>2. custLinks' = {l \in custLinks : l.doc # push[w].doc}
                      \cup {[doc |-> push[w].doc, who |-> who]}
    BY DEF LinkCustomer
<1>3. push[w].doc \in 1..customers
    BY <1>1 DEF CustomerInv, MakesNoSecond, DocsAreKnown, DocIs
<1>4. who \in Askers
    BY DEF DocsAreKnown, OrderIs, Askers
<1> HIDE DEF who
<1>5. custLinks' \subseteq LinksAre(customers)
    BY <1>2, <1>3, <1>4 DEF DocsAreKnown, LinksAre
<1>6. PICK p : /\ push' = [push EXCEPT ![w] = p] /\ p.pc # "linkAddress"
               /\ p.doc \in 0..customers
    <2>1. CASE Ends(w)
        <3>1. NoCustomerPush.pc # "linkAddress" /\ NoCustomerPush.doc \in 0..customers
            BY <1>1 DEF NoCustomerPush
        <3> QED
            BY <2>1, <3>1 DEF Ends
    <2>2. CASE push' = [push EXCEPT ![w].pc = "address"]
        <3> DEFINE p == [push[w] EXCEPT !.pc = "address"]
        <3>1. push' = [push EXCEPT ![w] = p]
            BY <1>1, <2>2
        <3>2. p.pc = "address" /\ p.doc = push[w].doc
            BY <1>1 DEF CustomerPushes
        <3>3. p.pc # "linkAddress" /\ p.doc \in 0..customers
            BY <1>3, <3>2
        <3> HIDE DEF p
        <3> QED
            BY <3>1, <3>3
    <2> QED
        BY <2>1, <2>2 DEF LinkCustomer
<1>7. OrderIs(order', customers)
    <2>1. UNCHANGED order \/ OrderGets(push[w].doc)
        BY DEF LinkCustomer
    <2> QED
        BY <1>3, <2>1, OrderHas DEF DocsAreKnown
<1>8. \A v \in CustomerPushers : IF v = w THEN push'[v] = p
                                 ELSE push'[v].pc = push[v].pc /\ push'[v].doc = push[v].doc
    BY <1>1, <1>6
<1>9. DocIs(p, customers, Len(addrDocs)) /\ living \subseteq 1..customers
      /\ addrLinks \subseteq 1..Len(addrDocs)
    BY <1>6 DEF DocIs, DocsAreKnown
<1> QED
    BY <1>1, <1>5, <1>7, <1>8, <1>9, DocsMove

LEMMA SucceedsKnows ==
    ASSUME CustomerInv, DocsAreKnown, NEW w \in CustomerPushers, Succeeds(w)
    PROVE  OrderIs(order', customers) /\ push' = [push EXCEPT ![w] = NoCustomerPush]
<1>1. UNCHANGED order \/ \E d \in Known : OrderGets(d)
    BY DEF Succeeds
<1> QED
    BY <1>1, OrderTakesKnown DEF Succeeds, Ends, DocsAreKnown

LEMMA SyncAddressKnows ==
    ASSUME CustomerInv, DocsAreKnown, NEW w \in CustomerPushers, NEW ans, SyncAddress(w, ans)
    PROVE  DocsAreKnown'
<1>1. /\ UNCHANGED <<living, customers, custLinks, addrLinks>>
      /\ push \in [CustomerPushers -> CustomerPushes] /\ push[w] \in CustomerPushes
      /\ customers \in Nat /\ Len(addrDocs) \in Nat /\ addrDocs \in Seq(BOOLEAN)
    BY AddressesCounted DEF SyncAddress, documents, CustomerInv, CustomerShapes, AddressShapes
<1>2. \/ UNCHANGED addrDocs /\ Len(addrDocs') = Len(addrDocs)
      \/ addrLinks = {} /\ Len(addrDocs') = Len(addrDocs) + 1
    <2>1. UNCHANGED addrDocs \/ (addrLinks = {} /\ addrDocs' = Append(addrDocs, TRUE))
        <3>1. PICK e \in IF addrLinks = {} THEN {0} ELSE addrLinks :
                 \/ UNCHANGED addrDocs
                 \/ e = 0 /\ addrDocs' = Append(addrDocs, TRUE)
            BY DEF SyncAddress, Rewritten
        <3>2. e = 0 => addrLinks = {}
            BY <1>1 DEF DocsAreKnown
        <3> QED
            BY <3>1, <3>2
    <2>2. Len(Append(addrDocs, TRUE)) = Len(addrDocs) + 1
        <3>1. PICK s \in Seq(BOOLEAN) : s = addrDocs
            BY <1>1
        <3> QED
            BY <3>1, AppendProperties
    <2> QED
        BY <2>1, <2>2
<1>3. PICK p : /\ push' = [push EXCEPT ![w] = p]
               /\ DocIs(p, customers', Len(addrDocs')) /\ OrderIs(order', customers')
    <2>1. CASE Succeeds(w)
        BY <1>1, <1>2, <2>1, SucceedsKnows, NoPushKnows
    <2>2. CASE ~Succeeds(w)
        <3>1. PICK e \in IF addrLinks = {} THEN {0} ELSE addrLinks :
                 /\ push' = [push EXCEPT ![w].pc = "linkAddress",
                                         ![w].doc = IF e = 0 THEN Len(addrDocs') ELSE e]
                 /\ UNCHANGED order
                 /\ addrDocs' = IF ans = "refused" THEN addrDocs
                                ELSE IF e = 0 THEN Append(addrDocs, TRUE) ELSE Rewritten(e)
                 /\ ans = "ok"
            BY <2>2 DEF SyncAddress
        <3> DEFINE d == IF e = 0 THEN Len(addrDocs') ELSE e
        <3>2. d \in 1..Len(addrDocs')
            <4>1. CASE e = 0
                <5>1. addrDocs' = Append(addrDocs, TRUE)
                    BY <3>1, <4>1
                <5>2. PICK s \in Seq(BOOLEAN) : s = addrDocs
                    BY <1>1
                <5>3. Len(addrDocs') = Len(addrDocs) + 1
                    BY <5>1, <5>2, AppendProperties
                <5> QED
                    BY <1>1, <4>1, <5>3
            <4>2. CASE e # 0
                BY <1>1, <1>2, <3>1, <4>2 DEF DocsAreKnown
            <4> QED
                BY <4>1, <4>2
        <3>3. push' = [push EXCEPT ![w].pc = "linkAddress", ![w].doc = d]
            BY <3>1
        <3> HIDE DEF d
        <3> DEFINE p == [push[w] EXCEPT !.pc = "linkAddress", !.doc = d]
        <3>4. push' = [push EXCEPT ![w] = p]
            BY <1>1, <3>3
        <3>5. p.pc = "linkAddress" /\ p.doc = d
            BY <1>1 DEF CustomerPushes
        <3> HIDE DEF p
        <3>6. DocIs(p, customers', Len(addrDocs')) /\ OrderIs(order', customers')
            BY <1>1, <3>1, <3>2, <3>5 DEF DocIs, DocsAreKnown
        <3> QED
            BY <3>4, <3>6
    <2> QED
        BY <2>1, <2>2
<1>4. \A v \in CustomerPushers : IF v = w THEN push'[v] = p
                                 ELSE push'[v].pc = push[v].pc /\ push'[v].doc = push[v].doc
    BY <1>1, <1>3
<1>5. living' \subseteq 1..customers' /\ custLinks' \subseteq LinksAre(customers')
      /\ addrLinks' \subseteq 1..Len(addrDocs') /\ customers' \in Nat /\ customers <= customers'
      /\ Len(addrDocs') \in Nat /\ Len(addrDocs) <= Len(addrDocs')
    BY <1>1, <1>2 DEF DocsAreKnown
<1> QED
    BY <1>3, <1>4, <1>5, DocsMove

LEMMA LinkAddressKnows ==
    ASSUME CustomerInv, DocsAreKnown, NEW w \in CustomerPushers, LinkAddress(w)
    PROVE  DocsAreKnown'
<1>1. /\ UNCHANGED <<living, customers, custLinks, addrDocs>> /\ customers \in Nat
      /\ addrLinks' = addrLinks \cup {push[w].doc} /\ Len(addrDocs) \in Nat
      /\ push \in [CustomerPushers -> CustomerPushes] /\ push[w].pc = "linkAddress"
    BY AddressesCounted DEF LinkAddress, documents, CustomerInv, CustomerShapes
<1>2. push' = [push EXCEPT ![w] = NoCustomerPush] /\ OrderIs(order', customers)
    BY SucceedsKnows DEF LinkAddress
<1>3. \A v \in CustomerPushers : IF v = w THEN push'[v] = NoCustomerPush
                                 ELSE push'[v].pc = push[v].pc /\ push'[v].doc = push[v].doc
    BY <1>1, <1>2
<1>4. push[w].doc \in 1..Len(addrDocs)
    BY <1>1 DEF DocsAreKnown, DocIs
<1>5. living \subseteq 1..customers /\ custLinks \subseteq LinksAre(customers)
      /\ addrLinks' \subseteq 1..Len(addrDocs)
    BY <1>1, <1>4 DEF DocsAreKnown
<1>6. DocIs(NoCustomerPush, customers', Len(addrDocs')) /\ OrderIs(order', customers')
    BY <1>1, <1>2, NoPushKnows
<1> QED
    BY <1>1, <1>3, <1>5, <1>6, DocsMove

LEMMA RetireAddressKnows ==
    ASSUME CustomerInv, DocsAreKnown, NEW ans, RetireAddress(ans) PROVE DocsAreKnown'
<1>1. UNCHANGED <<living, customers, custLinks, addrLinks, order, push>>
      /\ addrDocs \in Seq(BOOLEAN)
    BY DEF RetireAddress, documents, CustomerInv, CustomerShapes, AddressShapes
<1>2. Len(addrDocs') = Len(addrDocs)
    <2>1. PICK s \in Seq(BOOLEAN) : s = addrDocs
        BY <1>1
    <2>2. \A d : Len([s EXCEPT ![d] = FALSE]) = Len(s)
        BY ExceptSeq
    <2> QED
        BY <2>1, <2>2 DEF RetireAddress
<1> QED
    BY <1>1, <1>2 DEF DocsAreKnown

LEMMA CustomerCrashKnows ==
    ASSUME CustomerInv, DocsAreKnown, CustomerCrash PROVE DocsAreKnown'
<1>1. push' = [w \in CustomerPushers |-> NoCustomerPush] /\ customers \in Nat
      /\ UNCHANGED <<living, customers, custLinks, addrDocs, addrLinks, order>>
      /\ Len(addrDocs) \in Nat
    BY AddressesCounted DEF CustomerCrash, documents, addressBook, CustomerInv, CustomerShapes
<1>2. \A w \in CustomerPushers : DocIs(push'[w], customers, Len(addrDocs))
    BY <1>1, NoPushKnows
<1> QED
    BY <1>1, <1>2 DEF DocsAreKnown

LEMMA DocsStayKnown ==
    ASSUME CustomerInv, DocsAreKnown, [CustomersNext]_customerVars PROVE DocsAreKnown'
<1>1. CASE Approve \/ KeepAddress \/ DropAddress \/ UNCHANGED customerVars
    BY <1>1 DEF Approve, KeepAddress, DropAddress, customerVars, documents, addressBook,
                DocsAreKnown
<1>2. CASE PlaceOrder
    <2>1. OrderIs(order', customers)
        BY <1>2 DEF PlaceOrder, DocsAreKnown, OrderIs
    <2> QED
        BY <1>2, <2>1 DEF PlaceOrder, documents, addressBook, DocsAreKnown
<1>3. ASSUME NEW d \in living, StaffDelete(d) PROVE DocsAreKnown'
    BY <1>3 DEF StaffDelete, addressBook, DocsAreKnown
<1>4. ASSUME NEW w \in CustomerPushers,
             HearSave(w) \/ RetrySave(w) \/ Recover(w) \/ StartOrder(w)
      PROVE  DocsAreKnown'
    BY <1>4, StartsKnow
<1>5. ASSUME NEW w \in CustomerPushers, CustomerStep(w) PROVE DocsAreKnown'
    BY <1>5, LookUpKnows, ReadCustomerKnows, WriteCustomerKnows, LinkCustomerKnows,
       LinkAddressKnows, SyncAddressKnows DEF CustomerStep
<1>6. ASSUME NEW ans, RetireAddress(ans) PROVE DocsAreKnown'
    BY <1>6, RetireAddressKnows
<1>7. CASE CustomerCrash
    BY <1>7, CustomerCrashKnows
<1> QED
    BY <1>1, <1>2, <1>3, <1>4, <1>5, <1>6, <1>7 DEF CustomersNext

-----------------------------------------------------------------------------
(* The person *)

LEMMA FaultsCounted ==
    ASSUME custFaults \in 0..MaxCustomerFaults, [CustomersNext]_customerVars
    PROVE  custFaults' \in 0..MaxCustomerFaults
<1>1. \/ UNCHANGED custFaults
      \/ custFaults < MaxCustomerFaults /\ custFaults' = custFaults + 1
    <2>1. ASSUME NEW ans, AnsweredBy(ans)
          PROVE  \/ UNCHANGED custFaults
                 \/ custFaults < MaxCustomerFaults /\ custFaults' = custFaults + 1
        BY <2>1 DEF AnsweredBy, CustomerReply
    <2>2. ASSUME NEW w, CustomerStep(w)
          PROVE  \/ UNCHANGED custFaults
                 \/ custFaults < MaxCustomerFaults /\ custFaults' = custFaults + 1
        BY <2>1, <2>2 DEF CustomerStep, LookUp, ReadCustomer, WriteCustomer, SyncAddress,
                          LinkCustomer, LinkAddress
    <2> QED
        BY <2>1, <2>2 DEF CustomersNext, customerVars, Approve, KeepAddress, DropAddress,
            PlaceOrder, StaffDelete, HearSave, RetrySave, Recover, StartOrder, RetireAddress,
            CustomerCrash
<1> QED
    BY <1>1, CustomerFaultsAreBounded

LEMMA SaveIsKept ==
    ASSUME PersonIsTyped, [CustomersNext]_customerVars
    PROVE  failedSave' \in {"none", "listed", "bare"}
<1>1. ASSUME NEW w, KeepForRetry(w) PROVE failedSave' \in {"none", "listed", "bare"}
    BY <1>1 DEF KeepForRetry, PersonIsTyped
<1>2. ASSUME NEW w, CustomerStep(w) PROVE failedSave' \in {"none", "listed", "bare"}
    BY <1>1, <1>2 DEF CustomerStep, LookUp, ReadCustomer, WriteCustomer, SyncAddress,
                      LinkCustomer, LinkAddress, PersonIsTyped
<1>3. CASE CustomerCrash
    BY <1>1, <1>3 DEF CustomerCrash, PersonIsTyped
<1> QED
    BY <1>2, <1>3 DEF CustomersNext, customerVars, Approve, KeepAddress, DropAddress,
        PlaceOrder, StaffDelete, HearSave, RetrySave, Recover, StartOrder, RetireAddress,
        PersonIsTyped

LEMMA PersonStaysTyped ==
    ASSUME PersonIsTyped, [CustomersNext]_customerVars PROVE PersonIsTyped'
<1>1. failedSave' \in {"none", "listed", "bare"} /\ custFaults' \in 0..MaxCustomerFaults
    BY FaultsCounted, SaveIsKept DEF PersonIsTyped
<1>2. CASE UNCHANGED <<approved, saves, address, removal>>
    BY <1>1, <1>2 DEF PersonIsTyped
<1>3. CASE Approve \/ KeepAddress \/ DropAddress \/ CustomerCrash
    BY <1>1, <1>3 DEF Approve, KeepAddress, DropAddress, CustomerCrash, PersonIsTyped
<1>4. ASSUME NEW w, HearSave(w) PROVE PersonIsTyped'
    BY <1>1, <1>4 DEF HearSave, person, PersonIsTyped
<1>5. ASSUME NEW ans, RetireAddress(ans) PROVE PersonIsTyped'
    BY <1>1, <1>5 DEF RetireAddress, PersonIsTyped
<1>6. ASSUME NEW w, RetrySave(w) \/ Recover(w) \/ StartOrder(w) \/ CustomerStep(w)
      PROVE  UNCHANGED <<approved, saves, address, removal>>
    BY <1>6 DEF RetrySave, Recover, StartOrder, CustomerStep, LookUp, ReadCustomer,
                WriteCustomer, SyncAddress, LinkCustomer, LinkAddress, person
<1>7. ASSUME NEW d, StaffDelete(d) PROVE UNCHANGED <<approved, saves, address, removal>>
    BY <1>7 DEF StaffDelete, person
<1>8. CASE PlaceOrder \/ UNCHANGED customerVars
    BY <1>2, <1>8 DEF PlaceOrder, customerVars, person
<1> QED
    BY <1>2, <1>3, <1>4, <1>5, <1>6, <1>7, <1>8 DEF CustomersNext

\* The variables of Customers hold what they are said to hold: links, pushes and orders
\* name only documents that were made.
LEMMA CustomerIsTyped == CustomersSpec => []CustomerTypes
<1>1. CustomersInit => DocsAreKnown /\ PersonIsTyped
    <2> SUFFICES ASSUME CustomersInit PROVE DocsAreKnown /\ PersonIsTyped
        OBVIOUS
    <2>1. Len(addrDocs) = 0 /\ customers = 0
        BY DEF CustomersInit
    <2>2. \A w \in CustomerPushers : DocIs(push[w], customers, Len(addrDocs))
        BY <2>1, NoPushKnows DEF CustomersInit
    <2>3. OrderIs(order, customers)
        BY <2>1 DEF CustomersInit, OrderIs, Askers
    <2>4. PersonIsTyped
        BY CustomerFaultsAreBounded DEF CustomersInit, PersonIsTyped
    <2> QED
        BY <2>2, <2>3, <2>4 DEF CustomersInit, DocsAreKnown
<1>2. CustomerInv /\ DocsAreKnown /\ [CustomersNext]_customerVars => DocsAreKnown'
    BY DocsStayKnown
<1>3. PersonIsTyped /\ [CustomersNext]_customerVars => PersonIsTyped'
    BY PersonStaysTyped
<1>4. CustomerInv /\ DocsAreKnown /\ PersonIsTyped => CustomerTypes
    <2> SUFFICES ASSUME CustomerInv, DocsAreKnown, PersonIsTyped PROVE CustomerTypes
        OBVIOUS
    <2>1. DOMAIN addrDocs = 1..Len(addrDocs)
        <3>1. PICK s \in Seq(BOOLEAN) : s = addrDocs
            BY DEF CustomerInv, CustomerShapes, AddressShapes
        <3> QED
            BY <3>1
    <2>2. push \in [CustomerPushers ->
                    [pc: {"off", "look", "read", "write", "link", "address", "linkAddress"},
                     for: {"save", "order", "orderOnly"}, doc: Nat,
                     listed: BOOLEAN, blind: BOOLEAN]]
        BY DEF CustomerInv, CustomerShapes, CustomerPushes
    <2>3. order \in [by: Askers, state: {"none", "waits", "has"}, doc: 0..customers]
        BY DEF DocsAreKnown, OrderIs
    <2> QED
        BY <2>1, <2>2, <2>3 DEF CustomerInv, CustomerShapes, AddressShapes, DocsAreKnown, LinksAre,
            PersonIsTyped, CustomerTypes
<1> QED
    BY <1>1, <1>2, <1>3, <1>4, CustomersInitHolds, CustomersNextHolds, PTL DEF CustomersSpec

-----------------------------------------------------------------------------
(* InvoiceCopies: the inductive invariant *)

Rows == {"none", "draft", "submitted", "cancelled", "deleted"}
CopyRows == [st : Rows, pdf : BOOLEAN]
NewsRows == {"none", "due", "failed", "done", "passed over"}
HearerStates == [pc : {"off", "save", "fetch"}, with : Events \cup {"none"}]
HourlyStates == [pc : {"off", "write", "fetch"}, with : Rows]

CopyShapes ==
    /\ inStep \in BOOLEAN
    /\ invoice \in Rows /\ copy \in CopyRows
    /\ news \in [Events -> NewsRows]
    /\ hearer \in HearerStates /\ hourly \in HourlyStates
    /\ marking \in {"nothing", "submitted", "cancelled"}

Issued == invoice \in {"submitted", "cancelled"}

\* Whoever is about to say "submitted" has it from ERPNext.
SaidOfIssued ==
    /\ copy.st = "submitted" => Issued
    /\ hourly.pc = "write" /\ hourly.with = "submitted" => Issued
    /\ marking # "nothing" => Issued
    /\ \A ev \in Events : news[ev] # "none" => Issued
    /\ news["on_cancel"] # "none" => invoice = "cancelled"

\* What the webhook's handler has in hand is due, and only a submit has a PDF.
InHand ==
    /\ hearer.pc = "save" => hearer.with \in Events /\ news[hearer.with] = "due"
    /\ hearer.pc = "fetch" => hearer.with = "on_submit" /\ Issued

\* Where handlers take turns, nobody is at work beside a cancel's handler.
AloneWithCancel ==
    inStep /\ hearer.pc = "save" /\ hearer.with = "on_cancel" =>
        hourly.pc = "off" /\ marking = "nothing" /\ news["on_submit"] # "due"

\* ... and once the webhook of a cancel is through, nobody is left to say "submitted".
CancelStands ==
    inStep /\ invoice = "cancelled" /\ news["on_cancel"] # "due" =>
        /\ copy.st # "submitted" /\ marking # "submitted" /\ news["on_submit"] # "due"
        /\ ~(hourly.pc = "write" /\ hourly.with = "submitted")
        /\ hearer.pc # "save"

WhoSaysWhat == SaidOfIssued /\ InHand /\ AloneWithCancel /\ CancelStands
CopyInv == CopyShapes /\ WhoSaysWhat

-----------------------------------------------------------------------------
(* What a handler holds, and what it writes. *)

LEMMA Shapes ==
    /\ Waits \in HearerStates /\ Waits \in HourlyStates
    /\ \A ev \in Events : [pc |-> "save", with |-> ev] \in HearerStates
    /\ \A st \in Rows : [pc |-> "write", with |-> st] \in HourlyStates
    /\ \A st \in Rows, pdf \in BOOLEAN : [st |-> st, pdf |-> pdf] \in CopyRows
    /\ \A ev \in Events : StatusOf(ev) \in Rows
BY DEF HearerStates, HourlyStates, CopyRows, Waits, Rows, Events, StatusOf

LEMMA CopyParts ==
    /\ \A c \in CopyRows : c.st \in Rows /\ c.pdf \in BOOLEAN
    /\ \A c \in CopyRows, st \in Rows : [c EXCEPT !.st = st] \in CopyRows
    /\ \A h \in HearerStates : [h EXCEPT !.pc = "fetch"] \in HearerStates
    /\ \A h \in HourlyStates : h.with \in Rows /\ [h EXCEPT !.pc = "fetch"] \in HourlyStates
    /\ \A ok \in Reply : ok \in BOOLEAN
BY DEF HearerStates, HourlyStates, CopyRows, Reply

LEMMA NewsChange ==
    ASSUME CopyShapes, NEW ev \in Events, NEW st \in NewsRows, news' = [news EXCEPT ![ev] = st]
    PROVE  /\ news' \in [Events -> NewsRows]
           /\ news'[ev] = st /\ \A e \in Events \ {ev} : news'[e] = news[e]
BY DEF CopyShapes

LEMMA CopyInvStart == CopyInit => CopyInv
<1> SUFFICES ASSUME CopyInit PROVE CopyInv
  OBVIOUS
<1>1. CopyShapes
  BY Shapes DEF CopyInit, CopyShapes, NoCopy, Rows, NewsRows
<1>2. WhoSaysWhat
  BY DEF CopyInit, WhoSaysWhat, SaidOfIssued, InHand, AloneWithCancel, CancelStands, NoCopy, Waits,
         Events, Issued
<1> QED BY <1>1, <1>2 DEF CopyInv

-----------------------------------------------------------------------------
(* ERPNext, and the storage. *)

LEMMA RaiseKeeps ==
    ASSUME CopyInv, NEW st \in {"none", "draft"}, Raise(st) PROVE CopyInv'
<1>1. CopyShapes'
  BY CopyParts DEF CopyInv, CopyShapes, Raise, Rows
<1>2. copy'.st = st
  BY DEF CopyInv, CopyShapes, CopyRows, Raise
<1>3. WhoSaysWhat'
  BY <1>2 DEF CopyInv, WhoSaysWhat, SaidOfIssued, InHand, AloneWithCancel, CancelStands, Issued, Raise
<1> QED BY <1>1, <1>3 DEF CopyInv

LEMMA SubmitKeeps ==
    ASSUME CopyInv, NEW byPush \in BOOLEAN, Submit(byPush) PROVE CopyInv'
<1>1. news' = [news EXCEPT !["on_submit"] = "due"]
  BY DEF Submit
<1>2. /\ news' \in [Events -> NewsRows] /\ news'["on_cancel"] = news["on_cancel"]
  BY <1>1, NewsChange DEF CopyInv, Events, NewsRows
<1>3. CopyShapes'
  BY <1>2 DEF CopyInv, CopyShapes, Submit, Rows
<1>4. WhoSaysWhat'
  BY <1>2 DEF CopyInv, WhoSaysWhat, SaidOfIssued, InHand, AloneWithCancel, CancelStands, Issued,
              Events, Submit
<1> QED BY <1>3, <1>4 DEF CopyInv

LEMMA WithdrawKeeps ==
    ASSUME CopyInv, NEW byPush \in BOOLEAN, Withdraw(byPush) PROVE CopyInv'
<1>1. CASE invoice = "submitted"
  <2>1. /\ invoice' = "cancelled" /\ news' = [news EXCEPT !["on_cancel"] = "due"]
        /\ UNCHANGED <<inStep, copy, hearer, hourly>>
    BY <1>1 DEF Withdraw
  <2>2. marking' \in {"nothing", "submitted", "cancelled"}
    BY <1>1 DEF Withdraw, CopyInv, CopyShapes
  <2>3. /\ news' \in [Events -> NewsRows] /\ news'["on_cancel"] = "due"
        /\ news'["on_submit"] = news["on_submit"]
    BY <2>1, NewsChange DEF CopyInv, Events, NewsRows
  <2>4. CopyShapes'
    BY <2>1, <2>2, <2>3 DEF CopyInv, CopyShapes, Rows
  <2>5. news["on_cancel"] = "none"
    BY <1>1 DEF CopyInv, WhoSaysWhat, SaidOfIssued
  <2>6. WhoSaysWhat'
    BY <1>1, <2>1, <2>3, <2>5 DEF CopyInv, WhoSaysWhat, SaidOfIssued, InHand, AloneWithCancel,
            CancelStands, Issued, Events
  <2> QED BY <2>4, <2>6 DEF CopyInv
<1>2. CASE invoice # "submitted"
  <2>1. /\ invoice = "draft" /\ invoice' = "deleted"
        /\ UNCHANGED <<inStep, copy, news, hearer, hourly, marking>>
    BY <1>2 DEF Withdraw
  <2>2. CopyShapes'
    BY <2>1 DEF CopyInv, CopyShapes, Rows
  <2>3. WhoSaysWhat'
    BY <2>1 DEF CopyInv, WhoSaysWhat, SaidOfIssued, InHand, AloneWithCancel, CancelStands, Issued
  <2> QED BY <2>2, <2>3 DEF CopyInv
<1> QED BY <1>1, <1>2

\* Steps that move only the file and the count of faults.
LEMMA RestKeeps ==
    ASSUME CopyInv, UNCHANGED <<inStep, invoice, copy, news, hearer, hourly, marking>>
    PROVE  CopyInv'
<1>1. CopyShapes'
  BY DEF CopyInv, CopyShapes
<1>2. WhoSaysWhat'
  BY DEF CopyInv, WhoSaysWhat, SaidOfIssued, InHand, AloneWithCancel, CancelStands, Issued
<1> QED BY <1>1, <1>2 DEF CopyInv

-----------------------------------------------------------------------------
(* The webhook's handler. *)

LEMMA HearingKeeps ==
    ASSUME CopyInv, NEW ev \in Events, HearInvoice(ev) PROVE CopyInv'
<1>1. CopyShapes'
  BY Shapes DEF CopyInv, CopyShapes, HearInvoice
<1>2. WhoSaysWhat'
  BY DEF CopyInv, WhoSaysWhat, SaidOfIssued, InHand, AloneWithCancel, CancelStands, Issued, Events,
         HearInvoice, MyTurn
<1> QED BY <1>1, <1>2 DEF CopyInv

LEMMA SaveKeeps ==
    ASSUME CopyInv, SaveInvoice PROVE CopyInv'
<1>1. hearer.with \in Events /\ news[hearer.with] = "due"
  BY DEF CopyInv, WhoSaysWhat, InHand, SaveInvoice
<1>2. copy' \in CopyRows /\ copy'.st = StatusOf(hearer.with)
  BY <1>1, Shapes, CopyParts DEF CopyInv, CopyShapes, SaveInvoice, CopyRows
<1>3. CASE hearer.with = "on_submit"
  <2>1. /\ copy'.st = "submitted" /\ hearer' = [hearer EXCEPT !.pc = "fetch"]
        /\ UNCHANGED <<inStep, invoice, news, hourly, marking>>
    BY <1>2, <1>3 DEF SaveInvoice, StatusOf
  <2>2. hearer' \in HearerStates /\ hearer'.pc = "fetch" /\ hearer'.with = "on_submit"
    BY <1>3, <2>1, CopyParts DEF CopyInv, CopyShapes, HearerStates
  <2>3. CopyShapes'
    BY <1>2, <2>1, <2>2 DEF CopyInv, CopyShapes
  <2>4. WhoSaysWhat'
    BY <1>1, <1>3, <2>1, <2>2 DEF CopyInv, WhoSaysWhat, SaidOfIssued, InHand, AloneWithCancel,
            CancelStands, Issued, SaveInvoice
  <2> QED BY <2>3, <2>4 DEF CopyInv
<1>4. CASE hearer.with = "on_cancel"
  <2>1. /\ copy'.st = "cancelled" /\ hearer' = Waits
        /\ news' = [news EXCEPT !["on_cancel"] = "done"]
        /\ UNCHANGED <<inStep, invoice, hourly, marking>>
    BY <1>2, <1>4 DEF SaveInvoice, StatusOf, Has
  <2>2. /\ news' \in [Events -> NewsRows] /\ news'["on_cancel"] = "done"
        /\ news'["on_submit"] = news["on_submit"]
    BY <2>1, NewsChange DEF CopyInv, Events, NewsRows
  <2>3. CopyShapes'
    BY <1>2, <2>1, <2>2, Shapes DEF CopyInv, CopyShapes
  <2>4. WhoSaysWhat'
    BY <1>1, <1>4, <2>1, <2>2 DEF CopyInv, WhoSaysWhat, SaidOfIssued, InHand, AloneWithCancel,
            CancelStands, Issued, SaveInvoice, Waits, Events
  <2> QED BY <2>3, <2>4 DEF CopyInv
<1> QED BY <1>1, <1>3, <1>4 DEF Events

LEMMA FetchHeardKeeps ==
    ASSUME CopyInv, NEW ok \in Reply, FetchHeard(ok) PROVE CopyInv'
<1>1. hearer.with = "on_submit" /\ Issued
  BY DEF CopyInv, WhoSaysWhat, InHand, FetchHeard
<1>2. copy' \in CopyRows /\ copy'.st = copy.st
  BY Shapes, CopyParts DEF CopyInv, CopyShapes, FetchHeard, Fetched
<1>3. news' = [news EXCEPT !["on_submit"] = IF ok THEN "done" ELSE "failed"]
  BY <1>1 DEF FetchHeard, Has
<1>4. /\ news' \in [Events -> NewsRows] /\ news'["on_submit"] # "due"
      /\ news'["on_cancel"] = news["on_cancel"]
  BY <1>3, NewsChange DEF CopyInv, Events, NewsRows
<1>5. CopyShapes'
  BY <1>2, <1>4, Shapes DEF CopyInv, CopyShapes, FetchHeard
<1>6. WhoSaysWhat'
  BY <1>1, <1>2, <1>4 DEF CopyInv, WhoSaysWhat, SaidOfIssued, InHand, AloneWithCancel,
          CancelStands, Issued, FetchHeard, Waits, Events
<1> QED BY <1>5, <1>6 DEF CopyInv

LEMMA ReplayKeeps ==
    ASSUME CopyInv, NEW ev \in Events, ReplayInvoice(ev) PROVE CopyInv'
<1>1. news' = [news EXCEPT ![ev] = "passed over"] /\ news[ev] = "failed"
  BY DEF ReplayInvoice, Has
<1>2. /\ news' \in [Events -> NewsRows] /\ news'[ev] = "passed over"
      /\ \A e \in Events \ {ev} : news'[e] = news[e]
  BY <1>1, NewsChange DEF CopyInv, NewsRows
<1>3. CopyShapes'
  BY <1>2 DEF CopyInv, CopyShapes, ReplayInvoice
<1>4. WhoSaysWhat'
  BY <1>1, <1>2 DEF CopyInv, WhoSaysWhat, SaidOfIssued, InHand, AloneWithCancel, CancelStands,
          Issued, ReplayInvoice, Events
<1> QED BY <1>3, <1>4 DEF CopyInv

-----------------------------------------------------------------------------
(* The hourly refresh. *)

LEMMA ReadKeeps ==
    ASSUME CopyInv, NEW ok \in Reply, ReadInvoice(ok) PROVE CopyInv'
<1>1. hourly' \in HourlyStates
  BY Shapes DEF CopyInv, CopyShapes, ReadInvoice
<1>2. hourly'.pc = "write" => hourly'.with = invoice
  BY DEF ReadInvoice, Waits
<1>3. CopyShapes'
  BY <1>1 DEF CopyInv, CopyShapes, ReadInvoice
<1>4. WhoSaysWhat'
  BY <1>2 DEF CopyInv, WhoSaysWhat, SaidOfIssued, InHand, AloneWithCancel, CancelStands, Issued,
          ReadInvoice, MyTurn
<1> QED BY <1>3, <1>4 DEF CopyInv

LEMMA WriteKeeps ==
    ASSUME CopyInv, WriteStatus PROVE CopyInv'
<1>1. copy' \in CopyRows /\ copy'.st = hourly.with
  BY CopyParts DEF CopyInv, CopyShapes, WriteStatus, CopyRows
<1>2. hourly' \in HourlyStates /\ hourly'.pc # "write"
  BY Shapes, CopyParts DEF CopyInv, CopyShapes, WriteStatus, HourlyStates, Waits
<1>3. CopyShapes'
  BY <1>1, <1>2 DEF CopyInv, CopyShapes, WriteStatus
<1>4. WhoSaysWhat'
  BY <1>1, <1>2 DEF CopyInv, WhoSaysWhat, SaidOfIssued, InHand, AloneWithCancel, CancelStands,
          Issued, WriteStatus
<1> QED BY <1>3, <1>4 DEF CopyInv

LEMMA FetchHourlyKeeps ==
    ASSUME CopyInv, NEW ok \in Reply, FetchHourly(ok) PROVE CopyInv'
<1>1. copy' \in CopyRows /\ copy'.st = copy.st
  BY Shapes, CopyParts DEF CopyInv, CopyShapes, FetchHourly, Fetched
<1>2. CopyShapes'
  BY <1>1, Shapes DEF CopyInv, CopyShapes, FetchHourly
<1>3. WhoSaysWhat'
  BY <1>1 DEF CopyInv, WhoSaysWhat, SaidOfIssued, InHand, AloneWithCancel, CancelStands, Issued,
          FetchHourly, Waits
<1> QED BY <1>2, <1>3 DEF CopyInv

-----------------------------------------------------------------------------
(* The push's own mark. *)

LEMMA MarkSubmittedKeeps ==
    ASSUME CopyInv, NEW ok \in Reply, MarkSubmitted(ok) PROVE CopyInv'
<1>1. copy' \in CopyRows /\ copy'.st \in {copy.st, "submitted"}
  <2>1. Marked(ok) \in Rows /\ Marked(ok) \in {copy.st, "submitted"}
    BY CopyParts DEF CopyInv, CopyShapes, Marked, Rows
  <2> QED
    BY <2>1, Shapes, CopyParts DEF CopyInv, CopyShapes, MarkSubmitted, Fetched
<1>2. CopyShapes'
  BY <1>1 DEF CopyInv, CopyShapes, MarkSubmitted, Marks
<1>3. WhoSaysWhat'
  BY <1>1 DEF CopyInv, WhoSaysWhat, SaidOfIssued, InHand, AloneWithCancel, CancelStands, Issued,
          MarkSubmitted, Marks
<1> QED BY <1>2, <1>3 DEF CopyInv

LEMMA MarkCancelledKeeps ==
    ASSUME CopyInv, MarkCancelled PROVE CopyInv'
<1>1. copy' \in CopyRows /\ copy'.st \in {copy.st, "cancelled"}
  BY CopyParts DEF CopyInv, CopyShapes, CopyRows, MarkCancelled, Rows
<1>2. CopyShapes'
  BY <1>1 DEF CopyInv, CopyShapes, MarkCancelled, Marks
<1>3. WhoSaysWhat'
  BY <1>1 DEF CopyInv, WhoSaysWhat, SaidOfIssued, InHand, AloneWithCancel, CancelStands, Issued,
          MarkCancelled, Marks
<1> QED BY <1>2, <1>3 DEF CopyInv

-----------------------------------------------------------------------------
LEMMA CopyKept == CopyInv /\ [CopyNext]_copyVars => CopyInv'
<1> SUFFICES ASSUME CopyInv, [CopyNext]_copyVars PROVE CopyInv'
  OBVIOUS
<1>1. CASE UNCHANGED copyVars
  BY <1>1, RestKeeps DEF copyVars
<1>2. ASSUME NEW st \in {"none", "draft"}, Raise(st) PROVE CopyInv'
  BY <1>2, RaiseKeeps
<1>3. ASSUME NEW byPush \in BOOLEAN, Submit(byPush) \/ Withdraw(byPush) PROVE CopyInv'
  BY <1>3, SubmitKeeps, WithdrawKeeps
<1>4. CASE FileLost
  BY <1>4, RestKeeps DEF FileLost
<1>5. CASE HearerStep
  BY <1>5, HearingKeeps, ReplayKeeps, SaveKeeps, FetchHeardKeeps DEF HearerStep
<1>6. CASE HourlyStep
  BY <1>6, ReadKeeps, WriteKeeps, FetchHourlyKeeps DEF HourlyStep
<1>7. CASE MarkStep
  BY <1>7, MarkSubmittedKeeps, MarkCancelledKeeps DEF MarkStep
<1>8. ASSUME NEW ok \in Reply, OpenInvoice(ok) PROVE CopyInv'
  BY <1>8, RestKeeps DEF OpenInvoice
<1> QED
  BY <1>1, <1>2, <1>3, <1>4, <1>5, <1>6, <1>7, <1>8 DEF CopyNext, OpenStep

LEMMA CopyHolds == CopySpec => []CopyInv
BY CopyInvStart, CopyKept, PTL DEF CopySpec

\* The customer is never offered a draft, and where handlers take turns and every
\* webhook is through, no cancelled invoice either (applySalesInvoiceEvent,
\* refreshInvoicePdfs, markInvoiceSubmitted, markInvoiceCancelled).
THEOREM OfferedIsIssuedHolds == CopySpec => []OfferedIsIssued
<1>1. CopyInv => OfferedIsIssued
  BY DEF CopyInv, WhoSaysWhat, SaidOfIssued, CancelStands, Issued, OfferedIsIssued, Offered, AtRest,
         Events, CopyShapes, Rows
<1> QED BY <1>1, CopyHolds, PTL

-----------------------------------------------------------------------------
(* InvoiceCopies: the rest of its types. *)

FilesCounted == stored \in BOOLEAN /\ copyFaults \in 0..MaxCopyFaults

\* A bounded count goes up by one.
LEMMA OneMoreFault ==
    ASSUME NEW max \in Nat, NEW n \in 0..max, n < max
    PROVE  n + 1 \in 0..max /\ 0 \in 0..max
OBVIOUS

LEMMA ReplyCounts ==
    ASSUME FilesCounted, NEW ok, GotReply(ok)
    PROVE  ok \in BOOLEAN /\ copyFaults' \in 0..MaxCopyFaults
<1>1. copyFaults \in 0..MaxCopyFaults /\ MaxCopyFaults \in Nat
    BY CopyFaultsAreBounded DEF FilesCounted
<1>2. CASE ok = TRUE
    BY <1>1, <1>2 DEF GotReply
<1>3. CASE ok # TRUE
    <2>1. ok = FALSE /\ copyFaults < MaxCopyFaults
        BY <1>3 DEF GotReply, Reply
    <2>2. copyFaults' = copyFaults + 1
        BY <2>1 DEF GotReply
    <2>3. copyFaults' \in 0..MaxCopyFaults
        BY <1>1, <2>1, <2>2, OneMoreFault
    <2> QED
        BY <2>1, <2>3
<1> QED
    BY <1>2, <1>3

LEMMA FilesStayCounted ==
    ASSUME FilesCounted, [CopyNext]_copyVars PROVE FilesCounted'
<1>1. ASSUME UNCHANGED <<stored, copyFaults>> PROVE FilesCounted'
    BY <1>1 DEF FilesCounted
<1>2. ASSUME NEW ok, GotReply(ok), stored' \in {stored, ok, stored \/ ok} PROVE FilesCounted'
    <2>1. ok \in BOOLEAN /\ copyFaults' \in 0..MaxCopyFaults
        BY <1>2, ReplyCounts
    <2>2. stored' \in BOOLEAN
        BY <1>2, <2>1 DEF FilesCounted
    <2> QED
        BY <2>1, <2>2 DEF FilesCounted
<1>3. CASE (\E st \in {"none", "draft"} : Raise(st))
           \/ \E byPush \in BOOLEAN : Submit(byPush) \/ Withdraw(byPush)
    BY <1>1, <1>3 DEF Raise, Submit, Withdraw
<1>4. CASE FileLost
    <2>1. copyFaults' \in 0..MaxCopyFaults
        BY <1>4, CopyFaultsAreBounded, OneMoreFault DEF FileLost, FilesCounted
    <2>2. stored' \in BOOLEAN
        BY <1>4 DEF FileLost
    <2> QED
        BY <2>1, <2>2 DEF FilesCounted
<1>5. CASE HearerStep
    <2>1. ASSUME NEW ok \in Reply, FetchHeard(ok) PROVE FilesCounted'
        BY <1>2, <2>1 DEF FetchHeard, Fetched
    <2> QED
        BY <1>1, <1>5, <2>1 DEF HearerStep, HearInvoice, ReplayInvoice, SaveInvoice
<1>6. CASE HourlyStep
    <2>1. ASSUME NEW ok \in Reply, ReadInvoice(ok) \/ FetchHourly(ok) PROVE FilesCounted'
        BY <1>2, <2>1 DEF ReadInvoice, FetchHourly, Fetched
    <2> QED
        BY <1>1, <1>6, <2>1 DEF HourlyStep, WriteStatus
<1>7. CASE MarkStep
    <2>1. ASSUME NEW ok \in Reply, MarkSubmitted(ok) PROVE FilesCounted'
        BY <1>1, <1>2, <2>1 DEF MarkSubmitted, Fetched
    <2> QED
        BY <1>1, <1>7, <2>1 DEF MarkStep, MarkCancelled
<1>8. ASSUME NEW ok \in Reply, OpenInvoice(ok) PROVE FilesCounted'
    BY <1>2, <1>8 DEF OpenInvoice
<1> QED
    BY <1>1, <1>3, <1>4, <1>5, <1>6, <1>7, <1>8 DEF CopyNext, OpenStep, copyVars

LEMMA CopyIsTyped == CopySpec => []CopyTypes
<1>1. CopyInit => FilesCounted
    <2>1. CopyInit => copyFaults \in 0..MaxCopyFaults
        BY CopyFaultsAreBounded DEF CopyInit
    <2>2. CopyInit => stored \in BOOLEAN
        BY DEF CopyInit
    <2> QED
        BY <2>1, <2>2 DEF FilesCounted
<1>2. FilesCounted /\ [CopyNext]_copyVars => FilesCounted'
    BY FilesStayCounted
<1>3. FilesCounted /\ CopyInv => CopyTypes
    BY DEF FilesCounted, CopyInv, CopyShapes, CopyTypes, Rows, CopyRows, NewsRows, HearerStates,
           HourlyStates
<1> QED
    BY <1>1, <1>2, <1>3, CopyHolds, PTL DEF CopySpec
=============================================================================
