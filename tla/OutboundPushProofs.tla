-------------------------- MODULE OutboundPushProofs --------------------------
(***************************************************************************)
(* What is proved about OutboundPush for every set of records and values,  *)
(* and every bound: its variables keep their types and refer to states of  *)
(* the right record; a record whose document the key can find gets a       *)
(* further one only after a lookup that was not answered; ERPNext is never *)
(* told an older state of a record; and the newest one taken up is not     *)
(* forgotten.                                                              *)
(*                                                                         *)
(* The last two need an invariant about the event log: rows of a record    *)
(* made later hold later snapshots, and what a document shows is the       *)
(* snapshot of a row that would supersede any older one.                   *)
(***************************************************************************)
EXTENDS OutboundPush, FiniteSetTheorems, TLAPS

USE PushBoundsAreNaturals, PushSwitchesAreBoolean

\* A record that was edited has a newest edit.
HasNewest ==
    \A r \in Records : EditsOf(r) # {} =>
        \E k \in EditsOf(r) : \A j \in EditsOf(r) : j <= k

\* A push past its gates has a row.
PushIsLogged == push.pc \notin {"idle", "gates"} => row[push.ev].st # "none"

TypeInv == TypeOK /\ HasNewest /\ PushIsLogged

\* A POST is under way only for a record that has no document, or whose lookup was not answered.
PostsNew ==
    push.pc = "write" /\ ~push.found => copies[edits[push.ev].rec] <= blind[edits[push.ev].rec]

DocInv == FurtherNeedsDoubt /\ PostsNew

-----------------------------------------------------------------------------
MadeRows == {k \in Events : Made(k)}

\* Rows are numbered in the order they were made.
BornInOrder ==
    /\ \A k \in MadeRows : row[k].born <= Cardinality(MadeRows)
    /\ \A j, k \in MadeRows : row[j].born = row[k].born => j = k

\* An event handed to the subscriber has no row yet.
DueIsNew ==
    /\ \A k \in due : ~Made(k)
    /\ push.pc # "idle" => push.ev \notin due

\* A row made later holds a later state of its record.
SnapsInOrder ==
    \A j, k \in MadeRows :
        edits[j].rec = edits[k].rec /\ row[j].born < row[k].born => row[j].snap <= row[k].snap

\* What a document shows was sent by a row that got past the gates.
ShownByRow ==
    \A r \in Records : remote[r] # 0 =>
        \E j \in MadeRows : row[j].ref /\ edits[j].rec = r /\ row[j].snap = remote[r]

\* A push sends the snapshot of its row; a new one is behind no row.
PushIsOfRow ==
    push.pc # "idle" =>
        /\ push.pc # "gates" => Made(push.ev) /\ row[push.ev].ref
        /\ Made(push.ev) => row[push.ev].snap = push.snap
        /\ ~Made(push.ev) => \A j \in MadeRows :
                                edits[j].rec = edits[push.ev].rec => row[j].snap <= push.snap

\* A push under way is not behind its document.
PushIsAhead == push.pc # "idle" => remote[edits[push.ev].rec] <= push.snap

OrderInv ==
    /\ BornInOrder /\ DueIsNew /\ SnapsInOrder /\ ShownByRow /\ PushIsOfRow /\ PushIsAhead

-----------------------------------------------------------------------------
(* Lemmas about the operators *)

\* The newest edit of a record is one of its edits, and none is newer.
LEMMA CurrentIsNewest ==
    ASSUME HasNewest, NEW r \in Records, EditsOf(r) # {}
    PROVE  Current(r) \in EditsOf(r) /\ \A j \in EditsOf(r) : j <= Current(r)
BY DEF HasNewest, Current

\* A change of one field of a row keeps its type and the other fields.
LEMMA StatusChange ==
    ASSUME NEW r \in SyncRow,
           NEW s \in {"none", "pending", "failed", "success", "skipped", "poison"}
    PROVE  /\ [r EXCEPT !.st = s] \in SyncRow /\ [r EXCEPT !.st = s].st = s
           /\ [r EXCEPT !.st = s].born = r.born /\ [r EXCEPT !.st = s].ref = r.ref
           /\ [r EXCEPT !.st = s].snap = r.snap
           /\ [r EXCEPT !.aged = TRUE] \in SyncRow /\ [r EXCEPT !.aged = TRUE].st = r.st
           /\ [r EXCEPT !.aged = TRUE].born = r.born /\ [r EXCEPT !.aged = TRUE].ref = r.ref
           /\ [r EXCEPT !.aged = TRUE].snap = r.snap
BY DEF SyncRow

\* Writing an outcome keeps the rest of the row.
LEMMA StatusSet ==
    ASSUME NEW q \in SyncRow,
           NEW st \in {"pending", "failed", "success", "skipped", "poison"}
    PROVE  /\ [q EXCEPT !.st = st] \in SyncRow /\ [q EXCEPT !.st = st].st = st
           /\ [q EXCEPT !.st = st].born = q.born /\ [q EXCEPT !.st = st].ref = q.ref
           /\ [q EXCEPT !.st = st].snap = q.snap
BY DEF SyncRow

\* There are finitely many events, and so finitely many rows.
LEMMA RowsFinite == IsFiniteSet(MadeRows) /\ Cardinality(MadeRows) \in Nat
<1>1. IsFiniteSet(Events)
    BY FS_Interval DEF Events
<1>2. MadeRows \in SUBSET Events
    BY DEF MadeRows
<1> QED
    BY <1>1, <1>2, FS_Subset, FS_CardinalityType

\* upsertEventRow: a new row is behind all others, an old one keeps its place.
LEMMA Logged ==
    ASSUME TypeOK, NEW k \in Events, NEW st \in {"skipped", "pending"}, NEW ref \in BOOLEAN
    PROVE  /\ LoggedAs(k, st, ref) \in SyncRow /\ LoggedAs(k, st, ref).st = st
           /\ LoggedAs(k, st, ref).snap = push.snap
           /\ Made(k) => /\ LoggedAs(k, st, ref).born = row[k].born
                         /\ LoggedAs(k, st, ref).ref = (row[k].ref \/ ref)
           /\ ~Made(k) => /\ LoggedAs(k, st, ref).born = 1 + Cardinality(MadeRows)
                          /\ LoggedAs(k, st, ref).ref = ref
<1> DEFINE r0 == IF Made(k) THEN row[k] ELSE NewRow
<1>1. push.snap \in 0..MaxEdits /\ row[k] \in SyncRow
    BY DEF TypeOK, Push
<1>2. NewRow \in SyncRow /\ NewRow.born = 1 + Cardinality(MadeRows) /\ NewRow.ref = FALSE
    <2>1. NewRow = [NoSyncRow EXCEPT !.born = 1 + Cardinality(MadeRows)]
        BY DEF NewRow, MadeRows
    <2>2. NewRow = [st |-> "none", attempts |-> 0, aged |-> FALSE,
                    born |-> 1 + Cardinality(MadeRows), ref |-> FALSE, snap |-> 0]
        BY <2>1 DEF NoSyncRow
    <2> QED
        BY <2>2, RowsFinite DEF SyncRow
<1>3. r0 \in SyncRow
    BY <1>1, <1>2
<1>4. LoggedAs(k, st, ref) = [r0 EXCEPT !.st = st, !.attempts = @ + 1, !.aged = FALSE,
                                        !.ref = @ \/ ref, !.snap = push.snap]
    BY DEF LoggedAs
<1> HIDE DEF r0
<1>5. LoggedAs(k, st, ref) = [st |-> st, attempts |-> r0.attempts + 1, aged |-> FALSE,
                              born |-> r0.born, ref |-> (r0.ref \/ ref), snap |-> push.snap]
    BY <1>3, <1>4 DEF SyncRow
<1>6. r0.attempts \in Nat /\ r0.born \in Nat /\ r0.ref \in BOOLEAN
    BY <1>3 DEF SyncRow
<1>7. LoggedAs(k, st, ref) \in SyncRow
    BY <1>1, <1>5, <1>6 DEF SyncRow
<1>8. /\ LoggedAs(k, st, ref).st = st /\ LoggedAs(k, st, ref).snap = push.snap
      /\ LoggedAs(k, st, ref).born = r0.born /\ LoggedAs(k, st, ref).ref = (r0.ref \/ ref)
    BY <1>5
<1> QED
    BY <1>2, <1>7, <1>8 DEF r0

\* Re-ranking the attempts keeps them natural numbers.
LEMMA TouchedType ==
    ASSUME TypeOK, NEW k \in Events PROVE Touched(k) \in [Events -> Nat]
<1>1. Cardinality({i \in Events \ {k} : last[i] > 0}) \in Nat
    <2>1. IsFiniteSet(Events)
        BY FS_Interval DEF Events
    <2>2. {i \in Events \ {k} : last[i] > 0} \in SUBSET Events
        OBVIOUS
    <2> QED
        BY <2>1, <2>2, FS_Subset, FS_CardinalityType
<1>2. last \in [Events -> Nat]
    BY DEF TypeOK
<1>3. \A j \in Events : last[k] > 0 /\ last[j] > last[k] => last[j] - 1 \in Nat
    BY <1>2
<1> QED
    BY <1>1, <1>2, <1>3 DEF Touched

-----------------------------------------------------------------------------
(* Type correctness *)

\* Nothing was edited or pushed when the store starts.
LEMMA TypeInit == Init => TypeInv
<1> SUFFICES ASSUME Init PROVE TypeInv
    OBVIOUS
<1>1. NoSyncRow \in SyncRow /\ NoSyncRow.st = "none"
    BY DEF NoSyncRow, SyncRow
<1>2. NoPush \in Push /\ NoPush.pc = "idle"
    BY DEF NoPush, Push
<1>3. edits \in Seq(Edit) /\ Len(edits) = 0
    BY DEF Init
<1>4. \A r \in Records : EditsOf(r) = {}
    BY <1>3 DEF EditsOf
<1>5. row \in [Events -> SyncRow] /\ \A k \in Events : row[k].st = "none"
    BY <1>1 DEF Init
<1>6. HasNewest
    BY <1>4 DEF HasNewest
<1>7. TypeOK
    BY <1>2, <1>3, <1>5 DEF Init, TypeOK
<1>8. PushIsLogged
    BY <1>2 DEF Init, PushIsLogged
<1> QED
    BY <1>6, <1>7, <1>8 DEF TypeInv

\* A push under way is about an edit that happened.
LEMMA PushUnderWay ==
    ASSUME TypeOK, push.pc # "idle"
    PROVE  /\ push \in Push /\ push.ev \in 1..Len(edits) /\ push.ev \in Events
           /\ edits[push.ev] \in Edit /\ edits[push.ev].rec \in Records
           /\ push.snap \in EditsOf(edits[push.ev].rec) /\ row[push.ev] \in SyncRow
<1>1. push \in Push /\ push.ev \in 1..Len(edits)
    BY DEF TypeOK, Shows
<1>2. push.ev \in Events /\ edits[push.ev] \in Edit
    BY <1>1 DEF TypeOK, Events
<1> QED
    BY <1>1, <1>2 DEF TypeOK, Shows, Edit

\* So is a row.
LEMMA RowIsThere ==
    ASSUME TypeOK, NEW k \in Events, Made(k)
    PROVE  /\ row[k] \in SyncRow /\ k \in 1..Len(edits) /\ edits[k].rec \in Records
           /\ row[k].snap \in EditsOf(edits[k].rec)
<1>1. k \in 1..Len(edits) /\ row[k].snap \in EditsOf(edits[k].rec)
    BY DEF TypeOK, Shows, Made
<1>2. edits[k] \in Edit
    BY <1>1 DEF TypeOK
<1> QED
    BY <1>1, <1>2 DEF TypeOK, Edit

\* An edit is the newest of its record and changes none before it.
LEMMA Edited ==
    ASSUME TypeInv, NEW r \in Records, NEW v \in Values, EditRecord(r, v)
    PROVE  /\ edits' \in Seq(Edit) /\ Len(edits') = Len(edits) + 1
           /\ \A k \in 1..Len(edits) : edits'[k] = edits[k]
           /\ \A q \in Records : EditsOf(q) \subseteq EditsOf(q)'
           /\ \A q \in Records : q # r => EditsOf(q)' = EditsOf(q)
           /\ EditsOf(r)' = EditsOf(r) \cup {Len(edits) + 1}
<1> DEFINE e == [rec |-> r, val |-> v]
<1>1. e \in Edit /\ edits \in Seq(Edit) /\ edits' = Append(edits, e) /\ e.rec = r
    BY DEF EditRecord, Edit, TypeInv, TypeOK
<1> HIDE DEF e
<1>2. edits' \in Seq(Edit) /\ Len(edits') = Len(edits) + 1 /\ Len(edits) \in Nat
    BY <1>1
<1>3. \A k \in 1..Len(edits) : edits'[k] = edits[k]
    BY <1>1
<1>4. edits'[Len(edits) + 1] = e
    BY <1>1
<1>5. 1..Len(edits') = 1..Len(edits) \cup {Len(edits) + 1}
    BY <1>2
<1> QED
    BY <1>1, <1>2, <1>3, <1>4, <1>5 DEF EditsOf

\* An edit keeps every type, and the record it is about has a newest edit.
LEMMA TypeEdit ==
    ASSUME TypeInv, NEW r \in Records, NEW v \in Values, EditRecord(r, v)
    PROVE  TypeInv'
<1> USE DEF TypeInv
<1>1. /\ Len(edits) < MaxEdits
      /\ due' = due \cup {Len(edits) + 1} /\ Len(edits) \in Nat
      /\ UNCHANGED <<row, last, push, link, copies, remote, blind, failures, crashes, replays>>
    BY DEF EditRecord, TypeOK
<1>2. \A k, n \in Nat : Shows(k, n) => Shows(k, n)'
    <2> SUFFICES ASSUME NEW k \in Nat, NEW n \in Nat, Shows(k, n) PROVE Shows(k, n)'
        OBVIOUS
    <2>1. k \in 1..Len(edits) /\ edits[k] \in Edit
        BY DEF Shows, TypeOK
    <2>2. PICK q \in Records : edits[k].rec = q
        BY <2>1 DEF Edit
    <2>3. n \in EditsOf(q)'
        BY <2>2, Edited DEF Shows
    <2>4. edits'[k].rec = q /\ k \in 1..Len(edits')
        BY <1>1, <2>1, <2>2, Edited
    <2> QED
        BY <2>3, <2>4 DEF Shows
<1>3. \A k \in Events : row[k].snap \in Nat /\ k \in Nat
    BY DEF TypeOK, SyncRow, Events
<1>4. push.ev \in Nat /\ push.snap \in Nat
    BY DEF TypeOK, Push
<1>5. \A q \in Records : remote'[q] \in {0} \cup EditsOf(q)'
    BY <1>1, Edited DEF TypeOK
<1>6. (\A k \in Events : row[k].st # "none" => Shows(k, row[k].snap))'
    BY <1>1, <1>2, <1>3 DEF TypeOK
<1>7. (push.pc # "idle" => Shows(push.ev, push.snap))'
    BY <1>1, <1>2, <1>4 DEF TypeOK
<1>8. TypeOK'
    <2>1. edits' \in Seq(Edit) /\ Len(edits') <= MaxEdits
        BY <1>1, Edited
    <2>2. due' \subseteq 1..Len(edits')
        <3>1. due \subseteq 1..Len(edits)
            BY DEF TypeOK
        <3>2. Len(edits') = Len(edits) + 1
            BY Edited
        <3>3. \A k \in due' : k \in 1..(Len(edits) + 1)
            BY <1>1, <3>1
        <3> QED
            BY <3>2, <3>3
    <2> QED
        BY <1>1, <1>5, <1>6, <1>7, <2>1, <2>2 DEF TypeOK
<1>9. HasNewest'
    <2> SUFFICES ASSUME NEW q \in Records, EditsOf(q)' # {}
                 PROVE  \E k \in EditsOf(q)' : \A j \in EditsOf(q)' : j <= k
        BY DEF HasNewest
    <2>1. CASE q # r
        BY <2>1, Edited DEF HasNewest
    <2>2. CASE q = r
        <3>1. \A j \in EditsOf(r) : j <= Len(edits) + 1
            BY <1>1 DEF EditsOf
        <3>2. EditsOf(q)' = EditsOf(r) \cup {Len(edits) + 1}
            BY <2>2, Edited
        <3>3. \A j \in EditsOf(q)' : j <= Len(edits) + 1
            BY <1>1, <3>1, <3>2
        <3> QED
            BY <3>2, <3>3
    <2> QED
        BY <2>1, <2>2
<1>10. PushIsLogged'
    BY <1>1 DEF PushIsLogged
<1> QED
    BY <1>8, <1>9, <1>10

\* Everything else leaves the edits alone, and changes one row at most.
LEMMA TypeStep ==
    ASSUME TypeInv, UNCHANGED edits, due' \subseteq due,
           row' \in [Events -> SyncRow], last' \in [Events -> Nat], push' \in Push,
           link' \subseteq Records, copies' \in [Records -> Nat], remote' \in [Records -> Nat],
           \A k \in Events : row'[k].st # "none" => Shows(k, row'[k].snap),
           push'.pc # "idle" => Shows(push'.ev, push'.snap),
           push'.pc \notin {"idle", "gates"} => row'[push'.ev].st # "none",
           \A r \in Records : remote'[r] \in {0} \cup EditsOf(r),
           blind' \in [Records -> Nat],
           failures' \in 0..MaxFailures, crashes' \in 0..MaxCrashes, replays' \in 0..MaxReplays
    PROVE  TypeInv'
<1>1. \A k, n : Shows(k, n)' = (k \in 1..Len(edits) /\ n \in EditsOf(edits[k].rec))
    BY DEF Shows, EditsOf
<1>2. \A r : EditsOf(r)' = EditsOf(r)
    BY DEF EditsOf
<1>3. HasNewest'
    BY <1>2 DEF TypeInv, HasNewest
<1>4. (\A k \in Events : row[k].st # "none" => Shows(k, row[k].snap))'
    BY DEF Shows, EditsOf
<1>5. (push.pc # "idle" => Shows(push.ev, push.snap))'
    BY DEF Shows, EditsOf
<1>6. (\A r \in Records : remote[r] \in {0} \cup EditsOf(r))'
    BY <1>2
<1>7. TypeOK'
    BY <1>4, <1>5, <1>6 DEF TypeInv, TypeOK
<1>8. PushIsLogged'
    BY DEF PushIsLogged
<1> QED
    BY <1>3, <1>7, <1>8 DEF TypeInv

\* What a change of one row by r does to the others.
LEMMA TypeRow ==
    ASSUME TypeOK, NEW k \in Events, NEW r \in SyncRow, r.st # "none" => Shows(k, r.snap),
           row' = [row EXCEPT ![k] = r]
    PROVE  /\ row' \in [Events -> SyncRow] /\ row'[k] = r
           /\ \A j \in Events : j # k => row'[j] = row[j]
           /\ \A j \in Events : row'[j].st # "none" => Shows(j, row'[j].snap)
BY DEF TypeOK

\* Only a row's status or age changes.
LEMMA TypeStatus ==
    ASSUME TypeOK, NEW k \in Events, row[k].st # "none",
           NEW s \in {"pending", "failed", "success", "skipped", "poison"},
           \/ row' = [row EXCEPT ![k].st = s]
           \/ row' = [row EXCEPT ![k].aged = TRUE]
    PROVE  /\ row' \in [Events -> SyncRow]
           /\ \A j \in Events :
                 /\ row'[j].st # "none" <=> row[j].st # "none"
                 /\ row'[j].born = row[j].born /\ row'[j].ref = row[j].ref
                 /\ row'[j].snap = row[j].snap
           /\ \A j \in Events : row'[j].st # "none" => Shows(j, row'[j].snap)
<1>1. row[k] \in SyncRow /\ Shows(k, row[k].snap)
    BY DEF TypeOK
<1>2. PICK r \in SyncRow : /\ row' = [row EXCEPT ![k] = r]
                           /\ r.st # "none" /\ r.born = row[k].born
                           /\ r.ref = row[k].ref /\ r.snap = row[k].snap
    <2>1. CASE row' = [row EXCEPT ![k].st = s]
        <3> DEFINE r == [row[k] EXCEPT !.st = s]
        <3>1. row' = [row EXCEPT ![k] = r]
            BY <2>1
        <3>2. r \in SyncRow /\ r.born = row[k].born /\ r.ref = row[k].ref
              /\ r.snap = row[k].snap /\ r.st = s
            BY <1>1, StatusSet
        <3> HIDE DEF r
        <3>3. r.st # "none"
            BY <3>2
        <3> QED
            BY <3>1, <3>2, <3>3
    <2>2. CASE row' = [row EXCEPT ![k].aged = TRUE]
        <3> DEFINE r == [row[k] EXCEPT !.aged = TRUE]
        <3>1. row' = [row EXCEPT ![k] = r]
            BY <2>2
        <3>2. r \in SyncRow /\ r.born = row[k].born /\ r.ref = row[k].ref
              /\ r.snap = row[k].snap /\ r.st = row[k].st
            BY <1>1, StatusChange, Zenon
        <3> HIDE DEF r
        <3>3. r.st # "none"
            BY <3>2
        <3> QED
            BY <3>1, <3>2, <3>3
    <2> QED
        BY <2>1, <2>2
<1>3. /\ row' \in [Events -> SyncRow] /\ row'[k] = r
      /\ \A j \in Events : j # k => row'[j] = row[j]
      /\ \A j \in Events : row'[j].st # "none" => Shows(j, row'[j].snap)
    BY <1>1, <1>2, TypeRow
<1> QED
    BY <1>2, <1>3

\* A push starts with a state of the record it is about.
LEMMA Begun ==
    ASSUME NEW by \in {"event", "job", "button"}, NEW k \in Events, NEW n \in 0..MaxEdits,
           Begin(by, k, n)
    PROVE  /\ push' \in Push /\ push'.pc = "gates" /\ push'.ev = k /\ push'.snap = n
BY DEF Begin, Push, Events

\* A push that moves on is about the same event and snapshot.
LEMMA PushMoves ==
    ASSUME push \in Push, NEW f \in BOOLEAN,
           NEW p \in {"find", "link", "finish"}
    PROVE  /\ [push EXCEPT !.pc = p] \in Push /\ [push EXCEPT !.pc = p].pc = p
           /\ [push EXCEPT !.pc = p].ev = push.ev /\ [push EXCEPT !.pc = p].snap = push.snap
           /\ [push EXCEPT !.pc = "write", !.found = f] \in Push
           /\ [push EXCEPT !.pc = "write", !.found = f].pc = "write"
           /\ [push EXCEPT !.pc = "write", !.found = f].ev = push.ev
           /\ [push EXCEPT !.pc = "write", !.found = f].snap = push.snap
           /\ [push EXCEPT !.pc = "write", !.found = f].found = f
BY DEF Push

\* No push is an idle push.
LEMMA NoPushIdle == NoPush \in Push /\ NoPush.pc = "idle"
BY DEF NoPush, Push

\* The subscriber reads the newest state of its record.
LEMMA TypeDeliver ==
    ASSUME TypeInv, NEW k \in Events, Deliver(k)
    PROVE  /\ TypeInv'
           /\ push' \in Push /\ push'.pc = "gates" /\ push'.ev = k
           /\ edits[k].rec \in Records /\ push'.snap = Current(edits[k].rec)
           /\ EditsOf(edits[k].rec) # {}
<1> USE DEF TypeInv
<1>1. k \in 1..Len(edits) /\ edits[k] \in Edit
    BY DEF Deliver, TypeOK
<1>2. edits[k].rec \in Records /\ k \in EditsOf(edits[k].rec)
    BY <1>1 DEF Edit, EditsOf
<1>3. Current(edits[k].rec) \in EditsOf(edits[k].rec)
    BY <1>2, CurrentIsNewest
<1>4. Current(edits[k].rec) \in 0..MaxEdits
    BY <1>3 DEF EditsOf, TypeOK
<1>5. push' \in Push /\ push'.pc = "gates" /\ push'.ev = k /\ push'.snap = Current(edits[k].rec)
    BY <1>4, Begun DEF Deliver
<1>6. Shows(push'.ev, push'.snap)
    BY <1>1, <1>3, <1>5 DEF Shows
<1>7. TypeInv'
    BY <1>5, <1>6, TypeStep DEF Deliver, TypeOK
<1> QED
    BY <1>2, <1>5, <1>7

\* Every step of a push keeps the types, and so does its failure.
LEMMA TypePush ==
    ASSUME TypeInv, PushStep \/ FindUnanswered \/ Refused \/ AnswerLost
    PROVE  TypeInv'
<1> USE DEF TypeInv
<1>0. push.pc # "idle"
    BY DEF PushStep, Gates, Find, FindUnanswered, WriteRemote, RecordLink, Finish,
           Refused, AnswerLost
<1>1. /\ push \in Push /\ push.ev \in Events /\ push.ev \in 1..Len(edits)
      /\ edits[push.ev].rec \in Records
      /\ push.snap \in EditsOf(edits[push.ev].rec)
      /\ row[push.ev] \in SyncRow /\ push.snap \in Nat
      /\ Shows(push.ev, push.snap)
    BY <1>0, PushUnderWay DEF TypeOK, EditsOf
<1>2. CASE Gates
    <2>1. PICK st \in {"skipped", "pending"}, ref \in BOOLEAN :
             row' = [row EXCEPT ![push.ev] = LoggedAs(push.ev, st, ref)]
        BY <1>2 DEF Gates
    <2>2. LoggedAs(push.ev, st, ref) \in SyncRow /\ LoggedAs(push.ev, st, ref).snap = push.snap
          /\ LoggedAs(push.ev, st, ref).st = st
        BY <1>1, Logged
    <2>3. /\ row' \in [Events -> SyncRow] /\ row'[push.ev].st = st
          /\ \A j \in Events : row'[j].st # "none" => Shows(j, row'[j].snap)
        BY <1>1, <2>1, <2>2, TypeRow
    <2>4. push' = NoPush \/ push' = [push EXCEPT !.pc = "find"]
        BY <1>2 DEF Gates
    <2>5. /\ push' \in Push /\ (push'.pc # "idle" => Shows(push'.ev, push'.snap))
          /\ push'.pc # "idle" => push'.ev = push.ev
        BY <1>1, <2>4, PushMoves, NoPushIdle
    <2>6. last' \in [Events -> Nat]
        BY <1>1, <1>2, TouchedType DEF Gates
    <2>7. push'.pc \notin {"idle", "gates"} => row'[push'.ev].st # "none"
        BY <2>3, <2>5
    <2> QED
        BY <1>2, <2>3, <2>5, <2>6, <2>7, TypeStep DEF Gates, TypeOK
<1>3. CASE ~Gates
    <2>1. row[push.ev].st # "none" /\ push.pc \notin {"idle", "gates"}
        BY <1>3 DEF PushIsLogged, PushStep, Find, FindUnanswered, WriteRemote, RecordLink, Finish,
                  Refused, AnswerLost
    <2>2. /\ copies' \in [Records -> Nat] /\ remote' \in [Records -> Nat]
          /\ \A r \in Records : remote'[r] \in {0} \cup EditsOf(r)
        <3> DEFINE r0 == edits[push.ev].rec
        <3>1. \/ copies' = copies
              \/ copies' = [copies EXCEPT ![r0] = @ + 1]
            BY <1>3 DEF PushStep, Find, FindUnanswered, WriteRemote, RecordLink, Finish,
                  Refused, AnswerLost
        <3>2. remote' = remote \/ remote' = [remote EXCEPT ![r0] = push.snap]
            BY <1>3 DEF PushStep, Find, FindUnanswered, WriteRemote, RecordLink, Finish,
                  Refused, AnswerLost
        <3>3. r0 \in Records /\ copies \in [Records -> Nat] /\ remote \in [Records -> Nat]
            BY <1>1 DEF TypeOK
        <3>4. push.snap \in EditsOf(r0) /\ push.snap \in Nat
              /\ \A r \in Records : remote[r] \in {0} \cup EditsOf(r)
            BY <1>1 DEF TypeOK
        <3> HIDE DEF r0
        <3>5. copies' \in [Records -> Nat]
            BY <3>1, <3>3
        <3> QED
            BY <3>2, <3>3, <3>4, <3>5
    <2>3. /\ row' \in [Events -> SyncRow]
          /\ \A j \in Events : row'[j].st # "none" => Shows(j, row'[j].snap)
          /\ \A j \in Events : row'[j].st # "none" <=> row[j].st # "none"
        <3>1. CASE row' = row
            BY <3>1 DEF TypeOK
        <3>2. CASE row' # row
            <4>1. PICK st \in {"failed", "success"} : row' = [row EXCEPT ![push.ev].st = st]
                BY <1>3, <3>2
                   DEF PushStep, Find, FindUnanswered, WriteRemote, RecordLink, Finish,
                  Refused, AnswerLost
            <4> QED
                BY <1>1, <2>1, <4>1, TypeStatus
        <3> QED
            BY <3>1, <3>2
    <2>4. \/ push' = NoPush
          \/ \E p \in {"link", "finish"} : push' = [push EXCEPT !.pc = p]
          \/ \E f \in BOOLEAN : push' = [push EXCEPT !.pc = "write", !.found = f]
        BY <1>3 DEF PushStep, Find, FindUnanswered, WriteRemote, RecordLink, Finish,
                  Refused, AnswerLost, Known
    <2>5. /\ push' \in Push
          /\ push'.pc # "idle" => push'.ev = push.ev /\ push'.snap = push.snap
        <3>1. CASE push' = NoPush
            BY <3>1, NoPushIdle
        <3>2. ASSUME NEW p \in {"link", "finish"}, push' = [push EXCEPT !.pc = p]
              PROVE  push' \in Push /\ push'.ev = push.ev /\ push'.snap = push.snap
            <4>1. p \in {"find", "link", "finish"} /\ TRUE \in BOOLEAN
                OBVIOUS
            <4> QED
                BY <1>1, <3>2, <4>1, PushMoves, Zenon
        <3>3. ASSUME NEW f \in BOOLEAN, push' = [push EXCEPT !.pc = "write", !.found = f]
              PROVE  push' \in Push /\ push'.ev = push.ev /\ push'.snap = push.snap
            <4>1. "find" \in {"find", "link", "finish"}
                OBVIOUS
            <4> QED
                BY <1>1, <3>3, <4>1, PushMoves, Zenon
        <3> QED
            BY <2>4, <3>1, <3>2, <3>3
    <2>6. push'.pc # "idle" => Shows(push'.ev, push'.snap)
        BY <1>1, <2>5
    <2>7. push'.pc \notin {"idle", "gates"} => row'[push'.ev].st # "none"
        BY <1>1, <2>1, <2>3, <2>5
    <2>8. UNCHANGED <<edits, due, last, crashes, replays>>
        BY <1>3 DEF PushStep, Find, FindUnanswered, WriteRemote, RecordLink, Finish,
                  Refused, AnswerLost
    <2>9. link' \subseteq Records /\ failures' \in 0..MaxFailures /\ blind' \in [Records -> Nat]
        <3>1. \/ link' = link
              \/ link' = link \cup {edits[push.ev].rec}
            BY <1>3 DEF PushStep, Find, FindUnanswered, WriteRemote, RecordLink, Finish,
                  Refused, AnswerLost
        <3>2. \/ failures' = failures
              \/ failures < MaxFailures /\ failures' = failures + 1
            BY <1>3 DEF PushStep, Find, FindUnanswered, WriteRemote, RecordLink, Finish,
                  Refused, AnswerLost
        <3>3. blind' \in [Records -> Nat]
            <4> DEFINE r0 == edits[push.ev].rec
            <4>1. blind' = blind \/ blind' = [blind EXCEPT ![r0] = @ + 1]
                BY <1>3 DEF PushStep, Find, FindUnanswered, WriteRemote, RecordLink, Finish,
                  Refused, AnswerLost
            <4>2. r0 \in Records /\ blind \in [Records -> Nat]
                BY <1>1 DEF TypeOK
            <4> HIDE DEF r0
            <4>3. blind[r0] + 1 \in Nat
                BY <4>2
            <4> QED
                BY <4>1, <4>2, <4>3
        <3> QED
            BY <1>1, <3>1, <3>2, <3>3 DEF TypeOK
    <2> QED
        BY <2>2, <2>3, <2>5, <2>6, <2>7, <2>8, <2>9, TypeStep DEF TypeOK
<1> QED
    BY <1>2, <1>3

\* Rows age and are poisoned, retried or passed over; the process dies.
LEMMA TypeRetry ==
    ASSUME TypeInv, NEW k \in Events, Age(k) \/ Poison(k) \/ JobRetries(k) \/ ButtonRetries(k)
    PROVE  /\ TypeInv'
           /\ Made(k)
           /\ push' # push => /\ push.pc = "idle" /\ ~Superseded(k) /\ UNCHANGED row
                              /\ push' \in Push
                              /\ push'.pc = "gates" /\ push'.ev = k /\ push'.snap = row[k].snap
           /\ \A j \in Events :
                 /\ row'[j].st # "none" <=> row[j].st # "none"
                 /\ row'[j].born = row[j].born /\ row'[j].ref = row[j].ref
                 /\ row'[j].snap = row[j].snap
<1> USE DEF TypeInv
<1>1. Made(k) /\ row[k].st # "none"
    BY DEF Age, Poison, JobRetries, ButtonRetries, InWindow, Listed, Owed, Made
<1>2. /\ row[k] \in SyncRow /\ k \in 1..Len(edits)
      /\ row[k].snap \in EditsOf(edits[k].rec) /\ row[k].snap \in 0..MaxEdits
    BY <1>1, RowIsThere DEF SyncRow
<1>3. UNCHANGED <<edits, due, last, link, copies, remote, blind, failures, crashes>>
    BY DEF Age, Poison, JobRetries, ButtonRetries, Retry
<1>4. replays' \in 0..MaxReplays
    <2>1. replays' = replays \/ (replays < MaxReplays /\ replays' = replays + 1)
        BY DEF Age, Poison, JobRetries, ButtonRetries
    <2> QED
        BY <2>1 DEF TypeOK
<1>5. CASE row' # row
    <2>1. push' = push
        BY <1>5 DEF Age, Poison, JobRetries, ButtonRetries, Retry
    <2>2. \/ row' = [row EXCEPT ![k].aged = TRUE]
          \/ row' = [row EXCEPT ![k].st = "poison"]
          \/ row' = [row EXCEPT ![k].st = "skipped"]
        BY <1>5 DEF Age, Poison, JobRetries, ButtonRetries, Retry
    <2>3. /\ row' \in [Events -> SyncRow]
          /\ \A j \in Events :
                /\ row'[j].st # "none" <=> row[j].st # "none"
                /\ row'[j].born = row[j].born /\ row'[j].ref = row[j].ref
                /\ row'[j].snap = row[j].snap
          /\ \A j \in Events : row'[j].st # "none" => Shows(j, row'[j].snap)
        BY <1>1, <2>2, TypeStatus
    <2>4. push.pc # "idle" => push.ev \in Events
        BY PushUnderWay
    <2> QED
        BY <1>1, <1>3, <1>4, <2>1, <2>3, <2>4, TypeStep DEF TypeOK, PushIsLogged
<1>6. CASE row' = row
    <2>1. CASE push' = push
        BY <1>1, <1>3, <1>4, <1>6, <2>1, TypeStep DEF TypeOK, PushIsLogged
    <2>2. CASE push' # push
        <3>1. PICK by \in {"job", "button"} : Retry(by, k) /\ push.pc = "idle"
            BY <2>2 DEF Age, Poison, JobRetries, ButtonRetries, Retry
        <3>2. ~Superseded(k) /\ Begin(by, k, row[k].snap)
            BY <2>2, <3>1 DEF Retry
        <3>3. /\ push' \in Push /\ push'.pc = "gates" /\ push'.ev = k
              /\ push'.snap = row[k].snap
            BY <1>2, <3>2, Begun
        <3>4. Shows(push'.ev, push'.snap)
            BY <1>2, <3>3 DEF Shows
        <3>5. TypeInv'
            BY <1>3, <1>4, <1>6, <3>3, <3>4, TypeStep DEF TypeOK
        <3> QED
            BY <1>1, <1>6, <3>1, <3>2, <3>3, <3>5
    <2> QED
        BY <2>1, <2>2
<1> QED
    BY <1>5, <1>6

\* A crash only forgets.
LEMMA TypeCrash == TypeInv /\ Crash => TypeInv'
<1> SUFFICES ASSUME TypeInv, Crash PROVE TypeInv'
    OBVIOUS
<1>1. push' = NoPush /\ due' \subseteq due
    BY DEF Crash
<1>2. UNCHANGED <<edits, row, last, link, copies, remote, blind, failures, replays>>
      /\ crashes < MaxCrashes /\ crashes' = crashes + 1
    BY DEF Crash
<1>3. crashes' \in 0..MaxCrashes
    BY <1>2 DEF TypeInv, TypeOK
<1> QED
    BY <1>1, <1>2, <1>3, NoPushIdle, TypeStep DEF TypeInv, TypeOK

\* The typing invariant is inductive ...
LEMMA TypeNext == TypeInv /\ [Next]_vars => TypeInv'
<1> SUFFICES ASSUME TypeInv, [Next]_vars PROVE TypeInv'
    OBVIOUS
<1>1. CASE UNCHANGED vars
    BY <1>1, TypeStep DEF vars, TypeInv, TypeOK, PushIsLogged
<1> QED
    BY <1>1, TypeEdit, TypePush, TypeDeliver, TypeRetry, TypeCrash DEF Next

\* ... and so holds always.
LEMMA TypeInvariant == Spec => []TypeInv
BY TypeInit, TypeNext, PTL DEF Spec

\* Rows, pushes and documents refer to states of the record they are about,
\* for any number of records, edits, failures and crashes.
THEOREM TypeCorrect == Spec => []TypeOK
<1>1. TypeInv => TypeOK
    BY DEF TypeInv
<1> QED
    BY <1>1, TypeInvariant, PTL

-----------------------------------------------------------------------------
(* A further document needs a lookup that was not answered *)

\* No document has been made at the start.
LEMMA DocInit == Init => DocInv
BY DEF Init, NoPush, DocInv, FurtherNeedsDoubt, PostsNew

\* A POST follows a lookup that found none or got no answer, and nothing comes between.
LEMMA DocNext ==
    ASSUME KeyFound
    PROVE  TypeInv /\ DocInv /\ [Next]_vars => DocInv'
<1> SUFFICES ASSUME TypeInv, DocInv, [Next]_vars PROVE DocInv'
    OBVIOUS
<1> USE DEF DocInv
<1>1. copies \in [Records -> Nat] /\ blind \in [Records -> Nat] /\ TypeOK
    BY DEF TypeInv, TypeOK
<1>2. ASSUME copies' = copies, blind' = blind, push'.pc # "write"
      PROVE  DocInv'
    BY <1>2 DEF FurtherNeedsDoubt, PostsNew
<1>3. ASSUME copies' = copies, blind' = blind, push' = push, UNCHANGED edits
      PROVE  DocInv'
    BY <1>3 DEF FurtherNeedsDoubt, PostsNew
<1>4. ASSUME NEW r \in Records, NEW v \in Values, EditRecord(r, v) PROVE DocInv'
    <2>1. copies' = copies /\ blind' = blind /\ push' = push
        BY <1>4 DEF EditRecord
    <2>2. push.pc = "write" => edits'[push.ev] = edits[push.ev]
        BY <1>1, <1>4, Edited, PushUnderWay
    <2> QED
        BY <2>1, <2>2 DEF FurtherNeedsDoubt, PostsNew
<1>5. CASE Find
    <2>1. push \in Push /\ edits[push.ev].rec \in Records
        BY <1>1, <1>5, PushUnderWay DEF Find
    <2>2. push' = [push EXCEPT !.pc = "write", !.found = Known(edits[push.ev].rec)]
        BY <1>5 DEF Find
    <2>3. push'.ev = push.ev /\ push'.found = Known(edits[push.ev].rec)
        BY <2>1, <2>2 DEF Push
    <2>4. copies' = copies /\ blind' = blind /\ edits' = edits
        BY <1>5 DEF Find
    <2>5. ~Known(edits[push.ev].rec) =>
              copies[edits[push.ev].rec] <= blind[edits[push.ev].rec]
        <3>1. ~Known(edits[push.ev].rec) => copies[edits[push.ev].rec] = 0
            BY <1>1, <2>1 DEF Known
        <3> QED
            BY <1>1, <2>1, <3>1
    <2> QED
        BY <2>3, <2>4, <2>5 DEF FurtherNeedsDoubt, PostsNew
<1>11. CASE FindUnanswered
    <2> DEFINE r == edits[push.ev].rec
    <2>1. push \in Push /\ r \in Records
        BY <1>1, <1>11, PushUnderWay DEF FindUnanswered
    <2>2. push'.ev = push.ev
        BY <1>11, <2>1 DEF FindUnanswered, Push
    <2>3. copies' = copies /\ edits' = edits /\ blind' = [blind EXCEPT ![r] = @ + 1]
        BY <1>11 DEF FindUnanswered
    <2>4. \A q \in Records : blind'[q] >= blind[q]
        BY <1>1, <2>3
    <2>5. blind'[r] = blind[r] + 1
        BY <1>1, <2>1, <2>3
    <2> HIDE DEF r
    <2>6. FurtherNeedsDoubt'
        BY <1>1, <2>3, <2>4 DEF FurtherNeedsDoubt
    <2>7. copies'[r] <= blind'[r]
        BY <1>1, <2>1, <2>3, <2>5 DEF FurtherNeedsDoubt
    <2> QED
        BY <2>2, <2>3, <2>6, <2>7 DEF PostsNew, r
<1>6. CASE WriteRemote \/ AnswerLost
    <2>1. push.pc = "write"
        BY <1>6 DEF WriteRemote, AnswerLost
    <2>2. push \in Push /\ edits[push.ev].rec \in Records
        BY <1>1, <2>1, PushUnderWay
    <2>3. /\ copies' = IF push.found THEN copies
                       ELSE [copies EXCEPT ![edits[push.ev].rec] = @ + 1]
          /\ blind' = blind
        BY <1>6 DEF WriteRemote, AnswerLost
    <2>4. FurtherNeedsDoubt'
        BY <1>1, <2>1, <2>2, <2>3 DEF FurtherNeedsDoubt, PostsNew
    <2>5. push'.pc # "write"
        BY <1>6, <2>2 DEF WriteRemote, AnswerLost, NoPush, Push
    <2> QED
        BY <2>4, <2>5 DEF PostsNew
<1>7. CASE Gates \/ RecordLink \/ Finish \/ Refused \/ Crash
    <2>1. push'.pc # "write"
        <3>1. \/ push' = NoPush
              \/ \E p \in {"find", "finish"} : push' = [push EXCEPT !.pc = p]
            BY <1>7 DEF Gates, RecordLink, Finish, Refused, Crash
        <3>2. push \in Push
            BY <1>1 DEF TypeOK
        <3> QED
            BY <3>1, <3>2 DEF NoPush, Push
    <2>2. copies' = copies /\ blind' = blind
        BY <1>7 DEF Gates, RecordLink, Finish, Refused, Crash
    <2> QED
        BY <1>2, <2>1, <2>2
<1>8. ASSUME NEW k \in Events, Deliver(k) PROVE DocInv'
    BY <1>2, <1>8, TypeDeliver DEF Deliver
<1>9. ASSUME NEW k \in Events, Age(k) \/ Poison(k) \/ JobRetries(k) \/ ButtonRetries(k)
      PROVE DocInv'
    <2>1. copies' = copies /\ blind' = blind /\ edits' = edits
        BY <1>9 DEF Age, Poison, JobRetries, ButtonRetries, Retry
    <2>2. push' # push => push'.pc = "gates"
        BY <1>9, TypeRetry
    <2> QED
        BY <1>2, <1>3, <2>1, <2>2
<1>10. CASE UNCHANGED vars
    BY <1>3, <1>10 DEF vars
<1> QED
    BY <1>4, <1>5, <1>6, <1>7, <1>8, <1>9, <1>10, <1>11 DEF Next, PushStep

\* Where the key finds a record's document, no crash, lost answer, refused write or retry
\* makes a further one: each is due to a lookup of its own that ERPNext did not answer.
THEOREM FurtherNeedsDoubtHolds ==
    ASSUME KeyFound
    PROVE  Spec => []FurtherNeedsDoubt
<1>1. DocInv => FurtherNeedsDoubt
    BY DEF DocInv
<1> QED
    BY <1>1, TypeInvariant, DocInit, DocNext, PTL DEF Spec

-----------------------------------------------------------------------------
(* A document never goes back *)

\* An empty log is in order.
LEMMA OrderInit == Init => OrderInv
<1> SUFFICES ASSUME Init PROVE OrderInv
    OBVIOUS
<1>1. MadeRows = {}
    BY DEF Init, NoSyncRow, MadeRows, Made
<1>2. push.pc = "idle" /\ due = {} /\ \A r \in Records : remote[r] = 0
    BY DEF Init, NoPush
<1> QED
    BY <1>1, <1>2 DEF OrderInv, BornInOrder, DueIsNew, SnapsInOrder, ShownByRow,
                      PushIsOfRow, PushIsAhead

\* The log is as it was but for its rows' outcomes; a row may have got past the
\* gates now.
SameLog ==
    \A j \in Events :
        /\ row'[j].st # "none" <=> row[j].st # "none"
        /\ row'[j].born = row[j].born /\ row'[j].snap = row[j].snap
        /\ row[j].ref => row'[j].ref

\* Then its order is as it was, ...
LEMMA LogOrder ==
    ASSUME TypeInv, BornInOrder, SnapsInOrder, SameLog,
           \A k \in 1..Len(edits) : edits'[k] = edits[k]
    PROVE  /\ MadeRows' = MadeRows /\ BornInOrder' /\ SnapsInOrder'
           /\ \A k \in MadeRows : edits'[k] = edits[k]
<1>1. MadeRows' = MadeRows
    BY DEF SameLog, MadeRows, Made, Events
<1>2. \A k \in MadeRows : k \in Events /\ k \in 1..Len(edits)
    BY RowIsThere DEF TypeInv, MadeRows
<1>3. \A k \in MadeRows : edits'[k] = edits[k]
    BY <1>2
<1>4. \A k \in MadeRows : row'[k].born = row[k].born /\ row'[k].snap = row[k].snap
    BY <1>2 DEF SameLog
<1>5. BornInOrder'
    BY <1>1, <1>4 DEF BornInOrder
<1>6. SnapsInOrder'
    BY <1>1, <1>3, <1>4 DEF SnapsInOrder
<1> QED
    BY <1>1, <1>3, <1>5, <1>6

\* ... and where no document changes, what they show is still a row's.
LEMMA LogShown ==
    ASSUME TypeInv, ShownByRow, SameLog, UNCHANGED remote,
           MadeRows' = MadeRows, \A k \in MadeRows : edits'[k] = edits[k]
    PROVE  ShownByRow'
<1>1. \A k \in MadeRows : k \in Events
    BY DEF MadeRows
<1> SUFFICES ASSUME NEW r \in Records, remote'[r] # 0
             PROVE  \E j \in MadeRows' : /\ row'[j].ref /\ edits'[j].rec = r
                                         /\ row'[j].snap = remote'[r]
    BY DEF ShownByRow
<1>2. PICK j \in MadeRows : row[j].ref /\ edits[j].rec = r /\ row[j].snap = remote[r]
    BY DEF ShownByRow
<1> QED
    BY <1>1, <1>2 DEF SameLog

\* Steps that leave the log's order, the documents and the push's snapshot alone.
LEMMA OrderKept ==
    ASSUME TypeInv, OrderInv, SameLog, UNCHANGED <<edits, remote>>, due' \subseteq due,
           \/ push'.pc = "idle"
           \/ push.pc # "idle" /\ push' = push
           \/ /\ push.pc \notin {"idle", "gates"} /\ push'.pc # "gates"
              /\ push'.ev = push.ev /\ push'.snap = push.snap
    PROVE  OrderInv'
<1> USE DEF OrderInv
<1>1. \A k \in 1..Len(edits) : edits'[k] = edits[k]
    OBVIOUS
<1>2. MadeRows' = MadeRows /\ BornInOrder' /\ SnapsInOrder' /\ ShownByRow'
    BY <1>1, LogOrder, LogShown
<1>3. \A k \in Events : Made(k)' = Made(k)
    BY DEF SameLog, Made
<1>4. due \subseteq Events
    BY DEF TypeInv, TypeOK, Events
<1>5. push.pc # "idle" => push.ev \in Events
    BY PushUnderWay DEF TypeInv
<1>6. \A k \in MadeRows : k \in Events
    BY DEF MadeRows
<1>7. DueIsNew'
    BY <1>3, <1>4 DEF DueIsNew
<1>8. CASE push'.pc = "idle"
    BY <1>2, <1>7, <1>8 DEF PushIsOfRow, PushIsAhead
<1>9. CASE push.pc # "idle" /\ push'.pc # "idle"
    <2>1. PICK k \in Events : push.ev = k /\ push'.ev = k
        BY <1>5, <1>9
    <2>2. push'.snap = push.snap /\ (push'.pc # "gates" => push.pc # "gates")
        BY <1>9
    <2>3. PushIsAhead'
        BY <1>9, <2>1, <2>2 DEF PushIsAhead
    <2>4. /\ push.pc # "gates" => Made(k) /\ row[k].ref
          /\ Made(k) => row[k].snap = push.snap
          /\ ~Made(k) => \A j \in MadeRows : edits[j].rec = edits[k].rec => row[j].snap <= push.snap
        BY <1>9, <2>1 DEF PushIsOfRow
    <2>5. /\ row'[k].snap = row[k].snap /\ (row[k].ref => row'[k].ref)
          /\ \A j \in MadeRows : row'[j].snap = row[j].snap
        BY <1>6 DEF SameLog
    <2>6. /\ push'.pc # "gates" => Made(k)' /\ row'[k].ref
          /\ Made(k)' => row'[k].snap = push'.snap
          /\ ~Made(k)' => \A j \in MadeRows' :
                              edits'[j].rec = edits'[k].rec => row'[j].snap <= push'.snap
        BY <1>2, <1>3, <2>2, <2>4, <2>5
    <2>7. PushIsOfRow'
        BY <2>1, <2>6 DEF PushIsOfRow
    <2> QED
        BY <1>2, <1>7, <2>3, <2>7
<1> QED
    BY <1>8, <1>9

\* A push begins that is behind neither its document nor, if it is new, a row.
LEMMA OrderBegin ==
    ASSUME TypeInv, OrderInv, UNCHANGED <<edits, row, remote>>, due' \subseteq due,
           NEW k \in Events, k \notin due',
           push' \in Push, push'.pc = "gates", push'.ev = k,
           Made(k) => row[k].snap = push'.snap,
           ~Made(k) => \A j \in MadeRows :
                          edits[j].rec = edits[k].rec => row[j].snap <= push'.snap,
           remote[edits[k].rec] <= push'.snap
    PROVE  OrderInv'
<1> USE DEF OrderInv
<1>1. MadeRows' = MadeRows /\ Made(k)' = Made(k)
    BY DEF MadeRows, Made
<1>2. SameLog
    BY DEF SameLog
<1>3. BornInOrder' /\ SnapsInOrder' /\ ShownByRow'
    BY <1>1, <1>2, LogOrder, LogShown
<1>4. DueIsNew'
    BY DEF DueIsNew, Made
<1>5. PushIsOfRow' /\ PushIsAhead'
    BY <1>1 DEF PushIsOfRow, PushIsAhead
<1> QED
    BY <1>3, <1>4, <1>5

\* A new push carries the newest state of its record.
LEMMA OrderDeliver ==
    ASSUME TypeInv, OrderInv, NEW k \in Events, Deliver(k)
    PROVE  OrderInv'
<1> DEFINE r == edits[k].rec
<1>1. /\ push' \in Push /\ push'.pc = "gates" /\ push'.ev = k
      /\ r \in Records /\ push'.snap = Current(r) /\ EditsOf(r) # {}
    BY TypeDeliver
<1>2. k \in due /\ due' = due \ {k} /\ UNCHANGED <<edits, row, remote>>
    BY DEF Deliver
<1>3. ~Made(k)
    BY <1>2 DEF OrderInv, DueIsNew
<1>4. Current(r) \in EditsOf(r) /\ \A j \in EditsOf(r) : j <= Current(r)
    BY <1>1, CurrentIsNewest DEF TypeInv
<1>5. \A j \in MadeRows : edits[j].rec = r => row[j].snap <= push'.snap
    BY <1>1, <1>4, RowIsThere DEF TypeInv, MadeRows
<1>6. remote[r] <= push'.snap
    <2>1. remote[r] \in {0} \cup EditsOf(r)
        BY <1>1 DEF TypeInv, TypeOK
    <2>2. Current(r) >= 0
        BY <1>4 DEF EditsOf
    <2> QED
        BY <1>1, <1>4, <2>1, <2>2
<1> QED
    BY <1>1, <1>2, <1>3, <1>5, <1>6, OrderBegin

\* The retry of a row that nothing supersedes is not behind the document: what
\* the document shows is the snapshot of that row or of one made before it.
LEMMA RetryIsAhead ==
    ASSUME TypeInv, OrderInv, NEW k \in Events, Made(k), ~Superseded(k)
    PROVE  remote[edits[k].rec] <= row[k].snap
<1> DEFINE r == edits[k].rec
<1>1. /\ row[k] \in SyncRow /\ r \in Records /\ row[k].snap \in EditsOf(r)
      /\ row[k].snap \in Nat /\ row[k].born \in Nat
    BY RowIsThere DEF TypeInv, SyncRow
<1>2. CASE remote[r] = 0
    BY <1>1, <1>2
<1>3. CASE remote[r] # 0
    <2>1. PICK j \in MadeRows : row[j].ref /\ edits[j].rec = r /\ row[j].snap = remote[r]
        BY <1>1, <1>3 DEF OrderInv, ShownByRow
    <2>2. j \in Events /\ Made(j) /\ row[j] \in SyncRow /\ k \in MadeRows
        BY <2>1, RowIsThere DEF TypeInv, MadeRows
    <2>3. row[j].born \in Nat
        BY <2>2 DEF SyncRow
    <2>4. ~(row[j].born > row[k].born)
        BY <2>1, <2>2 DEF Superseded
    <2>5. CASE row[j].born < row[k].born
        BY <2>1, <2>2, <2>5 DEF OrderInv, SnapsInOrder
    <2>6. CASE row[j].born = row[k].born
        <3>1. j = k
            BY <2>1, <2>2, <2>6 DEF OrderInv, BornInOrder
        <3> QED
            BY <1>1, <2>1, <3>1
    <2> QED
        BY <1>1, <2>3, <2>4, <2>5, <2>6
<1> QED
    BY <1>2, <1>3

\* The retry job and the Replay button keep the log in order.
LEMMA OrderRetry ==
    ASSUME TypeInv, OrderInv, NEW k \in Events,
           Age(k) \/ Poison(k) \/ JobRetries(k) \/ ButtonRetries(k)
    PROVE  OrderInv'
<1>1. UNCHANGED <<edits, due, remote>>
    BY DEF Age, Poison, JobRetries, ButtonRetries, Retry
<1>2. Made(k) /\ SameLog
    BY TypeRetry DEF SameLog
<1>3. CASE push' = push
    BY <1>1, <1>2, <1>3, OrderKept
<1>4. CASE push' # push
    <2>1. /\ ~Superseded(k) /\ UNCHANGED row /\ push' \in Push /\ push'.pc = "gates"
          /\ push'.ev = k /\ push'.snap = row[k].snap
        BY <1>4, TypeRetry
    <2>2. remote[edits[k].rec] <= push'.snap
        BY <1>2, <2>1, RetryIsAhead
    <2>3. k \notin due'
        BY <1>1, <1>2 DEF OrderInv, DueIsNew
    <2> QED
        BY <1>1, <1>2, <2>1, <2>2, <2>3, OrderBegin
<1> QED
    BY <1>3, <1>4

\* So does an edit in the store.
LEMMA OrderEdit ==
    ASSUME TypeInv, OrderInv, NEW r \in Records, NEW v \in Values, EditRecord(r, v)
    PROVE  OrderInv'
<1>1. UNCHANGED <<row, push, remote>> /\ due' = due \cup {Len(edits) + 1}
    BY DEF EditRecord
<1>2. \A k \in 1..Len(edits) : edits'[k] = edits[k]
    BY Edited
<1>3. SameLog
    BY <1>1 DEF SameLog
<1>4. /\ MadeRows' = MadeRows /\ BornInOrder' /\ SnapsInOrder'
      /\ \A k \in MadeRows : edits'[k] = edits[k]
    BY <1>2, <1>3, LogOrder DEF OrderInv
<1>5. ShownByRow'
    BY <1>1, <1>3, <1>4, LogShown DEF OrderInv
<1>6. Len(edits) \in Nat /\ \A k \in 1..Len(edits) : k # Len(edits) + 1
    BY DEF TypeInv, TypeOK
<1>7. push.pc # "idle" => push.ev \in Events /\ push.ev \in 1..Len(edits)
    BY PushUnderWay DEF TypeInv
<1>8. DueIsNew'
    <2>1. \A k \in due' : ~Made(k)'
        <3>1. \A k \in due : ~Made(k)'
            BY <1>1 DEF OrderInv, DueIsNew, Made
        <3>2. Len(edits) + 1 \in Events
            BY <1>6 DEF EditRecord, Events, TypeInv, TypeOK
        <3>3. ~Made(Len(edits) + 1)
            BY <1>6, <3>2, RowIsThere DEF TypeInv
        <3> QED
            BY <1>1, <3>1, <3>3 DEF Made
    <2> QED
        BY <1>1, <1>6, <1>7, <2>1 DEF OrderInv, DueIsNew
<1>9. PushIsOfRow' /\ PushIsAhead'
    <2>1. CASE push.pc = "idle"
        BY <1>1, <2>1 DEF PushIsOfRow, PushIsAhead
    <2>2. CASE push.pc # "idle"
        <3>1. edits'[push.ev] = edits[push.ev]
            BY <1>2, <1>7, <2>2
        <3> QED
            BY <1>1, <1>4, <2>2, <3>1 DEF OrderInv, PushIsOfRow, PushIsAhead, Made
    <2> QED
        BY <2>1, <2>2
<1> QED
    BY <1>4, <1>5, <1>8, <1>9 DEF OrderInv

\* Past the gates, or stopped by one, the push has a row that holds its snapshot.
LEMMA OrderGates ==
    ASSUME TypeInv, OrderInv, Gates
    PROVE  OrderInv'
<1> USE DEF OrderInv
<1>1. PICK k \in Events : /\ push.ev = k /\ push.pc = "gates" /\ push \in Push
                          /\ edits[k].rec \in Records /\ k \notin due
    BY PushUnderWay DEF Gates, TypeInv, DueIsNew
<1>2. UNCHANGED <<edits, due, remote>>
    BY DEF Gates
<1>3. PICK st \in {"skipped", "pending"}, ref \in BOOLEAN :
          /\ row' = [row EXCEPT ![k] = LoggedAs(k, st, ref)]
          /\ push' = NoPush \/ (ref = TRUE /\ push' = [push EXCEPT !.pc = "find"])
    BY <1>1 DEF Gates
<1> DEFINE new == LoggedAs(k, st, ref)
<1>4. /\ new \in SyncRow /\ new.st = st /\ new.snap = push.snap
      /\ Made(k) => new.born = row[k].born /\ new.ref = (row[k].ref \/ ref)
      /\ ~Made(k) => new.born = 1 + Cardinality(MadeRows) /\ new.ref = ref
    BY <1>1, Logged DEF TypeInv
<1>5. row \in [Events -> SyncRow]
    BY DEF TypeInv, TypeOK
<1>6. row'[k] = new /\ \A j \in Events : j # k => row'[j] = row[j]
    BY <1>3, <1>5
<1>7. new.st # "none"
    BY <1>4
<1>8. push'.pc # "idle" => /\ push'.pc = "find" /\ push'.ev = k
                           /\ push'.snap = push.snap /\ ref = TRUE
    BY <1>1, <1>3, NoPushIdle, PushMoves
<1> HIDE DEF new
<1>9. /\ push'.pc # "idle" => remote[edits[k].rec] <= push'.snap
      /\ (Made(k) => row[k].snap = push.snap)
      /\ ~Made(k) => \A j \in MadeRows : edits[j].rec = edits[k].rec => row[j].snap <= push.snap
    BY <1>1, <1>8 DEF PushIsAhead, PushIsOfRow
<1>10. Made(k)' /\ MadeRows' = MadeRows \cup {k} /\ k \in MadeRows'
    BY <1>6, <1>7 DEF MadeRows, Made
<1>11. DueIsNew' /\ PushIsOfRow' /\ PushIsAhead'
    <2>1. due \subseteq Events
        BY DEF TypeInv, TypeOK, Events
    <2>2. DueIsNew'
        BY <1>1, <1>2, <1>6, <1>8, <2>1 DEF DueIsNew, Made
    <2>3. push'.pc # "idle" => row'[k].ref /\ row'[k].snap = push'.snap
        BY <1>4, <1>6, <1>8
    <2>4. PushIsOfRow'
        BY <1>8, <1>10, <2>3 DEF PushIsOfRow
    <2> QED
        BY <1>2, <1>8, <1>9, <2>2, <2>4 DEF PushIsAhead
<1>12. CASE Made(k)
    <2>1. SameLog
        BY <1>4, <1>6, <1>7, <1>9, <1>12 DEF SameLog, Made
    <2>2. \A j \in 1..Len(edits) : edits'[j] = edits[j]
        BY <1>2
    <2>3. /\ MadeRows' = MadeRows /\ BornInOrder' /\ SnapsInOrder'
          /\ \A j \in MadeRows : edits'[j] = edits[j]
        BY <2>1, <2>2, LogOrder
    <2>4. ShownByRow'
        BY <1>2, <2>1, <2>3, LogShown
    <2> QED
        BY <1>11, <2>3, <2>4
<1>13. CASE ~Made(k)
    <2>1. k \notin MadeRows /\ \A j \in MadeRows : j \in Events /\ j # k
        BY <1>13 DEF MadeRows
    <2>2. \A j \in MadeRows : row'[j] = row[j] /\ row[j].born \in Nat
        BY <1>5, <1>6, <2>1 DEF SyncRow
    <2>3. Cardinality(MadeRows') = Cardinality(MadeRows) + 1 /\ Cardinality(MadeRows) \in Nat
        BY <1>10, <2>1, RowsFinite, FS_AddElement
    <2>4. row'[k].born = 1 + Cardinality(MadeRows) /\ row'[k].snap = push.snap
        BY <1>4, <1>6, <1>13
    <2>5. BornInOrder'
        BY <1>10, <2>1, <2>2, <2>3, <2>4 DEF BornInOrder
    <2>6. SnapsInOrder'
        <3>1. ASSUME NEW i \in MadeRows', NEW j \in MadeRows',
                     edits[i].rec = edits[j].rec, row'[i].born < row'[j].born
              PROVE  row'[i].snap <= row'[j].snap
            <4>1. CASE i \in MadeRows /\ j \in MadeRows
                BY <2>2, <3>1, <4>1 DEF SnapsInOrder
            <4>2. CASE i \in MadeRows /\ j = k
                BY <1>9, <1>13, <2>2, <2>4, <3>1, <4>2
            <4>3. CASE i = k
                BY <1>10, <2>2, <2>3, <2>4, <3>1, <4>3 DEF BornInOrder
            <4> QED
                BY <1>10, <4>1, <4>2, <4>3
        <3> QED
            BY <1>2, <3>1 DEF SnapsInOrder
    <2>7. ShownByRow'
        <3> SUFFICES ASSUME NEW r \in Records, remote'[r] # 0
                     PROVE  \E j \in MadeRows' : /\ row'[j].ref /\ edits'[j].rec = r
                                                 /\ row'[j].snap = remote'[r]
            BY DEF ShownByRow
        <3>1. PICK j \in MadeRows : row[j].ref /\ edits[j].rec = r /\ row[j].snap = remote[r]
            BY <1>2 DEF ShownByRow
        <3> QED
            BY <1>2, <1>10, <2>2, <3>1
    <2> QED
        BY <1>11, <2>5, <2>6, <2>7
<1> QED
    BY <1>12, <1>13

\* A write shows the push's snapshot, which is its row's.
LEMMA OrderWrite ==
    ASSUME TypeInv, OrderInv, WriteRemote \/ AnswerLost
    PROVE  OrderInv' /\ \A r \in Records : remote'[r] >= remote[r]
<1>1. PICK k \in Events : /\ push.ev = k /\ push.pc = "write" /\ push \in Push
                          /\ edits[k].rec \in Records /\ row[k] \in SyncRow
                          /\ push.snap \in EditsOf(edits[k].rec)
    BY PushUnderWay DEF WriteRemote, AnswerLost, TypeInv
<1>2. UNCHANGED <<edits, due>> /\ remote' = [remote EXCEPT ![edits[k].rec] = push.snap]
    BY <1>1 DEF WriteRemote, AnswerLost
<1>3. Made(k) /\ row[k].ref /\ row[k].snap = push.snap /\ remote[edits[k].rec] <= push.snap
    BY <1>1 DEF OrderInv, PushIsOfRow, PushIsAhead
<1>4. remote \in [Records -> Nat] /\ push.snap \in Nat
    BY <1>1 DEF TypeInv, TypeOK, EditsOf
<1>5. \A r \in Records : remote'[r] >= remote[r]
    BY <1>1, <1>2, <1>3, <1>4
<1>6. SameLog
    <2>1. row' = row \/ row' = [row EXCEPT ![k].st = "failed"]
        BY <1>1 DEF WriteRemote, AnswerLost
    <2>2. row[k].st # "none" /\ TypeOK
        BY <1>3 DEF Made, TypeInv
    <2> QED
        BY <2>1, <2>2, TypeStatus DEF SameLog
<1>7. \A j \in 1..Len(edits) : edits'[j] = edits[j]
    BY <1>2
<1>8. /\ MadeRows' = MadeRows /\ BornInOrder' /\ SnapsInOrder'
      /\ \A j \in MadeRows : edits'[j] = edits[j]
    BY <1>6, <1>7, LogOrder DEF OrderInv
<1>9. k \in MadeRows /\ \A j \in MadeRows : j \in Events
    BY <1>3 DEF MadeRows
<1>10. ShownByRow'
    <2> SUFFICES ASSUME NEW r \in Records, remote'[r] # 0
                 PROVE  \E j \in MadeRows' : /\ row'[j].ref /\ edits'[j].rec = r
                                             /\ row'[j].snap = remote'[r]
        BY DEF ShownByRow
    <2>1. CASE r = edits[k].rec
        BY <1>1, <1>2, <1>3, <1>4, <1>6, <1>8, <1>9, <2>1 DEF SameLog
    <2>2. CASE r # edits[k].rec
        <3>1. remote'[r] = remote[r]
            BY <1>2, <1>4, <2>2
        <3>2. PICK j \in MadeRows : row[j].ref /\ edits[j].rec = r /\ row[j].snap = remote[r]
            BY <3>1 DEF OrderInv, ShownByRow
        <3> QED
            BY <1>6, <1>8, <1>9, <3>1, <3>2 DEF SameLog
    <2> QED
        BY <2>1, <2>2
<1>11. \A j \in Events : Made(j)' = Made(j)
    BY <1>6 DEF SameLog, Made
<1>12. push' = NoPush \/ push' = [push EXCEPT !.pc = "link"]
    BY DEF WriteRemote, AnswerLost
<1>13. push'.pc # "idle" => push'.pc = "link" /\ push'.ev = k /\ push'.snap = push.snap
    BY <1>1, <1>12, NoPushIdle, PushMoves
<1>14. DueIsNew'
    BY <1>1, <1>2, <1>11, <1>13 DEF OrderInv, DueIsNew, TypeInv, TypeOK, Events
<1>15. PushIsOfRow'
    BY <1>3, <1>6, <1>11, <1>13 DEF PushIsOfRow, SameLog
<1>16. PushIsAhead'
    BY <1>1, <1>2, <1>4, <1>13 DEF PushIsAhead
<1> QED
    BY <1>5, <1>8, <1>10, <1>14, <1>15, <1>16 DEF OrderInv

\* The order of the log is kept by every step, and no document goes back.
LEMMA OrderNext ==
    TypeInv /\ OrderInv /\ [Next]_vars =>
        OrderInv' /\ \A r \in Records : remote'[r] >= remote[r]
<1> SUFFICES ASSUME TypeInv, OrderInv, [Next]_vars
             PROVE  OrderInv' /\ \A r \in Records : remote'[r] >= remote[r]
    OBVIOUS
<1>1. ASSUME UNCHANGED remote PROVE \A r \in Records : remote'[r] >= remote[r]
    BY <1>1 DEF TypeInv, TypeOK
<1>2. ASSUME NEW r \in Records, NEW v \in Values, EditRecord(r, v)
      PROVE  OrderInv' /\ UNCHANGED remote
    BY <1>2, OrderEdit DEF EditRecord
<1>3. ASSUME NEW k \in Events, Deliver(k) PROVE OrderInv' /\ UNCHANGED remote
    BY <1>3, OrderDeliver DEF Deliver
<1>4. ASSUME NEW k \in Events, Age(k) \/ Poison(k) \/ JobRetries(k) \/ ButtonRetries(k)
      PROVE  OrderInv' /\ UNCHANGED remote
    BY <1>4, OrderRetry DEF Age, Poison, JobRetries, ButtonRetries, Retry
<1>5. CASE Gates
    BY <1>1, <1>5, OrderGates DEF Gates
<1>6. CASE WriteRemote \/ AnswerLost
    BY <1>6, OrderWrite
<1>7. CASE Find \/ FindUnanswered \/ RecordLink \/ Finish \/ Refused \/ Crash
    <2>1. UNCHANGED <<edits, remote>> /\ due' \subseteq due
        BY <1>7 DEF Find, FindUnanswered, RecordLink, Finish, Refused, Crash
    <2>2. SameLog
        <3>1. CASE row' = row
            BY <3>1 DEF SameLog
        <3>2. CASE row' # row
            <4>1. PICK st \in {"failed", "success"} : row' = [row EXCEPT ![push.ev].st = st]
                BY <1>7, <3>2 DEF Find, FindUnanswered, RecordLink, Finish, Refused, Crash
            <4>2. push.pc \notin {"idle", "gates"}
                BY <1>7, <3>2 DEF Find, FindUnanswered, RecordLink, Finish, Refused, Crash
            <4>3. push.ev \in Events /\ row[push.ev].st # "none" /\ TypeOK
                BY <4>2, PushUnderWay DEF TypeInv, PushIsLogged
            <4> QED
                BY <4>1, <4>3, TypeStatus DEF SameLog
        <3> QED
            BY <3>1, <3>2
    <2>3. \/ push' = NoPush
          \/ /\ push.pc \notin {"idle", "gates"}
             /\ \/ push' = [push EXCEPT !.pc = "finish"]
                \/ \E f \in BOOLEAN : push' = [push EXCEPT !.pc = "write", !.found = f]
        BY <1>7 DEF Find, FindUnanswered, RecordLink, Finish, Refused, Crash, Known
    <2>4. push \in Push
        BY DEF TypeInv, TypeOK
    <2>5. \/ push'.pc = "idle"
          \/ /\ push.pc \notin {"idle", "gates"} /\ push'.pc # "gates"
             /\ push'.ev = push.ev /\ push'.snap = push.snap
        <3>1. CASE push' = NoPush
            BY <3>1, NoPushIdle
        <3>2. CASE push' = [push EXCEPT !.pc = "finish"]
            BY <2>3, <2>4, <3>2, NoPushIdle, PushMoves
        <3>3. ASSUME NEW f \in BOOLEAN, push' = [push EXCEPT !.pc = "write", !.found = f]
              PROVE  push'.pc = "write" /\ push'.ev = push.ev /\ push'.snap = push.snap
            <4>1. "find" \in {"find", "link", "finish"}
                OBVIOUS
            <4> QED
                BY <2>4, <3>3, <4>1, PushMoves, Zenon
        <3>4. NoPush.pc = "idle"
            BY NoPushIdle
        <3> QED
            BY <2>3, <3>1, <3>2, <3>3
    <2> QED
        BY <1>1, <2>1, <2>2, <2>5, OrderKept
<1>8. CASE UNCHANGED vars
    <2>1. SameLog
        BY <1>8 DEF vars, SameLog
    <2> QED
        BY <1>1, <1>8, <2>1, OrderKept DEF vars
<1> QED
    BY <1>1, <1>2, <1>3, <1>4, <1>5, <1>6, <1>7, <1>8 DEF Next, PushStep

\* The log is in order always.
LEMMA OrderInvariant == Spec => []OrderInv
<1>1. TypeInv /\ OrderInv /\ [Next]_vars => OrderInv'
    BY OrderNext
<1> QED
    BY <1>1, TypeInvariant, OrderInit, PTL DEF Spec

\* No failure, retry, press of Replay or late event puts an older state of a
\* record over a newer one in ERPNext, for any number of them.
THEOREM NeverBack == Spec => NeverGoesBack
<1>1. TypeInv /\ OrderInv /\ [Next]_vars => [\A r \in Records : remote'[r] >= remote[r]]_vars
    BY OrderNext
<1> QED
    BY <1>1, TypeInvariant, OrderInvariant, PTL DEF Spec, NeverGoesBack

-----------------------------------------------------------------------------
(* The pushes implement RecordMirror *)

\* What the link table knows, what a lookup found and what was just written is there.
LinkInv ==
    /\ \A r \in link : copies[r] >= 1
    /\ push.pc = "write" /\ push.found => copies[edits[push.ev].rec] >= 1
    /\ push.pc \in {"link", "finish"} => copies[edits[push.ev].rec] >= 1

LEMMA LinkInit == Init => LinkInv
BY DEF Init, NoPush, LinkInv

\* No document disappears, and a link is recorded after its document was written.
LEMMA LinkNext == TypeInv /\ LinkInv /\ [Next]_vars => LinkInv'
<1> SUFFICES ASSUME TypeInv, LinkInv, [Next]_vars PROVE LinkInv'
    OBVIOUS
<1>1. copies \in [Records -> Nat] /\ TypeOK /\ push \in Push /\ link \subseteq Records
    BY DEF TypeInv, TypeOK
<1>2. NoPush.pc = "idle"
    BY DEF NoPush
<1>3. ASSUME copies' = copies, link' = link, push'.pc \in {"idle", "gates", "find"}
      PROVE  LinkInv'
    BY <1>3 DEF LinkInv
<1>4. ASSUME NEW r \in Records, NEW v \in Values, EditRecord(r, v) PROVE LinkInv'
    <2>1. copies' = copies /\ push' = push /\ link' = link
        BY <1>4 DEF EditRecord
    <2>2. push.pc # "idle" => edits'[push.ev] = edits[push.ev]
        BY <1>1, <1>4, Edited, PushUnderWay
    <2> QED
        BY <2>1, <2>2 DEF LinkInv
<1>12. CASE FindUnanswered
    <2>1. push'.pc = "write" /\ ~push'.found
        BY <1>1, <1>12 DEF FindUnanswered, Push
    <2> QED
        BY <1>12, <2>1 DEF LinkInv, FindUnanswered
<1>5. CASE Find
    <2>1. push' = [push EXCEPT !.pc = "write", !.found = Known(edits[push.ev].rec)]
        BY <1>5 DEF Find
    <2>2. push'.pc = "write" /\ push'.ev = push.ev /\ push'.found = Known(edits[push.ev].rec)
        BY <1>1, <2>1 DEF Push
    <2>3. copies' = copies /\ edits' = edits /\ link' = link
        BY <1>5 DEF Find
    <2>4. edits[push.ev].rec \in Records
        BY <1>1, <1>5, PushUnderWay DEF Find
    <2>5. Known(edits[push.ev].rec) => copies[edits[push.ev].rec] >= 1
        BY <1>1, <2>4 DEF LinkInv, Known
    <2> QED
        BY <2>2, <2>3, <2>5 DEF LinkInv
<1>6. CASE WriteRemote \/ AnswerLost
    <2> DEFINE r == edits[push.ev].rec
    <2>1. push.pc = "write" /\ r \in Records
        BY <1>1, <1>6, PushUnderWay DEF WriteRemote, AnswerLost
    <2>2. copies' = IF push.found THEN copies ELSE [copies EXCEPT ![r] = @ + 1]
        BY <1>6 DEF WriteRemote, AnswerLost
    <2>3. copies'[r] >= 1 /\ \A q \in Records : copies'[q] >= copies[q]
        BY <1>1, <2>1, <2>2 DEF LinkInv
    <2>4. link' = link /\ edits' = edits
        BY <1>6 DEF WriteRemote, AnswerLost
    <2>5. \A q \in link : copies'[q] >= 1
        BY <1>1, <2>2, <2>3 DEF LinkInv
    <2>6. push'.pc = "idle" \/ (push'.pc = "link" /\ push'.ev = push.ev)
        BY <1>1, <1>2, <1>6 DEF WriteRemote, AnswerLost, Push
    <2> QED
        BY <2>3, <2>4, <2>5, <2>6 DEF LinkInv
<1>7. CASE RecordLink
    <2>1. push'.pc = "finish" /\ push'.ev = push.ev /\ push.pc = "link"
        BY <1>1, <1>7 DEF RecordLink, Push
    <2> QED
        BY <1>7, <2>1 DEF LinkInv, RecordLink
<1>8. CASE Gates \/ Finish \/ Refused \/ Crash
    <2>1. push' = NoPush \/ push' = [push EXCEPT !.pc = "find"]
        BY <1>8 DEF Gates, Finish, Refused, Crash
    <2>2. push'.pc \in {"idle", "find"}
        BY <1>1, <1>2, <2>1 DEF Push
    <2>3. copies' = copies /\ link' = link
        BY <1>8 DEF Gates, Finish, Refused, Crash
    <2> QED
        BY <1>3, <2>2, <2>3
<1>9. ASSUME NEW k \in Events, Deliver(k) PROVE LinkInv'
    BY <1>3, <1>9, TypeDeliver DEF Deliver
<1>10. ASSUME NEW k \in Events, Age(k) \/ Poison(k) \/ JobRetries(k) \/ ButtonRetries(k)
       PROVE  LinkInv'
    <2>1. copies' = copies /\ link' = link /\ edits' = edits
        BY <1>10 DEF Age, Poison, JobRetries, ButtonRetries, Retry
    <2>2. push' = push \/ push'.pc = "gates"
        BY <1>10, TypeRetry, Begun DEF Age, Poison, JobRetries, ButtonRetries, Retry, Begin
    <2> QED
        BY <1>3, <2>1, <2>2 DEF LinkInv
<1>11. CASE UNCHANGED vars
    BY <1>11 DEF vars, LinkInv
<1> QED
    BY <1>4, <1>5, <1>6, <1>7, <1>8, <1>9, <1>10, <1>11, <1>12 DEF Next, PushStep

\* Nothing is mirrored at the start.
LEMMA MirrorStart == Init => Mirror!MirrorInit
<1> SUFFICES ASSUME Init PROVE Mirror!MirrorInit
    OBVIOUS
<1>1. \A r \in Records : EditsOf(r) = {}
    BY DEF Init, EditsOf
<1> QED
    BY <1>1 DEF Init, Mirror!MirrorInit

\* An edit is a new state, a write that ERPNext took reflects one, and every other step
\* is none of the mirror's business.
LEMMA MirrorStep ==
    ASSUME TypeInv, DocInv, OrderInv, LinkInv, [Next]_vars
    PROVE  [Mirror!MirrorNext]_(Mirror!mirrorVars)
<1>1. copies \in [Records -> Nat] /\ remote \in [Records -> Nat] /\ TypeOK /\ edits \in Seq(Edit)
      /\ Len(edits) \in Nat
    BY DEF TypeInv, TypeOK
<1>2. ASSUME UNCHANGED <<edits, copies, remote, blind>> PROVE UNCHANGED Mirror!mirrorVars
    BY <1>2 DEF EditsOf, Mirror!mirrorVars
<1>3. ASSUME NEW r \in Records, NEW v \in Values, EditRecord(r, v) PROVE Mirror!MirrorNext
    <2> DEFINE n == Len(edits) + 1
    <2>1. Len(edits) < MaxEdits /\ UNCHANGED <<remote, copies, blind>>
          /\ edits' = Append(edits, [rec |-> r, val |-> v])
        BY <1>3 DEF EditRecord
    <2>2. n \in Events
        BY <1>1, <2>1 DEF Events
    <2>3. Len(edits') = n /\ edits'[n].rec = r /\ \A k \in 1..Len(edits) : edits'[k] = edits[k]
        BY <1>1, <2>1
    <2>4. \A q \in Records : EditsOf(q)' = IF q = r THEN EditsOf(q) \cup {n} ELSE EditsOf(q)
        BY <1>1, <2>3 DEF EditsOf
    <2>5. \A q \in Records : \A m \in EditsOf(q) : m < n
        BY <1>1 DEF EditsOf
    <2>6. Mirror!Become(r, n)
        BY <2>1, <2>4, <2>5 DEF Mirror!Become
    <2> QED
        BY <2>2, <2>6 DEF Mirror!MirrorNext
<1>4. CASE WriteRemote \/ AnswerLost
    <2> DEFINE r == edits[push.ev].rec
               n == push.snap
    <2>1. push.pc = "write" /\ r \in Records /\ n \in EditsOf(r)
        BY <1>1, <1>4, PushUnderWay DEF WriteRemote, AnswerLost
    <2>2. n \in Events
        BY <1>1, <2>1 DEF EditsOf, Events, TypeOK
    <2>3. n >= remote[r]
        BY <2>1 DEF OrderInv, PushIsAhead
    <2>4. remote' = [remote EXCEPT ![r] = n] /\ edits' = edits /\ blind' = blind
        BY <1>4 DEF WriteRemote, AnswerLost
    <2>5. Mirror!Tell(r, n)
        BY <2>1, <2>3, <2>4 DEF Mirror!Tell, EditsOf
    <2>6. copies' = IF push.found THEN copies ELSE [copies EXCEPT ![r] = @ + 1]
        BY <1>4 DEF WriteRemote, AnswerLost
    <2>7. CASE push.found
        <3>1. copies[r] > 0 /\ copies' = copies
            BY <1>1, <2>1, <2>6, <2>7 DEF LinkInv
        <3>2. Mirror!Update(r, n)
            BY <2>5, <3>1 DEF Mirror!Update
        <3> QED
            BY <2>1, <2>2, <3>2 DEF Mirror!MirrorNext
    <2>8. CASE ~push.found
        <3>1. copies[r] <= blind[r] /\ copies' = [copies EXCEPT ![r] = @ + 1]
            BY <2>1, <2>6, <2>8 DEF DocInv, PostsNew
        <3>2. Mirror!Create(r, n)
            BY <2>5, <3>1 DEF Mirror!Create
        <3> QED
            BY <2>1, <2>2, <3>2 DEF Mirror!MirrorNext
    <2> QED
        BY <2>7, <2>8
<1>8. CASE FindUnanswered
    <2> DEFINE r == edits[push.ev].rec
    <2>1. r \in Records
        BY <1>1, <1>8, PushUnderWay DEF FindUnanswered
    <2>2. Mirror!Doubt(r)
        BY <1>8 DEF FindUnanswered, Mirror!Doubt, EditsOf
    <2> QED
        BY <2>1, <2>2 DEF Mirror!MirrorNext
<1>5. CASE Gates \/ Find \/ RecordLink \/ Finish \/ Refused \/ Crash
    BY <1>2, <1>5 DEF Gates, Find, RecordLink, Finish, Refused, Crash
<1>6. ASSUME NEW k \in Events,
             Deliver(k) \/ Age(k) \/ Poison(k) \/ JobRetries(k) \/ ButtonRetries(k)
      PROVE  UNCHANGED Mirror!mirrorVars
    BY <1>2, <1>6 DEF Deliver, Age, Poison, JobRetries, ButtonRetries, Retry
<1>7. CASE UNCHANGED vars
    BY <1>2, <1>7 DEF vars
<1> QED
    BY <1>3, <1>4, <1>5, <1>6, <1>7, <1>8 DEF Next, PushStep

\* Where the mapping's key finds a document, the pushes of any number of records, with
\* any number of failures, restarts, retries and replays, implement the mirror.
THEOREM ImplementsMirror == ASSUME KeyFound PROVE Spec => MirrorsRecords
<1>1. TypeInv /\ DocInv /\ [Next]_vars => DocInv'
    BY DocNext
<1>2. Spec => []DocInv
    BY <1>1, DocInit, TypeInvariant, PTL DEF Spec
<1>3. Spec => []LinkInv
    BY LinkInit, LinkNext, TypeInvariant, PTL DEF Spec
<1>4. TypeInv /\ DocInv /\ OrderInv /\ LinkInv /\ [Next]_vars
          => [Mirror!MirrorNext]_(Mirror!mirrorVars)
    BY MirrorStep
<1> QED
    BY <1>2, <1>3, <1>4, MirrorStart, TypeInvariant, OrderInvariant, PTL
    DEF Spec, MirrorsRecords, Mirror!MirrorSpec

-----------------------------------------------------------------------------
(* The newest state taken up is not forgotten *)

\* A row past its gates qualified for its mapping.
Qualified ==
    \A k \in Events : row[k].ref => Made(k) /\ edits[row[k].snap].val \in Qualifying

\* A push of a row that is there is of the newest one past the gates.
PushIsNewest == push.pc # "idle" /\ Made(push.ev) => ~Superseded(push.ev)

\* What was written is what the push carries.
WrittenShows == push.pc \in {"link", "finish"} => remote[edits[push.ev].rec] = push.snap

\* The newest row past the gates says it is settled only if the document shows it.
Settled(k) == row[k].st \in {"success", "skipped"}
SettledShows ==
    \A k \in Events : Newest(k) /\ Settled(k) => remote[edits[k].rec] = row[k].snap

KeptInv == Qualified /\ PushIsNewest /\ WrittenShows /\ SettledShows

LEMMA KeptInit == Init => KeptInv
<1> SUFFICES ASSUME Init PROVE KeptInv
    OBVIOUS
<1>1. push.pc = "idle" /\ \A k \in Events : row[k].ref = FALSE
    BY DEF Init, NoPush, NoSyncRow
<1> QED
    BY <1>1 DEF KeptInv, Qualified, PushIsNewest, WrittenShows, SettledShows, Newest

\* Of two rows past the gates the newer one supersedes; so the newest is not behind.
LEMMA NewestIsOne ==
    ASSUME TypeInv, OrderInv, NEW k \in Events, Newest(k), Made(k),
           NEW j \in Events, Made(j), row[j].ref, ~Superseded(j), edits[j].rec = edits[k].rec
    PROVE  j = k
<1>1. row[j].born \in Nat /\ row[k].born \in Nat
    BY RowIsThere DEF TypeInv, SyncRow
<1>2. row[j].born <= row[k].born
    BY DEF Newest
<1>3. ~(row[k].born > row[j].born)
    BY DEF Superseded, Newest
<1>4. row[j].born = row[k].born
    BY <1>1, <1>2, <1>3
<1> QED
    BY <1>4 DEF OrderInv, BornInOrder, MadeRows

\* Steps that change no document and no row but its outcome.
LEMMA KeptStep ==
    ASSUME TypeInv, KeptInv, UNCHANGED remote,
           \A j \in 1..Len(edits) : edits'[j] = edits[j],
           \A j \in Events :
              /\ row'[j].st # "none" <=> row[j].st # "none"
              /\ row'[j].born = row[j].born /\ row'[j].ref = row[j].ref
              /\ row'[j].snap = row[j].snap,
           \A j \in Events : row'[j].st \in {"success", "skipped"} =>
              \/ Settled(j) \/ ~Newest(j) \/ remote[edits[j].rec] = row[j].snap,
           \/ push'.pc = "idle"
           \/ /\ push'.ev \in 1..Len(edits) /\ push'.ev \in Events
              /\ Made(push'.ev) => ~Superseded(push'.ev)
              /\ push'.pc \in {"link", "finish"} => remote[edits[push'.ev].rec] = push'.snap
    PROVE  KeptInv'
<1>1. \A j \in Events : Made(j)' = Made(j)
    BY DEF Made
<1>2. \A j \in Events : Made(j) => /\ edits'[j] = edits[j]
                                   /\ edits'[row[j].snap] = edits[row[j].snap]
    <2> SUFFICES ASSUME NEW j \in Events, Made(j)
                 PROVE  edits'[j] = edits[j] /\ edits'[row[j].snap] = edits[row[j].snap]
        OBVIOUS
    <2>1. j \in 1..Len(edits) /\ row[j].snap \in 1..Len(edits)
        BY RowIsThere DEF TypeInv, EditsOf
    <2> QED
        BY <2>1
<1>3. Qualified'
    BY <1>1, <1>2 DEF KeptInv, Qualified
<1>4. \A j \in Events : row[j].ref => Made(j)
    BY DEF KeptInv, Qualified
<1>5. PushIsNewest'
    <2> SUFFICES ASSUME push'.pc # "idle", Made(push.ev)', Superseded(push.ev)' PROVE FALSE
        BY DEF PushIsNewest
    <2>1. PICK e \in Events : e = push'.ev /\ e \in 1..Len(edits) /\ (Made(e) => ~Superseded(e))
        OBVIOUS
    <2>2. Made(e)' /\ Superseded(e)'
        BY <2>1 DEF Made, Superseded
    <2>3. PICK j \in Events : /\ Made(j)' /\ row'[j].ref /\ row'[j].born > row'[e].born
                              /\ edits'[j].rec = edits'[e].rec
        BY <2>2 DEF Superseded
    <2> QED
        BY <1>1, <1>2, <2>1, <2>2, <2>3 DEF Superseded
<1>6. WrittenShows'
    BY DEF WrittenShows
<1>7. SettledShows'
    <2> SUFFICES ASSUME NEW k \in Events, Newest(k)', Settled(k)'
                 PROVE  remote'[edits'[k].rec] = row'[k].snap
        BY DEF SettledShows
    <2>1. row[k].ref /\ Made(k) /\ edits'[k] = edits[k]
        BY <1>2, <1>4 DEF Newest
    <2>2. Newest(k)
        BY <1>2, <1>4, <2>1 DEF Newest
    <2>3. Settled(k) \/ remote[edits[k].rec] = row[k].snap
        BY <2>2 DEF Settled
    <2> QED
        BY <2>1, <2>2, <2>3 DEF KeptInv, SettledShows
<1> QED
    BY <1>3, <1>5, <1>6, <1>7 DEF KeptInv

\* A push under way keeps that it is of the newest row.
LEMMA PushStaysNewest ==
    ASSUME TypeInv, KeptInv, push.pc # "idle"
    PROVE  /\ push.ev \in 1..Len(edits) /\ push.ev \in Events
           /\ Made(push.ev) => ~Superseded(push.ev)
           /\ push.pc \in {"link", "finish"} => remote[edits[push.ev].rec] = push.snap
BY PushUnderWay DEF TypeInv, KeptInv, PushIsNewest, WrittenShows

\* The gates: what is stopped there was not past them before.
LEMMA KeptGates ==
    ASSUME ~SkipUnchanged, TypeInv, OrderInv, KeptInv, Gates
    PROVE  KeptInv'
<1>1. PICK k \in Events : /\ push.ev = k /\ push.pc = "gates" /\ push \in Push
                          /\ k \in 1..Len(edits) /\ edits[k].rec \in Records
    BY PushUnderWay DEF Gates, TypeInv
<1>2. UNCHANGED <<edits, remote>>
    BY DEF Gates
<1>3. Made(k) => row[k].snap = push.snap /\ ~Superseded(k)
    BY <1>1 DEF OrderInv, PushIsOfRow, KeptInv, PushIsNewest
<1>4. PICK st \in {"skipped", "pending"}, ref \in BOOLEAN :
          /\ row' = [row EXCEPT ![k] = LoggedAs(k, st, ref)]
          /\ Skips => st = "skipped" /\ ref = FALSE /\ push' = NoPush
          /\ ~Skips => st = "pending" /\ ref = TRUE /\ push' = [push EXCEPT !.pc = "find"]
    BY <1>1 DEF Gates
<1> DEFINE new == LoggedAs(k, st, ref)
<1>5. /\ new \in SyncRow /\ new.st = st /\ new.snap = push.snap
      /\ Made(k) => new.born = row[k].born /\ new.ref = (row[k].ref \/ ref)
      /\ ~Made(k) => new.born = 1 + Cardinality(MadeRows) /\ new.ref = ref
    BY <1>1, Logged DEF TypeInv
<1>6. row \in [Events -> SyncRow]
    BY DEF TypeInv, TypeOK
<1>7. row'[k] = new /\ \A j \in Events : j # k => row'[j] = row[j]
    BY <1>4, <1>6
<1> HIDE DEF new
<1>8. Skips <=> edits[push.snap].val \notin Qualifying
    BY DEF Skips
<1>9. new.ref => ~Skips
    BY <1>1, <1>3, <1>4, <1>5, <1>8 DEF KeptInv, Qualified
<1>10. Made(k)' /\ \A j \in Events : j # k => Made(j)' = Made(j)
    BY <1>5, <1>7 DEF Made
<1>11. Qualified'
    BY <1>2, <1>5, <1>7, <1>8, <1>9, <1>10 DEF KeptInv, Qualified
<1>12. \A j \in Events : j # k /\ row[j].ref /\ edits[j].rec = edits[k].rec
           => row[j].born <= new.born
    <2> SUFFICES ASSUME NEW j \in Events, j # k, row[j].ref, edits[j].rec = edits[k].rec
                 PROVE  row[j].born <= new.born
        OBVIOUS
    <2>1. Made(j) /\ j \in MadeRows /\ row[j].born \in Nat /\ row[k].born \in Nat
        BY <1>6 DEF KeptInv, Qualified, MadeRows, SyncRow
    <2>2. CASE Made(k)
        BY <1>3, <1>5, <2>1, <2>2 DEF Superseded
    <2>3. CASE ~Made(k)
        BY <1>5, <2>1, <2>3, RowsFinite DEF OrderInv, BornInOrder
    <2> QED
        BY <2>2, <2>3
<1>13. PushIsNewest' /\ WrittenShows'
    <2>1. Skips => push'.pc = "idle"
        BY <1>4, NoPushIdle
    <2>2. ~Skips => push'.pc = "find" /\ push'.ev = k
        BY <1>1, <1>4, PushMoves
    <2>3. ~Superseded(k)'
        <3> SUFFICES ASSUME NEW j \in Events, row'[j].ref, row'[j].born > row'[k].born,
                            edits'[j].rec = edits'[k].rec
                     PROVE  FALSE
            BY DEF Superseded
        <3>1. j # k
            BY <1>5, <1>7 DEF SyncRow
        <3>2. row[j].born \in Nat /\ new.born \in Nat
            BY <1>5, <1>6 DEF SyncRow
        <3> QED
            BY <1>2, <1>7, <1>12, <3>1, <3>2
    <2> QED
        BY <2>1, <2>2, <2>3 DEF PushIsNewest, WrittenShows, Superseded
<1>14. SettledShows'
    <2> SUFFICES ASSUME NEW j \in Events, Newest(j)', Settled(j)'
                 PROVE  remote'[edits'[j].rec] = row'[j].snap
        BY DEF SettledShows
    <2>1. j # k
        BY <1>4, <1>5, <1>7, <1>9 DEF Newest, Settled
    <2>2. row'[j] = row[j] /\ row[j].ref /\ Settled(j)
        BY <1>7, <2>1 DEF Newest, Settled
    <2>3. Newest(j)
        <3> SUFFICES ASSUME NEW i \in Events, row[i].ref, edits[i].rec = edits[j].rec
                     PROVE  row[i].born <= row[j].born
            BY <2>2 DEF Newest
        <3>1. row'[i].ref /\ row'[i].born = row[i].born
            <4>1. CASE i # k
                BY <1>7, <4>1
            <4>2. CASE i = k
                BY <1>5, <1>7, <4>2 DEF KeptInv, Qualified
            <4> QED
                BY <4>1, <4>2
        <3> QED
            BY <1>2, <2>2, <3>1 DEF Newest
    <2> QED
        BY <1>2, <2>2, <2>3 DEF KeptInv, SettledShows
<1> QED
    BY <1>11, <1>13, <1>14 DEF KeptInv

\* A write shows the newest row; no other row of its record was the newest.
LEMMA KeptWrite ==
    ASSUME TypeInv, OrderInv, KeptInv, WriteRemote \/ AnswerLost
    PROVE  KeptInv'
<1>1. PICK k \in Events : /\ push.ev = k /\ push.pc = "write" /\ push \in Push
                          /\ k \in 1..Len(edits) /\ edits[k].rec \in Records
                          /\ push.snap \in EditsOf(edits[k].rec)
    BY PushUnderWay DEF WriteRemote, AnswerLost, TypeInv
<1>2. UNCHANGED edits /\ remote' = [remote EXCEPT ![edits[k].rec] = push.snap]
    BY <1>1 DEF WriteRemote, AnswerLost
<1>3. Made(k) /\ row[k].ref /\ row[k].snap = push.snap /\ ~Superseded(k)
    BY <1>1 DEF OrderInv, PushIsOfRow, KeptInv, PushIsNewest
<1>4. remote \in [Records -> Nat] /\ row \in [Events -> SyncRow]
    BY DEF TypeInv, TypeOK
<1>5. \A j \in Events :
          /\ row'[j].st # "none" <=> row[j].st # "none"
          /\ row'[j].born = row[j].born /\ row'[j].ref = row[j].ref
          /\ row'[j].snap = row[j].snap
          /\ Settled(j)' => Settled(j)
    <2>1. row' = row \/ row' = [row EXCEPT ![k].st = "failed"]
        BY <1>1 DEF WriteRemote, AnswerLost
    <2>2. CASE row' = row
        BY <2>2 DEF Settled
    <2>3. CASE row' = [row EXCEPT ![k].st = "failed"]
        <3>1. row'[k] = [row[k] EXCEPT !.st = "failed"] /\ \A j \in Events : j # k => row'[j] = row[j]
            BY <1>4, <2>3
        <3>2. row[k] \in SyncRow
            BY <1>4
        <3> QED
            <4>1. /\ row'[k].st = "failed" /\ row'[k].born = row[k].born
                  /\ row'[k].ref = row[k].ref /\ row'[k].snap = row[k].snap
                BY <3>1, <3>2, StatusSet
            <4> QED
                BY <1>3, <3>1, <4>1 DEF Settled, Made
    <2> QED
        BY <2>1, <2>2, <2>3
<1>6. \A j \in Events : Made(j)' = Made(j) /\ Newest(j)' = Newest(j)
                        /\ Superseded(j)' = Superseded(j)
    BY <1>2, <1>5 DEF Made, Newest, Superseded
<1>7. Qualified'
    BY <1>2, <1>5, <1>6 DEF KeptInv, Qualified
<1>8. push'.pc # "idle" => push'.pc = "link" /\ push'.ev = k /\ push'.snap = push.snap
    <2>1. push' = NoPush \/ push' = [push EXCEPT !.pc = "link"]
        BY DEF WriteRemote, AnswerLost
    <2> QED
        BY <1>1, <2>1, NoPushIdle, PushMoves
<1>9. remote'[edits'[k].rec] = push.snap
    BY <1>1, <1>2, <1>4
<1>10. PushIsNewest' /\ WrittenShows'
    BY <1>3, <1>6, <1>8, <1>9 DEF PushIsNewest, WrittenShows
<1>11. SettledShows'
    <2> SUFFICES ASSUME NEW j \in Events, Newest(j)', Settled(j)'
                 PROVE  remote'[edits'[j].rec] = row'[j].snap
        BY DEF SettledShows
    <2>1. Newest(j) /\ Settled(j) /\ Made(j) /\ row'[j].snap = row[j].snap
        BY <1>5, <1>6 DEF KeptInv, Qualified, Newest
    <2>2. CASE edits[j].rec = edits[k].rec
        <3>1. k = j
            BY <1>3, <2>1, <2>2, NewestIsOne
        <3> QED
            BY <1>3, <1>9, <2>1, <3>1
    <2>3. CASE edits[j].rec # edits[k].rec
        <3>1. edits[j].rec \in Records
            BY <2>1, RowIsThere DEF TypeInv
        <3>2. remote'[edits[j].rec] = remote[edits[j].rec]
            BY <1>2, <1>4, <2>3, <3>1
        <3> QED
            BY <1>2, <2>1, <3>2 DEF KeptInv, SettledShows
    <2> QED
        BY <2>2, <2>3
<1> QED
    BY <1>7, <1>10, <1>11 DEF KeptInv

\* Retries, and what is passed over because a newer row is there.
LEMMA KeptRetry ==
    ASSUME TypeInv, OrderInv, KeptInv, NEW k \in Events,
           Age(k) \/ Poison(k) \/ JobRetries(k) \/ ButtonRetries(k)
    PROVE  KeptInv'
<1>1. UNCHANGED <<edits, remote>>
    BY DEF Age, Poison, JobRetries, ButtonRetries, Retry
<1>2. row \in [Events -> SyncRow]
    BY DEF TypeInv, TypeOK
<1>3. \A j \in Events : row'[j].st \in {"success", "skipped"} => Settled(j) \/ ~Newest(j)
    <2>1. \/ row' = row
          \/ row' = [row EXCEPT ![k].aged = TRUE] \/ row' = [row EXCEPT ![k].st = "poison"]
          \/ row' = [row EXCEPT ![k].st = "skipped"] /\ Superseded(k)
        BY DEF Age, Poison, JobRetries, ButtonRetries, Retry
    <2>2. CASE row' = row
        BY <2>2 DEF Settled
    <2>3. CASE row' = [row EXCEPT ![k].aged = TRUE]
        <3>1. row'[k].st = row[k].st /\ \A j \in Events : j # k => row'[j] = row[j]
            BY <1>2, <2>3, StatusChange
        <3> QED
            BY <3>1 DEF Settled
    <2>4. CASE row' = [row EXCEPT ![k].st = "poison"]
        <3>1. row'[k].st = "poison" /\ \A j \in Events : j # k => row'[j] = row[j]
            BY <1>2, <2>4, StatusChange
        <3> QED
            BY <3>1 DEF Settled
    <2>5. CASE row' = [row EXCEPT ![k].st = "skipped"] /\ Superseded(k)
        <3>1. \A j \in Events : j # k => row'[j] = row[j]
            BY <1>2, <2>5
        <3>2. PICK i \in Events : /\ row[i].ref /\ row[i].born > row[k].born /\ Made(i)
                                  /\ edits[i].rec = edits[k].rec
            BY <2>5 DEF Superseded
        <3>3. row[i].born \in Nat /\ row[k].born \in Nat
            BY <1>2 DEF SyncRow
        <3>4. ~Newest(k)
            BY <3>2, <3>3 DEF Newest
        <3> QED
            BY <3>1, <3>4 DEF Settled
    <2> QED
        BY <2>1, <2>2, <2>3, <2>4, <2>5
<1>4. \A j \in Events :
          /\ row'[j].st # "none" <=> row[j].st # "none"
          /\ row'[j].born = row[j].born /\ row'[j].ref = row[j].ref
          /\ row'[j].snap = row[j].snap
    BY TypeRetry
<1>5. \/ push'.pc = "idle"
      \/ /\ push'.ev \in 1..Len(edits) /\ push'.ev \in Events
         /\ Made(push'.ev) => ~Superseded(push'.ev)
         /\ push'.pc \in {"link", "finish"} => remote[edits[push'.ev].rec] = push'.snap
    <2>1. CASE push' = push
        BY <2>1, PushStaysNewest
    <2>2. CASE push' # push
        <3>1. push'.pc = "gates" /\ push'.ev = k /\ ~Superseded(k) /\ Made(k)
            BY <2>2, TypeRetry
        <3>2. k \in 1..Len(edits)
            BY <3>1, RowIsThere DEF TypeInv
        <3> QED
            BY <3>1, <3>2
    <2> QED
        BY <2>1, <2>2
<1> QED
    BY <1>1, <1>3, <1>4, <1>5, KeptStep

LEMMA KeptNext ==
    ASSUME ~SkipUnchanged
    PROVE  TypeInv /\ OrderInv /\ KeptInv /\ [Next]_vars => KeptInv'
<1> SUFFICES ASSUME TypeInv, OrderInv, KeptInv, [Next]_vars PROVE KeptInv'
    OBVIOUS
<1>1. ASSUME NEW r \in Records, NEW v \in Values, EditRecord(r, v) PROVE KeptInv'
    <2>1. UNCHANGED <<row, push, remote>> /\ \A j \in 1..Len(edits) : edits'[j] = edits[j]
        BY <1>1, Edited DEF EditRecord
    <2>2. push'.pc = "idle" \/ push.pc # "idle"
        BY <2>1
    <2> QED
        BY <2>1, <2>2, KeptStep, PushStaysNewest DEF Settled
<1>2. ASSUME NEW k \in Events, Deliver(k) PROVE KeptInv'
    <2>1. UNCHANGED <<edits, row, remote>> /\ push'.pc = "gates" /\ push'.ev = k /\ k \in due
        BY <1>2, TypeDeliver DEF Deliver
    <2>2. ~Made(k) /\ k \in 1..Len(edits)
        BY <2>1 DEF OrderInv, DueIsNew, TypeInv, TypeOK
    <2> QED
        BY <2>1, <2>2, KeptStep DEF Settled
<1>3. ASSUME NEW k \in Events, Age(k) \/ Poison(k) \/ JobRetries(k) \/ ButtonRetries(k)
      PROVE  KeptInv'
    BY <1>3, KeptRetry
<1>4. CASE Find \/ FindUnanswered \/ RecordLink
    <2>1. UNCHANGED <<edits, row, remote>> /\ push.pc \in {"find", "link"} /\ push \in Push
        BY <1>4 DEF Find, FindUnanswered, RecordLink, TypeInv, TypeOK
    <2>2. push'.ev = push.ev /\ push'.snap = push.snap
          /\ (push'.pc \in {"link", "finish"} => push.pc = "link")
        BY <1>4, <2>1 DEF Find, FindUnanswered, RecordLink, Push
    <2>3. push.pc # "idle"
        BY <2>1
    <2> QED
        BY <2>1, <2>2, <2>3, KeptStep, PushStaysNewest DEF Settled
<1>5. CASE Finish \/ Refused
    <2>1. UNCHANGED <<edits, remote>> /\ push'.pc = "idle" /\ push.pc \notin {"idle", "gates"}
        BY <1>5, NoPushIdle DEF Finish, Refused
    <2>2. PICK k \in Events : push.ev = k
        BY <2>1, PushUnderWay DEF TypeInv
    <2>3. Made(k) /\ row[k].snap = push.snap
        BY <2>1, <2>2 DEF OrderInv, PushIsOfRow
    <2>4. row \in [Events -> SyncRow] /\ row[k] \in SyncRow
        BY DEF TypeInv, TypeOK
    <2>5. PICK st \in {"failed", "success"} :
              /\ row' = [row EXCEPT ![k].st = st]
              /\ st = "success" => push.pc = "finish"
        BY <1>5, <2>2 DEF Finish, Refused
    <2>6. row'[k] = [row[k] EXCEPT !.st = st] /\ \A j \in Events : j # k => row'[j] = row[j]
        BY <2>4, <2>5
    <2>7. /\ row'[k].st = st /\ row'[k].born = row[k].born /\ row'[k].ref = row[k].ref
          /\ row'[k].snap = row[k].snap
        BY <2>4, <2>6, StatusSet
    <2>8. st = "success" => remote[edits[k].rec] = row[k].snap
        BY <2>2, <2>3, <2>5 DEF KeptInv, WrittenShows
    <2>9. \A j \in Events : row'[j].st \in {"success", "skipped"} =>
              Settled(j) \/ remote[edits[j].rec] = row[j].snap
        BY <2>6, <2>7, <2>8 DEF Settled
    <2>10. \A j \in Events :
              /\ row'[j].st # "none" <=> row[j].st # "none"
              /\ row'[j].born = row[j].born /\ row'[j].ref = row[j].ref
              /\ row'[j].snap = row[j].snap
        BY <2>3, <2>6, <2>7 DEF Made
    <2> QED
        BY <2>1, <2>9, <2>10, KeptStep
<1>6. CASE Crash
    BY <1>6, NoPushIdle, KeptStep DEF Crash, Settled
<1>7. CASE UNCHANGED vars
    <2>1. push'.pc = "idle" \/ push.pc # "idle"
        BY <1>7 DEF vars
    <2> QED
        BY <1>7, <2>1, KeptStep, PushStaysNewest DEF vars, Settled
<1> QED
    BY <1>1, <1>2, <1>3, <1>4, <1>5, <1>6, <1>7, KeptGates, KeptWrite DEF Next, PushStep

\* Where unchanged payloads are sent anyway, the newest state of a record that got past
\* the gates is in ERPNext, or its row says that it is still to come or was given up, for
\* any records, failures, restarts, retries and replays.
THEOREM NewestIsKept == ASSUME ~SkipUnchanged PROVE Spec => []NothingForgotten
<1>1. TypeInv /\ OrderInv /\ KeptInv /\ [Next]_vars => KeptInv'
    BY KeptNext
<1>2. TypeInv /\ KeptInv => NothingForgotten
    <2> SUFFICES ASSUME TypeInv, KeptInv, NEW k \in Events, Newest(k)
                 PROVE  \/ remote[edits[k].rec] = row[k].snap
                        \/ row[k].st \in {"pending", "failed", "poison"}
        BY DEF NothingForgotten
    <2>1. row[k] \in SyncRow /\ row[k].st # "none"
        BY DEF TypeInv, TypeOK, KeptInv, Qualified, Newest, Made
    <2> QED
        BY <2>1 DEF SyncRow, KeptInv, SettledShows, Settled
<1> QED
    BY <1>1, <1>2, KeptInit, TypeInvariant, OrderInvariant, PTL DEF Spec
=============================================================================
