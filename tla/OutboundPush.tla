----------------------------- MODULE OutboundPush -----------------------------
(***************************************************************************)
(* How an edit made in the store reaches its ERPNext document: the event   *)
(* subscriber, pushViaMapping and pushGenericDoc, the erpnext_sync_event   *)
(* row each push keeps its snapshot in, and the retry job and the admin's  *)
(* Replay button that push a stored snapshot again.                        *)
(*                                                                         *)
(* One push mapping is modelled, of an entity whose records are not orders *)
(* (an order's pushes have a lock and documents of their own).  A push     *)
(* runs to its end before the next one starts; edits, lost events, refused *)
(* writes and the death of the process come at any moment.  A record's     *)
(* transformed payload is a member of Values.                              *)
(***************************************************************************)
EXTENDS Integers, Sequences, FiniteSets

CONSTANTS
    Records,      \* store records of the mapping's entity
    Values,       \* payloads a record can transform to
    Qualifying,   \* the payloads whose record meets the trigger condition
    SkipUnchanged,\* mapping.skip_unchanged
    KeyFound,     \* can a document be found by the mapping's key?
    MaxEdits,     \* bound: edits in the store, each emitting one event
    MaxAttempts,  \* erpnext_setting.auto_retry_max_attempts
    Window,       \* rows the retry job lists (50)
    MaxFailures,  \* bound: calls to ERPNext that fail
    MaxCrashes,   \* bound: restarts of the store's process
    MaxReplays    \* bound: presses of the Replay button

ASSUME PushBoundsAreNaturals ==
    /\ MaxEdits \in Nat /\ MaxAttempts \in Nat /\ Window \in Nat
    /\ MaxFailures \in Nat /\ MaxCrashes \in Nat /\ MaxReplays \in Nat
ASSUME PushSwitchesAreBoolean ==
    SkipUnchanged \in BOOLEAN /\ KeyFound \in BOOLEAN /\ Qualifying \subseteq Values

VARIABLES
    edits,   \* what the store did to its records, oldest first
    due,     \* events emitted and not yet handed to the subscriber
    row,     \* per event: its erpnext_sync_event row
    last,    \* per event: the rank of its row's last_attempt_at, 0 for no row
    push,    \* the push under way
    link,    \* records whose erpnext_link row is there
    copies,  \* per record: ERPNext documents made for it
    remote,  \* per record: the edit the document of it written last shows, 0 for none
    blind,   \* history: per record, the lookups of its document that were not answered
    failures, crashes, replays

vars == <<edits, due, row, last, push, link, copies, remote, blind, failures, crashes, replays>>

Events == 1..MaxEdits   \* edit k emits event k

Edit == [rec: Records, val: Values]

SyncRow == [st: {"none", "pending", "failed", "success", "skipped", "poison"},
            attempts: Nat,
            aged: BOOLEAN,      \* last_attempt_at is behind the job's cutoff
            born: Nat,          \* order of created_at
            ref: BOOLEAN,       \* entity_ref is set
            snap: 0..MaxEdits]  \* payload: the record as of this edit
NoSyncRow == [st |-> "none", attempts |-> 0, aged |-> FALSE, born |-> 0,
              ref |-> FALSE, snap |-> 0]

Push == [pc: {"idle", "gates", "find", "write", "link", "finish"},
         by: {"event", "job", "button"}, ev: 0..MaxEdits, snap: 0..MaxEdits,
         found: BOOLEAN]
NoPush == [pc |-> "idle", by |-> "event", ev |-> 0, snap |-> 0, found |-> FALSE]

EditsOf(r) == {k \in 1..Len(edits) : edits[k].rec = r}

\* n is a state of the record that event k is about.
Shows(k, n) == k \in 1..Len(edits) /\ n \in EditsOf(edits[k].rec)

TypeOK ==
    /\ edits \in Seq(Edit) /\ Len(edits) <= MaxEdits
    /\ due \subseteq 1..Len(edits)
    /\ row \in [Events -> SyncRow]
    /\ last \in [Events -> Nat]
    /\ push \in Push
    /\ link \subseteq Records
    /\ copies \in [Records -> Nat]
    /\ \A k \in Events : row[k].st # "none" => Shows(k, row[k].snap)
    /\ push.pc # "idle" => Shows(push.ev, push.snap)
    /\ remote \in [Records -> Nat]
    /\ \A r \in Records : remote[r] \in {0} \cup EditsOf(r)
    /\ blind \in [Records -> Nat]
    /\ failures \in 0..MaxFailures
    /\ crashes \in 0..MaxCrashes
    /\ replays \in 0..MaxReplays

Init ==
    /\ edits = <<>>
    /\ due = {}
    /\ row = [k \in Events |-> NoSyncRow]
    /\ last = [k \in Events |-> 0]
    /\ push = NoPush
    /\ link = {}
    /\ copies = [r \in Records |-> 0]
    /\ remote = [r \in Records |-> 0]
    /\ blind = [r \in Records |-> 0]
    /\ failures = 0 /\ crashes = 0 /\ replays = 0

-----------------------------------------------------------------------------
(* The store *)

\* Fault: whatever was edited last is read for the record.
LastEdited(r) == Len(edits)

\* The record as the store has it now, as the number of its last edit.
Current(r) == IF EditsOf(r) = {} THEN 0
              ELSE CHOOSE k \in EditsOf(r) : \A j \in EditsOf(r) : j <= k

EditRecord(r, v) ==
    /\ Len(edits) < MaxEdits
    /\ edits' = Append(edits, [rec |-> r, val |-> v])
    /\ due' = due \cup {Len(edits) + 1}
    /\ UNCHANGED <<row, last, push, link, copies, remote, blind, failures, crashes, replays>>

-----------------------------------------------------------------------------
(* The event log *)

Made(k) == row[k].st # "none"
NewRow == [NoSyncRow EXCEPT !.born = 1 + Cardinality({k \in Events : Made(k)})]

\* last_attempt_at of row k becomes now: behind every other row's.
Touched(k) ==
    [j \in Events |->
        IF j = k THEN 1 + Cardinality({i \in Events \ {k} : last[i] > 0})
        ELSE IF last[k] > 0 /\ last[j] > last[k] THEN last[j] - 1 ELSE last[j]]

\* upsertEventRow: the row is made, or counts one more attempt.  Only a push
\* that passed every gate carries entity_ref; a row that had it keeps it.
LoggedAs(k, st, ref) ==
    LET r == IF Made(k) THEN row[k] ELSE NewRow
    IN  [r EXCEPT !.st = st, !.attempts = @ + 1, !.aged = FALSE,
                  !.ref = @ \/ ref, !.snap = push.snap]

\* listFailedForRetry(Window): skipped rows are listed as well.
Listed(k) == row[k].st \in {"failed", "skipped", "pending"}
InWindow(k) ==
    Listed(k) /\ Cardinality({j \in Events : Listed(j) /\ last[j] < last[k]}) < Window

\* Fault: an older row is sent again whatever came after it.
NeverSuperseded(k) == FALSE

\* supersededByLater: a newer push of the record got past the gates.
Superseded(k) ==
    \E j \in Events : /\ Made(j) /\ row[j].ref /\ row[j].born > row[k].born
                      /\ edits[j].rec = edits[k].rec

-----------------------------------------------------------------------------
(* A push: pushViaMapping, pushGenericDoc *)

Begin(by, k, snap) ==
    push' = [pc |-> "gates", by |-> by, ev |-> k, snap |-> snap, found |-> FALSE]

\* The subscriber gets event k, late or out of order, and reads the record.
Deliver(k) ==
    /\ k \in due /\ push.pc = "idle"
    /\ due' = due \ {k}
    /\ Begin("event", k, Current(edits[k].rec))
    /\ UNCHANGED <<edits, row, last, link, copies, remote, blind, failures, crashes, replays>>

\* The payload hash includes the key: any success of this record with it counts.
SentBefore ==
    \E j \in Events : /\ row[j].st = "success"
                      /\ edits[j].rec = edits[push.ev].rec
                      /\ edits[row[j].snap].val = edits[push.snap].val

Skips == \/ edits[push.snap].val \notin Qualifying
         \/ SkipUnchanged /\ SentBefore

\* The trigger, the hash, and then the row that says a push is under way.
Gates ==
    /\ push.pc = "gates"
    /\ row' = [row EXCEPT ![push.ev] = IF Skips THEN LoggedAs(push.ev, "skipped", FALSE)
                                       ELSE LoggedAs(push.ev, "pending", TRUE)]
    /\ last' = Touched(push.ev)
    /\ push' = IF Skips THEN NoPush ELSE [push EXCEPT !.pc = "find"]
    /\ UNCHANGED <<edits, due, link, copies, remote, blind, failures, crashes, replays>>

\* The document as the link table, or else the mapping's key, finds it.
Known(r) == r \in link \/ (KeyFound /\ copies[r] > 0)

Find ==
    /\ push.pc = "find"
    /\ push' = [push EXCEPT !.pc = "write", !.found = Known(edits[push.ev].rec)]
    /\ UNCHANGED <<edits, due, row, last, link, copies, remote, blind, failures, crashes, replays>>

\* lookupRemoteByKey: a search ERPNext refuses or does not answer found nothing, and the
\* push goes on to POST.  A record with a link is not searched for.
FindUnanswered ==
    LET r == edits[push.ev].rec
    IN  /\ push.pc = "find" /\ r \notin link /\ failures < MaxFailures
        /\ push' = [push EXCEPT !.pc = "write", !.found = FALSE]
        /\ blind' = [blind EXCEPT ![r] = @ + 1]
        /\ failures' = failures + 1
        /\ UNCHANGED <<edits, due, row, last, link, copies, remote, crashes, replays>>

\* PUT to the document found (any of them, should there be more), or POST a new one.
WriteRemote ==
    LET r == edits[push.ev].rec
    IN  /\ push.pc = "write"
        /\ copies' = IF push.found THEN copies ELSE [copies EXCEPT ![r] = @ + 1]
        /\ remote' = [remote EXCEPT ![r] = push.snap]
        /\ push' = [push EXCEPT !.pc = "link"]
        /\ UNCHANGED <<edits, due, row, last, link, blind, failures, crashes, replays>>

\* Fault: a refused write is put down as a decision, not as a failure.
RefusedAsSkipped ==
    /\ push.pc = "write" /\ failures < MaxFailures
    /\ row' = [row EXCEPT ![push.ev].st = "skipped"]
    /\ push' = NoPush
    /\ failures' = failures + 1
    /\ UNCHANGED <<edits, due, last, link, copies, remote, blind, crashes, replays>>

\* ERPNext is not reached, or refuses the write.
Refused ==
    /\ push.pc = "write" /\ failures < MaxFailures
    /\ row' = [row EXCEPT ![push.ev].st = "failed"]
    /\ push' = NoPush
    /\ failures' = failures + 1
    /\ UNCHANGED <<edits, due, last, link, copies, remote, blind, crashes, replays>>

\* ERPNext wrote the document, its answer was lost.
AnswerLost ==
    LET r == edits[push.ev].rec
    IN  /\ push.pc = "write" /\ failures < MaxFailures
        /\ copies' = IF push.found THEN copies ELSE [copies EXCEPT ![r] = @ + 1]
        /\ remote' = [remote EXCEPT ![r] = push.snap]
        /\ row' = [row EXCEPT ![push.ev].st = "failed"]
        /\ push' = NoPush
        /\ failures' = failures + 1
        /\ UNCHANGED <<edits, due, last, link, blind, crashes, replays>>

RecordLink ==
    /\ push.pc = "link"
    /\ link' = link \cup {edits[push.ev].rec}
    /\ push' = [push EXCEPT !.pc = "finish"]
    /\ UNCHANGED <<edits, due, row, last, copies, remote, blind, failures, crashes, replays>>

Finish ==
    /\ push.pc = "finish"
    /\ row' = [row EXCEPT ![push.ev].st = "success"]
    /\ push' = NoPush
    /\ UNCHANGED <<edits, due, last, link, copies, remote, blind, failures, crashes, replays>>

-----------------------------------------------------------------------------
(* The retry job, the Replay button *)

\* auto_retry_min_interval_minutes pass; no push takes that long.
Age(k) ==
    /\ row[k].st \in {"pending", "failed"} /\ ~row[k].aged /\ push.ev # k
    /\ row' = [row EXCEPT ![k].aged = TRUE]
    /\ UNCHANGED <<edits, due, last, push, link, copies, remote, blind, failures, crashes, replays>>

Poison(k) ==
    /\ InWindow(k) /\ row[k].attempts >= MaxAttempts /\ push.pc = "idle"
    /\ row' = [row EXCEPT ![k].st = "poison"]
    /\ UNCHANGED <<edits, due, last, push, link, copies, remote, blind, failures, crashes, replays>>

\* retryEvent: a superseded row is skipped, and keeps its last_attempt_at.
Retry(by, k) ==
    /\ push.pc = "idle"
    /\ IF Superseded(k) THEN row' = [row EXCEPT ![k].st = "skipped"] /\ UNCHANGED push
                        ELSE Begin(by, k, row[k].snap) /\ UNCHANGED row
    /\ UNCHANGED <<edits, due, last, link, copies, remote, blind, failures, crashes>>

\* Fault: only rows left pending by a dead process are tried again.
OwedIfPending(k) == row[k].st = "pending"

\* Fault: a row left pending by a dead process is not tried again.
OwedIfFailed(k) == row[k].st = "failed"

\* owedRetry: a skip is a decision, not a failure.
Owed(k) == row[k].st \in {"failed", "pending"}

JobRetries(k) ==
    /\ InWindow(k) /\ row[k].attempts < MaxAttempts /\ row[k].aged /\ Owed(k)
    /\ Retry("job", k)
    /\ UNCHANGED replays

ButtonRetries(k) ==
    /\ Made(k) /\ replays < MaxReplays
    /\ Retry("button", k)
    /\ replays' = replays + 1

-----------------------------------------------------------------------------
\* The process dies.  An event bus in memory dies with it.
Crash ==
    /\ crashes < MaxCrashes
    /\ push' = NoPush
    /\ due' \in {due, {}}
    /\ crashes' = crashes + 1
    /\ UNCHANGED <<edits, row, last, link, copies, remote, blind, failures, replays>>

PushStep == Gates \/ Find \/ WriteRemote \/ RecordLink \/ Finish

Next ==
    \/ \E r \in Records, v \in Values : EditRecord(r, v)
    \/ PushStep \/ FindUnanswered \/ Refused \/ AnswerLost
    \/ \E k \in Events : Deliver(k) \/ Age(k) \/ Poison(k) \/ JobRetries(k) \/ ButtonRetries(k)
    \/ Crash

Spec == Init /\ [][Next]_vars

\* A push that was started runs on, the clock does, and the retry job comes
\* round to every row it lists.  No event, no press, no failure has to happen.
Fairness ==
    /\ WF_vars(PushStep)
    /\ \A k \in Events : WF_vars(Age(k)) /\ SF_vars(Poison(k) \/ JobRetries(k))

FairSpec == Spec /\ Fairness

-----------------------------------------------------------------------------
(* Properties *)

\* The newest push of a record that got past the gates is never forgotten: the document
\* of it written last shows that snapshot, or its row still says it is owed or given up.
Newest(k) ==
    /\ row[k].ref
    /\ \A j \in Events : row[j].ref /\ edits[j].rec = edits[k].rec => row[j].born <= row[k].born
NothingForgotten ==
    \A k \in Events :
        Newest(k) /\ push.ev # k =>
            \/ remote[edits[k].rec] = row[k].snap
            \/ row[k].st \in {"pending", "failed", "poison"}

\* What ERPNext is told of a record is never older than what it was told before, whatever
\* failed, was retried, replayed by hand or delivered out of order.
NeverGoesBack == [][\A r \in Records : remote'[r] >= remote[r]]_vars

\* A POST whose answer or link was lost is found again by the mapping's key: every document
\* of a record but one was made after a lookup of its own that was not answered.
FurtherNeedsDoubt == \A r \in Records : copies[r] <= 1 + blind[r]

\* Both, and that a document shows nothing but states its own record has been in: the
\* pushes, with all their failures and retries, implement the mirror RecordMirror states.
Mirror == INSTANCE RecordMirror WITH
    Mirrored <- Records, States <- Events,
    history <- [r \in Records |-> EditsOf(r)], shows <- remote, documents <- copies,
    doubts <- blind
MirrorsRecords == Mirror!MirrorSpec

\* A row that failed, or that a dead process left pending, is settled.
RowsSettle ==
    \A k \in Events :
        row[k].st \in {"pending", "failed"} ~> row[k].st \in {"success", "skipped", "poison"}

\* Once a push of the record as it now is has been taken up, it arrives, unless
\* it is given up.
Taken(r) == \E k \in Events : /\ Newest(k) /\ edits[k].rec = r /\ row[k].snap = Current(r)
                              /\ row[k].st # "poison"
ReachesErpnext == <>[](\A r \in Records : Taken(r) => remote[r] = Current(r))

\* "The payload we last successfully sent for this record": a push skipped as
\* unchanged would have been a no-op on ERPNext's side.
SkipIsNoOp ==
    [][push.pc = "gates" /\ row'[push.ev].st = "skipped" /\ edits[push.snap].val \in Qualifying
          => /\ remote[edits[push.ev].rec] # 0
             /\ edits[remote[edits[push.ev].rec]].val = edits[push.snap].val]_vars
=============================================================================
