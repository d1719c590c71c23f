--------------------------- MODULE CatalogueInbound ---------------------------
(***************************************************************************)
(* How the store's catalogue follows ERPNext: the webhook receiver, the    *)
(* replay of stored deliveries by the retry job and by an operator, the    *)
(* watermark pull and the hourly selection reconcile, all writing the same *)
(* products and the same erpnext_link rows.                                *)
(*                                                                         *)
(* A step of this module is what happens between two awaits of the code on *)
(* state that another request or job can change.  The environment saves,   *)
(* trashes and re-selects documents in ERPNext, delivers a webhook late,   *)
(* twice or never, fails a product write, and kills the store's process.   *)
(*                                                                         *)
(* One mapping, of entity "product", is modelled.  Its field values are    *)
(* abstracted to the ERPNext save they came from ("content").              *)
(***************************************************************************)
EXTENDS Naturals, FiniteSets, Sequences

CONSTANTS
    Docs,         \* documents of the selection DocType, each its own product key
    Handlers,     \* webhook requests the store can be serving at once, numbered
    RetryJob,     \* the retry cron: one replay at a time
    Operator,     \* the Replay button and POST /admin/erpnext/events/retry-failed
    MaxEntries,   \* bound: saves and trashes in ERPNext
    MaxTries,     \* deliveries Frappe attempts per webhook (3); 0: none arrives
    MaxAttempts,  \* erpnext_setting.auto_retry_max_attempts
    PageSize,     \* mapping.pull_page_size
    MaxFailures,  \* bound: product writes of a delivery that fail
    MaxCrashes,   \* bound: restarts of the store's process
    MaxPresses,   \* bound: replays an operator asks for
    Window,       \* rows the retry job lists at once (50)
    SkippedPushes, \* skipped push rows at the head of that list, which never leave it
    Connected,    \* are ERPNext's API credentials saved?  (else: webhooks only)
    Overlap,      \* may two handlers or jobs be under way at once?
    OwnWrites,    \* does the store push to these documents too ("Both")?
    PullRowsFail, \* may a product write of the pull fail?
    KeyIsHandle   \* is the mapping keyed by the product's handle?

ASSUME BoundsAreNaturals ==
    /\ MaxEntries \in Nat /\ MaxTries \in Nat /\ MaxAttempts \in Nat
    /\ PageSize \in Nat \ {0} /\ MaxFailures \in Nat /\ MaxCrashes \in Nat
    /\ MaxPresses \in Nat /\ Window \in Nat /\ SkippedPushes \in Nat
ASSUME SwitchesAreBoolean ==
    /\ Connected \in BOOLEAN /\ Overlap \in BOOLEAN /\ OwnWrites \in BOOLEAN
    /\ PullRowsFail \in BOOLEAN /\ KeyIsHandle \in BOOLEAN
ASSUME HandlersAreNumbers == Handlers \subseteq Nat
ASSUME ReplayersAreNoHandlers ==
    RetryJob \notin Handlers /\ Operator \notin Handlers /\ Operator # RetryJob

VARIABLES
    log,       \* what ERPNext did to its documents, oldest first
    cur,       \* per document: its newest entry of the log, 0 for none
    tries,     \* per entry: webhook deliveries Frappe may still attempt
    row,       \* per entry: its erpnext_sync_event row
    link,      \* per document: its erpnext_link row
    product,   \* per document: the product of that key
    worker,    \* per handler, retry job and operator: the delivery it is applying
    ahead,     \* per entry: the entries whose last_attempt_at is before its own
    presses,   \* replays an operator has asked for
    pressed,   \* history: the entries an operator has had replayed
    pull,      \* the pull tick under way
    watermark, \* mapping.last_pull_modified
    pulled,    \* history: the entries a pull has dealt with
    recon,     \* the selection reconcile under way
    failures, crashes

retryVars == <<ahead, presses, pressed>>
vars == <<log, cur, tries, row, link, product, worker, pull, watermark, pulled,
          recon, failures, crashes, retryVars>>

Entries == 1..MaxEntries
Replayers == {RetryJob, Operator}
Workers == Handlers \cup Replayers

\* medusa_sync as the inbound side reads it: "pull" is ERPNext -> Medusa or
\* Both, "push" is Medusa -> ERPNext, "none" is None or a blank.
Selections == {"pull", "push", "none"}

Entry == [doc: Docs, event: {"on_update", "on_trash"}, sel: Selections,
          mod: Entries,     \* the document's `modified`
          own: BOOLEAN,     \* modified_by is the store's API user
          content: Entries] \* the save whose human edits the body carries

Row == [st: {"none", "pending", "failed", "success", "skipped", "poison"},
        attempts: Nat,
        aged: BOOLEAN]      \* last_attempt_at is behind the job's cutoff
NoRow == [st |-> "none", attempts |-> 0, aged |-> FALSE]

Link == [st: {"none", "active", "drafted"}, dir: Selections \cup {"unknown"}]
NoLink == [st |-> "none", dir |-> "unknown"]

Product == [st: {"absent", "draft", "published"}, content: 0..MaxEntries]
NoProduct == [st |-> "absent", content |-> 0]

Job == [pc: {"idle", "plan", "write", "link", "finish"}, msg: 0..MaxEntries,
        act: {"skip", "draft", "upsert"}, republish: BOOLEAN,
        keep: {"none", "active", "drafted"},
        attempts: Nat]      \* a replay's: those its row counted when it was read
Idle == [pc |-> "idle", msg |-> 0, act |-> "skip", republish |-> FALSE, keep |-> "none",
         attempts |-> 0]
Started(m) == [Idle EXCEPT !.pc = "plan", !.msg = m]

PullJob == [pc: {"idle", "rows", "links", "save"}, todo: SUBSET Entries,
            page: SUBSET Entries, toLink: SUBSET Entries, drafted: SUBSET Docs]
NoPull == [pc |-> "idle", todo |-> {}, page |-> {}, toLink |-> {}, drafted |-> {}]

ReconJob == [pc: {"idle", "ask", "work", "mark"}, links: [Docs -> Link],
             value: [Docs -> Selections \cup {"gone"}], todo: SUBSET Docs,
             doc: SUBSET Docs]
NoRecon == [pc |-> "idle", links |-> [d \in Docs |-> NoLink],
            value |-> [d \in Docs |-> "gone"], todo |-> {}, doc |-> {}]

TypeOK ==
    /\ log \in Seq(Entry) /\ Len(log) <= MaxEntries
    /\ cur \in [Docs -> 0..Len(log)]
    /\ tries \in [Entries -> 0..MaxTries]
    /\ row \in [Entries -> Row]
    /\ link \in [Docs -> Link]
    /\ product \in [Docs -> Product]
    /\ worker \in [Workers -> Job]
    /\ ahead \in [Entries -> SUBSET Entries]
    /\ presses \in 0..MaxPresses
    /\ pressed \in SUBSET Entries
    /\ pull \in PullJob
    /\ watermark \in 0..MaxEntries
    /\ pulled \in SUBSET Entries
    /\ recon \in ReconJob
    /\ failures \in 0..MaxFailures
    /\ crashes \in 0..MaxCrashes

Init ==
    /\ log = <<>>
    /\ cur = [d \in Docs |-> 0]
    /\ tries = [m \in Entries |-> 0]
    /\ row = [m \in Entries |-> NoRow]
    /\ link = [d \in Docs |-> NoLink]
    /\ product = [d \in Docs |-> NoProduct]
    /\ worker = [w \in Workers |-> Idle]
    /\ ahead = [m \in Entries |-> {}]
    /\ presses = 0
    /\ pressed = {}
    /\ pull = NoPull
    /\ watermark = 0
    /\ pulled = {}
    /\ recon = NoRecon
    /\ failures = 0
    /\ crashes = 0

-----------------------------------------------------------------------------
(* ERPNext *)

Exists(d) == cur[d] # 0 /\ log[cur[d]].event # "on_trash"

\* Does entry m leave its document moving ERPNext -> Medusa?  (PULL_VALUES)
Moves(m) == m # 0 /\ log[m].event = "on_update" /\ log[m].sel = "pull"

\* ON_UPDATE_CONDITION and ON_TRASH_CONDITION of the two webhooks.
WebhookFires(event, d, sel) ==
    \/ sel = "pull"
    \/ /\ event = "on_update" /\ Exists(d)
       /\ \/ log[cur[d]].sel = "pull"
          \/ log[cur[d]].sel # sel

Record(e) ==
    /\ log' = Append(log, e)
    /\ cur' = [cur EXCEPT ![e.doc] = Len(log) + 1]
    /\ tries' = [tries EXCEPT ![Len(log) + 1] =
                    IF WebhookFires(e.event, e.doc, e.sel) THEN MaxTries ELSE 0]
    /\ UNCHANGED <<row, link, product, worker, pull, watermark, pulled, recon,
                   failures, crashes, retryVars>>

\* A person saves the document, perhaps with another medusa_sync.
Save(d, s) ==
    /\ Len(log) < MaxEntries
    /\ Record([doc |-> d, event |-> "on_update", sel |-> s, mod |-> Len(log) + 1,
               own |-> FALSE, content |-> Len(log) + 1])

\* A push of this store saves it: modified_by becomes the API user, the fields
\* a person set last are still there.
OwnSave(d) ==
    /\ OwnWrites /\ Len(log) < MaxEntries
    /\ Moves(cur[d])
    /\ Record([log[cur[d]] EXCEPT !.mod = Len(log) + 1, !.own = TRUE])

\* Trashing sends the document as it last was: neither `modified` nor
\* `modified_by` moves.
Trash(d) ==
    /\ Len(log) < MaxEntries
    /\ Exists(d)
    /\ Record([log[cur[d]] EXCEPT !.event = "on_trash"])

-----------------------------------------------------------------------------
(* Who may start *)

AllIdle ==
    /\ \A w \in Workers : worker[w].pc = "idle"
    /\ pull.pc = "idle" /\ recon.pc = "idle"
MayStart == Overlap \/ AllIdle

Applying(m) == \E w \in Workers : worker[w].msg = m

-----------------------------------------------------------------------------
(* The webhook: receiveFrappeWebhook and applyFrappeEvent *)

\* The network, or Frappe giving up, ends the deliveries of m.
Drop(m) ==
    /\ m <= Len(log) /\ tries[m] > 0
    /\ tries' = [tries EXCEPT ![m] = 0]
    /\ UNCHANGED <<log, cur, row, link, product, worker, pull, watermark, pulled,
                   recon, failures, crashes, retryVars>>

\* Fault: a delivery under way is not told from one that failed.
AnsweredOnceApplied(m) == row[m].st = "success"

\* Fault: a delivery that was applied is taken in again.
AnsweredWhileApplying(m) == row[m].st = "pending" /\ ~row[m].aged

\* Already applied, or being applied since less than IN_FLIGHT_MS ago: the
\* delivery is answered with a 200 and Frappe is done with it.
Answered(m) ==
    \/ row[m].st = "success"
    \/ row[m].st = "pending" /\ ~row[m].aged

ReceiveAnswered(m) ==
    /\ m <= Len(log) /\ tries[m] > 0
    /\ Answered(m)
    /\ tries' = [tries EXCEPT ![m] = 0]
    /\ UNCHANGED <<log, cur, row, link, product, worker, pull, watermark, pulled,
                   recon, failures, crashes, retryVars>>

\* The row of m is attempted now: last_attempt_at puts it behind every other.
Attempted(m) == [n \in Entries |-> IF n = m THEN Entries \ {m} ELSE ahead[n] \ {m}]

\* Which request is which does not matter: the first that is free stands for it.
FirstFree(h) ==
    worker[h].pc = "idle" /\ \A g \in Handlers : g < h => worker[g].pc # "idle"

\* Fault: a delivery is taken in that Frappe has already given up.
ReceiveAnyTime(h, m) ==
    /\ m <= Len(log)
    /\ ~Answered(m)
    /\ FirstFree(h) /\ MayStart
    /\ tries' = [tries EXCEPT ![m] = @ - 1]
    /\ row' = [row EXCEPT ![m] = [st |-> "pending", attempts |-> @.attempts + 1, aged |-> FALSE]]
    /\ ahead' = Attempted(m)
    /\ worker' = [worker EXCEPT ![h] = Started(m)]
    /\ UNCHANGED <<log, cur, link, product, pull, watermark, pulled, recon, failures, crashes,
                   presses, pressed>>

Receive(h, m) ==
    /\ m <= Len(log) /\ tries[m] > 0
    /\ ~Answered(m)
    /\ FirstFree(h) /\ MayStart
    /\ tries' = [tries EXCEPT ![m] = @ - 1]
    /\ row' = [row EXCEPT ![m] = [st |-> "pending", attempts |-> @.attempts + 1, aged |-> FALSE]]
    /\ ahead' = Attempted(m)
    /\ worker' = [worker EXCEPT ![h] = Started(m)]
    /\ UNCHANGED <<log, cur, link, product, pull, watermark, pulled, recon, failures, crashes,
                   presses, pressed>>

\* planFrappeEvent, for a body e and the link read for its document.
PlannedAct(e, l) ==
    IF e.own \/ e.sel = "push" THEN "skip"
    ELSE IF e.event = "on_trash" THEN (IF e.sel = "pull" THEN "draft" ELSE "skip")
    ELSE IF e.sel = "none" THEN (IF l.st # "none" /\ l.dir = "push" THEN "skip" ELSE "draft")
    ELSE "upsert"

\* The worker that keeps of j only what it goes on to read.
At(j, pc, act, republish, keep) ==
    [j EXCEPT !.pc = pc, !.act = act, !.republish = republish, !.keep = keep]

\* The link is read, the plan made.  A skip still has to note a direction that
\* changed, with the state the link was read in.
Plan(w) ==
    LET e   == log[worker[w].msg]
        l   == link[e.doc]
        act == PlannedAct(e, l)
        notes == l.st # "none" /\ l.dir # e.sel
    IN  /\ worker[w].pc = "plan"
        /\ worker' = [worker EXCEPT ![w] =
              IF act # "skip" THEN At(@, "write", act, act = "upsert" /\ l.st = "drafted", l.st)
              ELSE IF notes THEN At(@, "link", act, FALSE, l.st)
              ELSE At(@, "finish", "skip", FALSE, "none")]
        /\ UNCHANGED <<log, cur, tries, row, link, product, pull, watermark, pulled,
                       recon, failures, crashes, retryVars>>

\* upsertByKey for the body of entry m.  Keyed by handle, a product is put back
\* on sale by every upsert; keyed by metadata, only when republishing.
Upserted(p, m, republish) ==
    [st |-> IF p.st = "absent" \/ KeyIsHandle \/ republish THEN "published" ELSE p.st,
     content |-> log[m].content]

\* disableByKey: a product that exists is unpublished.
Disabled(p) == IF p.st = "absent" THEN p ELSE [p EXCEPT !.st = "draft"]

Write(w) ==
    LET m == worker[w].msg
        d == log[m].doc
        found == product[d].st # "absent"
    IN  /\ worker[w].pc = "write"
        /\ product' = [product EXCEPT ![d] =
              IF worker[w].act = "upsert" THEN Upserted(@, m, worker[w].republish) ELSE Disabled(@)]
        /\ worker' = [worker EXCEPT ![w] =
              IF @.act = "upsert" \/ found \/ @.keep # "none" THEN At(@, "link", @.act, FALSE, "none")
              ELSE At(@, "finish", "skip", FALSE, "none")]
        /\ UNCHANGED <<log, cur, tries, row, link, pull, watermark, pulled, recon,
                       failures, crashes, retryVars>>

\* A replay counts its attempt, over the n its row showed when it was read, and
\* dates it, when it is over.
Replayed(n, st) == [st |-> st, attempts |-> n + 1, aged |-> FALSE]

\* The row of a delivery that was applied, or not.  A live delivery counted and
\* dated its attempt when it came in.
Outcome(w, st) ==
    LET m == worker[w].msg
    IN  /\ row' = [row EXCEPT ![m] = IF w \in Replayers THEN Replayed(worker[w].attempts, st)
                                     ELSE [@ EXCEPT !.st = st]]
        /\ ahead' = IF w \in Replayers THEN Attempted(m) ELSE ahead
        /\ UNCHANGED <<presses, pressed>>

\* The product write fails: no link is recorded, the row says failed.
WriteFails(w) ==
    /\ worker[w].pc = "write" /\ failures < MaxFailures
    /\ Outcome(w, "failed")
    /\ worker' = [worker EXCEPT ![w] = Idle]
    /\ failures' = failures + 1
    /\ UNCHANGED <<log, cur, tries, link, product, pull, watermark, pulled, recon, crashes>>

\* recordLink
RecordLink(w) ==
    LET m  == worker[w].msg
        st == CASE worker[w].act = "upsert" -> "active"
                [] worker[w].act = "draft"  -> "drafted"
                [] OTHER -> IF worker[w].keep = "drafted" THEN "drafted" ELSE "active"
    IN  /\ worker[w].pc = "link"
        /\ link' = [link EXCEPT ![log[m].doc] = [st |-> st, dir |-> log[m].sel]]
        /\ worker' = [worker EXCEPT ![w] = At(@, "finish", "skip", FALSE, "none")]
        /\ UNCHANGED <<log, cur, tries, row, product, pull, watermark, pulled, recon,
                       failures, crashes, retryVars>>

Finish(w) ==
    /\ worker[w].pc = "finish"
    /\ Outcome(w, "success")
    /\ worker' = [worker EXCEPT ![w] = Idle]
    /\ UNCHANGED <<log, cur, tries, link, product, pull, watermark, pulled, recon,
                   failures, crashes>>

-----------------------------------------------------------------------------
(* The retry job, and an operator's replays *)

\* auto_retry_min_interval_minutes pass.  Frappe's three tries take about a
\* minute and a handler far less than the interval, so both are over by then.
Age(m) ==
    /\ row[m].st \in {"pending", "failed"} /\ ~row[m].aged
    /\ tries[m] = 0 /\ ~Applying(m)
    /\ row' = [row EXCEPT ![m].aged = TRUE]
    /\ UNCHANGED <<log, cur, tries, link, product, worker, pull, watermark, pulled,
                   recon, failures, crashes, retryVars>>

\* A row listFailedForRetry asks for.
Waiting(m) == row[m].st \in {"failed", "skipped", "pending"}

\* listFailedForRetry's page: the rows attempted longest ago, skipped ones and
\* those of pushes among them.
Listed(m) ==
    /\ Waiting(m)
    /\ SkippedPushes + Cardinality({n \in ahead[m] : Waiting(n)}) < Window

Poison(m) ==
    /\ Listed(m) /\ row[m].attempts >= MaxAttempts
    /\ worker[RetryJob].pc = "idle"
    /\ row' = [row EXCEPT ![m].st = "poison"]
    /\ UNCHANGED <<log, cur, tries, link, product, worker, pull, watermark, pulled,
                   recon, failures, crashes, retryVars>>

\* supersededBy: a delivery of a later `modified` of the document has applied.
Superseded(m) ==
    \E n \in 1..Len(log) : /\ row[n].st = "success"
                           /\ log[n].doc = log[m].doc
                           /\ log[n].mod > log[m].mod

\* Fault: a row left pending by a process that died is not tried again.
DueIfFailed(m) ==
    /\ Listed(m) /\ row[m].st = "failed" /\ row[m].aged
    /\ row[m].attempts < MaxAttempts
    /\ worker[RetryJob].pc = "idle"

\* owedRetry, for a row of the page: skipped rows are not.
Due(m) ==
    /\ Listed(m) /\ row[m].st \in {"failed", "pending"} /\ row[m].aged
    /\ row[m].attempts < MaxAttempts
    /\ worker[RetryJob].pc = "idle"

\* replayInboundEvent: a row that was superseded is passed over, any other is
\* applied as a live delivery is.
PassOver(m) ==
    /\ Superseded(m)
    /\ row' = [row EXCEPT ![m] = Replayed(@.attempts, "skipped")]
    /\ ahead' = Attempted(m)
    /\ UNCHANGED <<log, cur, tries, link, product, worker, pull, watermark, pulled,
                   recon, failures, crashes>>

TakeUp(w, m) ==
    /\ ~Superseded(m) /\ MayStart
    /\ worker' = [worker EXCEPT ![w] = [Started(m) EXCEPT !.attempts = row[m].attempts]]
    /\ UNCHANGED <<log, cur, tries, row, link, product, pull, watermark, pulled, recon,
                   failures, crashes, ahead>>

ReplaySuperseded(m) == Due(m) /\ PassOver(m) /\ UNCHANGED <<presses, pressed>>
Replay(m) == Due(m) /\ TakeUp(RetryJob, m) /\ UNCHANGED <<presses, pressed>>

\* retryEvent, of one row or of all retry-failed lists: whatever the row says and
\* however young it is.
Press(m) ==
    /\ presses < MaxPresses
    /\ row[m].st # "none" /\ worker[Operator].pc = "idle"
    /\ PassOver(m) \/ TakeUp(Operator, m)
    /\ presses' = presses + 1
    /\ pressed' = pressed \cup {m}

-----------------------------------------------------------------------------
(* The pull: pullFromMapping *)

\* Fault: an off-by-one in the filter on `modified`.
CandidatesBeyondNext ==
    {m \in {cur[d] : d \in Docs} : Moves(m) /\ log[m].mod > watermark + 1}

Candidates == {m \in {cur[d] : d \in Docs} : Moves(m) /\ log[m].mod > watermark}

\* Fault: the page is not the oldest of the candidates.
AnyPage(page) ==
    /\ page \subseteq Candidates
    /\ page = Candidates \/ Cardinality(page) = PageSize

\* order_by "modified asc", limit_page_length.
FirstPage(page) ==
    /\ page \subseteq Candidates
    /\ \A m \in page, n \in Candidates \ page : log[m].mod < log[n].mod
    /\ \/ page = Candidates /\ Cardinality(page) <= PageSize
       \/ Cardinality(page) = PageSize

PullFetch ==
    /\ Connected /\ pull.pc = "idle" /\ MayStart
    /\ \E page \in SUBSET Candidates :
          /\ page # {} /\ FirstPage(page)
          /\ pull' = [pc |-> "rows", todo |-> page, page |-> page, toLink |-> {},
                      drafted |-> {d \in Docs : link[d].st = "drafted"}]
    /\ UNCHANGED <<log, cur, tries, row, link, product, worker, watermark, pulled, recon,
                   failures, crashes, retryVars>>

NextRow(m) ==
    /\ pull.pc = "rows" /\ m \in pull.todo
    /\ \A n \in pull.todo : log[m].mod <= log[n].mod

RowDone(m, linked) ==
    pull' = [pull EXCEPT !.todo = @ \ {m},
                         !.toLink = IF linked THEN @ \cup {m} ELSE @,
                         !.pc = IF pull.todo = {m} THEN "links" ELSE "rows"]

\* A row this store's API user saved last is skipped as already in step.
PullOwn(m) ==
    /\ NextRow(m) /\ log[m].own
    /\ RowDone(m, FALSE)
    /\ pulled' = pulled \cup {m}
    /\ UNCHANGED <<log, cur, tries, row, link, product, worker, watermark, recon,
                   failures, crashes, retryVars>>

PullUpsert(m) ==
    LET d == log[m].doc
    IN  /\ NextRow(m) /\ ~log[m].own
        /\ product' = [product EXCEPT ![d] = Upserted(@, m, d \in pull.drafted)]
        /\ RowDone(m, TRUE)
        /\ pulled' = pulled \cup {m}
        /\ UNCHANGED <<log, cur, tries, row, link, worker, watermark, recon, failures, crashes, retryVars>>

\* The write fails: the tick counts an error and goes on.
PullRowFails(m) ==
    /\ PullRowsFail /\ NextRow(m) /\ ~log[m].own
    /\ RowDone(m, FALSE)
    /\ UNCHANGED <<log, cur, tries, row, link, product, worker, watermark, pulled, recon,
                   failures, crashes, retryVars>>

PullLinks ==
    /\ pull.pc = "links"
    /\ link' = [d \in Docs |-> IF \E m \in pull.toLink : log[m].doc = d
                               THEN [st |-> "active", dir |-> "pull"] ELSE link[d]]
    /\ pull' = [pull EXCEPT !.pc = "save"]
    /\ UNCHANGED <<log, cur, tries, row, product, worker, watermark, pulled, recon,
                   failures, crashes, retryVars>>

\* The newest `modified` of the page, failed rows included.
PullSave ==
    /\ pull.pc = "save"
    /\ \E m \in pull.page : /\ \A n \in pull.page : log[n].mod <= log[m].mod
                            /\ watermark' = log[m].mod
    /\ pull' = NoPull
    /\ UNCHANGED <<log, cur, tries, row, link, product, worker, pulled, recon,
                   failures, crashes, retryVars>>

-----------------------------------------------------------------------------
(* The hourly reconcile: reconcileSelection *)

ReconReadLinks ==
    /\ Connected /\ recon.pc = "idle" /\ MayStart
    /\ \E d \in Docs : link[d].st # "none"
    /\ recon' = [NoRecon EXCEPT !.pc = "ask", !.links = link]
    /\ UNCHANGED <<log, cur, tries, row, link, product, worker, pull, watermark, pulled,
                   failures, crashes, retryVars>>

ReconAsk ==
    /\ recon.pc = "ask"
    /\ recon' = [recon EXCEPT
          !.pc = "work",
          !.value = [d \in Docs |-> IF Exists(d) THEN log[cur[d]].sel ELSE "gone"],
          !.todo = {d \in Docs : recon.links[d].st # "none"}]
    /\ UNCHANGED <<log, cur, tries, row, link, product, worker, pull, watermark, pulled,
                   failures, crashes, retryVars>>

\* Fault: a document that is gone from ERPNext is not drafted.
ReconDraftsUnlessGone(d) == recon.links[d].st = "active" /\ recon.value[d] = "none"

\* reconcileDecision, for an active link.
ReconDrafts(d) == recon.links[d].st = "active" /\ recon.value[d] \in {"none", "gone"}

ReconDone(d) == IF recon.todo \subseteq {d} THEN NoRecon
                ELSE [recon EXCEPT !.pc = "work", !.todo = @ \ {d}, !.doc = {}]

\* The direction ERPNext shows is noted; the link's state is not touched.
ReconNote(d) ==
    LET v == recon.value[d]
    IN  /\ recon.pc = "work" /\ d \in recon.todo /\ ~ReconDrafts(d)
        /\ link' = IF v # "gone" /\ v # recon.links[d].dir
                   THEN [link EXCEPT ![d].dir = v] ELSE link
        /\ recon' = ReconDone(d)
        /\ UNCHANGED <<log, cur, tries, row, product, worker, pull, watermark, pulled,
                       failures, crashes, retryVars>>

ReconDraft(d) ==
    /\ recon.pc = "work" /\ d \in recon.todo /\ ReconDrafts(d)
    /\ product' = [product EXCEPT ![d] = Disabled(@)]
    /\ recon' = [recon EXCEPT !.pc = "mark", !.doc = {d}]
    /\ UNCHANGED <<log, cur, tries, row, link, worker, pull, watermark, pulled,
                   failures, crashes, retryVars>>

ReconMark(d) ==
    LET v == recon.value[d]
    IN  /\ recon.pc = "mark" /\ recon.doc = {d}
        /\ link' = [link EXCEPT ![d] = [st |-> "drafted", dir |-> IF v = "gone" THEN @.dir ELSE v]]
        /\ recon' = ReconDone(d)
        /\ UNCHANGED <<log, cur, tries, row, product, worker, pull, watermark, pulled,
                       failures, crashes, retryVars>>

-----------------------------------------------------------------------------
(* The process dies; whatever was under way is gone. *)
Crash ==
    /\ crashes < MaxCrashes /\ ~AllIdle
    /\ worker' = [w \in Workers |-> Idle]
    /\ pull' = NoPull
    /\ recon' = NoRecon
    /\ crashes' = crashes + 1
    /\ UNCHANGED <<log, cur, tries, row, link, product, watermark, pulled, failures, retryVars>>

-----------------------------------------------------------------------------
Apply(w) == Plan(w) \/ Write(w) \/ RecordLink(w) \/ Finish(w)
PullWork == \E m \in Entries : PullOwn(m) \/ PullUpsert(m)
PullTick == PullFetch \/ PullWork \/ PullLinks \/ PullSave
ReconWork == \E d \in Docs : ReconNote(d) \/ ReconDraft(d) \/ ReconMark(d)
ReconTick == ReconReadLinks \/ ReconAsk \/ ReconWork
RetryTick == \E m \in Entries : Poison(m) \/ ReplaySuperseded(m) \/ Replay(m)

Next ==
    \/ \E d \in Docs : (\E s \in Selections : Save(d, s)) \/ OwnSave(d) \/ Trash(d)
    \/ \E m \in Entries :
          \/ Drop(m) \/ ReceiveAnswered(m) \/ Age(m) \/ PullRowFails(m) \/ Press(m)
          \/ \E h \in Handlers : Receive(h, m)
    \/ RetryTick
    \/ \E w \in Workers : Apply(w) \/ WriteFails(w)
    \/ PullTick
    \/ ReconTick
    \/ Crash

Spec == Init /\ [][Next]_vars

\* One more of Frappe's tries of entry m, or the end of them.
Delivery(m) == Drop(m) \/ ReceiveAnswered(m) \/ \E h \in Handlers : Receive(h, m)

\* A request that was accepted runs on, Frappe's tries come to an end, arrived or
\* not, and the retry cron comes round.  Nothing makes a save, an arrival, an
\* operator's replay, a failure or a crash happen.
DeliveryFairness ==
    /\ \A m \in Entries : WF_vars(Delivery(m))
    /\ \A w \in Workers : WF_vars(Apply(w))
    /\ \A m \in Entries : WF_vars(Age(m)) /\ SF_vars(Poison(m) \/ ReplaySuperseded(m) \/ Replay(m))

\* The other crons come round, and ERPNext answers them.
Fairness ==
    /\ DeliveryFairness
    /\ SF_vars(PullFetch) /\ WF_vars(PullWork \/ PullLinks \/ PullSave)
    /\ SF_vars(ReconReadLinks) /\ WF_vars(ReconAsk \/ ReconWork)

DeliverySpec == Spec /\ DeliveryFairness
FairSpec == Spec /\ Fairness

-----------------------------------------------------------------------------
(* Properties *)

\* The watermark never passes a selected document the pull has not dealt with:
\* a page is read in the order of `modified` and saved only once its rows are
\* written, so a crash, a resave or a page limit leaves no gap behind it.
WatermarkCovers ==
    \A d \in Docs : Moves(cur[d]) /\ log[cur[d]].mod <= watermark => cur[d] \in pulled

\* Frappe's redelivery and the retry job never apply a delivery that another
\* handler is applying: the pending row stands for the handler, for as long as
\* its age says it can still be running.  An operator's replay asks neither age
\* nor status: a delivery that was replayed by hand is excepted.
OneApplyPerDelivery ==
    \A v, w \in Workers :
        worker[v].pc # "idle" /\ worker[v].msg = worker[w].msg
            => v = w \/ worker[v].msg \in pressed

\* A delivery recorded as applied stays so, unless an operator has it replayed:
\* neither a redelivery, nor the retry job, nor a handler that comes second turns
\* its row back, and supersededBy can rely on it.
AppliedStaysApplied ==
    [][\A m \in Entries : row[m].st = "success" /\ m \notin pressed'
                             => row'[m].st = "success"]_vars

\* Skipped rows, of pushes and of deliveries, fill the retry job's page for good.
PageIsFull ==
    SkippedPushes + Cardinality({m \in Entries : row[m].st = "skipped"}) >= Window

\* A delivery the store took in is not left undecided: whatever failed, or died
\* with the process half-way, is applied, found superseded, or given up on, unless
\* skipped rows fill the page the retry job reads.
DeliveriesSettle ==
    \A m \in Entries :
        row[m].st \in {"pending", "failed"}
            ~> row[m].st \in {"success", "skipped", "poison"} \/ PageIsFull

\* A document that left the selection ends with its product off sale and its link no
\* longer counted as active: reconcileSelection's promise, whatever was lost or raced.
OffSale ==
    <>[](\A d \in Docs : ~Exists(d) \/ log[cur[d]].sel = "none" =>
            product[d].st # "published" /\ link[d].st # "active")

\* A document that moves ERPNext -> Medusa ends published, as last saved there.
InStep(d) == product[d] = [st |-> "published", content |-> log[cur[d]].content]
FollowsErpnext == <>[](\A d \in Docs : Moves(cur[d]) => InStep(d))

\* The retry job never puts an older body back: what a replay writes is not
\* behind what the product already shows.
ReplayNeverGoesBack ==
    [][\A d \in Docs :
         (\E m \in Entries : worker[RetryJob].pc = "write" /\ worker'[RetryJob].pc = "link"
                             /\ worker[RetryJob].msg = m /\ log[m].doc = d)
            => product'[d].content >= product[d].content]_vars

\* An active link that last showed None is a product the webhook left to Medusa
\* ("was Medusa -> ERPNext, now unselected; product untouched"): nothing drafts it.
LeftAloneStaysUp ==
    [][\A d \in Docs :
         link[d] = [st |-> "active", dir |-> "none"] /\ product[d].st = "published"
            => product'[d].st = "published"]_vars
=============================================================================
