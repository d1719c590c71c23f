------------------------ MODULE CatalogueInboundProofs ------------------------
(***************************************************************************)
(* Proofs about CatalogueInbound, for every number of documents, handlers, *)
(* deliveries, replays, failures and crashes, with handlers and jobs       *)
(* overlapping or not: type correctness, that no delivery but one an       *)
(* operator had replayed is applied by two at once or turns back once      *)
(* applied, and that the pull's watermark leaves no document behind.       *)
(***************************************************************************)
EXTENDS CatalogueInbound, TLAPS

USE BoundsAreNaturals, SwitchesAreBoolean DEF retryVars

\* What is referred to has happened: a row, a delivery under way and a pull's
\* page are about entries of the log.
Referred ==
    /\ \A m \in Entries : row[m].st # "none" => m <= Len(log)
    /\ \A w \in Workers : worker[w].msg <= Len(log)
    /\ \A w \in Workers : worker[w].pc # "idle" => worker[w].msg > 0
    /\ \A m \in pull.page \cup pull.todo \cup pull.toLink : m <= Len(log)

TypeInv == TypeOK /\ Referred

-----------------------------------------------------------------------------
(* Type correctness *)

\* Nothing has happened when the store starts.
LEMMA TypeInit == Init => TypeInv
<1> SUFFICES ASSUME Init PROVE TypeInv
    OBVIOUS
<1> USE DEF Init, NoRow, NoLink, NoProduct, Idle, NoPull, NoRecon
<1>1. Len(log) = 0 /\ log \in Seq(Entry)
    OBVIOUS
<1>2. row \in [Entries -> Row] /\ product \in [Docs -> Product] /\ link \in [Docs -> Link]
    BY DEF Row, Product, Link, Entries
<1>3. worker \in [Workers -> Job] /\ pull \in PullJob
    BY DEF Job, PullJob, Entries
<1>4. recon \in ReconJob
    BY DEF ReconJob, Link
<1>5. TypeOK
    BY <1>1, <1>2, <1>3, <1>4 DEF TypeOK
<1>6. Referred
    BY <1>1 DEF Referred
<1> QED
    BY <1>5, <1>6 DEF TypeInv

\* A save or a trash appends one entry and touches nothing of the store.
LEMMA TypeRecord ==
    ASSUME TypeInv, NEW e \in Entry, Record(e), Len(log) < MaxEntries
    PROVE  TypeInv'
<1> USE DEF TypeInv, TypeOK, Record
<1>1. log' \in Seq(Entry) /\ Len(log') = Len(log) + 1
    OBVIOUS
<1>2. e.doc \in Docs
    BY DEF Entry
<1>3. cur' \in [Docs -> 0..Len(log')]
    BY <1>1, <1>2
<1>4. tries' \in [Entries -> 0..MaxTries]
    BY DEF Entries
<1>5. TypeOK'
    BY <1>1, <1>3, <1>4
<1>6. Referred'
    <2>1. \A m \in pull.page \cup pull.todo \cup pull.toLink : m \in Nat
        BY DEF PullJob, Entries
    <2>2. \A w \in Workers : worker[w].msg \in Nat
        BY DEF Job, Entries
    <2> QED BY <1>1, <2>1, <2>2 DEF Referred, Entries
<1> QED
    BY <1>5, <1>6

\* So do updates of a delivery's row.
LEMMA RowUpdates ==
    ASSUME NEW r \in Row, NEW s \in {"failed", "success", "skipped", "poison"},
           NEW n \in Nat
    PROVE  /\ [r EXCEPT !.st = s] \in Row /\ [r EXCEPT !.st = s].st = s
           /\ [r EXCEPT !.aged = TRUE] \in Row /\ [r EXCEPT !.aged = TRUE].st = r.st
           /\ Replayed(n, s) \in Row /\ Replayed(n, s).st = s
<1>1. [r EXCEPT !.st = s] \in Row /\ [r EXCEPT !.st = s].st = s
    BY DEF Row
<1>2. [r EXCEPT !.aged = TRUE] \in Row /\ [r EXCEPT !.aged = TRUE].st = r.st
    BY DEF Row
<1>3. Replayed(n, s) \in Row /\ Replayed(n, s).st = s
    BY DEF Row, Replayed
<1> QED
    BY <1>1, <1>2, <1>3

\* The rows keep their order of attempts.
LEMMA AttemptedType ==
    ASSUME TypeInv, NEW m \in Entries
    PROVE  Attempted(m) \in [Entries -> SUBSET Entries]
BY DEF Attempted, TypeInv, TypeOK

\* What a write makes of a product is a product.
LEMMA ProductUpdates ==
    ASSUME NEW p \in Product, NEW b \in BOOLEAN, NEW m \in Entries, log[m] \in Entry
    PROVE  Upserted(p, m, b) \in Product /\ Disabled(p) \in Product
<1>1. log[m].content \in 0..MaxEntries
    BY DEF Entry, Entries
<1> QED
    BY <1>1 DEF Upserted, Disabled, Product

\* A delivery taken up starts with its plan.
LEMMA StartedJob ==
    ASSUME NEW m \in Entries
    PROVE  Started(m) \in Job /\ Started(m).msg = m /\ Started(m).pc = "plan"
<1>1. Idle \in Job /\ m \in 0..MaxEntries
    BY DEF Idle, Job, Entries
<1> QED
    BY <1>1 DEF Started, Job

\* So does a replay, with the attempts its row showed.
LEMMA TakenUpJob ==
    ASSUME NEW m \in Entries, NEW n \in Nat
    PROVE  /\ [Started(m) EXCEPT !.attempts = n] \in Job
           /\ [Started(m) EXCEPT !.attempts = n].msg = m
           /\ [Started(m) EXCEPT !.attempts = n].pc = "plan"
BY StartedJob DEF Job

\* An idle worker has no delivery.
LEMMA IdleJob == Idle \in Job /\ Idle.msg = 0 /\ Idle.pc = "idle"
BY DEF Idle, Job

\* What a worker that is not idle reads is there.
LEMMA UnderWay ==
    ASSUME TypeInv, NEW w \in Workers
    PROVE  /\ worker[w] \in Job
           /\ worker[w].msg \in 0..Len(log)
           /\ worker[w].pc # "idle" =>
                 LET m == worker[w].msg
                 IN  /\ m \in 1..Len(log) /\ m \in Entries
                     /\ log[m] \in Entry /\ log[m].doc \in Docs /\ log[m].sel \in Selections
                     /\ link[log[m].doc] \in Link /\ product[log[m].doc] \in Product
                     /\ row[m] \in Row
<1>1. worker[w] \in Job /\ worker[w].msg \in 0..Len(log)
    BY DEF TypeInv, TypeOK, Referred, Job
<1>2. ASSUME worker[w].pc # "idle"
      PROVE  worker[w].msg \in 1..Len(log) /\ worker[w].msg \in Entries
    BY <1>1, <1>2 DEF TypeInv, TypeOK, Referred, Entries
<1>3. ASSUME worker[w].pc # "idle" PROVE log[worker[w].msg] \in Entry
    BY <1>2, <1>3 DEF TypeInv, TypeOK
<1>4. ASSUME NEW e \in Entry PROVE e.doc \in Docs /\ e.sel \in Selections
    BY DEF Entry
<1> QED
    BY <1>1, <1>2, <1>3, <1>4 DEF TypeInv, TypeOK

\* The outcome of a delivery is written on its row, and on no other.
LEMMA OutcomeRow ==
    ASSUME TypeInv, NEW w \in Workers, worker[w].pc # "idle",
           NEW s \in {"failed", "success"}, Outcome(w, s)
    PROVE  LET m == worker[w].msg
           IN  /\ row' \in [Entries -> Row] /\ \A n \in Entries : n # m => row'[n] = row[n]
               /\ row'[m].st = s
               /\ w \in Handlers => row'[m] = [row[m] EXCEPT !.st = s]
               /\ w \in Replayers => row'[m] = Replayed(worker[w].attempts, s)
               /\ ahead' \in [Entries -> SUBSET Entries]
               /\ UNCHANGED <<presses, pressed>>
<1> DEFINE m == worker[w].msg
<1>1. m \in Entries /\ row[m] \in Row /\ worker[w] \in Job /\ row \in [Entries -> Row]
    BY UnderWay DEF TypeInv, TypeOK
<1>2. worker[w].attempts \in Nat /\ s \in {"failed", "success", "skipped", "poison"}
    BY <1>1 DEF Job
<1>3. \A h \in Handlers : h \notin Replayers
    BY ReplayersAreNoHandlers DEF Replayers
<1>4. /\ [row[m] EXCEPT !.st = s] \in Row /\ [row[m] EXCEPT !.st = s].st = s
      /\ Replayed(worker[w].attempts, s) \in Row /\ Replayed(worker[w].attempts, s).st = s
    <2>1. [row[m] EXCEPT !.st = s] \in Row /\ [row[m] EXCEPT !.st = s].st = s
        BY <1>1 DEF Row
    <2>2. Replayed(worker[w].attempts, s) \in Row /\ Replayed(worker[w].attempts, s).st = s
        BY <1>2 DEF Row, Replayed
    <2> QED
        BY <2>1, <2>2
<1>5. row' = [row EXCEPT ![m] = IF w \in Replayers THEN Replayed(worker[w].attempts, s)
                                ELSE [row[m] EXCEPT !.st = s]]
    BY DEF Outcome
<1>6. ahead' \in [Entries -> SUBSET Entries]
    BY <1>1, AttemptedType DEF Outcome, TypeInv, TypeOK
<1>7. UNCHANGED <<presses, pressed>>
    BY DEF Outcome
<1> QED
    BY <1>1, <1>3, <1>4, <1>5, <1>6, <1>7

\* Whatever is done in ERPNext appends one well-formed entry.
LEMMA SavesRecord ==
    ASSUME TypeInv, NEW d \in Docs,
           (\E s \in Selections : Save(d, s)) \/ OwnSave(d) \/ Trash(d)
    PROVE  \E e \in Entry : Record(e) /\ Len(log) < MaxEntries
<1>1. Len(log) < MaxEntries /\ Len(log) + 1 \in Entries
    <2>1. Len(log) < MaxEntries
        BY DEF Save, OwnSave, Trash
    <2>2. Len(log) \in Nat
        BY DEF TypeInv, TypeOK
    <2> QED
        BY <2>1, <2>2 DEF Entries
<1>2. ASSUME NEW s \in Selections, Save(d, s) PROVE \E e \in Entry : Record(e)
    <2> DEFINE e == [doc |-> d, event |-> "on_update", sel |-> s, mod |-> Len(log) + 1,
                     own |-> FALSE, content |-> Len(log) + 1]
    <2>1. e \in Entry
        BY <1>1 DEF Entry
    <2>2. Record(e)
        BY <1>2 DEF Save
    <2> QED
        BY <2>1, <2>2
<1>3. CASE OwnSave(d) \/ Trash(d)
    <2>1. log[cur[d]] \in Entry
        BY <1>1, <1>3 DEF OwnSave, Trash, Exists, Moves, TypeInv, TypeOK, Entries
    <2>2. ASSUME NEW e \in Entry
          PROVE  /\ [e EXCEPT !.mod = Len(log) + 1, !.own = TRUE] \in Entry
                 /\ [e EXCEPT !.event = "on_trash"] \in Entry
        BY <1>1 DEF Entry
    <2> QED
        BY <1>3, <2>1, <2>2 DEF OwnSave, Trash
<1> QED
    BY <1>1, <1>2, <1>3

\* Taking a delivery in.
LEMMA TypeArrival ==
    ASSUME TypeInv, NEW m \in Entries,
           Drop(m) \/ ReceiveAnswered(m) \/ \E h \in Handlers : Receive(h, m)
    PROVE  TypeInv'
<1>1. CASE Drop(m) \/ ReceiveAnswered(m)
    <2>1. tries' = [tries EXCEPT ![m] = 0] /\ tries \in [Entries -> 0..MaxTries] /\ 0 \in 0..MaxTries
        BY <1>1 DEF Drop, ReceiveAnswered, TypeInv, TypeOK
    <2>2. TypeOK'
        BY <1>1, <2>1 DEF Drop, ReceiveAnswered, TypeInv, TypeOK
    <2> QED
        BY <1>1, <2>2 DEF Drop, ReceiveAnswered, Referred, TypeInv
<1>2. ASSUME NEW h \in Handlers, Receive(h, m) PROVE TypeInv'
    <2>1. tries' \in [Entries -> 0..MaxTries]
        BY <1>2 DEF Receive, TypeInv, TypeOK
    <2>2. row' \in [Entries -> Row]
        BY <1>2 DEF Receive, TypeInv, TypeOK, Row
    <2>3. Started(m) \in Job /\ Started(m).msg = m
        BY StartedJob
    <2>4. worker' = [worker EXCEPT ![h] = Started(m)] /\ m <= Len(log)
        BY <1>2 DEF Receive
    <2>5. worker' \in [Workers -> Job]
        BY <2>3, <2>4 DEF TypeInv, TypeOK
    <2>6. TypeOK'
        BY <1>2, <2>1, <2>2, <2>5, AttemptedType DEF Receive, TypeInv, TypeOK
    <2>7. \A n \in Entries : n # m => row'[n] = row[n]
        BY <1>2 DEF Receive, TypeInv, TypeOK
    <2>8. Referred'
        BY <1>2, <2>3, <2>4, <2>7 DEF Receive, TypeInv, TypeOK, Referred, Entries
    <2> QED
        BY <2>6, <2>8 DEF TypeInv
<1> QED
    BY <1>1, <1>2

\* Applying a delivery and recording the outcome.
LEMMA TypeApply ==
    ASSUME TypeInv, NEW w \in Workers, Apply(w) \/ WriteFails(w)
    PROVE  TypeInv'
<1> DEFINE m == worker[w].msg
           d == log[m].doc
<1>1. worker[w].pc # "idle"
    BY DEF Apply, Plan, Write, RecordLink, Finish, WriteFails
<1>2. /\ worker[w] \in Job /\ m \in 1..Len(log) /\ m \in Entries
      /\ log[m] \in Entry /\ d \in Docs /\ log[m].sel \in Selections
      /\ link[d] \in Link /\ product[d] \in Product /\ row[m] \in Row
    BY <1>1, UnderWay
<1>3. worker' = [worker EXCEPT ![w] = worker'[w]]
      /\ \A v \in Workers \ {w} : worker'[v] = worker[v]
    BY DEF Apply, Plan, Write, RecordLink, Finish, WriteFails, TypeInv, TypeOK
\* Enough to show what is left of the worker, and that the rest has its type.
<1>4. ASSUME worker'[w] \in Job, worker'[w] = Idle \/ worker'[w].msg = m,
             row' \in [Entries -> Row], \A n \in Entries : n # m => row'[n] = row[n],
             link' \in [Docs -> Link], product' \in [Docs -> Product],
             failures' \in 0..MaxFailures, ahead' \in [Entries -> SUBSET Entries],
             UNCHANGED <<log, cur, tries, pull, watermark, pulled, recon, crashes, presses, pressed>>
      PROVE  TypeInv'
    <2>1. worker' \in [Workers -> Job]
        BY <1>3, <1>4 DEF TypeInv, TypeOK
    <2>2. TypeOK'
        BY <1>4, <2>1 DEF TypeInv, TypeOK
    <2>3. Referred'
        BY <1>2, <1>3, <1>4, IdleJob DEF TypeInv, Referred
    <2> QED
        BY <2>2, <2>3 DEF TypeInv
<1>5. CASE Plan(w)
    <2>1. PlannedAct(log[m], link[d]) \in {"skip", "draft", "upsert"}
        BY DEF PlannedAct
    <2>2. link[d].st \in {"none", "active", "drafted"}
        BY <1>2 DEF Link
    <2>3. PICK p \in {"idle", "plan", "write", "link", "finish"}, a \in {"skip", "draft", "upsert"},
               b \in BOOLEAN, k \in {"none", "active", "drafted"} : worker'[w] = At(worker[w], p, a, b, k)
        BY <1>5, <2>1, <2>2 DEF Plan, TypeInv, TypeOK
    <2>9. At(worker[w], p, a, b, k) \in Job /\ At(worker[w], p, a, b, k).msg = m
        BY <1>2, <2>3 DEF At, Job
    <2>4. worker'[w] \in Job /\ worker'[w].msg = m
        BY <2>3, <2>9
    <2> QED
        BY <1>4, <1>5, <2>4 DEF Plan, TypeInv, TypeOK
<1>6. CASE Write(w)
    <2>1. worker[w].republish \in BOOLEAN
        BY <1>2 DEF Job
    <2>2. Upserted(product[d], m, worker[w].republish) \in Product /\ Disabled(product[d]) \in Product
        BY <1>2, <2>1, ProductUpdates
    <2>3. product' \in [Docs -> Product]
        BY <1>2, <1>6, <2>1, <2>2 DEF Write, TypeInv, TypeOK
    <2>4. worker[w].act \in {"skip", "draft", "upsert"}
        BY <1>2 DEF Job
    <2>5. PICK p \in {"idle", "plan", "write", "link", "finish"}, a \in {"skip", "draft", "upsert"},
               b \in BOOLEAN, k \in {"none", "active", "drafted"} : worker'[w] = At(worker[w], p, a, b, k)
        BY <1>6, <2>4 DEF Write, TypeInv, TypeOK
    <2>9. At(worker[w], p, a, b, k) \in Job /\ At(worker[w], p, a, b, k).msg = m
        BY <1>2, <2>5 DEF At, Job
    <2>6. worker'[w] \in Job /\ worker'[w].msg = m
        BY <2>5, <2>9
    <2> QED
        BY <1>4, <1>6, <2>3, <2>6 DEF Write, TypeInv, TypeOK
<1>7. CASE RecordLink(w)
    <2>1. link' \in [Docs -> Link]
        BY <1>2, <1>7 DEF RecordLink, Link, Job, TypeInv, TypeOK
    <2>2. PICK p \in {"idle", "plan", "write", "link", "finish"}, a \in {"skip", "draft", "upsert"},
               b \in BOOLEAN, k \in {"none", "active", "drafted"} : worker'[w] = At(worker[w], p, a, b, k)
        BY <1>7 DEF RecordLink, TypeInv, TypeOK
    <2>9. At(worker[w], p, a, b, k) \in Job /\ At(worker[w], p, a, b, k).msg = m
        BY <1>2, <2>2 DEF At, Job
    <2>4. worker'[w] \in Job /\ worker'[w].msg = m
        BY <2>2, <2>9
    <2> QED
        BY <1>4, <1>7, <2>1, <2>4 DEF RecordLink, TypeInv, TypeOK
<1>8. CASE Finish(w) \/ WriteFails(w)
    <2>1. PICK s \in {"failed", "success"} : Outcome(w, s)
        BY <1>8 DEF Finish, WriteFails
    <2>2. /\ row' \in [Entries -> Row] /\ \A n \in Entries : n # m => row'[n] = row[n]
          /\ ahead' \in [Entries -> SUBSET Entries] /\ UNCHANGED <<presses, pressed>>
        BY <1>1, <2>1, OutcomeRow
    <2>3. worker'[w] = Idle
        BY <1>8 DEF Finish, WriteFails, TypeInv, TypeOK
    <2>4. failures' \in 0..MaxFailures
        BY <1>8 DEF Finish, WriteFails, TypeInv, TypeOK
    <2> QED
        BY <1>4, <1>8, <2>2, <2>3, <2>4, IdleJob DEF Finish, WriteFails, TypeInv, TypeOK
<1> QED
    BY <1>5, <1>6, <1>7, <1>8 DEF Apply

\* A row that ages or is poisoned.
LEMMA TypeAge ==
    ASSUME TypeInv, NEW m \in Entries, Age(m) \/ Poison(m)
    PROVE  TypeInv'
<1>1. row[m] \in Row /\ m <= Len(log)
    BY DEF Age, Poison, Listed, Waiting, TypeInv, TypeOK, Referred
<1>2. \/ row' = [row EXCEPT ![m] = [row[m] EXCEPT !.aged = TRUE]]
      \/ row' = [row EXCEPT ![m] = [row[m] EXCEPT !.st = "poison"]]
    BY DEF Age, Poison
<1>3. [row[m] EXCEPT !.aged = TRUE] \in Row /\ [row[m] EXCEPT !.st = "poison"] \in Row
    BY <1>1, RowUpdates
<1>4. row' \in [Entries -> Row] /\ \A n \in Entries : n # m => row'[n] = row[n]
    BY <1>2, <1>3 DEF TypeInv, TypeOK
<1>5. TypeOK'
    BY <1>4 DEF Age, Poison, TypeInv, TypeOK
<1>6. Referred'
    BY <1>1, <1>4 DEF Age, Poison, TypeInv, Referred
<1> QED
    BY <1>5, <1>6 DEF TypeInv

\* A row that is passed over, or taken up by the retry job or an operator.
LEMMA TypeTakeUp ==
    ASSUME TypeInv, NEW m \in Entries, row[m].st # "none", NEW w \in Replayers,
           PassOver(m) \/ TakeUp(w, m),
           presses' \in 0..MaxPresses, pressed' \in SUBSET Entries
    PROVE  TypeInv'
<1>1. row[m] \in Row /\ m <= Len(log) /\ w \in Workers
    BY DEF TypeInv, TypeOK, Referred, Workers
<1>2. row[m].attempts \in Nat
    BY <1>1 DEF Row
<1>3. CASE PassOver(m)
    <2>1. Replayed(row[m].attempts, "skipped") \in Row
        BY <1>1, <1>2, RowUpdates
    <2>2. row' \in [Entries -> Row] /\ \A n \in Entries : n # m => row'[n] = row[n]
        BY <1>3, <2>1 DEF PassOver, TypeInv, TypeOK
    <2>3. TypeOK'
        BY <1>3, <2>2, AttemptedType DEF PassOver, TypeInv, TypeOK
    <2>4. Referred'
        BY <1>1, <1>3, <2>2 DEF PassOver, TypeInv, Referred
    <2> QED
        BY <2>3, <2>4 DEF TypeInv
<1>4. CASE TakeUp(w, m)
    <2> DEFINE j == [Started(m) EXCEPT !.attempts = row[m].attempts]
    <2>1. j \in Job /\ j.msg = m
        BY <1>2, TakenUpJob
    <2>2. worker' = [worker EXCEPT ![w] = j]
        BY <1>4 DEF TakeUp
    <2> HIDE DEF j
    <2>3. worker' \in [Workers -> Job]
        BY <1>1, <2>1, <2>2 DEF TypeInv, TypeOK
    <2>4. TypeOK'
        BY <1>4, <2>3 DEF TakeUp, TypeInv, TypeOK
    <2>5. \A v \in Workers : worker'[v] = worker[v] \/ worker'[v] = j
        BY <1>1, <2>2 DEF TypeInv, TypeOK
    <2>6. \A v \in Workers : worker'[v].msg <= Len(log) /\ (worker'[v].pc # "idle" => worker'[v].msg > 0)
        BY <1>1, <2>1, <2>5 DEF TypeInv, Referred, Entries
    <2>7. Referred'
        BY <1>4, <2>6 DEF TakeUp, TypeInv, Referred
    <2> QED
        BY <2>4, <2>7 DEF TypeInv
<1> QED
    BY <1>3, <1>4

\* The retry job's steps, and an operator's replay.
LEMMA TypeRetry ==
    ASSUME TypeInv, NEW m \in Entries,
           Age(m) \/ Poison(m) \/ ReplaySuperseded(m) \/ Replay(m) \/ Press(m)
    PROVE  TypeInv'
<1>1. RetryJob \in Replayers /\ Operator \in Replayers
    BY DEF Replayers
<1>2. CASE ReplaySuperseded(m) \/ Replay(m)
    <2>1. row[m].st # "none" /\ UNCHANGED <<presses, pressed>>
        BY <1>2 DEF ReplaySuperseded, Replay, Due
    <2>2. presses' \in 0..MaxPresses /\ pressed' \in SUBSET Entries
        BY <2>1 DEF TypeInv, TypeOK
    <2> QED
        BY <1>1, <1>2, <2>1, <2>2, TypeTakeUp DEF ReplaySuperseded, Replay
<1>3. CASE Press(m)
    <2>1. /\ row[m].st # "none" /\ presses' \in 0..MaxPresses /\ pressed' \in SUBSET Entries
        BY <1>3 DEF Press, TypeInv, TypeOK
    <2> QED
        BY <1>1, <1>3, <2>1, TypeTakeUp DEF Press
<1> QED
    BY <1>2, <1>3, TypeAge

\* A pull tick.
LEMMA TypePull ==
    ASSUME TypeInv,
           \/ PullFetch \/ PullLinks \/ PullSave
           \/ \E m \in Entries : PullOwn(m) \/ PullUpsert(m) \/ PullRowFails(m)
    PROVE  TypeInv'
<1> USE DEF TypeInv, TypeOK
<1>1. CASE PullFetch
    <2>1. PICK page \in SUBSET Candidates :
             pull' = [pc |-> "rows", todo |-> page, page |-> page, toLink |-> {},
                      drafted |-> {d \in Docs : link[d].st = "drafted"}]
        BY <1>1 DEF PullFetch
    <2>2. \A n \in Candidates : n \in Entries /\ n <= Len(log)
        BY DEF Candidates, Moves, Entries
    <2>3. pull' \in PullJob
        BY <2>1, <2>2 DEF PullJob
    <2>4. TypeOK'
        BY <1>1, <2>3 DEF PullFetch
    <2>5. Referred'
        BY <1>1, <2>1, <2>2 DEF PullFetch, Referred
    <2> QED
        BY <2>4, <2>5
<1>2. ASSUME NEW m \in Entries, PullOwn(m) \/ PullUpsert(m) \/ PullRowFails(m) PROVE TypeInv'
    <2>1. PICK linked \in BOOLEAN : RowDone(m, linked)
        BY <1>2 DEF PullOwn, PullUpsert, PullRowFails
    <2>2. pull \in PullJob /\ m \in pull.todo
        BY <1>2 DEF PullOwn, PullUpsert, PullRowFails, NextRow
    <2>3. pull' = [pc |-> IF pull.todo = {m} THEN "links" ELSE "rows",
                   todo |-> pull.todo \ {m}, page |-> pull.page,
                   toLink |-> IF linked THEN pull.toLink \cup {m} ELSE pull.toLink,
                   drafted |-> pull.drafted]
        BY <2>1, <2>2 DEF RowDone, PullJob
    <2>4. pull.todo \subseteq Entries /\ pull.page \subseteq Entries /\ pull.toLink \subseteq Entries
          /\ pull.drafted \subseteq Docs
        BY <2>2 DEF PullJob
    <2>5. pull' \in PullJob
        BY <2>3, <2>4 DEF PullJob
    <2>6. m \in 1..Len(log) /\ log[m] \in Entry
        BY <2>2 DEF Referred, Entries
    <2>7. product' \in [Docs -> Product]
        <3>2. product' = product \/ product' = [product EXCEPT ![log[m].doc] =
                  Upserted(product[log[m].doc], m, log[m].doc \in pull.drafted)]
            BY <1>2 DEF PullOwn, PullUpsert, PullRowFails
        <3>3. log[m].doc \in Docs /\ (log[m].doc \in pull.drafted) \in BOOLEAN
            BY <2>6 DEF Entry
        <3>4. Upserted(product[log[m].doc], m, log[m].doc \in pull.drafted) \in Product
            BY <2>6, <3>3, ProductUpdates
        <3> QED
            BY <3>2, <3>3, <3>4
    <2>8. TypeOK'
        BY <1>2, <2>5, <2>7 DEF PullOwn, PullUpsert, PullRowFails
    <2>9. Referred'
        BY <1>2, <2>2, <2>3 DEF PullOwn, PullUpsert, PullRowFails, Referred
    <2> QED
        BY <2>8, <2>9
<1>3. CASE PullLinks
    <2>1. link' \in [Docs -> Link]
        BY <1>3 DEF PullLinks, Link, Selections
    <2>2. pull' \in PullJob
        BY <1>3 DEF PullLinks, PullJob
    <2>3. TypeOK'
        BY <1>3, <2>1, <2>2 DEF PullLinks
    <2>4. Referred'
        BY <1>3 DEF PullLinks, Referred, PullJob
    <2> QED
        BY <2>3, <2>4
<1>4. CASE PullSave
    <2>1. watermark' \in 0..MaxEntries
        <3>1. PICK n \in pull.page : watermark' = log[n].mod
            BY <1>4 DEF PullSave
        <3>2. n \in 1..Len(log)
            BY <3>1 DEF Referred, PullJob, Entries
        <3>3. log[n] \in Entry
            BY <3>2
        <3> QED
            BY <3>1, <3>3 DEF Entry, Entries
    <2>2. TypeOK'
        BY <1>4, <2>1 DEF PullSave, NoPull, PullJob
    <2>3. Referred'
        BY <1>4 DEF PullSave, NoPull, Referred
    <2> QED
        BY <2>2, <2>3
<1> QED
    BY <1>1, <1>2, <1>3, <1>4

\* A selection reconcile, and the death of the process.
LEMMA TypeRecon ==
    ASSUME TypeInv,
           \/ ReconReadLinks \/ ReconAsk \/ Crash
           \/ \E d \in Docs : ReconNote(d) \/ ReconDraft(d) \/ ReconMark(d)
    PROVE  TypeInv'
<1> USE DEF TypeInv, TypeOK
<1>1. NoRecon \in ReconJob
    BY DEF NoRecon, ReconJob, NoLink, Link
<1>2. \A d \in Docs : ReconDone(d) \in ReconJob
    BY <1>1 DEF ReconDone, ReconJob
<1>3. CASE ReconReadLinks
    <2>1. recon' \in ReconJob
        BY <1>1, <1>3 DEF ReconReadLinks, ReconJob
    <2> QED
        BY <1>3, <2>1 DEF ReconReadLinks, Referred
<1>4. CASE ReconAsk
    <2>1. [e \in Docs |-> IF Exists(e) THEN log[cur[e]].sel ELSE "gone"]
              \in [Docs -> Selections \cup {"gone"}]
        <3>1. ASSUME NEW e \in Docs, Exists(e) PROVE log[cur[e]].sel \in Selections
            <4>1. cur[e] \in 1..Len(log)
                BY <3>1 DEF Exists
            <4>2. log[cur[e]] \in Entry
                BY <4>1
            <4> QED
                BY <4>2 DEF Entry
        <3> QED
            BY <3>1
    <2>2. recon' \in ReconJob
        BY <1>4, <2>1 DEF ReconAsk, ReconJob
    <2> QED
        BY <1>4, <2>2 DEF ReconAsk, Referred
<1>5. ASSUME NEW d \in Docs, ReconNote(d) \/ ReconMark(d) PROVE TypeInv'
    <2>1. recon.value[d] \in Selections \cup {"gone"}
        BY DEF ReconJob
    <2>2. ASSUME NEW l \in Link, NEW v \in Selections
          PROVE  [l EXCEPT !.dir = v] \in Link
        BY DEF Link
    <2>3. CASE ReconNote(d)
        <3>1. link' = IF recon.value[d] # "gone" /\ recon.value[d] # recon.links[d].dir
                      THEN [link EXCEPT ![d] = [link[d] EXCEPT !.dir = recon.value[d]]] ELSE link
            BY <2>3 DEF ReconNote
        <3>2. link' \in [Docs -> Link]
            BY <2>1, <2>2, <3>1
        <3> QED
            BY <1>2, <2>3, <3>2 DEF ReconNote, Referred
    <2>4. CASE ReconMark(d)
        <3>1. link' \in [Docs -> Link]
            BY <2>1, <2>4 DEF ReconMark, Link
        <3> QED
            BY <1>2, <2>4, <3>1 DEF ReconMark, Referred
    <2> QED
        BY <1>5, <2>3, <2>4
<1>6. ASSUME NEW d \in Docs, ReconDraft(d) PROVE TypeInv'
    <2>1. product' \in [Docs -> Product]
        BY <1>6 DEF ReconDraft, Disabled, Product
    <2>2. recon' \in ReconJob
        <3>1. recon \in ReconJob /\ {d} \in SUBSET Docs
            OBVIOUS
        <3> QED
            BY <1>6, <3>1 DEF ReconDraft, ReconJob
    <2> QED
        BY <1>6, <2>1, <2>2 DEF ReconDraft, Referred
<1>7. CASE Crash
    <2>1. worker' \in [Workers -> Job] /\ pull' \in PullJob
        BY <1>7 DEF Crash, Idle, Job, Entries, NoPull, PullJob
    <2>2. crashes' \in 0..MaxCrashes
        BY <1>7 DEF Crash
    <2>3. TypeOK'
        BY <1>1, <1>7, <2>1, <2>2 DEF Crash
    <2>4. Referred'
        BY <1>7 DEF Crash, Idle, NoPull, Referred
    <2> QED
        BY <2>3, <2>4
<1> QED
    BY <1>3, <1>4, <1>5, <1>6, <1>7

\* Every step keeps the types, and refers to entries of the log only.
LEMMA TypeNext == TypeInv /\ [Next]_vars => TypeInv'
<1> SUFFICES ASSUME TypeInv, [Next]_vars PROVE TypeInv'
    OBVIOUS
<1>1. CASE UNCHANGED vars
    BY <1>1 DEF vars, TypeInv, TypeOK, Referred
<1>2. ASSUME NEW d \in Docs,
             (\E s \in Selections : Save(d, s)) \/ OwnSave(d) \/ Trash(d)
      PROVE  TypeInv'
    BY <1>2, SavesRecord, TypeRecord
<1>3. ASSUME NEW m \in Entries,
             \/ Drop(m) \/ ReceiveAnswered(m) \/ \E h \in Handlers : Receive(h, m)
             \/ Age(m) \/ Poison(m) \/ ReplaySuperseded(m) \/ Replay(m) \/ Press(m)
      PROVE  TypeInv'
    BY <1>3, TypeArrival, TypeRetry
<1>4. ASSUME NEW w \in Workers, Apply(w) \/ WriteFails(w) PROVE TypeInv'
    BY <1>4, TypeApply
<1>5. CASE PullTick \/ \E m \in Entries : PullRowFails(m)
    BY <1>5, TypePull DEF PullTick, PullWork
<1>6. CASE ReconTick \/ Crash
    BY <1>6, TypeRecon DEF ReconTick, ReconWork
<1> QED
    BY <1>1, <1>2, <1>3, <1>4, <1>5, <1>6
    DEF Next, RetryTick

\* The typing invariant holds always.
LEMMA TypeInvariant == Spec => []TypeInv
<1> QED
    BY TypeInit, TypeNext, PTL DEF Spec

\* The variables keep their types, whatever is saved, delivered, failed,
\* retried, pulled, reconciled or killed.
THEOREM TypeCorrect == Spec => []TypeOK
<1>1. TypeInv => TypeOK
    BY DEF TypeInv
<1> QED
    BY <1>1, TypeInvariant, PTL

-----------------------------------------------------------------------------
(* One apply per delivery *)

\* Deliveries that are still to come and attempts already counted share
\* Frappe's tries, unless an operator's replay counted as well; a row is aged only
\* when no delivery is to come.
TriesLeft ==
    \A m \in Entries : /\ row[m].st = "none" => row[m] = NoRow
                       /\ row[m].aged => tries[m] = 0
                       /\ tries[m] > 0 /\ m \notin pressed => row[m].attempts + tries[m] <= MaxTries

\* The worker applies a delivery no operator has had replayed.
Untouched(w) == worker[w].pc # "idle" /\ worker[w].msg \notin pressed

\* A handler's row is pending and young, unless the retry job has given the
\* delivery up under it, its tries all used.
HandlerRow ==
    \A h \in Handlers : Untouched(h) =>
        /\ ~row[worker[h].msg].aged
        /\ \/ row[worker[h].msg].st = "pending"
           \/ row[worker[h].msg].st = "poison" /\ tries[worker[h].msg] = 0

\* The retry job's row has aged and is still undecided; an operator's is marked.
ReplayRow ==
    /\ Untouched(RetryJob) => /\ row[worker[RetryJob].msg].aged
                              /\ row[worker[RetryJob].msg].st \in {"failed", "pending"}
    /\ ~Untouched(Operator)

Unshared ==
    /\ \A w \in Workers : worker[w].pc = "idle" => worker[w].msg = 0
    /\ \A g, h \in Handlers : Untouched(g) /\ worker[g].msg = worker[h].msg => g = h

DeliveryInv == TriesLeft /\ HandlerRow /\ ReplayRow /\ Unshared

\* Who the workers are.
LEMMA WhoWorks ==
    /\ RetryJob \in Workers /\ Operator \in Workers /\ RetryJob # Operator
    /\ \A h \in Handlers : h \in Workers /\ h # RetryJob /\ h # Operator /\ h \notin Replayers
    /\ \A w \in Workers : w \in Handlers \/ w = RetryJob \/ w = Operator
    /\ \A w \in Workers : w \in Replayers <=> w \notin Handlers
BY ReplayersAreNoHandlers DEF Workers, Replayers

\* No delivery has been received at the start.
LEMMA DeliveryInit == Init => DeliveryInv
BY WhoWorks
DEF Init, DeliveryInv, TriesLeft, HandlerRow, ReplayRow, Unshared, Untouched, NoRow, Idle

\* The workers at deliveries other than m are as they were, and so are the rows of
\* those deliveries: what was so of them is so still.
LEMMA OthersKept ==
    ASSUME TypeInv, DeliveryInv, NEW m \in Entries, NEW w \in Workers,
           \A v \in Workers : v # w => worker'[v] = worker[v],
           \A n \in Entries : n # m => row'[n] = row[n] /\ tries'[n] = tries[n],
           pressed \subseteq pressed', pressed' \subseteq pressed \cup {m},
           \/ worker'[w] = worker[w]
           \/ worker'[w] = Idle
           \/ worker'[w].pc # "idle" /\ worker'[w].msg = m,
           \* of the workers at m itself
           \A v \in Workers : worker'[v].pc # "idle" /\ worker'[v].msg = m /\ m \notin pressed' =>
               /\ v \in Handlers => /\ ~row'[m].aged
                                    /\ \/ row'[m].st = "pending"
                                       \/ row'[m].st = "poison" /\ tries'[m] = 0
               /\ v = RetryJob => row'[m].aged /\ row'[m].st \in {"failed", "pending"}
               /\ v # Operator,
           m \notin pressed' => \A g, h \in Handlers :
               worker'[g].pc # "idle" /\ worker'[g].msg = m /\ worker'[h].msg = m => g = h
    PROVE  HandlerRow' /\ ReplayRow' /\ Unshared'
<1>1. \A v \in Workers : worker[v].pc # "idle" => worker[v].msg \in Entries
    BY UnderWay
<1>2. \A v \in Workers : worker'[v].pc # "idle" => worker'[v].msg = m \/ worker'[v] = worker[v]
    BY IdleJob
<1>3. ASSUME NEW v \in Workers, Untouched(v)', worker'[v].msg # m
      PROVE  /\ worker'[v] = worker[v] /\ Untouched(v) /\ worker[v].msg \in Entries
             /\ row'[worker[v].msg] = row[worker[v].msg] /\ tries'[worker[v].msg] = tries[worker[v].msg]
    BY <1>1, <1>2, <1>3 DEF Untouched
<1>4. HandlerRow'
    <2> SUFFICES ASSUME NEW h \in Handlers, Untouched(h)'
                 PROVE  /\ ~row'[worker'[h].msg].aged
                        /\ \/ row'[worker'[h].msg].st = "pending"
                           \/ row'[worker'[h].msg].st = "poison" /\ tries'[worker'[h].msg] = 0
        BY DEF HandlerRow
    <2>1. CASE worker'[h].msg = m
        BY <2>1, WhoWorks DEF Untouched
    <2>2. CASE worker'[h].msg # m
        BY <1>3, <2>2, WhoWorks DEF DeliveryInv, HandlerRow
    <2> QED
        BY <2>1, <2>2
<1>5. ReplayRow'
    <2>1. ASSUME Untouched(RetryJob)'
          PROVE  row'[worker'[RetryJob].msg].aged /\ row'[worker'[RetryJob].msg].st \in {"failed", "pending"}
        <3>1. CASE worker'[RetryJob].msg = m
            BY <2>1, <3>1, WhoWorks DEF Untouched
        <3>2. CASE worker'[RetryJob].msg # m
            BY <1>3, <2>1, <3>2, WhoWorks DEF DeliveryInv, ReplayRow
        <3> QED
            BY <3>1, <3>2
    <2>2. ASSUME Untouched(Operator)' PROVE FALSE
        <3>1. CASE worker'[Operator].msg = m
            BY <2>2, <3>1, WhoWorks DEF Untouched
        <3>2. CASE worker'[Operator].msg # m
            BY <1>3, <2>2, <3>2, WhoWorks DEF DeliveryInv, ReplayRow
        <3> QED
            BY <3>1, <3>2
    <2> QED
        BY <2>1, <2>2 DEF ReplayRow
<1>6. Unshared'
    <2>1. \A v \in Workers : worker'[v].pc = "idle" => worker'[v].msg = 0
        BY IdleJob DEF DeliveryInv, Unshared
    <2>2. ASSUME NEW g \in Handlers, NEW h \in Handlers, Untouched(g)',
                 worker'[g].msg = worker'[h].msg
          PROVE  g = h
        <3>1. CASE worker'[g].msg = m
            BY <2>2, <3>1, WhoWorks DEF Untouched
        <3>2. CASE worker'[g].msg # m
            <4>1. worker'[g] = worker[g] /\ Untouched(g) /\ worker[g].msg \in Entries
                BY <1>3, <2>2, <3>2, WhoWorks
            <4>2. worker'[h].pc # "idle"
                BY <2>1, <2>2, <4>1, WhoWorks DEF Entries
            <4>3. worker'[h] = worker[h]
                BY <1>2, <2>2, <3>2, <4>2, WhoWorks
            <4> QED
                BY <2>2, <4>1, <4>3 DEF DeliveryInv, Unshared
        <3> QED
            BY <3>1, <3>2
    <2> QED
        BY <2>1, <2>2 DEF Unshared
<1> QED
    BY <1>4, <1>5, <1>6

\* A delivery is taken in, dropped or answered.
LEMMA DeliveryArrival ==
    ASSUME TypeInv, DeliveryInv, NEW m \in Entries,
           Drop(m) \/ ReceiveAnswered(m) \/ \E h \in Handlers : Receive(h, m)
    PROVE  DeliveryInv'
<1>0. /\ worker \in [Workers -> Job] /\ row \in [Entries -> Row] /\ row[m] \in Row
      /\ tries \in [Entries -> 0..MaxTries]
    BY DEF TypeInv, TypeOK
<1>1. CASE Drop(m) \/ ReceiveAnswered(m)
    <2>1. /\ UNCHANGED <<row, worker, pressed>> /\ tries'[m] = 0
          /\ \A n \in Entries : n # m => tries'[n] = tries[n]
        BY <1>0, <1>1 DEF Drop, ReceiveAnswered
    <2>2. TriesLeft'
        BY <2>1 DEF DeliveryInv, TriesLeft
    <2>3. HandlerRow'
        <3> SUFFICES ASSUME NEW h \in Handlers, Untouched(h)
                     PROVE  /\ ~row[worker[h].msg].aged
                            /\ \/ row[worker[h].msg].st = "pending"
                               \/ row[worker[h].msg].st = "poison" /\ tries'[worker[h].msg] = 0
            BY <2>1 DEF HandlerRow, Untouched
        <3>1. worker[h].msg \in Entries
            BY UnderWay, WhoWorks DEF Untouched
        <3> QED
            BY <2>1, <3>1 DEF DeliveryInv, HandlerRow
    <2> QED
        BY <2>1, <2>2, <2>3 DEF DeliveryInv, ReplayRow, Unshared, Untouched
<1>2. ASSUME NEW h \in Handlers, Receive(h, m) PROVE DeliveryInv'
    <2>1. /\ tries[m] > 0 /\ tries' = [tries EXCEPT ![m] = tries[m] - 1]
          /\ row' = [row EXCEPT ![m] = [st |-> "pending", attempts |-> row[m].attempts + 1, aged |-> FALSE]]
          /\ worker' = [worker EXCEPT ![h] = Started(m)] /\ UNCHANGED pressed
        BY <1>2 DEF Receive
    <2>2. ~row[m].aged /\ row[m].st # "pending"
        BY <1>2, <2>1 DEF Receive, Answered, DeliveryInv, TriesLeft
    <2>3. m \notin pressed => \A w \in Workers : worker[w].msg # m
        <3> SUFFICES ASSUME m \notin pressed, NEW w \in Workers, worker[w].msg = m PROVE FALSE
            OBVIOUS
        <3>1. Untouched(w)
            BY DEF Untouched, DeliveryInv, Unshared, Entries
        <3> QED
            BY <1>0, <2>1, <2>2, <3>1, WhoWorks DEF DeliveryInv, HandlerRow, ReplayRow
    <2>4. /\ row'[m].st = "pending" /\ ~row'[m].aged /\ row'[m].attempts = row[m].attempts + 1
          /\ tries'[m] = tries[m] - 1
          /\ \A n \in Entries : n # m => row'[n] = row[n] /\ tries'[n] = tries[n]
        BY <1>0, <2>1
    <2>5. /\ \A v \in Workers : v # h => worker'[v] = worker[v]
          /\ worker'[h].msg = m /\ worker'[h].pc = "plan"
        BY <1>0, <2>1, StartedJob, WhoWorks
    <2>6. TriesLeft'
        BY <1>0, <2>1, <2>2, <2>4 DEF DeliveryInv, TriesLeft, Row
    <2>7. HandlerRow' /\ ReplayRow' /\ Unshared'
        BY <2>1, <2>3, <2>4, <2>5, OthersKept, WhoWorks
    <2> QED
        BY <2>6, <2>7 DEF DeliveryInv
<1> QED
    BY <1>1, <1>2

\* A worker goes on with its delivery.
LEMMA GoesOnWith ==
    ASSUME TypeInv, NEW w \in Workers, Plan(w) \/ Write(w) \/ RecordLink(w)
    PROVE  /\ worker'[w].msg = worker[w].msg /\ worker'[w].pc # "idle"
           /\ UNCHANGED <<row, tries, pressed>>
<1>1. worker[w] \in Job
    BY DEF TypeInv, TypeOK
<1>2. \E p \in {"write", "link", "finish"} : \E a, b, k : worker'[w] = At(worker[w], p, a, b, k)
    <2>1. CASE Plan(w)
        <3>1. PICK p \in {"write", "link", "finish"}, a \in {"skip", PlannedAct(log[worker[w].msg], link[log[worker[w].msg].doc])},
                   b \in {FALSE, PlannedAct(log[worker[w].msg], link[log[worker[w].msg].doc]) = "upsert" /\ link[log[worker[w].msg].doc].st = "drafted"},
                   k \in {"none", link[log[worker[w].msg].doc].st} : worker'[w] = At(worker[w], p, a, b, k)
            BY <2>1 DEF Plan, TypeInv, TypeOK
        <3> QED
            BY <3>1
    <2>2. CASE Write(w) \/ RecordLink(w)
        <3>1. PICK p \in {"link", "finish"}, a \in {"skip", worker[w].act} :
                  worker'[w] = At(worker[w], p, a, FALSE, "none")
            BY <2>2 DEF Write, RecordLink, TypeInv, TypeOK
        <3> QED
            BY <3>1
    <2> QED
        BY <2>1, <2>2
<1>3. ASSUME NEW p, NEW a, NEW b, NEW k
      PROVE  At(worker[w], p, a, b, k).msg = worker[w].msg /\ At(worker[w], p, a, b, k).pc = p
    BY <1>1 DEF At, Job
<1>4. worker'[w].msg = worker[w].msg /\ worker'[w].pc # "idle"
    BY <1>2, <1>3
<1> QED
    BY <1>4 DEF Plan, Write, RecordLink

\* A delivery is applied: it stays with its worker until its row is decided.
LEMMA DeliveryApply ==
    ASSUME TypeInv, DeliveryInv, NEW w \in Workers, Apply(w) \/ WriteFails(w)
    PROVE  DeliveryInv'
<1> DEFINE m == worker[w].msg
<1>1. worker[w].pc # "idle" /\ UNCHANGED tries
    BY DEF Apply, Plan, Write, RecordLink, Finish, WriteFails
<1>2. worker[w] \in Job /\ m \in Entries /\ row[m] \in Row
    BY <1>1, UnderWay
<1>3. \A v \in Workers \ {w} : worker'[v] = worker[v]
    BY DEF Apply, Plan, Write, RecordLink, Finish, WriteFails, TypeInv, TypeOK
<1>4. CASE Plan(w) \/ Write(w) \/ RecordLink(w)
    <2>1. worker'[w].msg = m /\ worker'[w].pc # "idle" /\ UNCHANGED <<row, pressed>>
        BY <1>4, GoesOnWith
    <2>2. \A v \in Workers : worker'[v].msg = worker[v].msg
                             /\ (worker'[v].pc = "idle" <=> worker[v].pc = "idle")
        BY <1>1, <1>3, <2>1
    <2>3. \A v \in Workers : Untouched(v)' <=> Untouched(v)
        BY <2>1, <2>2 DEF Untouched
    <2> QED
        BY <1>1, <2>1, <2>2, <2>3, WhoWorks DEF DeliveryInv, TriesLeft, HandlerRow, ReplayRow, Unshared
<1>5. CASE Finish(w) \/ WriteFails(w)
    <2>1. worker'[w] = Idle
        BY <1>5 DEF Finish, WriteFails, TypeInv, TypeOK
    <2>2. PICK s \in {"failed", "success"} : Outcome(w, s)
        BY <1>5 DEF Finish, WriteFails
    <2>3. /\ \A n \in Entries : n # m => row'[n] = row[n]
          /\ row'[m].st = s /\ UNCHANGED pressed
          /\ w \in Handlers => row'[m] = [row[m] EXCEPT !.st = s]
          /\ w \in Replayers => row'[m] = Replayed(worker[w].attempts, s)
        BY <1>1, <2>2, OutcomeRow
    <2>4. m \notin pressed => \A v \in Workers \ {w} : worker[v].pc # "idle" => worker[v].msg # m
        BY <1>1, WhoWorks DEF DeliveryInv, HandlerRow, ReplayRow, Unshared, Untouched
    <2>5. TriesLeft'
        <3>1. m \in pressed \/ row[m].aged \/ w \in Handlers
            BY <1>1, WhoWorks DEF DeliveryInv, ReplayRow, Untouched
        <3>2. row'[m].aged => row[m].aged
            BY <1>2, <2>3, WhoWorks DEF Replayed, Row
        <3>3. w \in Handlers => row'[m].attempts = row[m].attempts
            BY <1>2, <2>3 DEF Row
        <3>4. /\ row'[m].st # "none"
              /\ row'[m].aged => tries[m] = 0
              /\ tries[m] > 0 /\ m \notin pressed => row'[m].attempts + tries[m] <= MaxTries
            BY <1>2, <2>3, <3>1, <3>2, <3>3 DEF DeliveryInv, TriesLeft
        <3> QED
            BY <1>1, <2>3, <3>4 DEF DeliveryInv, TriesLeft
    <2>6. HandlerRow' /\ ReplayRow' /\ Unshared'
        <3>1. \A v \in Workers : worker'[v].pc # "idle" => v # w
            BY <2>1, IdleJob
        <3>2. m \notin pressed => \A v \in Workers : worker'[v].pc # "idle" => worker'[v].msg # m
            BY <1>3, <2>4, <3>1
        <3> QED
            BY <1>1, <1>2, <1>3, <2>1, <2>3, <3>2, OthersKept, WhoWorks
    <2> QED
        BY <2>5, <2>6 DEF DeliveryInv
<1> QED
    BY <1>4, <1>5 DEF Apply

\* Rows age, and the retry job gives some up: Frappe's tries are used up before a
\* young row can be.
LEMMA DeliveryAge ==
    ASSUME TypeInv, DeliveryInv, MaxTries <= MaxAttempts, NEW m \in Entries,
           Age(m) \/ Poison(m)
    PROVE  DeliveryInv'
<1>1. row[m] \in Row /\ row \in [Entries -> Row] /\ tries[m] \in 0..MaxTries
    BY DEF TypeInv, TypeOK
<1>2. UNCHANGED <<tries, worker, pressed>>
    BY DEF Age, Poison
<1>3. \A w \in Workers : worker[w].pc # "idle" => worker[w].msg \in Entries
    BY UnderWay
<1>4. CASE Age(m)
    <2>1. /\ \A n \in Entries : n # m => row'[n] = row[n]
          /\ row'[m] = [row[m] EXCEPT !.aged = TRUE] /\ tries[m] = 0
        BY <1>1, <1>4 DEF Age
    <2>2. \A w \in Workers : worker[w].msg # m
        BY <1>4 DEF Age, Applying
    <2>3. row'[m].st = row[m].st /\ row[m].st # "none"
        BY <1>1, <1>4, <2>1 DEF Age, Row
    <2>4. TriesLeft'
        <3> SUFFICES ASSUME NEW n \in Entries
                     PROVE  /\ row'[n].st = "none" => row'[n] = NoRow
                            /\ row'[n].aged => tries[n] = 0
                            /\ tries[n] > 0 /\ n \notin pressed => row'[n].attempts + tries[n] <= MaxTries
            BY <1>2 DEF TriesLeft
        <3>1. CASE n = m
            <4>1. tries[n] = 0 /\ row'[n].st # "none"
                BY <2>1, <2>3, <3>1
            <4> QED
                BY <4>1
        <3>2. CASE n # m
            BY <2>1, <3>2 DEF DeliveryInv, TriesLeft
        <3> QED
            BY <3>1, <3>2
    <2>5. HandlerRow' /\ ReplayRow' /\ Unshared'
        BY <1>2, <1>3, <2>1, <2>2, WhoWorks DEF DeliveryInv, HandlerRow, ReplayRow, Unshared, Untouched
    <2> QED
        BY <2>4, <2>5 DEF DeliveryInv
<1>5. CASE Poison(m)
    <2>1. /\ \A n \in Entries : n # m => row'[n] = row[n]
          /\ row'[m] = [row[m] EXCEPT !.st = "poison"]
          /\ row[m].attempts >= MaxAttempts /\ worker[RetryJob].pc = "idle"
        BY <1>1, <1>5 DEF Poison
    <2>2. /\ row'[m].st = "poison" /\ row'[m].aged = row[m].aged
          /\ row'[m].attempts = row[m].attempts
        BY <1>1, <2>1 DEF Row
    <2>3. m \notin pressed => tries[m] = 0
        BY <1>1, <2>1, BoundsAreNaturals DEF DeliveryInv, TriesLeft, Row
    <2>4. TriesLeft'
        BY <1>2, <2>1, <2>2 DEF DeliveryInv, TriesLeft
    <2>5. HandlerRow'
        <3> SUFFICES ASSUME NEW h \in Handlers, Untouched(h)
                     PROVE  /\ ~row'[worker[h].msg].aged
                            /\ \/ row'[worker[h].msg].st = "pending"
                               \/ row'[worker[h].msg].st = "poison" /\ tries[worker[h].msg] = 0
            BY <1>2 DEF HandlerRow, Untouched
        <3>1. worker[h].msg \in Entries /\ worker[h].msg \notin pressed
            BY <1>3, WhoWorks DEF Untouched
        <3>2. CASE worker[h].msg = m
            BY <2>2, <2>3, <3>1, <3>2 DEF DeliveryInv, HandlerRow
        <3>3. CASE worker[h].msg # m
            BY <2>1, <3>1, <3>3 DEF DeliveryInv, HandlerRow
        <3> QED
            BY <3>2, <3>3
    <2>6. ReplayRow' /\ Unshared'
        BY <1>2, <2>1 DEF DeliveryInv, ReplayRow, Unshared, Untouched
    <2> QED
        BY <2>4, <2>5, <2>6 DEF DeliveryInv
<1> QED
    BY <1>4, <1>5

\* A row is passed over, or taken up: by an operator, or by the retry job once it
\* has aged, when no handler can be at it.
LEMMA DeliveryTakeUp ==
    ASSUME TypeInv, DeliveryInv, NEW m \in Entries, NEW w \in Replayers,
           row[m].st # "none", worker[w].pc = "idle",
           PassOver(m) \/ TakeUp(w, m),
           pressed' = IF w = Operator THEN pressed \cup {m} ELSE pressed,
           w = RetryJob => row[m].aged /\ row[m].st \in {"failed", "pending"}
    PROVE  DeliveryInv'
<1>1. row[m] \in Row /\ row \in [Entries -> Row] /\ w \in Workers /\ (w = RetryJob \/ w = Operator)
      /\ row[m].attempts \in Nat /\ UNCHANGED tries
    BY DEF TypeInv, TypeOK, Workers, Row, Replayers, PassOver, TakeUp
<1>2. pressed \subseteq pressed' /\ pressed' \subseteq pressed \cup {m}
    OBVIOUS
<1>3. m \notin pressed' => w = RetryJob /\ tries[m] = 0 /\ \A v \in Workers : worker[v].msg # m
    <2> SUFFICES ASSUME m \notin pressed'
                 PROVE  w = RetryJob /\ tries[m] = 0 /\ \A v \in Workers : worker[v].msg # m
        OBVIOUS
    <2>1. w = RetryJob /\ row[m].aged /\ tries[m] = 0
        BY <1>1 DEF DeliveryInv, TriesLeft
    <2>2. ASSUME NEW v \in Workers, worker[v].msg = m PROVE FALSE
        <3>1. Untouched(v)
            BY <1>2, <2>2 DEF Untouched, DeliveryInv, Unshared, Entries
        <3> QED
            BY <2>1, <2>2, <3>1, WhoWorks DEF DeliveryInv, HandlerRow, ReplayRow, Untouched
    <2> QED
        BY <2>1, <2>2
<1>4. CASE PassOver(m)
    <2>1. /\ \A n \in Entries : n # m => row'[n] = row[n]
          /\ row'[m] = Replayed(row[m].attempts, "skipped") /\ UNCHANGED worker
        BY <1>1, <1>4 DEF PassOver
    <2>2. row'[m].st = "skipped" /\ ~row'[m].aged
        BY <2>1 DEF Replayed
    <2>3. TriesLeft'
        BY <1>1, <1>2, <1>3, <2>1, <2>2 DEF DeliveryInv, TriesLeft
    <2>4. m \notin pressed' => \A v \in Workers : worker'[v].msg # m
        BY <1>3, <2>1
    <2>5. HandlerRow' /\ ReplayRow' /\ Unshared'
        BY <1>1, <1>2, <2>1, <2>4, OthersKept, WhoWorks
    <2> QED
        BY <2>3, <2>5 DEF DeliveryInv
<1>5. CASE TakeUp(w, m)
    <2> DEFINE j == [Started(m) EXCEPT !.attempts = row[m].attempts]
    <2>1. j.msg = m /\ j.pc = "plan"
        BY <1>1, TakenUpJob
    <2>2. worker' = [worker EXCEPT ![w] = j] /\ UNCHANGED row
        BY <1>5 DEF TakeUp
    <2> HIDE DEF j
    <2>3. (\A v \in Workers : v # w => worker'[v] = worker[v]) /\ worker'[w] = j
        BY <1>1, <2>2 DEF TypeInv, TypeOK
    <2>4. TriesLeft'
        BY <1>1, <1>2, <2>2 DEF DeliveryInv, TriesLeft
    <2>5. \A v \in Workers : worker'[v].pc # "idle" /\ worker'[v].msg = m /\ m \notin pressed' =>
               v = RetryJob /\ row'[m].aged /\ row'[m].st \in {"failed", "pending"}
        BY <1>3, <2>2, <2>3
    <2>6. HandlerRow' /\ ReplayRow' /\ Unshared'
        BY <1>1, <1>2, <2>1, <2>2, <2>3, <2>5, OthersKept, WhoWorks
    <2> QED
        BY <2>4, <2>6 DEF DeliveryInv
<1> QED
    BY <1>4, <1>5

\* The retry job's steps, and an operator's replay.
LEMMA DeliveryRetry ==
    ASSUME TypeInv, DeliveryInv, MaxTries <= MaxAttempts, NEW m \in Entries,
           Age(m) \/ Poison(m) \/ ReplaySuperseded(m) \/ Replay(m) \/ Press(m)
    PROVE  DeliveryInv'
<1>1. RetryJob \in Replayers /\ Operator \in Replayers /\ RetryJob # Operator
    BY WhoWorks DEF Replayers
<1>2. CASE ReplaySuperseded(m) \/ Replay(m)
    <2>1. /\ row[m].aged /\ row[m].st \in {"failed", "pending"} /\ worker[RetryJob].pc = "idle"
          /\ UNCHANGED pressed /\ (PassOver(m) \/ TakeUp(RetryJob, m))
        BY <1>2 DEF ReplaySuperseded, Replay, Due
    <2> QED
        BY <1>1, <2>1, DeliveryTakeUp
<1>3. CASE Press(m)
    <2>1. /\ row[m].st # "none" /\ worker[Operator].pc = "idle"
          /\ pressed' = pressed \cup {m} /\ (PassOver(m) \/ TakeUp(Operator, m))
        BY <1>3 DEF Press
    <2> QED
        BY <1>1, <2>1, DeliveryTakeUp
<1> QED
    BY <1>2, <1>3, DeliveryAge

\* Steps of ERPNext, the pull, the reconcile and a crash.
LEMMA DeliveryOthers ==
    ASSUME TypeInv, DeliveryInv,
           \/ UNCHANGED <<row, tries, worker, pressed>> \/ Crash
           \/ \E e \in Entry : Record(e) /\ Len(log) < MaxEntries
    PROVE  DeliveryInv'
<1>1. CASE UNCHANGED <<row, tries, worker, pressed>>
    BY <1>1 DEF DeliveryInv, TriesLeft, HandlerRow, ReplayRow, Unshared, Untouched
<1>2. CASE Crash
    <2>1. (\A w \in Workers : worker'[w] = Idle) /\ UNCHANGED <<row, tries, pressed>>
        BY <1>2 DEF Crash
    <2>2. \A w \in Workers : ~Untouched(w)' /\ worker'[w].msg = 0
        BY <2>1, IdleJob DEF Untouched
    <2> QED
        BY <2>1, <2>2, WhoWorks DEF DeliveryInv, TriesLeft, HandlerRow, ReplayRow, Unshared
<1>3. ASSUME NEW e \in Entry, Record(e), Len(log) < MaxEntries PROVE DeliveryInv'
    <2> DEFINE n == Len(log) + 1
    <2>1. n \in Entries /\ n > Len(log)
        BY <1>3 DEF TypeInv, TypeOK, Entries
    <2>2. row[n] = NoRow
        BY <2>1 DEF TypeInv, Referred, DeliveryInv, TriesLeft
    <2>3. tries'[n] \in 0..MaxTries /\ (\A m \in Entries : m # n => tries'[m] = tries[m])
          /\ UNCHANGED <<row, worker, pressed>>
        BY <1>3, <2>1 DEF Record, TypeInv, TypeOK
    <2>4. TriesLeft'
        BY <2>1, <2>2, <2>3 DEF DeliveryInv, TriesLeft, NoRow
    <2>5. \A w \in Workers : worker[w].pc # "idle" => worker[w].msg \in Entries /\ worker[w].msg # n
        BY <2>1, UnderWay
    <2>6. HandlerRow' /\ ReplayRow' /\ Unshared'
        BY <2>3, <2>5, WhoWorks DEF DeliveryInv, HandlerRow, ReplayRow, Unshared, Untouched
    <2> QED
        BY <2>4, <2>6 DEF DeliveryInv
<1> QED
    BY <1>1, <1>2, <1>3

\* Every step keeps each delivery with one worker at most.
LEMMA DeliveryNext ==
    ASSUME MaxTries <= MaxAttempts
    PROVE  TypeInv /\ DeliveryInv /\ [Next]_vars => DeliveryInv'
<1> SUFFICES ASSUME TypeInv, DeliveryInv, [Next]_vars PROVE DeliveryInv'
    OBVIOUS
<1>1. CASE UNCHANGED vars
    BY <1>1, DeliveryOthers DEF vars
<1>2. ASSUME NEW d \in Docs,
             (\E s \in Selections : Save(d, s)) \/ OwnSave(d) \/ Trash(d)
      PROVE  DeliveryInv'
    BY <1>2, SavesRecord, DeliveryOthers
<1>3. ASSUME NEW m \in Entries,
             \/ Drop(m) \/ ReceiveAnswered(m) \/ \E h \in Handlers : Receive(h, m)
             \/ Age(m) \/ Poison(m) \/ ReplaySuperseded(m) \/ Replay(m) \/ Press(m)
      PROVE  DeliveryInv'
    BY <1>3, DeliveryArrival, DeliveryRetry
<1>4. ASSUME NEW w \in Workers, Apply(w) \/ WriteFails(w) PROVE DeliveryInv'
    BY <1>4, DeliveryApply
<1>5. CASE PullTick \/ (\E m \in Entries : PullRowFails(m)) \/ ReconTick
    <2>1. UNCHANGED <<row, tries, worker, pressed>>
        BY <1>5 DEF PullTick, PullFetch, PullWork, PullOwn, PullUpsert, PullRowFails, PullLinks,
                    PullSave, ReconTick, ReconReadLinks, ReconAsk, ReconWork, ReconNote,
                    ReconDraft, ReconMark
    <2> QED
        BY <2>1, DeliveryOthers
<1>6. CASE Crash
    BY <1>6, DeliveryOthers
<1> QED
    BY <1>1, <1>2, <1>3, <1>4, <1>5, <1>6 DEF Next, RetryTick

\* As long as the retry limit is not below Frappe's own tries, no delivery is
\* applied by two handlers, or by a handler and the retry job, at once, unless an
\* operator has had it replayed.
THEOREM OneApply ==
    ASSUME MaxTries <= MaxAttempts
    PROVE  Spec => []OneApplyPerDelivery
<1>1. TypeInv /\ DeliveryInv => OneApplyPerDelivery
    <2> SUFFICES ASSUME TypeInv, DeliveryInv, NEW v \in Workers, NEW w \in Workers,
                        worker[v].pc # "idle", worker[v].msg = worker[w].msg,
                        worker[v].msg \notin pressed
                 PROVE  v = w
        BY DEF OneApplyPerDelivery
    <2>1. Untouched(v) /\ Untouched(w)
        BY UnderWay DEF DeliveryInv, Unshared, Untouched
    <2>2. CASE v \in Handlers /\ w \in Handlers
        BY <2>1, <2>2 DEF DeliveryInv, Unshared
    <2>3. v # Operator /\ w # Operator
        BY <2>1 DEF DeliveryInv, ReplayRow
    <2>4. ASSUME NEW h \in Handlers, Untouched(h), Untouched(RetryJob)
          PROVE  worker[h].msg # worker[RetryJob].msg
        BY <2>4 DEF DeliveryInv, HandlerRow, ReplayRow
    <2> QED
        BY <2>1, <2>2, <2>3, <2>4, WhoWorks
<1> QED
    BY <1>1, TypeInvariant, DeliveryInit, DeliveryNext, PTL DEF Spec

\* Under the same limit, a row that says "success" says so for good, as long as no
\* operator has it replayed.
THEOREM AppliedForGood ==
    ASSUME MaxTries <= MaxAttempts
    PROVE  Spec => AppliedStaysApplied
<1>1. TypeInv /\ DeliveryInv /\ [Next]_vars
      => [\A m \in Entries : row[m].st = "success" /\ m \notin pressed' => row'[m].st = "success"]_vars
    <2> SUFFICES ASSUME TypeInv, DeliveryInv, Next, NEW m \in Entries,
                        row[m].st = "success", m \notin pressed'
                 PROVE  row'[m].st = "success"
        OBVIOUS
    <2>1. row \in [Entries -> Row]
        BY DEF TypeInv, TypeOK
    <2>2. CASE UNCHANGED row
        BY <2>2
    <2>3. ASSUME NEW n \in Entries, \/ \E h \in Handlers : Receive(h, n)
                                    \/ Age(n) \/ Poison(n) \/ ReplaySuperseded(n)
          PROVE  row'[m].st = "success"
        <3>1. n # m
            BY <2>3 DEF Receive, Answered, Age, Poison, Listed, Waiting, ReplaySuperseded, Due
        <3> QED
            BY <2>1, <2>3, <3>1 DEF Receive, Age, Poison, ReplaySuperseded, PassOver
    <2>4. ASSUME NEW n \in Entries, Press(n) PROVE row'[m].st = "success"
        <3>1. n # m
            BY <2>4 DEF Press
        <3> QED
            BY <2>1, <2>4, <3>1 DEF Press, PassOver, TakeUp
    <2>5. ASSUME NEW w \in Workers, Finish(w) \/ WriteFails(w) PROVE row'[m].st = "success"
        <3>1. worker[w].pc # "idle" /\ UNCHANGED pressed /\ \E s \in {"failed", "success"} : Outcome(w, s)
            BY <2>5 DEF Finish, WriteFails, Outcome
        <3>2. worker[w].msg # m
            BY <3>1, WhoWorks DEF DeliveryInv, HandlerRow, ReplayRow, Untouched
        <3> QED
            BY <3>1, <3>2, OutcomeRow
    <2>6. ASSUME NEW d \in Docs, (\E s \in Selections : Save(d, s)) \/ OwnSave(d) \/ Trash(d)
          PROVE  UNCHANGED row
        BY <2>6 DEF Save, OwnSave, Trash, Record
    <2>7. ASSUME NEW n \in Entries, Drop(n) \/ ReceiveAnswered(n) \/ Replay(n) \/ PullRowFails(n)
          PROVE  UNCHANGED row
        BY <2>7 DEF Drop, ReceiveAnswered, Replay, TakeUp, PullRowFails
    <2>8. ASSUME NEW w \in Workers, Plan(w) \/ Write(w) \/ RecordLink(w) PROVE UNCHANGED row
        BY <2>8 DEF Plan, Write, RecordLink
    <2>9. CASE PullTick \/ ReconTick \/ Crash
        BY <2>2, <2>9
        DEF PullTick, PullFetch, PullWork, PullOwn, PullUpsert, PullLinks, PullSave,
            ReconTick, ReconReadLinks, ReconAsk, ReconWork, ReconNote, ReconDraft, ReconMark, Crash
    <2> QED
        BY <2>2, <2>3, <2>4, <2>5, <2>6, <2>7, <2>8, <2>9 DEF Next, RetryTick, Apply
<1> QED
    BY <1>1, TypeInvariant, DeliveryInit, DeliveryNext, PTL DEF Spec, AppliedStaysApplied

-----------------------------------------------------------------------------
(* The watermark *)

\* A document's newest entry is about it, and nothing later is; an entry that
\* moves carries its own place in the log as `modified`, the others an older one.
Newest ==
    /\ \A d \in Docs : cur[d] # 0 => log[cur[d]].doc = d
    /\ \A m \in 1..Len(log) : /\ log[m].mod <= m
                              /\ log[m].event = "on_update" => log[m].mod = m
    /\ watermark <= Len(log)

\* The page under way holds the oldest of what was beyond the watermark, and
\* what has left its list of rows to do is dealt with.
PageCovers ==
    /\ pull.todo \subseteq pull.page
    /\ pull.pc \in {"idle", "links", "save"} => pull.todo = {}
    /\ \A m \in pull.page : log[m].mod = m /\ (m \in pull.todo \/ m \in pulled)
    /\ \A d \in Docs : Moves(cur[d]) /\ cur[d] > watermark /\ cur[d] \notin pull.page
                          => \A m \in pull.page : m < cur[d]

PullInv == Newest /\ PageCovers /\ WatermarkCovers

\* At the start there is nothing to pull.
LEMMA PullInit == Init => PullInv
BY DEF Init, PullInv, Newest, PageCovers, WatermarkCovers, NoPull, Moves

\* What is appended is dated no later than its place, and a save exactly so.
LEMMA DatedRecord ==
    ASSUME TypeInv, PullInv, NEW d \in Docs,
           (\E s \in Selections : Save(d, s)) \/ OwnSave(d) \/ Trash(d)
    PROVE  \E e \in Entry : /\ Record(e) /\ Len(log) < MaxEntries
                            /\ e.mod <= Len(log) + 1
                            /\ e.event = "on_update" => e.mod = Len(log) + 1
<1>1. PICK e \in Entry : Record(e) /\ Len(log) < MaxEntries
    BY SavesRecord
<1>2. Len(log) \in Nat /\ log'[Len(log) + 1] = e
    BY <1>1 DEF Record, TypeInv, TypeOK
<1>3. CASE \E s \in Selections : Save(d, s)
    <2>1. log'[Len(log) + 1].mod = Len(log) + 1
        BY <1>2, <1>3 DEF Save, Record, TypeInv, TypeOK
    <2> QED
        BY <1>1, <1>2, <2>1
<1>4. CASE OwnSave(d) \/ Trash(d)
    <2>1. cur[d] \in 1..Len(log) /\ log[cur[d]] \in Entry /\ log[cur[d]].mod <= cur[d]
        BY <1>2, <1>4 DEF OwnSave, Trash, Exists, Moves, TypeInv, TypeOK, PullInv, Newest
    <2>2. CASE OwnSave(d)
        <3>1. e = [log[cur[d]] EXCEPT !.mod = Len(log) + 1, !.own = TRUE]
            BY <1>2, <2>2 DEF OwnSave, Record, TypeInv, TypeOK
        <3>2. e.mod = Len(log) + 1
            BY <2>1, <3>1 DEF Entry
        <3> QED
            BY <1>1, <1>2, <3>2
    <2>3. CASE Trash(d)
        <3>1. e = [log[cur[d]] EXCEPT !.event = "on_trash"]
            BY <1>2, <2>3 DEF Trash, Record, TypeInv, TypeOK
        <3>2. e.mod = log[cur[d]].mod /\ e.event = "on_trash"
            BY <2>1, <3>1 DEF Entry
        <3>3. log[cur[d]].mod \in Nat
            BY <2>1 DEF Entry, Entries
        <3> QED
            BY <1>1, <1>2, <2>1, <3>2, <3>3
    <2> QED
        BY <1>4, <2>2, <2>3
<1> QED
    BY <1>3, <1>4

\* An entry is appended: it is beyond the watermark and beyond the page.
LEMMA PullRecord ==
    ASSUME TypeInv, PullInv, NEW e \in Entry, Record(e), Len(log) < MaxEntries,
           e.mod <= Len(log) + 1, e.event = "on_update" => e.mod = Len(log) + 1
    PROVE  PullInv'
<1> DEFINE n == Len(log) + 1
<1>1. /\ log \in Seq(Entry) /\ Len(log) \in Nat /\ log' = Append(log, e)
      /\ Len(log') = n /\ log'[n] = e /\ \A m \in 1..Len(log) : log'[m] = log[m]
      /\ cur \in [Docs -> 0..Len(log)] /\ cur' = [cur EXCEPT ![e.doc] = n]
      /\ watermark \in Nat /\ UNCHANGED <<pull, watermark, pulled>>
    BY DEF Record, TypeInv, TypeOK
<1>2. e.doc \in Docs /\ pull.page \subseteq 1..Len(log)
    BY DEF Entry, TypeInv, TypeOK, PullJob, Referred, Entries
<1>3. \A d \in Docs : \/ d = e.doc /\ cur'[d] = n
                      \/ d # e.doc /\ cur'[d] = cur[d] /\ cur[d] \in 0..Len(log)
    BY <1>1, <1>2
<1>4. Newest'
    <2>1. ASSUME NEW d \in Docs, cur'[d] # 0 PROVE log'[cur'[d]].doc = d
        BY <1>1, <1>3, <2>1 DEF PullInv, Newest
    <2>2. ASSUME NEW m \in 1..Len(log')
          PROVE  log'[m].mod <= m /\ (log'[m].event = "on_update" => log'[m].mod = m)
        <3>1. CASE m = n
            BY <1>1, <3>1
        <3>2. CASE m \in 1..Len(log)
            BY <1>1, <3>2 DEF PullInv, Newest
        <3> QED
            BY <1>1, <3>1, <3>2
    <2>3. watermark' <= Len(log')
        BY <1>1 DEF PullInv, Newest
    <2> QED
        BY <2>1, <2>2, <2>3 DEF Newest
\* A document whose newest entry is not this one is as it was.
<1>5. \A d \in Docs : d # e.doc => (Moves(cur[d])' <=> Moves(cur[d]))
    BY <1>1, <1>3 DEF Moves
<1>6. PageCovers'
    <2>1. \A m \in pull.page : log'[m].mod = m /\ (m \in pull.todo \/ m \in pulled)
        BY <1>1, <1>2 DEF PullInv, PageCovers
    <2>2. ASSUME NEW d \in Docs, Moves(cur[d])', cur'[d] > watermark, cur'[d] \notin pull.page
          PROVE  \A m \in pull.page : m < cur'[d]
        BY <1>1, <1>2, <1>3, <1>5, <2>2 DEF PullInv, PageCovers
    <2> QED
        BY <1>1, <2>1, <2>2 DEF PullInv, PageCovers
<1>7. WatermarkCovers'
    <2> SUFFICES ASSUME NEW d \in Docs, Moves(cur[d])', log'[cur'[d]].mod <= watermark
                 PROVE  cur'[d] \in pulled
        BY <1>1 DEF WatermarkCovers
    <2>1. CASE d = e.doc
        BY <1>1, <1>3, <2>1 DEF Moves, PullInv, Newest
    <2>2. CASE d # e.doc
        BY <1>1, <1>3, <1>5, <2>2 DEF PullInv, WatermarkCovers, Moves
    <2> QED
        BY <2>1, <2>2
<1> QED
    BY <1>4, <1>6, <1>7 DEF PullInv

\* A page is fetched, its rows are dealt with, its newest `modified` is saved.
LEMMA PullTicks ==
    ASSUME TypeInv, PullInv, PullTick
    PROVE  PullInv'
<1>1. /\ UNCHANGED <<log, cur>> /\ log \in Seq(Entry) /\ Len(log) \in Nat /\ watermark \in Nat
      /\ cur \in [Docs -> 0..Len(log)] /\ pull \in PullJob
    <2>1. UNCHANGED <<log, cur>>
        BY DEF PullTick, PullFetch, PullWork, PullOwn, PullUpsert, PullLinks, PullSave
    <2>2. Len(log) \in Nat /\ watermark \in Nat
        BY DEF TypeInv, TypeOK
    <2> QED
        BY <2>1, <2>2 DEF TypeInv, TypeOK
<1>2. \A d \in Docs : Moves(cur[d])' <=> Moves(cur[d])
    BY <1>1 DEF Moves
<1>3. \A d \in Docs : Moves(cur[d]) => cur[d] \in 1..Len(log) /\ log[cur[d]].mod = cur[d]
    BY <1>1 DEF Moves, PullInv, Newest
<1>4. CASE PullFetch
    <2>1. PICK page \in SUBSET Candidates :
             /\ FirstPage(page)
             /\ pull' = [pc |-> "rows", todo |-> page, page |-> page, toLink |-> {},
                         drafted |-> {d \in Docs : link[d].st = "drafted"}]
        BY <1>4 DEF PullFetch
    <2>2. pull'.pc = "rows" /\ pull'.todo = page /\ pull'.page = page
        BY <2>1
    <2>3. UNCHANGED <<watermark, pulled>>
        BY <1>4 DEF PullFetch
    <2>4. \A m \in page : log[m].mod = m
        BY <1>3 DEF Candidates
    <2>5. ASSUME NEW d \in Docs, Moves(cur[d]), cur[d] > watermark, cur[d] \notin page
          PROVE  \A m \in page : m < cur[d]
        <3>1. cur[d] \in Candidates
            BY <1>3, <2>5 DEF Candidates
        <3> QED
            BY <1>3, <2>1, <2>4, <2>5, <3>1 DEF FirstPage
    <2>6. PageCovers'
        BY <1>1, <1>2, <2>2, <2>3, <2>4, <2>5 DEF PageCovers
    <2> QED
        BY <1>1, <1>2, <2>3, <2>6 DEF PullInv, Newest, WatermarkCovers
<1>5. CASE PullWork
    <2>1. PICK m \in Entries : PullOwn(m) \/ PullUpsert(m)
        BY <1>5 DEF PullWork
    <2>2. /\ pull'.todo = pull.todo \ {m} /\ pull'.page = pull.page
          /\ pull'.pc = IF pull.todo = {m} THEN "links" ELSE "rows"
          /\ pulled' = pulled \cup {m} /\ UNCHANGED watermark
        BY <1>1, <2>1 DEF PullOwn, PullUpsert, RowDone, PullJob
    <2>3. PageCovers'
        BY <1>1, <1>2, <2>2 DEF PullInv, PageCovers
    <2> QED
        BY <1>1, <1>2, <2>2, <2>3 DEF PullInv, Newest, WatermarkCovers
<1>6. CASE PullLinks
    <2>1. /\ pull'.todo = pull.todo /\ pull'.page = pull.page /\ pull'.pc = "save" /\ pull.pc = "links"
          /\ UNCHANGED <<watermark, pulled>>
        BY <1>1, <1>6 DEF PullLinks, PullJob
    <2>2. PageCovers'
        BY <1>1, <1>2, <2>1 DEF PullInv, PageCovers
    <2> QED
        BY <1>1, <1>2, <2>1, <2>2 DEF PullInv, Newest, WatermarkCovers
<1>7. CASE PullSave
    <2>1. PICK m \in pull.page : /\ \A n \in pull.page : log[n].mod <= log[m].mod
                                 /\ watermark' = log[m].mod
        BY <1>7 DEF PullSave
    <2>2. /\ pull'.todo = {} /\ pull'.page = {} /\ pull'.pc = "idle" /\ pull.pc = "save"
          /\ UNCHANGED pulled
        BY <1>7 DEF PullSave, NoPull
    <2>3. m \in 1..Len(log) /\ watermark' = m
        BY <2>1 DEF PullInv, PageCovers, TypeInv, TypeOK, PullJob, Referred, Entries
    <2>4. \A n \in pull.page : n \in pulled
        BY <2>2 DEF PullInv, PageCovers
    <2>5. WatermarkCovers'
        <3> SUFFICES ASSUME NEW d \in Docs, Moves(cur[d]), cur[d] <= m
                     PROVE  cur[d] \in pulled
            BY <1>1, <1>2, <1>3, <2>2, <2>3 DEF WatermarkCovers
        <3>1. CASE cur[d] <= watermark
            BY <1>3, <3>1 DEF PullInv, WatermarkCovers
        <3>2. CASE cur[d] > watermark /\ cur[d] \notin pull.page
            BY <1>3, <2>1, <2>3, <3>2 DEF PullInv, PageCovers
        <3> QED
            BY <1>1, <1>3, <2>4, <3>1, <3>2
    <2>6. Newest' /\ PageCovers'
        BY <1>1, <2>2, <2>3 DEF PullInv, Newest, PageCovers
    <2> QED
        BY <2>5, <2>6 DEF PullInv
<1> QED
    BY <1>4, <1>5, <1>6, <1>7 DEF PullTick

\* Every step keeps what the pull has passed dealt with.
LEMMA PullNext ==
    ASSUME ~PullRowsFail
    PROVE  TypeInv /\ PullInv /\ [Next]_vars => PullInv'
<1> SUFFICES ASSUME TypeInv, PullInv, [Next]_vars PROVE PullInv'
    OBVIOUS
<1>1. CASE UNCHANGED <<log, cur, pull, watermark, pulled>>
    BY <1>1 DEF PullInv, Newest, PageCovers, WatermarkCovers, Moves
<1>2. ASSUME NEW d \in Docs, (\E s \in Selections : Save(d, s)) \/ OwnSave(d) \/ Trash(d)
      PROVE  PullInv'
    BY <1>2, DatedRecord, PullRecord
<1>3. CASE PullTick
    BY <1>3, PullTicks
<1>4. CASE Crash
    <2>1. UNCHANGED <<log, cur, watermark, pulled>> /\ pull' = NoPull
        BY <1>4 DEF Crash
    <2> QED
        BY <2>1 DEF PullInv, Newest, PageCovers, WatermarkCovers, Moves, NoPull
<1>5. ASSUME NEW m \in Entries,
             \/ Drop(m) \/ ReceiveAnswered(m) \/ \E h \in Handlers : Receive(h, m)
             \/ Age(m) \/ Poison(m) \/ ReplaySuperseded(m) \/ Replay(m) \/ Press(m)
      PROVE  UNCHANGED <<log, cur, pull, watermark, pulled>>
    BY <1>5 DEF Drop, ReceiveAnswered, Receive, Age, Poison, ReplaySuperseded, Replay, Press,
                PassOver, TakeUp
<1>6. ASSUME NEW w \in Workers, Apply(w) \/ WriteFails(w)
      PROVE  UNCHANGED <<log, cur, pull, watermark, pulled>>
    BY <1>6 DEF Apply, Plan, Write, RecordLink, Finish, WriteFails
<1>7. ASSUME ReconTick PROVE UNCHANGED <<log, cur, pull, watermark, pulled>>
    BY <1>7 DEF ReconTick, ReconReadLinks, ReconAsk, ReconWork, ReconNote, ReconDraft, ReconMark
<1>8. ASSUME UNCHANGED vars PROVE UNCHANGED <<log, cur, pull, watermark, pulled>>
    BY <1>8 DEF vars
<1>9. \A m \in Entries : ~PullRowFails(m)
    BY DEF PullRowFails
<1> QED
    BY <1>1, <1>2, <1>3, <1>4, <1>5, <1>6, <1>7, <1>8, <1>9 DEF Next, RetryTick

\* When the writes of its rows succeed, the pull's watermark never passes a
\* document it has not dealt with, whatever crashes or is saved meanwhile.
THEOREM NothingPassed ==
    ASSUME ~PullRowsFail
    PROVE  Spec => []WatermarkCovers
<1>1. PullInv => WatermarkCovers
    BY DEF PullInv
<1> QED
    BY <1>1, TypeInvariant, PullInit, PullNext, PTL DEF Spec
=============================================================================
