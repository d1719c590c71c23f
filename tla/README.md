# Verification of the ERPNext sync plugin

TLA+ models of the Medusa plugin in `src/`, which keeps a store and an ERPNext
site in step. TLC checks them on small instances. TLAPS proves part of them for
every value of the constants.

| file | what it is |
| --- | --- |
| `CatalogueInbound.tla` | ERPNext → store: webhook receiver, retry, pull, selection reconcile |
| `RecordMirror.tla` | what an outbound mapping promises (abstract) |
| `OutboundPush.tla` | store → ERPNext: one push mapping, its event log, retries and Replay |
| `SaleBooks.tla` | what an order's papers promise ERPNext (abstract) |
| `OrderDocuments.tla` | an order's Sales Order, invoice and Payment Entries |
| `TwoLedgers.tla` | what mirroring a wallet promises (abstract) |
| `WalletMirror.tla` | a customer's wallet in the store and in ERPNext |
| `Settlements.tla` | a gateway settlement: the fee's invoice and the payout's entry |
| `StockLevels.tla` | an Item's sellable level and price |
| `Deliveries.tla` | Delivery Notes becoming fulfilments |
| `InvoiceCopies.tla` | the customer's copy of a Sales Invoice |
| `TwoWay.tla` | a record changed on both sides: echoes and own writes |
| `Customers.tla` | a person's Customer, their Address, and recovery |
| `CartRounding.tla` | a cart charged what ERPNext will invoice |
| `GstRates.tla` | the GST rate a product is charged at |
| `ErpnextSetup.tla` | "Set up ERPNext": selection field, webhooks, masters |
| `MappingGate.tla` | a mapping saved, rehearsed, switched on, checked for drift |
| `FieldMapping.tla` | one field pair's conversions in both directions |
| `TriggerCondition.tla` | a mapping's condition, what it means, and the record it is put to |
| `TriggerParser.tla` | the parser of a condition and the grammar it is documented by |
| `BackOffice.tla` | the thirteen parts from `WalletMirror` to `TriggerCondition`, side by side |
| `MCBackOffice.tla` | the parser beside them, and the values of their constants for TLC |
| `MoneyProofs.tla` | proofs about `WalletMirror` and `Settlements` |
| `ShopperProofs.tla` | proofs about `Deliveries` and `CartRounding` |
| `CustomerProofs.tla` | proofs about `Customers` and `InvoiceCopies` |
| `OperatorProofs.tla` | proofs about `MappingGate`, `ErpnextSetup` and `FieldMapping` |
| `OfficeProofs.tla` | proofs about `TwoWay`, `GstRates` and `StockLevels`, and about `BackOffice` as a whole |
| other `*Proofs.tla` | theorems and proofs about the module they are named for |
| `*.cfg` | one TLC configuration per run |
| `PROJECT.json` | components, runs, mutants, the map to the source, findings, hazards, theorems |

`tlc -config CatalogueSerial.cfg CatalogueInbound.tla` makes a run, and
`tlapm OutboundPushProofs.tla` checks proofs. The three core modules get their
constants straight from a `.cfg`; the parts of the back office have constants
that are records and sequences, so `BackOffice.cfg` points at the definitions of
`MCBackOffice.tla`. The parser is kept out of `BackOffice` because it is written
with RECURSIVE operators, which the prover cannot handle.

Below, IDX is `src/src/modules/erpnext/index.ts`.

## 1. The system and its parts

The plugin is one Medusa module (a service over six tables), subscribers on
Medusa's event bus, cron jobs and HTTP routes. ERPNext is reached over REST and
calls back with webhooks. Every handler is an `async` function: between two
awaits, any other handler, job or subscriber may run on the same rows. No
database transaction spans an await. The only mutual exclusion is three
in-process lock maps (orders, settlements, delivery notes).

**Webhook receiver** (`receiveFrappeWebhook`, `applyFrappeEvent`).
- State: `erpnext_sync_event` (one row per delivery, keyed by document and
  `modified`), `erpnext_link`, products.
- Operations: answer a known delivery, record a pending row, plan (upsert,
  disable, leave alone), write the product, write the link, close the row.
- Hard: Frappe delivers late, again, or never. A second delivery may come while
  the first is applied. The process may die half-way, leaving a pending row.
- Correct when: a delivery is applied by one worker at a time; an applied
  delivery stays applied; every row is decided; a withdrawn document's product
  goes off sale.

**Retry job and Replay button** (`retry-events.ts`, `retry-policy.ts`).
- State: the same rows, with attempts and the time of the last one.
- Operations: the job lists 50 rows of both directions, oldest attempt first, and
  poisons, supersedes or replays them. Replay takes one row, and `retry-failed`
  the 50, whatever their age; Replay whatever they say, too.
- Hard: a replay carries an old body or an old snapshot. A replay by hand may
  meet the row's own handler. Skipped rows stay in the page of 50.
- Correct when: a replay never puts older content back; every row that failed
  ends as success, skipped or poison.

**Pull job** (`pullFromMapping`, `pull-watermark.ts`).
- State: a watermark per mapping.
- Operations: read a page `modified > watermark`, write its rows, then its
  links, then the watermark.
- Hard: a page limit, saves during the page, a crash between the steps, a row
  that fails, the store's own writes coming home.
- Correct when: the watermark never passes a document the pull has not seen to.

**Selection reconcile** (`reconcileSelection`, hourly).
- State: the links.
- Operations: read links, ask ERPNext, note a direction, draft the product,
  mark the link.
- Hard: it works from a list read earlier, beside the pull and the webhooks.
- Correct when: an active link names a document that still moves.

**Outbound push** (`erpnext-forward.ts`, `pushViaMapping`, `pushGenericDoc`).
- State: event rows with snapshots, links, ERPNext's documents.
- Operations: read the record, gates (trigger, unchanged payload, echo), row,
  find by link or key, PUT or POST, link, outcome.
- Hard: lost answers, a crash after the POST, late events, retries of old
  snapshots.
- Correct when: one document per record, but for the times ERPNext did not say
  whether there is one; never an older state over a newer one; the newest state
  taken up arrives.

**Sales documents of an order** (`pushSalesDocument`, `cancelOrderDocuments`,
`order-accounting.ts`).
- State: three links, ERPNext's documents and whether they are submitted, the
  per-order lock.
- Operations: make, link, submit Sales Order and invoice; book a Payment Entry
  per captured payment; unwind all of them.
- Hard: placement and capture arrive together; ERPNext refuses one step of
  several; a cancellation comes before everything is booked.
- Correct when: nothing is made twice, documents stand in the order ERPNext
  insists on, a paid order ends booked and an order given up ends unwound.

**Wallet and credit line** (`sweepWalletTransactions`, `pushWalletTransaction`,
`applyWalletEvent`). State: the store's ledger, ERPNext's Wallet Transactions,
links between them. Sweeps come from a job every five minutes, a subscriber and
the console. Hard: sweeps overlap, answers are lost, a webhook repeats, each
side may refuse a debit. Correct when each movement is in each ledger once, in
the store's order, and the balances agree in the end.

**Gateway settlements** (`gateway-settlements.ts`). A Purchase Invoice for the
fee and a Journal Entry for the payout, under a lock per settlement, with one
row that every emission updates. Hard: corrections, half-booked settlements,
documents cancelled by hand, searches without an answer, a payout whose
reference is told later, a restart while corrections stand in line. Correct when
nothing is booked twice that a search shows, the payout never without its fee,
and the clearing account comes out.

**Stock and prices** (`applyStockLevel`, `refreshStockAndPrices`). Hard: three
reads one after the other while staff and shoppers go on. Correct when the
store ends by selling exactly what is free, at the Item's price.

**Delivery notes** (`applyDeliveryNote`). A fulfilment per note and order under
a lock per note. Hard: several ledger entries of a note arrive together, a note
is cancelled meanwhile. Correct when goods are fulfilled once and shipped, and a
reversal is never passed off as handled.

**Invoices coming home** (`applySalesInvoiceEvent`, the hourly refresh). A row with a
status and a PDF. Correct when only submitted invoices are offered and every
submitted one ends offered.

**Two-way mappings.** A change's echo is recognised by a window after an inbound
write and by comparing with ERPNext's document, an own write by `modified_by`.
Correct when both sides come to rest in step.

**Customers and addresses** (`pushCustomerDoc`, `ensureCustomerForOrder`,
`syncAddress`, `addressRemoved`, missing-customer recovery). Hard: a push, an order, a retry
and the recovery for one person at once; documents that staff deleted. Correct
when a second Customer is made only for a reason.

**Cart rounding, GST rates** (`roundCart`, `refreshProductGst`). Several awaits
each, run from several tabs and webhooks. Correct when what was paid is what
ERPNext invoices and a product is charged at its Item's rate.

**Setup** (`erpnext-setup.ts`). Artefacts in ERPNext made again and again; a
webhook's secret can be written but not read, and an earlier one can be put back.
Correct when "no error" means ready.

**Mappings** (`saveMapping`, `dryRunPush`, `dryRunPull`, `mayEnable`,
`checkMappingDrift`, `mapping-engine.ts`, `conversion.ts`, `trigger.ts`). Hard:
a save, a fold, a rehearsal and the drift check each read the row, wait, and
write what they read. Correct when nothing goes live untried, a pair copied both ways settles, and a
condition is read by its grammar.

How they interact: the receiver, the pull and the reconcile write the same
products and links. Subscribers, the retry job, Replay and bulk pushes write the
same rows and documents. The retry job serves both directions from one page of
50 rows. A two-way mapping joins an inbound and an outbound one on one record.
The other parts share the connection and the event log but not each other's
rows, documents or links.

Each hazard met while reading is in `PROJECT.json`, at its line, with the
property that would catch it or the reason there is none.

## 2. Plan

Done, in this order:

1. `CatalogueInbound`: the part with most actors on shared state; its proofs.
2. `OutboundPush`, then `RecordMirror` above it, and the proofs of both.
3. `OrderDocuments`.
4. Money: `WalletMirror` with `TwoLedgers` above it, `Settlements`,
   `CartRounding`, `GstRates`.
5. Goods and papers: `StockLevels`, `Deliveries`, `InvoiceCopies`, `Customers`.
6. `TwoWay`, which joins an inbound and an outbound mapping on one record.
7. What an operator does: `MappingGate` with its proofs, `ErpnextSetup`,
   `FieldMapping`, `TriggerCondition` with `TriggerParser`.
8. Proofs of the refinement of `TwoLedgers`, and of `NothingForgotten`,
   `OrderDocuments`, `Settlements`, `InvoiceCopies` and `ErpnextSetup`.
9. Proofs of `Deliveries`, `Customers` and `CartRounding`, of the clearing
   account of `Settlements` and of the trace a sale leaves.
10. `SaleBooks` above `OrderDocuments`, with the proof of the refinement; the link
   tables of the wallet and of deliveries; what `TwoWay`, `GstRates` and
   `StockLevels` rest on; the back office as a whole, its types included.
Left, most important first:

- Pushes of a generic mapping that overlap, and several subscribers of one
  record: both are hazards without a property.
- Delivery Notes with a restart between a fulfilment and its link.
- A comparison of `OutboundPush` with the orders' push, whose row is shared by
  all the retries of an event.
- The safety cores of the liveness properties that have none proved: what
  `EachUnitHeldOnce` and `LedgersAgree` say of a state at rest.

## 3. Modules and the code

In every module an action is what happens between two awaits on shared state. A
call to ERPNext is answered, refused, or done with its answer lost, within a
bound on faults.

### CatalogueInbound

One mapping of entity product. ERPNext's history is `log`: an entry per save or
trash, with the selection field's value; an entry's number serves as the
document's content and, for a save by a person, as its `modified`. `cur` names
each document's newest entry. The store is `product`, `link`, `row` (per
delivery) and `watermark`. The code under way is `worker` (a job per request, one
for the retry cron and one for an operator), `pull` and `recon`. `ahead` says of
each row which others were attempted before it: it is the order of the retry
job's page. `pressed` remembers the deliveries an operator had replayed.

| code | actions |
| --- | --- |
| receiver, with Frappe's tries | `Receive`, `ReceiveAnswered`, `Drop` |
| `applyFrappeEvent` | `Plan`, `Write` or `WriteFails`, `RecordLink`, `Finish` |
| retry job, inbound rows | `Age`, `Poison`, `ReplaySuperseded`, `Replay` |
| Replay button, `retry-failed` | `Press` |
| pull | `PullFetch`, `PullOwn`, `PullUpsert`, `PullRowFails`, `PullLinks`, `PullSave` |
| reconcile | `ReconReadLinks`, `ReconAsk`, `ReconNote`, `ReconDraft`, `ReconMark` |
| ERPNext and the process | `Save`, `OwnSave`, `Trash`, `Crash` |

The receiver's check for a row and its insert are one step although an await
lies between: Frappe's tries of one webhook follow each other, so no second
request for the same delivery is at that point. `Age` is the passing of the
retry job's minimum interval; it is enabled only once Frappe has stopped trying,
since the tries end within seconds. `Press` asks for neither: `retryEvent` takes
a row of any age and status, one that is being applied and one that was. A row is
`Listed` when fewer than `Window` rows wait before it, the skipped pushes at the
head of the page (`SkippedPushes`) included. The switch `Overlap` says whether
handlers and jobs may be under way together.

### RecordMirror and OutboundPush

`RecordMirror` says what an outbound mapping promises: a record goes through
states, its document shows some of them, in their order, and it has one document
and one more at most for each time ERPNext left open whether there is one. `OutboundPush` is
one mapping of an entity other than order. `edits` are the states the records
went through, and edit k emits event k. `row[k]` is event k's log row: status,
attempts, the order it was made in (`created_at`), its snapshot, and whether it
got past the gates (`entity_ref`). `last` ranks `last_attempt_at`. `push` is the
push under way: `Gates`, `Find` (or `FindUnanswered`), `WriteRemote` (or
`Refused`, or `AnswerLost`), `RecordLink`, `Finish`. A lookup by key that ERPNext
refuses or does not answer found nothing, and the push goes on to POST: `blind`
counts them. `copies` counts a record's documents in ERPNext and `remote` the
state the one written last shows. `Deliver` reads the record when the event is
handled, not when it was emitted. `Poison`, `JobRetries` and `ButtonRetries` are
the retry job and Replay. `MirrorsRecords` is `RecordMirror`'s specification
under the mapping that forgets rows, links, retries and pushes and takes `blind`
for the doubts.

Pushes run one at a time. The subscriber awaits each push and the retry job each
row, but nothing stops a subscriber and the job from overlapping; that is listed
as a hazard without a property.

### OrderDocuments

One order. `order` says how it is paid (`terms`: to a gateway, in cash, or with
payments not recorded), what is captured and refunded, and whether it is
cancelled. A push in `gates` has read the order; in `queue` it waits for the
lock; the first of the queue holds it and `job` says how far it is. `docs` keeps
each document ERPNext made with its status (draft, submitted, cancelled,
deleted). `links` is `erpnext_link`. `SaleBooks` says what all of it comes to: of each paper
its standing, and that papers are made, submitted and taken back on top of one
another.

| code | actions |
| --- | --- |
| subscriber, row, lock | `Deliver`, `Enter`, `Start` |
| `pushSalesDocument` | `WriteSO`, `LinkSO`, `SubmitSO`, `WriteSI`, `LinkSI`, `SubmitSI`, `AllBooked` |
| `bookPayment` | `BookPayment`, `LinkPayment`, `SubmitPayment` |
| `cancelOrderDocuments`, `unwindDocument` | `Unwind`, `Unlink`, `NextStage` |
| retry job | `Retry` |
| store, process | `Capture`, `Refund`, `Cancel`, `Crash` |

A payment is refunded in full or not at all, and the captured payments together
cover the order. ERPNext answers every read. It refuses nothing by its own rules
in the model, so `KeepsBooks`, the specification of `SaleBooks` under the mapping
to the one document of a kind that stands, says that the code never asks for what
it would refuse. `BooksInOrder` is the part of it that is about single states.

### The back office

`BackOffice` puts thirteen parts side by side. They share the connection to
ERPNext and nothing else, so a behaviour is about one of them (`part`) and the
others rest in their initial state: the state space is the sum of the parts' and
not their product. `TypesOK` says that every part keeps its types.

| module | code | actions |
| --- | --- | --- |
| `WalletMirror` | `sweepWalletTransactions`, `pushWalletTransaction` | `StartSweep`, `PlanRow`, `AskErpnext`, `PostRow`, `LinkRow` |
| | `applyWalletEvent` | `TakeUp`, `ApplyMove`, `LinkMove` |
| `Settlements` | `bookSettlement`, the retry and Replay | `Hear`, `RetrySettlement`, `PressReplay`, `Check`, `FindPaper`, `WritePaper`, `LinkPaper`, `SubmitPaper` |
| `StockLevels` | `applyStockLevel`, `storeHolds`, `writeStockLevel` | `StartRefresh`, `ReadBin`, `ReadOrders`, `ReadHeld`, `WriteLevel` |
| | `refreshStockAndPrices`, `applyVariantPrice` | `ReadPrice`, `SetPrice`, `HearPrice` |
| `Deliveries` | `applyDeliveryNote` | `Arrive`, `OpenNote`, `LookAt`, `MakeFulfilment`, `LinkFulfilment`, `ShipFulfilment` |
| `InvoiceCopies` | webhook, hourly refresh, push, download | `HearInvoice`, `SaveInvoice`, `FetchHeard`, `ReplayInvoice`; `ReadInvoice`, `WriteStatus`, `FetchHourly`; `MarkSubmitted`, `MarkCancelled`; `OpenInvoice` |
| `TwoWay` | echo window, comparison, own-write test | `TakeHook`, `ApplyHook`, `HookDone`; `BeginPush`, `AskRecent`, `Compare`, `Put` |
| `Customers` | `pushCustomerDoc`, `ensureCustomerForOrder`, recovery | `HearSave`, `RetrySave`, `Recover`, `StartOrder`, `LookUp`, `ReadCustomer`, `WriteCustomer`, `LinkCustomer` |
| | `syncAddress`, `addressRemoved` | `SyncAddress`, `LinkAddress`, `RetireAddress` |
| `CartRounding` | `roundCart` | `StartRound`, `PlanRound`, `DropLines`, `MakeLine`, `RefreshCollection` |
| | ERPNext's arithmetic | `GstRow`, `RowAmount`, `Invoiced` as operators |
| `GstRates` | `refreshProductGst` | `StartGst`, `ReadItem`, `PlanTaxRule`, `MakeRate`, `DropRules`, `AddRule`, `ShowRate` |
| `ErpnextSetup` | `ensureCustomField`, `ensureWebhook`, `ensureSettlementMasters`, the report | `EnsureField`, `EnsureWebhook`, `NotAttempted`, `EnsureMaster`, `Report` |
| `MappingGate` | `saveMapping`, folds, reseeding, deletion | `StartSave`, `WriteSave`, `Create`, `StartFold`, `WriteFold`, `Seed`, `Delete` |
| | `dryRunPush`, `dryRunPull`, `recordMappingTest` | `Rehearse`, `RehearsePull`, `RecordTest`, `SumUp`, `Abandon` |
| | `checkMappingDrift` | `StartCheck`, `EndCheck` |
| `FieldMapping` | `applyMapping`, `coerce`, the verdicts, `zonedToUtc` | `Move`, over `Coerced`, `PushVerdict`, `PullVerdict`, `ZonedToUtc` |
| `TriggerCondition` | `evaluateTrigger` | `IsSet`, `Compares`; edits of the condition and the record |
| `TriggerParser` | `parse` | `ParseOr`, `ParseAnd`, `ParseClause` against the grammar `Says` |

The rest of each module's actions are ERPNext, its staff, shoppers and
operators, and restarts. `WalletMirror` implements `TwoLedgers`
(`MirrorsLedgers`): two ledgers that only grow, each entry made there or carried
once from the other, the store's in their order. `FieldMapping` and
`TriggerCondition` are pure algorithms wrapped in the edits that lead from one
input to the next; a condition's parse is compared with every derivation its
documented grammar allows.

Three modules keep a history of what the code took on trust, and their
properties speak of the rest. `Settlements`: `missed`, the kinds of which a paper
stood that a search did not show, because it was not answered or went by another
payout reference, and `forsaken`, the statements that a restart took out of line
while their row said success. `ErpnextSetup`: `stale`, the webhooks to which
something else was sent last than the report's fingerprint is of. `MappingGate`:
`mistaken`, what was signed as rehearsed when something else had been, and
`sawOn`, of a save or fold that found the mapping running.

## 4. Runs

| run | checks | result |
| --- | --- | --- |
| `catalogue_serial` | `OffSale` | pass |
| `catalogue_pull` | `WatermarkCovers`, `FollowsErpnext` | pass |
| `catalogue_overlap` | `TypeOK`, `OneApplyPerDelivery`, `AppliedStaysApplied`, `DeliveriesSettle` | pass |
| `catalogue_pull_race` | `OffSale` | violated |
| `catalogue_replay` | `ReplayNeverGoesBack` | violated |
| `catalogue_left_alone` | `LeftAloneStaysUp` | violated |
| `outbound_serial` | `TypeOK`, `NothingForgotten`, `MirrorsRecords`, `RowsSettle`, `ReachesErpnext` | pass |
| `outbound_skip_unchanged` | `SkipIsNoOp` | violated |
| `outbound_starved` | `RowsSettle` | violated |
| `orders_books` | `NothingMadeTwice`, `KeepsBooks`, `SaleLeavesTrace`, `OverIsUnwound`, `PaidIsBooked` | pass |
| `orders_made_twice` | `NothingMadeTwice` | violated |
| `back_office` | `TypesOK` and the properties of the table below | pass |

What the passing runs show:

- `catalogue_serial`: with handlers and jobs one after another, one document,
  three entries, each delivered once, late or never, one failed write, rows of
  the pull that fail and the store's own writes coming home. A withdrawn
  document ends off sale.
- `catalogue_pull`: two documents, a page of one row, four entries and a
  restart, webhooks switched off. The watermark leaves no gap and the products
  end as ERPNext has them. A page of one row makes every tick a cut page.
- `catalogue_overlap`: two requests, the retry job and an operator's replay,
  interleaved step by step, with a redelivery, a failure, a crash and a page of
  two of which a skipped push has one place: a row that is skipped fills it.
  Webhooks only (`Connected` off): the pull and the reconcile touch no row. The
  crash leaves a pending row with nobody applying it, and the retry job settles
  it. A delivery an operator had replayed may be applied by two, and need not
  stay applied; every other is and does.
- `outbound_serial`: two records, two edits, two failures, a crash, a press of
  Replay. Two edits of one record give the old and the new snapshot, two
  records a full window. A failure may be a lookup without an answer, which makes
  a second document where the first one's link was lost.
- `orders_books`: two payments, three events, a failure and a crash, all three
  ways of being paid. Three events reach a two-payment order booked in full, a
  part-paid order cancelled, and a full refund of what was captured. One
  failure or one crash may strike at each step; a failed push is retried from
  its start.
- `back_office`, part by part:

| part | property | says |
| --- | --- | --- |
| wallet | `MirrorsLedgers`, `LedgersAgree` | nothing twice, nothing back, nothing overtaken; in the end nothing missing |
| settlement | `BookedInTurn`, `ClearsTheAccount`, `SettlementIsBooked` | one standing document of a kind unless a search missed one, no payout without its fee; success of a statement that adds up means the account comes out; the last statement is booked |
| stock, price | `EachUnitHeldOnce`, `PriceFollows` | a unit promised and reserved is held back once; the variant ends at the Item's price |
| deliveries | `FulfilledOnce`, `ReversalIsTold`, `NotesShip` | one fulfilment of an order per note, never more than ordered; a reversal is not passed off; every standing note ships |
| invoice copy | `OfferedIsIssued`, `IssuedIsOffered` | only a submitted invoice is offered; each ends offered with its file |
| two-way | `EndsInStep` | no change bounces for ever, and both sides end equal |
| customers | `SecondNeedsReason`, `ApprovedComeBack`, `RetiredStaysOff` | a second Customer only after a dead link; an approved customer gets one; a retired Address stays retired |
| cart, GST | `PaidIsInvoiced`, `ChargedAtItemsRate` | what is paid is what is invoiced, to the paisa; the product ends at its Item's rate |
| setup | `OkMeansReady` | a report without an error means every artefact is right, but for `stale` webhooks |
| gate | `LiveWasTried` | nothing goes live untried, but for what was signed in another's stead or switched back by one who saw it on |
| field pair | `CopiesSettle` | a pair copied both ways changes no more |
| condition | `ReadsAsWritten` | the parser reads what the grammar derives, and nothing else |

What the violations show (quotes in `PROJECT.json`):

- `catalogue_pull_race`: the pull writes rows it read before a withdrawal and
  puts the product back on sale; the link is drafted by then, so the reconcile
  no longer looks.
- `catalogue_replay`: a failed delivery of an older version is replayed after
  the pull wrote a newer one. The check for a newer delivery looks at webhook
  rows only.
- `catalogue_left_alone`: Medusa → ERPNext, then None: the webhook leaves the
  product alone as promised, the hourly reconcile drafts it.
- `outbound_skip_unchanged`: the unchanged test compares with any earlier
  success, not the last one. A value changed and changed back is not sent.
- `outbound_starved`: skipped rows fill the retry job's page and a failed row
  behind them is never retried.
- `orders_made_twice`: the answer to the making of a Sales Order is lost, or the
  process dies before the link is written; the retry makes a second one. Only
  Payment Entries are looked for by their reference.

`PROJECT.json` lists further findings without a run: each was met while a
property was written, the property excludes that case by name, and the finding
quotes the line that promises otherwise.

Each property of a passing run has a mutant in `PROJECT.json`: a definition
replaced by the fault operator written before it in the module (its comment
begins "Fault:"), under which TLC finds the property violated.

### Bounds

Every bound is a constant in a guard. `Max…` constants limit the environment
(entries, edits, events, movements, saves, runs) and the faults (failures,
lost answers, restarts); `MaxAttempts`, `PageSize`, `Window` and `SweepLimit`
stand for the code's own limits, lowered so that they are reached. Once the
environment has used up its bounds and the work is done nothing is left to do,
hence `CHECK_DEADLOCK FALSE`.

One document, record, order or note mostly suffices, because handlers touch one
at a time; the pull's page, the retry job's page, the sweep and a note for two
orders relate several, and have two. Two workers of a kind (sweeps, refreshes,
pushes of a customer, roundings, tabs) show every overlap of a pair; one fault
strikes at each step in turn. The numbers are chosen to meet the edges: a
promotion that does not divide by its quantity and a paise remainder at each
GST rate; a zone's change of clocks on both sides of Greenwich, with instants
and wall times before, in and after it; conditions within one edit of a plain one and two that
use every clause; a settlement corrected in its takings and its tax, and in
everything; two saved settings, the least after which an earlier secret is back;
two saves of a mapping, the least in which a fold and an edit cross.

### Assumptions of the passing runs

- `catalogue_serial`: `Overlap` is off (`catalogue_pull_race` shows what it
  breaks), and no process dies. One that dies between a new product and its link
  (`index.ts:5980`) leaves a published product that no deselection finds, and
  `OffSale` fails.
- `catalogue_pull`: `Overlap`, `OwnWrites` and `PullRowsFail` are off. With them
  on, the hazards named in `PROJECT.json` break what is checked.
- `catalogue_overlap`: `DeliveriesSettle` says "or the page is full of skipped
  rows" (`PageIsFull`), the inbound side of what `outbound_starved` shows.
- `outbound_serial`: no push is skipped as unchanged (`outbound_skip_unchanged`
  shows what it breaks), and the page of two holds both rows.
- `orders_books`: `InStep` (events are handed out in order, and no push starts
  before the one ahead of it has its row) and not `LostLinks`. Late placements
  and lost links are hazards listed there; `orders_made_twice` sets `LostLinks`.
  A full refund counts as "given up" only for an order paid to a gateway: a cash
  order's failed capture is retried after the refund unwound it.
- Wallet: one side spends (`spender`), and the store has no more rows than a
  sweep reads. When both sides spend, a debit refused in ERPNext stalls every
  later row until money comes in.
- Settlements: nothing is excluded from the model. The properties are stated of
  kinds not `missed` and, for success, of statements not `forsaken` and of papers
  nobody cancelled by hand.
- Deliveries: no restart between a fulfilment and its link.
- Invoice copies, two-way, GST: half of the behaviours let handlers cross
  (`inStep`, `inOrder`, `byTurns` false); the agreement at the end is stated for
  the other half, and what must hold regardless for both.
- Customers: an order or an address book per behaviour, and with an address book
  the pushes take turns.
- Cart: a restart that strikes just before the refresh of the payment
  collection is excluded.
- Setup: one run at a time; a webhook's read and write are one step; staff leave
  a webhook's secret alone, which nothing would show.
- Gate: a mapping's write and the renewal of the selection list are one step;
  every save says whether the mapping is on, as every form of the admin does (one
  that does not say passes the gate and is written as on: a finding).
- Field pair: wall times and midnights that the clocks skip, and text in a JSON
  field, are not edited to. A cleared value does not travel, as in the code.
- Condition: no operator or bracket stands where a value should.

### Fairness

Weak fairness on the steps of a handler or job that has started: Node runs them
on, and a call to ERPNext ends by its timeout. Strong fairness on the crons of
the core modules (`PullFetch`, `ReconReadLinks`, the retry of a row): they come
round for ever, and what they do may be disabled in between by another worker.
`Age` is weakly fair because time passes. In the catalogue, Frappe's tries come
to an end, but none of them has to arrive.

In the back office each part has weak fairness of its own workers, with the
part's own variables as the subscript: sweeps, handlers, refreshes, porters,
pushes, the retry of a failed settlement or save, the hourly jobs. There
webhooks do arrive in the end, and a customer who waits for an invoice opens it
again (`OpenStep`), which is what fetches a file that was lost.

Nothing makes an edit, an event, a press, a trade, a failure or a crash happen.
`catalogue_overlap`, and the runs whose property is about single steps, use the
specification without fairness.

## 5. Proofs

All theorems hold for every value of the constants that meets the module's
named assumptions: bounds are naturals (the bounds on edits, faults, templates,
meddling and a condition's length among them), switches are Booleans, the retry
job is no request handler, a sweep reads at least one row, statements are whole
figures, an order's quantities are naturals, a stock is counted and its orders
are finitely many, carts have lines and no promotion exceeds its line, no payment
is named SO or SI, offsets and changes of zones are whole seconds.

`CatalogueInboundProofs`:

- `TypeCorrect`: `Spec => []TypeOK`. `TypeInv` adds what indexing needs: jobs
  under way name entries that exist.
- `OneApply`, assuming `MaxTries <= MaxAttempts`: no two workers apply one
  delivery no operator has had replayed. The invariant `DeliveryInv` says why: rows age only after the last
  try (`TriesLeft`), a request's row is pending and young or already given up
  with no tries left (`HandlerRow`), the retry job's row has aged
  (`ReplayRow`). The two cannot meet. Each part is about deliveries not in
  `pressed`, and an operator's worker is never about one of those. With fewer attempts than Frappe's three
  tries the retry job could poison a row whose redelivery is still to come.
- `AppliedForGood`, same assumption: a row that says success stays so, unless an
  operator has it replayed.
- `NothingPassed`, assuming no row of the pull fails: `WatermarkCovers`. The
  strengthening `PullInv` relates the page to the log: what is beyond the
  watermark and not on the page is later than all of the page.

`OutboundPushProofs`:

- `TypeCorrect`: rows and pushes refer to states of their own record.
- `FurtherNeedsDoubtHolds`, assuming the mapping's key finds the document
  (`KeyFound`): a record has one document, and one more at most for each lookup
  that was not answered. A POST is under way only while the lookups in doubt are
  as many as the documents (`PostsNew`), so a lost answer or a crash leads to no
  second document by itself: it takes a lookup without an answer after it.
- `NeverBack`: `[][remote' >= remote]`. `OrderInv` is an invariant of the log:
  rows are numbered in the order they were made (`BornInOrder`), later rows of a
  record hold later snapshots (`SnapsInOrder`), what a document shows was sent
  by a row past its gates (`ShownByRow`). A retry that is not superseded is thus
  not behind its document (`PushIsAhead`).
- `ImplementsMirror`, assuming `KeyFound`: `Spec => MirrorsRecords`. Initial
  states map to initial states; an edit maps to `Become`, a write that ERPNext
  took to `Update` or `Create`, an unanswered lookup to `Doubt`, every other step
  to a stutter. It rests on the other three, and on `LinkInv`: what is linked or
  was found is there.
- `NewestIsKept`, assuming no push is skipped as unchanged (`~SkipUnchanged`):
  `NothingForgotten`. `KeptInv` says that the push under way is of the newest row
  past the gates (`PushIsNewest`) and that such a row says it is settled only if
  the document shows it (`SettledShows`). With the skip, `outbound_skip_unchanged`
  shows how it fails.

`OrderDocumentsProofs`, assuming no link is lost (`~LostLinks`):

- `NothingIsMadeTwice` and `BooksStandInOrder`, while documents are made and
  while they are taken back, for any order of events, failures and restarts. The
  invariant has four parts beside the types. `Books`: every Sales Order and
  invoice that is not deleted is linked (`StandingIsLinked`), so a search
  by link finds it; a submitted entry is linked (`EntryIsLinked`), so a
  cancellation finds it. `InHand`: the document the holder of the lock works on.
  `Booking`: what is submitted before the next document is made. `Unwinding`: at
  each stage, what is still booked is on the list of what to cancel, unless
  ERPNext refused to take something back.
- `BooksAreKept`: `Spec => KeepsBooks`, the refinement of `SaleBooks`. Each action
  that ERPNext takes is one step of one paper, every other a stutter (`Kept`).
  The state invariants above do not give it, because a step of `SaleBooks` has a
  guard of its own: nothing may be made beside what stands or was cancelled, nor
  taken away from under what is booked. `SaleInv` adds that an entry stands alone
  and keeps its link when it is cancelled (`EntriesApart`), and what the holder of
  the lock has under its feet (`OnGround`): the invoice it is about to make is on
  an order that is linked, the one it takes back has been listed, and the order
  goes only when no invoice is live.
- `SaleLeavesItsTrace`: a push of a cancelled, paid order starts with the first
  document (`SoldFirst`), takes nothing back before both sales documents were
  submitted or found cancelled, and what it has seen cancelled stays so; so a
  verdict of success leaves a cancelled sale (`TraceInv`).
- `TypeOKHolds`: types, and events named by a push have happened.

`MoneyProofs`, of `WalletMirror`:

- `MirrorsLedgersHolds`: `WalletSpec => MirrorsLedgers`, for any number of faults
  and sweeps. A row's posting maps to `CarryFirst` of `TwoLedgers`, a handler's
  movement to `CarrySecond`, the rest to `Make` or a stutter. `InTurn` is why the
  order holds: a sweep works through consecutive rows, and the store's rows before
  the one in hand are all in ERPNext's ledger. `OwnIsNotApplied` is why nothing
  comes back.
- `LinksJoinWhatCarries`: a link names a row and a movement of which one carries
  the other. Links are written a step after the money moved, so `LinkInv` says of
  each sweep and handler what it is about to link; both ledgers only grow, and
  that keeps it true while others work.

`MoneyProofs`, of `Settlements`:

- `BookedInTurnHolds`: `SettlementInv` says that at most one paper of a kind
  stands of which none was `missed` (`OneStands`), that a payout was made over a
  submitted fee (`PayoutAfterFee`), and that where the clerk is about to make a
  paper none stands or one was missed (`AtTheDesk`), which stays true while he
  writes because the lock lets nobody else in. The fee's part needs no such
  proviso: a payout is not made without it, whatever a search did not show.
- `ClearsTheAccountHolds`: `ClearingInv` says whose figures stand. The row holds
  the last statement of the line unless it holds one that does not add up
  (`InLine`), what the clerk is about to submit has the figures of the statement
  at the head (`OnTheDesk`), and so a verdict of success is one about the
  statement in the row (`VerdictHolds`), but for one in `forsaken`: a restart
  took its booking out of line while the row said success of the statement
  before it (a finding). A verdict may also land on a statement that does not
  add up; the property speaks of those that do.

`ShopperProofs`:

- `FulfilledOnceHolds` and `ReversalIsToldHolds`, of `Deliveries`: every
  fulfilment is linked but the one its porter is about to link
  (`FulfilmentsAreKnown`), so a note makes one of an order only where it has made
  none (`MakesFirst`); an entry that read its note cancelled has complained of
  every fulfilment it has passed (`LooksAtAll`), and whoever runs after such an
  entry is done reads the note cancelled too (`Reversed`). The sum of what an
  order's notes fulfilled is a recursive function over the log. The lemmas
  `FulfilledIs`, `FulfilledSame` and `FulfilledGrows` say what it is, what leaves
  it alone and what a new entry adds, from the least index at which two running
  sums could differ.
- `LinksNameTheirOwn`: the link of a note and an order names the one fulfilment
  the note made of that order. A porter about to write it holds that fulfilment
  (`MakesTrueLinks`), and one that ships finds it by the link.
- `PaidIsInvoicedHolds`, of `CartRounding`, assuming carts with lines of which no
  promotion takes more than the line costs (`CartsAreSales`). The arithmetic
  first: what the store works out is what ERPNext makes of the document, rows of
  shipping and GST included (`EstimateIsInvoiced`). Then `CartInv`: a call that
  takes its turn (`alone`) works with the cart as it is, and after each of its
  steps the credit line is the one due or is gone (`AloneIsRight`); where it had
  the last word, the line is right and the collection in step
  (`SettledIsRight`).

`CustomerProofs`:

- `SecondHasReason`, of `Customers`: `MakesNoSecond` says that a push about to
  POST with its eyes open, searched and answered with no dead link behind it,
  finds no living Customer, however many pushes are under way.
- `RetiredStaysOffHolds`: a push of an Address that exists leaves it as
  `addressRemoved` left it, at every step (`NoneEnabled`).
- `OfferedIsIssuedHolds`, of `InvoiceCopies`: `WhoSaysWhat` says that whoever is
  about to write "submitted" has it from ERPNext, and that where handlers take
  turns nobody is left to write it once a cancel's webhook is through.

`OfficeProofs`, of the parts whose checked properties are liveness. What such a
property says of a state at rest is an invariant, and is proved; that rest is
reached stays with TLC, except where a measure shows it.

- `RestsInStep`, of `TwoWay`: with webhooks in order and one push at a time, the
  two sides are equal whenever nothing is under way. `StepInv` says that a push
  in hand carries what the store holds or an event is still to come
  (`PushIsOfNow`), and that sides which differ have a webhook, an event or a push
  to bring them together (`InStepAtRest`).
- `NothingBounces`, of `TwoWay`, in whatever order webhooks and pushes cross:
  every step leaves less `Work`, a natural number: ten for each edit to come, and
  a weight for each webhook, event and push on its way. So the steps come to an
  end, and it takes no fairness to say that an echo never echoes.
- `RestsAtItemsRate`, of `GstRates`, where refreshes take turns: at rest, and with
  the last Item readable, the product is charged at the Item's rate and shows it.
  `TaxerIsRight` follows a plan through the making, removing and adding of rules,
  which a restart may break off between any two.
- `LevelIsOwed`, of `StockLevels`: the level goes below nothing only by units
  handed over that no reservation held back. The proof corrected the module's
  types: an order submitted between a refresh's read of the Bin and its read of
  the Sales Orders is added back without having been taken off, so a level may
  exceed what is on hand by as many units as there are orders. The small instance
  has one order and one unit held back, which hides it.

`OfficeProofs`, of `BackOffice`. A behaviour of the office is one of each part
(`WalletGoesOn` to `TriggerGoesOn`: the other parts' steps leave a part's
variables alone), so what is proved of a part holds of the whole:

- `OfficeIsTyped`: `Spec => []TypesOK`, from a theorem or lemma on the types of
  each of the thirteen parts. Most needed more than the types: that what a link
  or a push names exists (`DocsAreKnown`, of `Customers`), that no more
  secrets were made than saves and runs can make (`SetupIsTyped`), that no
  direction writes a value it could not convert (`FieldIsTyped`).
- `OfficeKeepsItsWord` and `OfficeStepsWell`: the invariants and the action
  properties of the run `back_office`, each from the theorem about its part.
  `CopiesSettle` keeps its hypothesis (`NoMidnightIsLost`, below).

`OperatorProofs`, of `MappingGate`, `ErpnextSetup` and `FieldMapping`:

- `GateHolds`: the inductive invariant `GateInv`. Beside the types it says that
  a mapping that is there does something (`DoesSomething`), a leg that passed was
  tried (`LegWasTried`), what is signed was tried, or signed in place of what was
  (`SignedIsTried`), a save under way that switches on was allowed
  (`SaveIsAllowed`), and a fold writes the switch it read (`FoldIsAsRead`).
  Nothing in it says that what a tab holds is of the row as it is: anything may be
  written between a tab's read and its write.
- `LiveWasTriedHolds`: what goes live was rehearsed and passed, or was signed in
  place of what was (`mistaken`), or is switched on by a save or a fold that found
  the mapping running. Nothing else lets untried content live.
- `FlaggedIsOffHolds`: only a fold that found the mapping running switches a
  flagged mapping on with its flag. Otherwise it is off, so the drift check, which
  reads enabled mappings, never looks at it again (a finding).
- `OkMeansReadyHolds`: a webhook is left alone only if it reads right and the
  last report kept the fingerprint of what would be sent. A masked secret cannot
  be compared, so that this proves the secret right rests on `SecretsKept`: a
  webhook that is not `stale` carries the secret its fingerprint was taken of
  (`AsSent`), in the kept report and in the one being made. `NoneNewer` bounds the
  secrets by those made so far: a secret the button makes is one no webhook and
  no fingerprint has. Secrets put back are covered. What is `stale` is a webhook
  whose fingerprint was kept though the call failed, or which a run that died
  before its report had written.
- `CopiesSettleHolds`, of `FieldMapping`: `GoesAndComes` says of each pair of
  types that what one side holds becomes what the other can hold, and that what
  went out, came back and goes out again is what went out. It is proved pair by
  pair over what each conversion gives of the values it meets; for dates it needs
  that a wall-clock time the zone shows comes back through both passes of
  `zonedToUtc` (`WallComesBack`) and so does a midnight (`MidnightComesBack`).
  The second holds only if no change of the clocks skips a midnight that lies
  before it, as one in a zone west of Greenwich does, nor a whole day. That is
  the theorem's hypothesis (`NoMidnightIsLost`); without it the day goes back by
  one (a finding). `FieldInv` adds that a side a direction has gone to holds what
  it would write again (`PairRests`).

Each step of the inductive proofs is a lemma per group of actions, and `PTL`
closes the temporal step.

Only model-checked: every liveness property (the prover has neither fairness nor
`ENABLED` within reach), among them `OffSale`, `DeliveriesSettle`, `FollowsErpnext`,
`RowsSettle`, `ReachesErpnext`, `OverIsUnwound`, `PaidIsBooked`, `LedgersAgree`,
`SettlementIsBooked`, `EachUnitHeldOnce`, `PriceFollows`, `NotesShip`,
`IssuedIsOffered` and `ApprovedComeBack`, of which nothing is proved; `EndsInStep`
and `ChargedAtItemsRate`, whose states at rest are the theorems `RestsInStep` and
`RestsAtItemsRate`; and of the invariants `ReadsAsWritten` alone. What a
recursive definition computes for every input is out of reach of the library's
induction theorems here; where a running sum decides a property (`Fulfilled`,
`Total`) its facts come from the least index at which they could fail, and where
it is the parser and the grammar (`ReadsAsWritten`, with RECURSIVE operators)
they stay with TLC.

## 6. Not modelled

- Bulk pushes, secondary DocTypes of a mapping, child tables and nested paths:
  loops over what is modelled, or transforms of one record taken as values.
- The product policy, the record direction and the allowlist as gates of their
  own: each stops a push as the trigger does (the policy has a finding).
- Several mappings on one DocType, and the signature check of a webhook.
- Taxes and lines of an order, the choice of documents in Settings, the store's
  invoice row, payments without a Mode of Payment: they decide whether ERPNext
  takes a document, which is a refused call here. `allocateStoreInvoiceNumber`
  and `isUniqueViolation` have no caller in `src/`.
- Freezing a wallet, loans and the comparison of the ledgers: single calls and
  reports without state.
- Quantity tiers and validity dates of prices; making the inventory item.
- The primary Contact, several addresses, and what a Customer says.
- Carts that are never rounded, binary fractions, the legacy Banker's method;
  how ERPNext picks a tax template.
- The rest of Settings, discovery and autofill, and the one-off upgrade of old
  mappings: forms and proposals over single tables.
- The circuit breaker: nothing in the code records a failure with it, so the
  retry job always finds it closed.
- Pruning of the event log after 180 days, and the count of customers on either
  side.
- The admin page and its routes: screens over the service's methods.
