# Margix IMS: TLA+ models, model checking and proofs

Margix IMS keeps the stock of a trading company: goods are received against
purchase orders, moved between godowns, adjusted, dispatched against invoices,
returned by customers and to suppliers, and the posted documents are handed to
Tally Prime. Every change of stock is an entry of an append-only ledger; a
mistake is corrected by a reversing entry. The server (`src/src/server`) is
Next.js/TypeScript over Prisma, on PostgreSQL at READ COMMITTED: nothing is
serializable, so the correctness of the books rests on conditional UPDATEs, row
locks, the order in which they are taken, and counters that several services
increment and decrement. That is what this directory models.

Paths below are relative to the repository; `tla/PROJECT.json` maps each
definition to its source lines.

## 1. Inventory

| component | code (`src/src/...`) | state | operations | hard behaviours | what makes it correct |
|---|---|---|---|---|---|
| Inventory engine | `server/modules/inventory` | `inventory_ledger`, `stock_balance` | `postMovements`, `reverseLedgerEntries` | concurrent transactions on the same rows, several rows per document, a refusal halfway through | stock = last recorded balance; never negative; a document is posted wholly or not at all; only an import can deadlock on stock |
| Transactions and locks | `server/db` | row locks | `withTx` (retries, timeout), `lockOwningDocuments` | what a READ COMMITTED statement sees and waits for; deadlock victims | order: documents, entries, stock rows by key (an import: by key per opening); a victim runs again from nothing |
| Reversals | `server/modules/reversals` | – | `reverseEntry` and its handler per document type | two users reverse the same entry; the two legs of a transfer | an entry is reversed once; legs together; each handler keeps its document's counters |
| Alerts | `server/modules/alerts` | `reorder_rule`, `stock_alert` | `evaluateStockAlerts`, `saveReorderRule` | decided on a sum over rows other transactions are changing | the alert says what the stock says |
| Purchase orders, GRNs, supplier returns | `server/modules/{purchasing,returns}`, their pages | order, lines, `received_qty`, `returned_qty`, status | create, edit, submit, cancel, short-close, receive, return, reverse | long mixtures of partial receipts, returns, replacements and reversals | counters and status agree with the standing documents; never over-received; pages offer what the routes accept |
| Invoices, dispatches, customer returns | `server/modules/{invoices,dispatch,returns}`, their pages | invoice, `dispatched_qty`, `returned_qty`, status | create, cancel, dispatch, return, reverse | the same, with dispatches that belong to no invoice | counters and status; stock is never restored twice; pages and routes agree |
| Transfers, adjustments, openings, imports | `server/modules/{transfers,adjustments,opening,imports}` | document and status | post; request, approve, reject; reverse | maker and checker racing; stock gone at approval; masters changing between check and commit | stock is what standing documents moved; status follows the entries; one decision per request |
| Document numbers, idempotency | `server/modules/documents`, `server/http`, `hooks/use-api-mutation.ts`, `lib/api-client.ts` | `document_sequence`, `idempotency_key`, the form | `nextDocumentNumber`, `withIdempotency`, send again | lost answers, two requests with one key, retried transactions, deadlocks on batch and alert rows | one document per key; numbers without gaps in commit order; every request answered |
| Batches, FEFO, units | `server/modules/inventory/{batch.service,fefo,units}.ts` | batches, expiry dates | `resolveBatch`, `suggestFefoPick`, unit options | upserts that wait for each other; edges of expiry | a quoted date stands; the pick takes what expires first and nothing expired |
| Tally queue | `server/modules/tally` | `tally_sync_job` | enqueue, claim, push, record, retry | overlapping passes, crashes, lost answers, leases, back-off | a job has one owner; SYNCED means imported; no job is forgotten |
| Tally vouchers | `server/modules/tally/tally-voucher.ts` | – | build a voucher when it is sent | entries reversed between queueing and sending | documents and reversals add up in Tally to the stock |
| Live change feed | `server/realtime/change-feed.ts`, `app/api/v1/events`, `components/layout/live-updates.tsx` | one listening connection per process, its subscribers | subscribe, connect, reconnect, resync | screens opening and closing during awaits; lost connections | a screen misses no change for good; nothing runs for nobody |
| Master data | `server/modules/masters`, `features/masters` | SKUs, units, godowns, parties, categories | create, edit, archive, deactivate | check-then-act against postings; two editors at once | masters in use stay; the audit record shows the stored row |
| Users, sign-in, audit | `server/auth`, `server/modules/{users,audit}` | users, sessions, lockouts, audit records | sign in and out, reset and change passwords, demote, deactivate | a crash between an edit and the sign-out it implies; a login overlapping it; sliding expiry | nobody is admitted with a right he has lost; sessions slide within their lifetime |
| Queries, reports, dashboard | `server/modules/{reports,dashboard}`, `*.queries.ts` | – | stock summary, movements, aging, pickers, figures | several computations of one quantity | they agree with each other and with the stock |
| HTTP layer, permissions | `server/http`, `lib/permissions.ts` | – | admission, error codes, envelopes | the order of checks | see Requests and the Pages modules |
| Screens | `features`, `app` | what forms and dialogs hold | edit, load, pick, submit, close, open again | answers that arrive after the user has moved on | a row keeps choices that fit it; a dialog shows nothing of an earlier use |

How they interact: a form sends its content with an idempotency key; the route
admits it and calls a service, which runs in one `withTx`, locks its documents
(order before receipt, invoice before dispatch), takes a number and resolves
batches, and calls the inventory engine, which locks ledger entries and then stock
rows in key order and evaluates the alerts before it returns; the service then
updates counters and statuses and inserts the Tally job and the audit record in
the same transaction. At COMMIT the change feed notifies every server process and
screens render again from their own queries. The Tally worker runs outside those
transactions, from a timer and on request. Reversal is dispatched by
`reversals.service.ts` on the type of the entry's reference document, to the
`on...EntryReversed` handler of its service.

## 2. Modules

| module | models | run(s) |
|---|---|---|
| `ReadCommitted` | PostgreSQL rows: committed value, value of the holder, holder. External: modelled from how the services rely on it | with `StockPosting`, `Requests` |
| `StockLedger` | the abstract promise of the engine: whole documents and whole reversals (both legs of one transfer item) appended to a history whose sum is the stock on hand | `StockPosting` (refinement) |
| `StockPosting` | `postMovements`, `reverseLedgerEntries`, alerts and reorder rules, statement by statement | `StockPosting`, `StockAlerts` |
| `ExactlyOnce` | the abstract promise of a create form: one document, and no confirmation without it | `Requests` (refinement) |
| `Requests` | the form, the route, `withIdempotency`, `withTx` and the posting transaction of receipts and openings, lock by lock | `Requests` |
| `Documents` | `derivePostedDocStatus` and the sums over document lines | with the next ones |
| `Purchasing`, `PurchasingPages` | one purchase order, its receipts and supplier returns; what the pages offer and the routes accept | `Purchasing` |
| `Sales`, `SalesPages` | one invoice, dispatches with and without it, customer returns; their pages | `Sales` |
| `Warehouse`, `WarehousePages` | openings, imports, transfers, adjustments, reversals, the masters they check, reports, FEFO, vouchers; dashboard and stock pages | `Warehouse` |
| `Permissions` | `lib/permissions.ts` | with the Pages modules |
| `Administration` | users, sessions, sign-in, masters and their audit trail | `Administration` |
| `Forms`, `Dialogs`, `Screens` | document forms; dialogs; a browser tab that composes the two | `Forms` |
| `TallySync` | the Tally queue | `TallySync`, `TallySlowPass` |
| `ChangeFeed` | the change feed of one process | `ChangeFeed`, `FeedLeftBehind` |
| `...Proofs` | theorems about `StockPosting`, `Purchasing`, `Sales`, `Requests`, `Administration`; `WarehouseProofs` about `Warehouse`, `WarehousePages` and `TallySync`; `ScreensProofs` about `Forms`, `Dialogs`, `Screens` and `ChangeFeed` | – |
| `SumTheorems` | lemmas about sums over finite sets, tables and chosen lines, about counting and smallest counterexamples | – |
| `MC...` | constants for TLC | – |

A definition whose comment begins "Mutant of" is a plausible bug: substituted
for the definition it names, it must break the property `PROJECT.json` pairs it
with. Nothing else uses it.

How the modules divide the work. Locks and statements are modelled once, where
they matter: `StockPosting` shows that the engine's transactions are atomic steps
of a ledger, `Requests` that the documents around it are numbered, dated, counted
and posted exactly once although their transactions interleave lock by lock. The
document modules (`Purchasing`, `Sales`, `Warehouse`) then take a posting as one
step and ask about sequences of postings.

### StockPosting

A session is a database session with one transaction at a time; `pc` is the next
statement. `BeginPosting` and `BeginReversal` stand for everything before the
engine is called. What a transaction posts is a document or, for
`importOpeningStock`, the opening balances of a file: `Call` says which call of
`postMovements` each line is part of, the lines of a call are inserted in key order,
and its alerts are evaluated before the next call begins. `LockEntry` and `LoadReversible` for `loadReversible` (`SELECT
... FOR UPDATE`, then the check), `InsertEntry` for one turn of the loop of
`postMovements` (sign check, conditional stock update, insert), `ReadRule`,
`ReadStock`, `RaiseAlert`, `ResolveAlert` for `evaluateStockAlerts`, `Commit`,
`RefuseReversal`, `RefuseMovement` and `Abort` for the ends of `withTx`. `Abort`
may happen at any statement: it is a lost connection, a timeout, a restart or
the victim of a deadlock, and since the document is then free again it covers
the retries of `withTx`. The stock update and the insert it explains are one step:
both touch only what the stock row lock protects.

Abstractions. A document is posted at most once and never by two sessions at a
time (its own row lock, or its being new); what its service changes besides the
stock is in `Purchasing` and `Sales`. The lock of the number sequence is left out,
so the model lets documents of one series overlap more than the code does: the
invariants hold all the more, and the alert run uses a receipt and an opening
balance, which are numbered from different series. Alert rows carry only
whether an ACTIVE alert exists, not its quantities.

### Purchasing and Sales

Every transaction on an order begins by locking its `purchase_order` row (or
with a conditional UPDATE of it), and one on an invoice or dispatch by locking
those, before reading anything it depends on; so a transaction is one step, and
the hard part is not the interleaving but the sequences. The operations are the
services' functions; the reversals are `reverseEntry` with the handler of the
document. Stock is part of both, because reversing a receipt or a customer
return may fail for want of it; other documents move it (`MoveStock` to any
quantity up to `MaxStock`, `MoveGoods` between godowns). `Purchasing` keeps the
stock of the godown that receives. A return may name another one (`away`) and
then leaves that stock alone; what there is elsewhere other documents decide, so
that a return from there, or its refusal, may come at any moment. The refusals
of the schemas that matter to the counters (a line or a batch number named
twice, more accepted than received) are guards, and the inputs include refused
ones; only a quantity of zero is an assumption on the inputs.

The Pages modules define, for the same state, what each page computes from its own
queries (the buttons, the offered quantities) and what the route behind it
accepts; one invariant compares the two for every role and quantity.

### Requests

`Send`, `LoseConnection` and `Deliver` are the form's side (`useApiMutation`,
`apiRequest`): the key stays the same while the form is open, the button is
disabled only while a request is pending, an answer may be lost at any moment and
the server does not notice. `Refuse` is what `apiRoute` answers before the service
is called, in the order of its checks. `Find` and `FindWinner` are the two reads of
`withIdempotency`; `LockOrder`, `TakeNumber`, `InsertDocument`, `ResolveBatch`,
`WriteAlert` and `Commit` are the statements of a receipt (in this order) or of an
opening balance (batches first); `Victim` is a deadlock found by PostgreSQL, after
which `withTx` starts again up to MAX_ATTEMPTS times; `TimeOut` may end a transaction
at any statement. Abstractions: the number is taken from one row per series (the
code has one per series and financial year); an order has one line; stock rows
are left to `StockPosting`, since a receipt and an opening lock them last and in key
order and so do not deadlock over them. A CSV import of several openings can
(`NoDeadlockOnStock` names the case); a receipt that is rolled back and started
again for that reason is not in this model, and does what the victim of any other
deadlock does.

### Warehouse

A document is loaded (the checks of masters), then posted in one step: the lines
move stock in input order or not at all. Adjustments are submitted, then approved
or rejected by somebody else, who posts them against the stock of that moment.
Edits of masters are likewise checked first (`CheckSku`, `CheckGodown`) and saved later.
An import posts the openings of its file, each loaded inside its transaction, together.
Every line posted leaves an entry with its instant; `StockSummary`, `MovementReport`,
`StockAging`, `SuggestFefoPick` and `StockInTally` are functions of those entries,
translated from the queries. Three of them read the clock differently, and the model
keeps the difference: reports and picks go by the calendar day in India (`DayOf`,
`istDayStart`), the horizon of the dashboard by the date in UTC (`UtcDayOf`), and stock
aging by multiples of 24 hours back from this instant. So what moved yesterday evening is
absent from today's movement report and not slow in the morning; `ReportsAgree` states
what does hold between the two. The list of expiring batches is cut after
`BatchesShown` of them; which of several batches of one date it shows the query leaves
open, and the property is about every such list (`ExpiringLists`). In the invariants a quantifier over a one-element set
(`\A ledger \in {Entries}`) names a value so that TLC computes it once per state.

### Administration

A request reads, then writes in a later step; the write, its audit record and the
commit are one step, because the update holds the row until the commit; what
follows a commit (signing a demoted user out) is a step of its own, which `Crash`
may prevent. Every kind of record has its own action (`SaveUser`, `SaveSku`, ...) over
the common `Save`. Time counts moments up to `LastMoment`; `Idle`, `Absolute`, `Lockout`
and `MaxFailed` are the code's limits in those moments. Names stand for everything
no rule looks at. Password hashes are left out: whether a password is right is
chosen when it is verified.

### Forms, Dialogs and Screens

React handlers run to completion; an answer arrives any number of clicks after it
was asked for, and finds the state of that moment, while a closure may still hold
the state of its own. `Forms` has the three kinds of line editors (a batch of the
form's godown, a unit of the SKU, a line of another document); `Dialogs` has one
action per way a dialog treats opening, closing, errors and success, and each of
the twenty dialogs says which it uses. `Screens` is a tab: a document form that gives
way to the page of its document, or a page with a dialog.

### TallySync

`Claim` is `claimDueJobs`: one UPDATE over rows chosen FOR UPDATE SKIP LOCKED, so
one step. A pass then pushes its jobs in any order (RETURNING promises none),
outside any transaction; Tally may import a voucher and the answer be lost;
`RecordAttempt` updates by id whatever the job has become, as the code does.
`Crash` is the process dying or the recording failing. Time is abstracted to
"due" and "lapsed": a back-off passes at any later moment, whatever its length.
`PassOutlivesLease` says whether a two-minute lease may run out under a pass that
still works. `tally_sync_log` and the building of vouchers are left out (a
missing mapping is one of the reasons of `PushFailed`).

### ChangeFeed

Node runs one callback at a time, so a step is the code between two awaits;
`connecting` says which await `connect()` is in. `missedFirst` and `missedLater` are
history variables: screens that missed a change before and after they were first
on a working feed. A change committed while LISTEN is under way counts as missed.

## 3. Runs

Passing runs:

* **StockPosting** (561,780 states; 2 sessions, 3 stock keys, a CSV file of two
  openings, a transfer and one back, two rule changes). `RunningBalance`: no drift.
  `ReversedOnce`: concurrent reversals leave one exact mirror.
  `NoDeadlockOnStock`: every circle of waits over entries and stock rows passes
  through an import that has posted one opening and goes on with the next.
  `AlertsFollowStock`: with one batch in the pair and a rule nobody changes the alert
  is right in every state. `ImplementsStockLedger`: the committed tables change only
  by what one transaction posts or by a whole reversal, and stock stays
  non-negative. The two transfers touch the same two rows in opposite input order
  and compete for stock, a transfer has its legs in two pairs, the file names the
  godown of the last key first, and reversals run against all of them. Without its
  exception for imports `NoDeadlockOnStock` does not hold: the import has posted
  into the godown of key 3 and wants key 1, which the transfer holds that wants
  key 3. PostgreSQL then makes one of them a victim and `withTx` runs it again, so
  nothing is lost; the comment above `postMovements` ("Stock rows are locked in a
  deterministic key order to prevent deadlocks") is true of each call of it only.
* **Requests** (256,541 states; 3 forms, one of them sent twice, 2 sessions, 4
  batches in 2 pairs, an order that two receipts would over-receive). The inputs
  name batches and pairs in opposite orders and with conflicting dates, so that
  transactions deadlock on batch, alert and number rows and fail business checks.
  `NumbersFollowCommits`, `QuotedDatesStand`, `OrderFollowsReceipts`,
  `ImplementsExactlyOnce`, and under fairness `EveryRequestIsAnswered`. Two sessions
  cannot use up three attempts; the case of exhausted attempts is covered by
  `TimeOut`, which leads to the same place, and by the proofs.
* **Purchasing** (2 order lines, 3 batches, 3 receipts, 2 supplier returns; the
  returns and receipts are interchangeable). `CountersMatchDocuments`,
  `NeverOverReceived`, `StatusFollowsReceipts`, `DocumentStatusFollowsEntries`,
  `ClosedOrdersStayClosed`, `PagesOfferWhatRoutesAccept`. The inputs include one
  order line in two batches, a rejected line, a receipt rejected altogether, a
  return from another godown, and inputs the schema refuses; three receipts and two returns allow receive, return,
  replace, reverse the return.
* **Sales** (2 SKUs, 3 batches, 2 godowns, 3 dispatches, 2 returns).
  `CountersMatchDocuments`, `NeverOverDispatched`, `NeverRestoredTwice`,
  `StatusFollowsDispatches`, `PagesOfferWhatRoutesAccept`, over partial dispatches,
  dispatches without the invoice, returns into another godown and transfers in
  between.
* **Warehouse** (53,703 states; 1 SKU with two batches that expire on different
  days and the default batch, 2 godowns of which one is synced to Tally, 2
  users, 2 openings that one import may post together, once the SKU is not
  tracked by batch, a transfer, an adjustment, one edit of a master, 3 moments).
  The moments are six hours before and at a midnight in India, and 24 hours
  after it: of their pairs one is in different days and less than 24 hours
  apart, one exactly 24 hours, and one has a whole day between. The list of
  expiring batches holds one and the ledger of a SKU's page two, so that both
  overflow. `StockIsExplained`, `DocumentsFollowEntries`, `TallyAddsUp`,
  `ReportsAgree`, `FefoIsSound`, `ScreensAgree`. Edits of masters are bounded at
  one: it may already fall between the check and the posting of any document.
* **Administration** (3 accounts of which one is not created yet, 2 sessions, 2
  browsers, one record of each master or two, 4 moments, 3 requests). Idle timeout 3
  and lifetime 4 let a session be extended, expire and reach its end; 3 failures
  lock an account for one moment; three requests are what it takes to admit, demote
  and save. `AuditTellsTheState`, `SessionsSlide`, `AdmissionIsCurrent`.
* **Forms** (eight document forms, twenty dialogs; 2 lines, 2 SKUs, 2 godowns, 2 row
  keys, 2 requests per page). `ChoicesBelong`, `AcceptedFollows`,
  `DialogsTellTheTruth`. Two lines and two keys are enough for a line to be removed
  and another added while an answer for the first is on its way.
* **TallySync** (32,375 states; 2 jobs, 2 passes, 1 job per pass, 2 attempts, 2
  crashes, 1 manual retry). `ClaimsAreExclusive`, `SyncedIsInTally`,
  `SyncedIsFinal`, and under fairness `QueuedJobsSettle`: every queued job is SYNCED
  or has used up its attempts. With more jobs than a pass claims, the run also
  asks whether old failing jobs starve newer ones.
* **ChangeFeed** (5,653 states; 3 screens, 2 failed attempts, 2 losses).
  `IdleWhenUnwatched`, `ResyncAfterLoss`, and under fairness `LostFeedComesBack`.

Runs that show the code doing something other than its comments say (the
properties quote the comment; the findings in `PROJECT.json` give the lines):

* **StockAlerts**: `AlertsNeverDisagree`. Two transactions that change different
  batches of one SKU in one godown share no row; each sums without the other's
  uncommitted change, and both decide on a stock that neither leaves behind.
  The alert then stays wrong until the pair moves again.
* **TallySlowPass**: `RunsPushApart`. A pass claims its whole batch (20 jobs, 100
  from the timer) for two minutes and pushes one by one with up to 15 s each; the
  leases of the later jobs run out and the next pass pushes them too.
* **FeedLeftBehind**: `SubscribersGetAFeed`. A screen that opens while `connect()`
  closes a connection nobody wanted shares the promise of an attempt that is being
  given up, and stays without a feed until another screen opens. This is checked
  with fairness; no failure or loss is needed.

Bounds. Each run names its own in its `.cfg` and MC module. Two sessions are
enough for the pairwise hazards of the engine (two writers, two reversals, two
lock orders); the theorems below hold for any number. `MaxStock`, `MaxCrashes`,
`MaxRetries`, `MaxFailures` and `MaxLosses` bound what the environment does; each
is at least one more than what the violating runs need. `MaxSent`, `MaxRequests` and
`MaxEdits` bound how often users act. Symmetry is used for sessions, browsers,
users of one role and documents of one kind, only where no liveness is checked.
`CHECK_DEADLOCK FALSE` stands where the system really stops: all documents posted
and reversed, all jobs settled, users at their bound. The change feed never stops,
and deadlock is checked there. The type invariants are not among the properties of
the runs: they are proved (`TypeCorrect` of each component, `TabTypeCorrect`,
`FeedTypeCorrect`, `TallyTypeCorrect`).

Fairness. `Requests`: the server goes on with what it has begun (weak fairness of
each session's next statement; a wait ends because its blocker goes on or one of
the two is a victim); no one has to send, and no connection or timeout has to
break. `TallySync`: the systemd timer starts a pass every two minutes, so *some*
pass claims when there is something to claim (one weak fairness for all passes,
none for each); TALLY_TIMEOUT_MS ends a push; a pass goes on with its next job and
records each; time passes. No one has to post, retry or crash. `ChangeFeed`: an
attempt succeeds or fails, `end()` returns, a timer fires. No one has to open or
close a page. Failures and losses are finitely many, as they must be for any
reconnection to succeed.

## 4. Proofs

TLAPS proves these for every value of the constants. The assumptions are
`PostingAssumption` and `NoSessionIsNotASession`, `RequestsAssumption`,
`PurchasingAssumption`, `SalesAssumption`, `AdministrationAssumption` and
`NoUserAssumption`, `WarehouseAssumption`, `PagesAssumption`, `FormsAssumption`,
`DialogsAssumption`, `TallyAssumption`, and `FeedAssumption`: the types of the
inputs, and that an order has a line, a document has a line (the `.min(1)` of
the schemas in `lib/validation`), a supplier return is from one godown,
something is on each invoice, the two lines of a transfer item are in different
godowns (the refinement in `lib/validation/transfers.ts`), the quantities of
openings and transfers are positive and those of adjustments not zero, a CSV
file is a finite set of opening balances, masters are finitely many, and a day
begins in India earlier than in UTC, by less than a day. `ScreensAgreeHolds`
alone assumes two users: with a single one no request for an adjustment can ever
be reviewed, and the property compares what the page offers with what somebody
may do. All invariants and action properties the passing runs check are
theorems, but for the liveness properties.

* `StockPostingProofs`: `TypeCorrect`, `RunningBalanceHolds`, `ReversedOnceHolds`,
  `NoDeadlockHolds`, `AlertsFollowHolds`, `LedgerImplemented`. The inductive
  invariants, each built on the ones before:
  * `Shape`: types; the entries a session still has to load are committed; only
    the holder of a stock row has uncommitted entries of its key. The last part is
    what makes `ledger[k]` with a committed prefix a faithful picture of a table.
  * `AllBalanced`: the balance chain for *all* entries, not only the committed
    ones, and the uncommitted value of a held row is the last of them. Without the
    open tail, COMMIT could publish anything.
  * `Reversals`: a planned counter-movement mirrors a committed entry, which no
    longer changes, and the same holds along the whole ledger of a key, the open
    tail included. It is needed because the check and the insert are two
    statements: what closes the gap is that the insert looks again, at a ledger
    that is complete for the holder of the stock row (`NotYetReversed`).
  * `AllOrdered`: a session that waits for an entry holds no stock row
    (`EntriesBeforeStock`), loads the outgoing leg first (`OutLegFirst`), and holds
    only stock rows at or below the one it wants (`StockInKeyOrder`), unless it is an
    import on a later opening (`PostsAnother`). So of any circle without such an
    import some session waits for a stock row (`SomeoneMoves`), then so do all that
    follow it, each for a later row than the one before (`WaitsUpwards`); the one
    that wants the last row (`Largest`) waits for nobody.
  * `AllFollow`: for a pair with one stock row and a rule at rest, the holder of that
    row is still in the call that moves it, or has the pair to evaluate, or has
    written the alert that its uncommitted stock calls for;
    what it has read of the rule and the stock in between is still true.
  * `Faithful`: what a transaction is about to publish is one abstract step. At any
    time a session works on one document, one entry, or the two legs of one transfer
    (`Task`); the open tail of a key it holds records, in input order, the movements
    it has inserted and nothing else (`OpenTail`); documents are not shared between
    sessions (`Exclusive`), so nothing is posted twice (`FreshAt`); and a committed
    entry is a line of its document and the only entry of that line (`Registered`),
    which is why the other leg found before the locks is still *the* other leg.

  `LedgerImplemented` is the step simulation these serve: COMMIT of a posting maps to
  `Post`, COMMIT of a reversal to `Reverse`, and every other step to a stutter. That
  stock on hand is the sum of the history is the induction over the ledger that
  `AllBalanced` allows (`RunningTotal`); that the transaction inserted in key order and
  the document lists in input order is bridged by rank (`NthIs`): the n-th entry of the
  tail of a key is the n-th line of the document for that key.
* `PurchasingProofs`: `TypeCorrect`, `CountersHold`, `NeverOverReceivedHolds`,
  `StatusHolds`, `DocumentStatusHolds`, `ClosedOrdersHold`, `PagesHold`, for any
  number of lines, batches, receipts, returns and inputs. The inductive invariant
  `IInv` has, besides types:
  * `Shape`: a document without a number has no lines, lines are finitely many, a
    return is of receipt lines that exist, a rejected line is never reversed.
  * `CountersMatchDocuments`: counters are the sums over the standing lines. It is the
    property and inductive by itself once it is known what each operation does to
    the standing lines.
  * `Bounds`: the upper limits of the counters. They do not follow from the sums: what
    keeps them is what the services check before they increment, and that a line
    with returns cannot be reversed. The lower limits (`NeverOverReceived` has both) do
    follow: a line's counter is a sum of quantities, and an order line's is what its
    receipt lines still hold.
  * `StatusDerived` and `StatusOfCounters`: the stored statuses, of documents in terms of
    their lines and of the order in terms of its counters; the status over documents
    (`StatusFollowsReceipts`) is this composed with the sums.
  `PagesHold` needs also `Placed` (an order that exists has ordered quantities).
* `SalesProofs`: `TypeCorrect`, `CountersHold`, `NeverOverDispatchedHolds`,
  `NeverRestoredTwiceHolds`, `StockExplainedHolds`, `StatusHolds`, `PagesHold`. The
  same shape, with `StockExplained` in `IInv`: what is in the godowns of a batch and
  what customers hold of it is what there was. Goods that come back twice would
  violate it, so `NeverRestoredTwice` follows from it and `Bounds`; alone it is not
  inductive, because it does not say where the goods are. `AllUndone` (a REVERSED
  dispatch has no standing line) is what the pages need.
* `SumTheorems`: the sum of a function over a finite set, for the quantities here:
  adding or taking out an index, disjoint unions, monotonicity, collecting by a key,
  renaming. The library's induction rules take an operator as a parameter, which
  these provers cannot instantiate; instead each fact is shown by a *smallest
  counterexample*: strict inclusion of finite sets is well-founded
  (`SmallestSubset`), so a set of subsets at which the fact fails has a smallest
  member, and taking one index out of that one is a contradiction.
* `RequestsProofs`: `TypeCorrect`, `ExactlyOnceHolds`, `NumbersHold`,
  `QuotedDatesHold`, `OrdersHold`, for any number of forms, sessions, batches and
  attempts. First every step is reduced to what it does to numbers, keys, dates and
  documents (`StepShapes`); the invariants are then shown for those eight shapes:
  * `Typed`: types, and `Served`: the line a transaction is at exists.
  * `Held`: a row of a series, key or order is held only by a transaction past the
    statement that takes it, and batch rows only by transactions.
  * `Keys`: a transaction that has inserted its document holds its key, which is not
    committed; a key is committed exactly if its document is. The unique index and
    its row lock together make a form post once.
  * `Screens`: a form waits for one request at most, and shows success only for a
    posted document. With `Keys` this is the simulation of `ExactlyOnce`.
  * `Numbers`: the number of a transaction is the committed one plus one, for as long
    as it holds the row; the committed one counts the documents of the series.
  * `Dates`: a batch with a committed date keeps it under any uncommitted write, and
    the lines a transaction has passed will commit the dates they quoted.
  * `Orders`: a receipt that has locked its order and found room for its quantity
    still holds it, unchanged, when it commits (`Promised`); so the committed counter is
    the sum of the committed receipts.
* `WarehouseProofs`: `TypeCorrect`, `StockIsExplainedHolds`,
  `DocumentsFollowEntriesHolds`, `TallyAddsUpHolds`, `ReportsAgreeHolds`,
  `FefoIsSoundHolds`, `ScreensAgreeHolds`, for any masters, documents, inputs, moments,
  length and offset of days, lengths of lists and synced godowns. The inductive
  invariant `IInv` has, besides types:
  * `Shapes`: which statuses go with which kind of document and with which of its
    lines reversed, who reviewed it, and that the times of its entries are past or
    present. `DocumentsFollowEntries` is read off it: the property alone does not say
    that a document without a status has no lines, nor that POSTED excludes a
    reversed line, which is what the next reversal starts from.
  * `Accounted`: a stock row is the sum over all documents of what their standing lines
    bring it. For this to be a sum at all, `Summable`: only finitely many lines lie
    in documents, which is inductive because one step posts finitely many.
  The step of a posting is the equation between two ways to count: the engine adds
  the movements of a document's legs one stock row at a time, the invariant adds its
  lines; collecting by key makes them one (`Moves`, `Moved`). The rest follows from
  `IInv` in each state: `StockIsExplained` adds the entries of standing and reversed
  lines, of which the latter cancel; the reports regroup the same entries, by day,
  by age and by godown (that n days later is n times 24 hours later, and the order of
  days, are `DaysAre`); FEFO takes from rows that are what the summary shows; the
  vouchers carry the entries of the synced godowns. The pages need also that the
  documents begun are finitely many (`FewDocuments`), since they count them.
  For `TallySync`: `ClaimsAreExclusiveHolds`, `SyncedIsFinalHolds`,
  `SyncedIsInTallyHolds`, `TallyTypeCorrect`, from `Leased` (a claimed job is IN_PROGRESS under a running
  lease and nobody else's, as long as passes are shorter than leases) and
  `Answered` (a pass that holds the answer ok has had its voucher imported). The
  last does not need short passes. `TallyTypeCorrect` includes that a pass holds no
  more jobs than it may claim (`Limit`); `QueueRanked` (no two jobs of the queue have
  the same `created_at`) is why those with fewer than `Limit` older ones are at most
  that many.
* `ScreensProofs`: `TabTypeCorrect`, `ChoicesBelongHolds`, `AcceptedFollowsHolds`,
  `DialogsTellTheTruthHolds`, for any masters, rows, choices, texts and numbers of
  lines, keys and requests.
  * `FormInv`: a row's choices fit the form's kind, godown and invoice (`RowsFit`), unless
    a pick was overtaken; a pick on its way was asked for rows of which one has its
    SKU (`PickFits`). The rows a pick answers are put together by `FlattenSeq` from the
    rows it was asked for and the batches it found in the godown it was asked for;
    if neither godown nor rows changed meanwhile, they fit. `Kept` does the same for
    the rows that stay when an invoice is chosen. `AcceptedFollows` is inductive with them.
  * `DialogInv`: what is never closed is open (`Mounting`); a request that is out came
    after those answered before the dialog was opened, and one that was carried out is
    on record (`Sending`); what the message, the error and the success are of
    (`Telling`). `DialogsTellTheTruth` is the last part; it is not inductive without
    `Sending`, since an answer may arrive in a dialog opened after its request. About
    the twenty components it needs three facts only, each read off their records
    (`WellMade`): opening forgets the last error, what is inline does not close, and
    every refusal is beside a field or told.
  For `ChangeFeed`: `FeedTypeCorrect`, `IdleWhenUnwatchedHolds`,
  `ResyncAfterLossHolds`, from `Remembered`: while a screen that was once served has
  no connection, the loss is remembered, so the next connection resyncs.
* `AdministrationProofs`: `TypeCorrect`, `AuditHolds`, `SessionsSlideHolds`,
  `AdmissionHolds`, for any accounts, sessions, browsers, masters and timeouts. They
  rest on `Typed`; the audit invariant is inductive once every write is reduced to
  `Save`, `Create` or an import; sessions change only by being opened, validated or
  deleted (`SessionSteps`); admission is decided in the step that reads the session.

Only model-checked: liveness (`EveryRequestIsAnswered`, `QueuedJobsSettle`,
`LostFeedComesBack`), which is out of this prover's reach, and of course what the
three violating runs show. Recursion is written with recursive functions and
folds; the provers have no induction rule to apply to them, so what the proofs
need of one (`FlattenSeq`, `Kept`, sums and counts) is shown for a smallest
counterexample (`SmallestSubset`, `LeastOf`).

## 5. Not modelled

Not modelled at all: backups, deployment, database grants, printing, CSV and XML
text, number and date formats, URL filters and text searches, layout and
navigation, the pages that list audit records. The parsing of an import and the
validation of its rows are left out; that it posts all or nothing is in
`Warehouse` and `Administration`. Conversions between units are left out, because
every quantity behind the forms is in base units. The pages of the stock list are left
out: its order (`stock.queries.ts:90`) leaves batches of one date tied, so no property of
what the pages show together could be stated of the query alone. The limit of rows of
the reports is left out, too. `tally_sync_log`, the wording of
mapping errors and the names in vouchers are left out.

Behaviour the models contain and no property excludes, because the code promises
nothing else:

* Archiving a SKU or deactivating a godown checks the stock without a lock that
  postings take, so that a posting, an approval or a reversal may bring stock into
  an archived SKU or an inactive godown (`Warehouse`).
* Two administrators who demote each other at the same moment both succeed
  (`Administration`).
* A supplier return of a cancelled order can be reversed and leaves the order with
  net receipts (`Purchasing`); the link to a supplier return is shown for receipts
  none of whose lines can be returned any more.
* A repeated submission that loses the race to its twin may be answered with a
  business error (nothing pending) although its document exists; sent again, it is
  answered with the document (`Requests`).
* A Tally job whose lease ran out is claimed again however many attempts it has had
  (`TallySync`). The reversal of a transfer is sent for one godown when only that
  one is synced (`Warehouse`).
* A change committed between the opening of a first stream and LISTEN is announced
  to nobody, and there is no resync after a first connection (`ChangeFeed`).
* INACTIVE SKUs are accepted by the services and offered by no form; the figure of
  open orders on the dashboard counts PARTIALLY_RECEIVED ones, too, but links to the
  list of OPEN ones; the dialog for a new reorder rule overwrites an existing one.
* On the screens (`Forms`, `Dialogs`): an accepted quantity typed equal to the
  received one is overwritten by the next correction; a pick that is answered late
  puts back the rows it was asked for; field errors keep the index of the submitted
  row when rows are removed; a late success closes, and a late error shows in, a
  dialog that was re-opened meanwhile; an edit dialog that is out of date overwrites
  all the fields it shows; clearing a user's mobile number has no effect, since an
  empty optional text is not sent.

## 6. Plan

Done: the engine with its abstract ledger, the Tally queue, purchasing, sales, the
change feed; create requests with their abstract promise; the documents that move
stock without an order, with masters, reports, pages and vouchers; administration;
forms and dialogs; and the proofs above. What would add most next:

1. Unit conversion (`units.ts`) as a pure operator against a reference definition.
2. The change feed's refreshes of a page on which a form or dialog is open, as a
   composition of `ChangeFeed` and `Screens`.
3. The `Warehouse` steps as an implementation of `StockLedger`, which would tie its
   documents to the engine's promise by refinement and not by the shared reading
   of the engine alone.
