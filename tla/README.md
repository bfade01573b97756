# Formal models of Cacao Accounting

TLA+ specifications of the parts of Cacao Accounting whose correctness depends on
the order in which requests, transactions and users act: the audit hash chain, the
posting life cycle of a document, the accounts receivable / payable subledger, the
approval engine, the monthly and yearly close, recurring journals, the stock ledger,
bank reconciliation and the fulfilment of sales orders. Each is model-checked with TLC;
the safety properties of all of them are proved with TLAPS for any number of
sessions, documents and requests. Source paths below are relative to `cacao_accounting/`.

## The system

Cacao Accounting is a Flask application over SQLAlchemy. One process serves requests
from several threads, several processes may share a database, and a background
thread runs long imports. Every request works in one database transaction on
SQLite, PostgreSQL, MySQL or MariaDB, at the database's default isolation level;
services take row locks (`with_for_update`) and savepoints (`begin_nested`), and
the session keeps an identity map of what it loaded. Services interact through the
database and the session: a route loads a document, asks the approval engine, calls
the posting service, which calls the subledger and the reconciliation policy, and
the session's flush hooks chain the audit rows of everything that changed.

The model of a part is named in the table of modules; a part that is not in that
table is not modelled.

| Component | State it keeps | Operations | What is hard | What makes it correct |
|---|---|---|---|---|
| Audit hash chain (`audit_chain.py`, hooks in `internal_control_service.py`) | `audit_trail` rows with `prev_hash`, a cached tail per connection, an advisory lock | chain a flush, stamp a Core INSERT, verify | concurrent writers, savepoints, a cache that outlives its transaction | one chain, one head, a verifier that is neither silent nor wrong |
| Posting (`contabilidad/posting_service.py`, `cancellation_service.py`) | `docstatus`, `gl_entry`, `document_transition` | submit, cancel | stale loaded status, isolation levels, crash between write and commit | posted once, reversed once, status and ledger agree |
| AR/AP subledger (`contabilidad/arap_ledger_service.py`, `document_flow/payment.py`, `bancos/services.py`, `contabilidad/arap_gl_reconciliation.py`) | `ar_ap_ledger_entry`, `ar_ap_open_item`, `payment_reference`, `document_relation` | approve, apply (draft, reconciliation screen, advance), cancel, reconcile | three paths that spend one balance, cancellations in any order, a derived cache | balances follow from the references, nothing overspent, subledger equals control account |
| Approval engine (`approval_engine.py`, `approval_policy.py`) | `approval_request`, `approval_action`, snapshots in the audit trail | request, approve, reject, request and execute a cancellation | edits and decisions that race, stale pages, separation of duties | what is posted was approved, by somebody else, once |
| Internal control guards (`internal_control_service.py`) | sets of posted documents per session | refuse changes of posted documents and evidence | flush order | evidence and posted values never change |
| Control reviews (`control_review_service.py`) | requests that carry a payload | approve, reject | payload stale at execution | executed once, by a second user |
| Periods, monthly and yearly close (`contabilidad/services.py`, `fiscal_year_closing.py`, `document_identifiers.py`) | `accounting_period`, `period_close_run`, `fiscal_year` | close, reopen, close the year, reverse it | postings in flight while a period closes | nothing is posted into a closed period |
| Recurring journals (`recurring_journal_service.py`, `journal_service.py`) | templates, applications | approve, apply, cancel | application against cancellation | one application per period |
| Sequences (`database/helpers.py`) | counters | next value, reset | concurrent documents | unique numbers |
| Sales documents and document flow (`ventas/`, `document_flow/service.py`) | orders, notes, invoices, relations with quantities, reservations | submit, approve, cancel, close, invoice with delivery | partial and concurrent deliveries, orders that are never locked | nothing delivered or billed beyond its source, the reservation is what is still owed |
| Inventory (`inventario/service.py`) | stock ledger, valuation layers, bins, batches, serials | receive, deliver, reserve, reverse | concurrent deliveries | no negative stock, layers equal the ledger |
| Bank reconciliation (`bancos/reconciliation_service.py`) | transactions, matches | match, cancel, adjust | two users, partial matches | nothing matched twice or beyond its amount |
| Purchase reconciliation (`compras/purchase_reconciliation_service.py`) | matched quantities | match, release | returns and cancellations | matched never exceeds received |
| Imports (`imports/services/import_service.py`) | batch status, rows | validate, execute, cancel | background thread, a commit per document, process end | each row once, no batch stuck |
| Revaluation, budget, capitalisation, confirmations | runs, lines | run, reverse | arithmetic | totals |
| Authentication (`auth/account_throttling.py`) | failure counter, lockout | register, unlock | concurrent attempts | the threshold holds |
| Reports, printing, portal, API, administration | none of their own | read, render, call the services above | | |

`PROJECT.json` lists the same components with what is modelled of each, and every
hazard with the line where it bites.

## Modules

| Module | Models | Checked by |
|---|---|---|
| `AuditChain`, `AuditLog` (abstract), `AuditChainProofs` | the audit chain and the log it implements | `MCAuditChain`, TLAPS |
| `DocumentPosting`, `DocumentPostingProofs` | the life of one posted document under concurrent requests; the proofs are also those of `RecurringJournals` | `MCDocumentPosting`, TLAPS |
| `ArApLedger`, `ArApLedgerProofs` | the subledger, its cache and the services that apply payments | `MCArApLedger`, TLAPS |
| `ApprovalFlow`, `ApprovalFlowProofs` | the approval of one document by concurrent sessions; the proofs are also those of `SalesFulfilment` | `MCApprovalFlow`, TLAPS |
| `PeriodClose`, `PeriodCloseProofs` | periods, their close, reopening and reviews, the yearly closing | `MCPeriodClose`, TLAPS |
| `RecurringJournals` | a template, its applications and the journals they create | `MCRecurringJournals`, TLAPS |
| `StockLedger`, `StockLedgerProofs` | bins and movements posted and cancelled by concurrent transactions | `MCStockLedger`, TLAPS |
| `BankReconciliation`, `BankReconciliationProofs` | matching of statement lines and what a cancelled payment undoes | `MCBankReconciliation`, TLAPS |
| `SalesFulfilment` | orders, delivery notes, invoices and the stock reserved for them | `MCSalesFulfilment`, TLAPS |
| `SumTheorems` | sums of integers over finite sets, for the proofs of the ledgers | TLAPS |

Each component module is parameterised by its sets of sessions and documents, with one
action per service or route; where a handler reads before it locks, the reading is an
action of its own and what it read is kept in `session`. The `MC` modules only give
constants their values. Operators whose comment begins with "Mutant:" are the definition
below them with a plausible mistake (a lost guard, a missing reset). They are used by no
specification; `PROJECT.json` names for every property a mutant that violates it, which
shows that the property depends on the code.

### AuditChain

A connection opens a transaction (`Begin`), and each flush either chains the pending
`AuditTrail` objects (`ChainPendingRows`: drop the cached tail, lock, read the head,
chain) or only drops the cache (`FlushWithoutRows`). During the flush, mapper events
insert further rows (`ReadTail`, then `StampCached`); `EndFlush` inserts the chained
ones. `Savepoint`, `ReleaseSavepoint`, `RollbackToSavepoint`, `Commit` and `Rollback`
are the session's. `tail` is `connection.info`, with `valid` for "belongs to the
current transaction". The hash of a row covers its identifier, so a row is identified
by its id and `prev` is the id of its predecessor; that a changed payload changes the
hash is assumed and not modelled. On PostgreSQL `writer` holds the advisory lock, on
SQLite the write lock that the first INSERT takes.

- `audit_postgres`: `NoFork`, `VerifyClean` (the application's own verifier reports
  nothing) and `DeletionDetected` (the removal of any row but the last is reported).
  Two connections, four rows and batches of two: enough for a batch of one transaction
  to follow a rolled back savepoint of its own or of the other, and for a chain of four.
  The same run shows that the committed chain implements `AuditLog`, an append-only
  sequence, under the mapping `ChainOrder`. Connections and rows are symmetric, in the
  refinement too: it is a safety property, and the mapping chooses from singletons only.

### DocumentPosting

One document; a request loads it (`Load`), waits for its row lock (`Lock`), tests its
loaded `docstatus` and the ledger and writes inside a savepoint (`Post`), and commits or
is refused (`Commit`, `Refuse`), or its process ends (`Crash`). `loaded` is the
status in the identity map, which the locking SELECT does not refresh; `Seen` is
what plain SELECTs return under the isolation level. `isolation` is a variable that no
step changes: it is read committed (PostgreSQL, and MySQL when so configured) or
repeatable read (the default of MySQL and MariaDB), so one run covers both. The entries of
one request are one row of `gl`: their amounts and accounts matter to other properties.

- `posting`: under read committed never two sets of active entries (`PostedOnce`), and
  status and ledger agree and every inactive entry has one reversal
  (`LedgerFollowsStatus`). At both levels an entry is never reversed twice
  (`ReversedOnce`): under repeatable read the unique row of `document_transition` prevents
  it where every other guard reads stale data. Every request ends (`RequestsEnd`).

Four requests: an approval, a cancellation and two late ones of either kind; a fifth
would repeat one of these. *Fairness*: weak fairness of `Proceed` for each request. A
thread that runs goes on unless its process ends (`Crash` is always possible and never
forced), and the database grants a free row lock to the request that waits for it; every
holder commits or rolls back, so weak fairness suffices. No fairness of `Load`: nobody
has to click. No other module states fairness, because what the others do is begun by users.

### ArApLedger

State is the tables themselves: `docstatus` of invoices and payments, `reference`
(`payment_reference`), `relation` (`document_relation`), `ledger`
(`ar_ap_ledger_entry`, append-only), `open_item` (`ar_ap_open_item.unallocated_amount`).
Actions: `SubmitInvoice`, `CreatePayment` (a draft with references, each checked against
the outstanding balance), `SubmitPayment` (posts opening and applications from the draft),
`ApplyPayment` (one line of the reconciliation screen), `ApplyAdvance`, `CancelInvoice`,
`CancelPayment`. Each ends with the reconciliation guard of the posting service.
`Outstanding`, `Unallocated` and `AdvanceAllocated` are the different ways in
which the services compute what is left.

Abstractions: one company, party, currency, book and date, so that rates and as-of dates
disappear; amounts are whole and the tolerance of 0.01 is below their unit; the display
copies `document.outstanding_amount` and `payment.unallocated_amount` are left out;
discounts, withholding, exchange differences, order references, credit notes,
refunds and journal lines come later; a transaction is one step, since the services
lock the payment and the invoice. The open item of an invoice is one row.

- `arap_ledger`: with the policy `log`, under which no guard hides a state.
  `PaymentNeverOverspent`, `BalanceReconstructible` (the balance is the total minus the
  references of approved payments), `CacheCoversBalance`, `ApplicationsPaired`, and the
  action property `ReconciliationKept`: of all transitions one only, the cancellation of an
  invoice to which a cancelled payment was applied, can take subledger and control account
  apart. Two invoices (3 and 2) and three payments (3 each): partial, full and split
  applications, a payment over two invoices, two payments on one, and one that was
  cancelled beside them.
- `arap_cancelled_invoice` (violation): see the findings.

`CacheCoversBalance` speaks of documents in force only. The open item of a cancelled
payment stays open, because its own reversed allocations are added back to the cache, and
an invoice may be settled beyond its total by two drafts for the same balance
(`_process_payment_reference` compares nothing again), so no property says otherwise.

### ApprovalFlow

One document, the `request` and `decision` rows, and sessions. `edits[v]` is version `v`:
header and lines as contents (an edit may leave one of them, or restore what it once was), the
column `modified_by`, and as history the author, the version the edit started from and the
last request there was when it was opened. A session loads the header (`Open...`), which
stays in its identity map, since the selects for update do not refresh it; when the service
acts, in a later step, the lines are selected anew. So `NewRequest` freezes the loaded header and
`modified_by` with the lines as they are then, and `SnapshotMatches` compares in the
same way. A service that locks the document first is one step (`RequestApproval`,
`RequestCancellation`, `ApproveOnSubmission`, `RequestAndApprove`). An approval from the
listing is two: `CheckRequest` locks the request and compares the document, which is not locked;
`ApproveChecked` locks it and posts, with the lines it selects then, and an edit may commit in
between. Nobody else decides a request that is held (`Unlocked`), but `reject`, which read
it without a lock, writes whatever it has become. `posted` records which header and lines
were checked and posted. `WriteEdit` tests the stored `docstatus`, which the flush guard reads
once the header row is locked, and no pending request: `ensure_document_editable` was asked when
the form was opened.

PostgreSQL under read committed; the matrix does not change, so the required level is
the least of the covering rules and one approval by any of their holders decides. Whether
the document can still be submitted is taken from `docstatus`, which `LedgerFollowsStatus` of
`DocumentPosting` justifies. Left out: the relations that a rejection reverts; documents
that post nothing, whose `docstatus` is written without a lock; a rejection that falls
between two reads of one request by an approver who had found none at first.

- `approval` (two versions, three requests): `PostedAsRequested`, `AuthorNeverApproves`,
  `ExecutedOnce`, `OnePending`. One approver and editors of other ranks are the
  least with which a preparer can be above, below or the same as the approver, and the four-eyes
  setting may change at any time (`SetFourEyes`) while a request keeps the policy it was
  created under. Two versions allow an edit before, beside or after a request, and between
  check and posting; three requests are an approved one, its cancellation and one too many. A
  second approver takes the run beyond 25 million states, and a `modified_by` that stays because
  its writer had loaded his own name takes four versions: these the theorems cover.

The properties name what the code does not prevent. `PostedAsRequested` exempts the lines of
an edit that was opened before the request and committed between check and posting.
`AuthorNeverApproves` speaks of the creator and of the author of the posted lines, unless the edit
was a race (`Raced`): it overwrote another edit, or was open while the request was created.
A user who edited in between is not a preparer: `build_policy` names the creator, the last
editor and the requester. `ExecutedOnce` and `OnePending` exclude histories in which a
rejection overtook an approval, since a rejected request no longer counts as decided.

### PeriodClose

The periods of one fiscal year with their monthly close run. A posting reads the period
without a lock (`StartPost`) and commits later (`CommitPost`); closing and reopening lock
the row of the period, test their guards and commit (`Start`, `CommitClose`,
`CommitReopen`), or leave a proposal for a second user (`Propose`), who carries it out
(`StartReviewed`) or rejects it (`RejectReview`). `MayCommit` is nondeterministic in the
setting that asks for reviews, which an administrator may change at any time. `NewRun` and
`RunStep` are the steps of the closing assistant, also from pages opened before the close;
`StartYearEdit` and `CommitYearEdit` the form of the year. Time is counted in closings of a
period: `latest` is the creation time of its youngest row.

`voucher` is the status of a closing voucher, `active` says whose ledger rows are in force.
`DraftYearClosing` commits a draft; whoever submits, rejects or cancels a voucher loads it
and tests its status without a lock (`LoadVoucher`) and acts later, whatever it has become.
`SubmitYearClosing` locks the year, compares its closing voucher and finds no rows of this
one; `CancelYearClosing` locks the voucher and finds rows to reverse; `RejectYearClosing`
looks at neither and writes the status. The approval engine is switched off, and the drafts are not
edited.

- `period_close`: `OnlyClosingsAfterClose` (a request that starts after a close leaves
  nothing in the period but closing journals), `ReviewsStand` (a pending review is of a
  period that is still as it was when proposed) and `OneYearClosing` (one voucher's rows are in
  force, those of the voucher the year refers to, while the year is financially closed; only a
  rejection can make its status differ). Two sessions, two periods and two vouchers: the
  order of periods, a posting or a second close in flight, a voucher replaced by another
  and one submitted from a page on which it was still a draft. One step of the assistant, the
  capitalisation, which succeeds or fails in a closed period too; the revaluation does
  less. Bounds: `MaxEntries` journals and `MaxClosings` closes in all; two closes give a
  reopening between them.

An entry whose transaction began before the close may commit after it: the property speaks
of the creation time of rows, which on PostgreSQL is the start of the transaction.

### RecurringJournals

One template valid for `LastPeriod` periods. `Apply` locks the template and creates an
application and a journal; `Load` is a route that reads a journal and tests its status,
`CommitSubmit`, `CommitReject`, `Reverse` and `CommitCancel` act on what was loaded, under
the row lock only when they post or cancel. `CancelTemplate` takes no lock. Lines, editing
and duplication of journals and the reversal into another period are left out.

- `recurring`: `StatusMatchesLedger` (an application is "applied" exactly while the ledger
  holds its rows, and a journal shown as a draft or as cancelled has none; only a rejected one
  may have been posted meanwhile) and `OneInForce` (one journal in force for a period). Three sessions and three journals: a
  journal that is loaded by two while a third works at another of the same period. No bound
  beyond the constants.

### StockLedger

`bin` and `kardex` are the committed stock bins and movements of an item per
warehouse; a session's uncommitted ones are `work` and `moves`. A document is posted line by
line (`Receive`, `Issue`, `ReceiveTransfer`, `ReadCount` and `WriteCount`, `ReadLanded` and
`WriteLanded`), and cancelled by `CheckCapacity` and `ReverseMovement`. A bin is locked at
its first write and released at `Commit` or `Rollback`; three readers take its figures without
a lock. The valuation is the moving average in whole units. Layers are the movements
themselves; FIFO, batches and serials are not modelled, nor `rebuild_stock_bins`,
which nothing calls. A deadlock of two transfers ends by the rollback of its victim.

- `stock`: `KardexIsRunningBalance`, `IssuesAreCovered` (whatever is tested before it is
  posted leaves a bin that may not go negative with no less than nothing), `CountStands`. A
  receipt, a transfer, a count and a landed cost over a bin that exists and one that does not,
  one with and one without negative stock: every kind of line meets every other.
  The property does not speak of a count that adds to a bin: such a count tests nothing. One
  that found no row may add to a bin which a cancellation (`stock_cancel`) has left negative
  meanwhile, and need not make up for all of it. It takes three transactions on one bin, more
  than this run has; the attempt to prove `IssuesAreCovered` of every count showed it.
- `stock_cancel` (violation): see the findings.

### BankReconciliation

`statement` holds `is_reconciled` and `payment_entry_id` of the lines, `reconciliation` the
committed reconciliations with their items. `BeginReconcile` is the form's validation;
`LockSources` locks the lines in order, `AddMatch` locks and tests one target at a time,
`Replay` answers a repeated request with the earlier reconciliation, and
`CommitReconcile` marks and links the lines. `BeginCancel`, `ReadLinked` and `CommitCancel`
are the hooks of a payment's cancellation. Under enforced internal controls the guard of
posted evidence refuses one assignment of the difference (bancos/services.py:1640), which
leaves a subset of these behaviours. The same cash may be matched as a payment and as its ledger
entry; import, automatic matching, second review, currencies and internal transfers are
left out.

- `bank`: `MatchesWithinAmounts`, `CancelledPaymentUnmatched`, `LinkHasMatch`,
  `RequestsApplyOnce` (the matches of a request are reconciled again only when the first
  time has changed: an item was cancelled, or a difference posted to it). Two lines, two
  payments and an entry, and six requests: one line against two payments, one payment against
  two lines, two partial matches, and a rest given up as a difference. The second partial
  match lets a later cancellation leave two different requests with the same live items.
  Three sessions: two matchings and a cancellation. Bound: `MaxReconciliations`, four, so
  that all but two of the requests can be applied.
- `bank_covered` (violation): see the findings.

### SalesFulfilment

`order` holds status and closed quantity of the orders, `doc` the notes and invoices with
their relation to a source, `actual` and `reserved` the bin. `Open` is a route that loads a
document and tests it and its source without a lock; the action that follows
(`SubmitOrder`, `SubmitNote`, `CancelInvoice`...) locks the source line or the bin, tests
the quantities and writes to the commit. An order is never locked nor read again, so
`SubmitOrder` and `CancelOrder` overwrite whatever it has become; `ReadDelivered` and
`CloseOrder` are two steps because what was delivered is read without a lock. `Bill` of an invoice
with `update_inventory` creates its own delivery note. With `approvals`, `Request` keeps
the document pending, and `Approve` and `Reject` decide it.

Abstractions: one item, warehouse and line; drafting with its relation is one step and drafts
are not edited; documents without a source, returns, credit notes, prices and the credit limit are
left out. The cached quantities and line states are recomputed from the relations and
decide nothing here.

- `sales`: `TypeOK` contains that the warehouse holds what was there less what the
  submitted notes delivered; `WithinSource` (nothing delivered or billed beyond its source):
  of deliveries with two exceptions, notes whose relation was reverted under them and approvals
  of pending notes, of what is billed by related invoices with none. It speaks of
  the direct source, as the code tests it: an order that is billed once directly and once
  through its note is outside it. `ReservationKept`, an action property: the reserved quantity is what the open
  orders still have to deliver, and only a step that decided on an order that has changed, or
  a delivery on an order that is not open or beyond it, loses this. Two orders (2 and 1), two notes, an
  invoice and two sessions, with `Drafted`, the bound on drafted quantities, equal to 1: an order delivered in
  two parts, by a note and by an invoice, and a second order whose reservation another's
  mistake can take. `Stock` covers both orders, since a submitted order reserves what it needs.

### Symmetry, deadlock and bounds

Sessions are symmetric, and documents where a configuration says so; only safety properties
are checked with symmetry, in runs without a liveness property. Two sessions give every race between two
requests, and a session may act repeatedly. Deadlock of the model is checked for
`AuditChain` only, which never stops, since a transaction can always begin or roll back. The
others may stop: documents are finite and end cancelled, requests end, and the bounds stop
the rest; that no request waits for ever is `RequestsEnd`. Bounds in the guards:
`MaxBatch` and the finite `RowId` (AuditChain), `MaxVersions` and `MaxRequests`
(ApprovalFlow), `MaxEntries` and `MaxClosings` (PeriodClose), `MaxReconciliations`
(BankReconciliation), `Drafted` (SalesFulfilment); the others are bounded by their
constants alone.

## Findings

Each is the counterexample of a run, with the quoted text in `PROJECT.json`.

| Run | What the code does |
|---|---|
| `arap_cancelled_invoice` | cancelling an invoice reverses again what a payment's cancellation reversed; in strict mode it can never be cancelled |
| `stock_cancel` | a cancellation tests the stock before it locks the bin, and leaves negative stock of an item that forbids it |
| `bank_covered` | a request with a difference is taken for the replay of an earlier one, and marks a line as reconciled that is not covered |

### Behaviours observed while modelling

The models allow these, as the code does; no run of its own states them, and the properties
above are worded so as not to deny them.

- Audit: without the advisory lock (SQLite) two connections can chain to one head.
- Posting: under repeatable read two requests post one document twice, if it has no subledger
  opening (whose cache row has a unique key); a document loaded as a draft is approved
  again after its cancellation.
- Subledger: a payment drafted earlier is applied to an invoice cancelled since.
- Approval: a rejection, which reads without a lock, overwrites an approval that was
  executed; the approver's stale copy may be posted while the row holds an edited one; lines that
  an edit opened before the request commits between check (approval_engine.py:923) and posting
  are posted though nobody asked for them; the request freezes the loaded `modified_by`, so
  the author of lines committed since is no preparer of them and may approve them;
  `modified_by` keeps another's name when its writer had loaded his own.
- Periods: an assistant step repeated from an old page sets the run of a closed period to
  "in progress", after which the period cannot be reopened (contabilidad/routes.py:2841); the
  last period cannot be reopened after a yearly closing, even a reversed one; a reopening
  racing the close of a later period lets both pass; a posting in flight commits after
  the close; the form of the year overwrites its flag with the one it loaded; a
  rejection of a closing voucher that another request has submitted leaves the year financially
  closed by a voucher shown as rejected, which neither a cancellation nor the reversal of the
  year accepts (contabilidad/journal_service.py:350); a submission loaded earlier posts a
  rejected or cancelled closing voucher; the closing voucher posts the amounts of its draft; two runs may be created for one period.
- Recurring journals: a cancelled template returns to "approved" when an application is
  rolled back (contabilidad/journal_service.py:332); a reversed application can
  never be applied again (its key is unique); a rejected journal leaves its application pending
  for ever; a stale rejection overwrites "submitted".
- Stock: a landed cost writes the figures it read before its lock
  (contabilidad/posting_service.py:2540), and undoes what was posted in between in the
  value of the bin; a count of a bin without a row locks nothing.
- Bank: a line can be overmatched by a difference computed from a pending amount that was
  read without a lock; a line matched with two payments is linked to the first, and the
  cancellation of the second leaves it marked as reconciled.
- Sales: two submissions of one order reserve twice; an order cancelled while a note is
  submitted leaves the note on a cancelled order; closing an order, cancelling its note,
  which reserves again, and then cancelling the order releases more than it
  held (contrary to the docstring of ventas/services.py:469); an invoice that delivers can lose
  its note while it stands, and its cancellation takes a note back that other invoices refer
  to; an order can be invoiced once directly and once through its notes; pending notes
  are approved without a test of quantity or order (approval_engine.py:613 against
  ventas/services.py:1620); with the engine enabled and no rule that covers it, a
  requested cancellation is announced as pending and never created; the endpoints that close a line or a
  document (api/__init__.py:1284) do not commit.
- Lock order: approving a review locks request, run and period, closing locks run, period and
  request; matching locks lines and then payments, a payment's cancellation payment and then
  lines; opposite transfers lock bins in opposite order. The database ends each by a rollback.

## Proofs

Theorems hold for every value of the constants that the named assumptions allow; these
say only that sentinels are not members, totals are positive, modes are among those the code
knows, that documents have well-formed lines (a bin once, a transfer after its issue), and that
the documents of a subledger or of sales and the lines of a bank account are finitely many, so
that their amounts can be added up.

- **AuditChainProofs** (assumes `Dialect = "postgresql"`): `ChainInvariant`, `TypeCorrect`,
  `NeverForks`, `AlwaysOneHead`; `SpelledInvariant`, `VerifierAlwaysClean`,
  `DeletionsDetected`, `ChainImplementsLog`. `NoFork` is not inductive: that two committed
  rows do not share a predecessor depends on what an uncommitted flush chained its rows to.
  `ChainInv` adds that whoever has uncommitted rows or a tail in use holds the lock (also
  after returning to its savepoint), that each connection's view, and the view a rollback to
  its savepoint would give, is a chain, and that a tail in use is the end of that view. That
  is still true of a table with a cycle beside its chain, which the verifier would report.
  `SpelledViews` excludes it: every view is `Chained` from `NoRow` by some sequence of
  distinct identifiers, which every batch extends (`SpelledBatch`). From that sequence one
  reads what the recursive definitions compute: each round of the verifier's walk adds the
  next row and stops at a gap (`ExpandFirst`), so that it reaches all rows, or misses those
  after a removed one; `ChainOrder` returns the sequence (`SpelledOrder`). A commit adds rows
  only to a view that contains the committed chain, whose sequence is then a prefix of the
  new one (`SpelledPrefix`): the step of `AuditLog`.
- **DocumentPostingProofs**: `PostingTypeCorrect` and `NeverReversedTwice` for either
  isolation, `NeverPostedTwice` and `LedgerAlwaysFollows` for the isolation their properties
  name; the inductive invariants are `PostingInv`, `ReversalInv` and `FollowInv`. Under read
  committed a request past the lock holds it (`LockHeld`) and what it found in the ledger is
  still true (`FoundStillTrue`), because nobody else commits meanwhile; with it there is
  at most one active set, exactly while the document is submitted (`StatusMatches`). Without
  locks that can be trusted, the unique row of `document_transition` is what is left: one
  request at most has written reversals (`OneTransition`), and only of originals
  (`OriginalsOnly`). `FollowInv` joins the two: entries are of requests that have ended
  (`RowsDone`), and marked as cancelled exactly when reversed (`MarkedAreReversed`).
- **ArApLedgerProofs** (any mode): `LedgerInvariant`, `LedgerTypeCorrect`,
  `LedgerApplicationsPaired`, `ItemsInvariant`, `BalancesReconstructible`,
  `PaymentsNeverOverspent`, `CacheCovers` and the action property `ReconciliationIsKept`. To
  show that a cancellation takes back both sides of an application it is needed that every
  row which is no reversal is an opening of its voucher or a side of an application
  (`RowsFromServices`) and that both sides entered together (`SidesTogether`). The balances
  need more: which rows exist is determined by the status and the references of the documents
  (`RowsKnown`), so that the balance of a document is a sum over its references, and the
  cache follows those references step by step (`ItemsMatchReferences`). For
  `ReconciliationIsKept` the sum of all balances is the sum of all rows, grouped by document
  (`SumByGroup`); the two sides of an application cancel out, and a cancellation takes the
  opening back with them.
- **PeriodCloseProofs**: `PeriodInvariant`, `NothingPostedAfterClose`,
  `ReviewsAlwaysStand`, `AlwaysOneYearClosing`, `PeriodTypeCorrect`. `ClockInv` says that
  rows and postings in flight carry a time their period has reached, and before its last
  close unless it is open; `ReviewInv` that the holder of a period still finds what it tested
  (`HoldersAgree`) and that pending requests agree with the flag (`RequestsAgree`).
  `BoundedInv` adds that a close in flight has room in the counter it will raise.
  `OneYearClosing` is inductive as it stands, because its first half speaks of rows and not of
  statuses: a submission finds no other closing of the year under the row of the year and no rows
  of its own voucher, a cancellation finds rows, which are those of the voucher the year
  refers to, and a rejection touches neither.
- **ApprovalFlowProofs**: `ApprovalInvariant`, and all five properties of the run
  (`ApprovalTypeCorrect`, `AlwaysPostedAsRequested`, `NoAuthorEverApproves`,
  `AlwaysExecutedOnce`, `AlwaysOnePending`). `Well(requests)` says that a request freezes the
  users of the header it loaded and lines no older (`Frozen`), that nothing pending was decided
  and an approval stands until a rejection overtakes it (`Decided`), that one request of a kind
  is in force (`OneOfAKind`), that a cancellation follows an approved submission
  (`CancelsSubmitted`), so that two pending requests could only be of one kind, and where
  postings come from (`PostedFrom`). The table is a parameter because a sender who may approve
  creates a request and decides it in one step. `Checked` is what an approver knows between
  check and posting: the request is pending and held by nobody else, and froze the header loaded
  and the lines that were read. `Waiting` says that every edit there is while a request
  waits was opened before it, `Signed` that an edit which wrote over the version it had loaded
  left its author's name; together they leave `AuthorNeverApproves` the races it names.
- **BankReconciliationProofs**: `BankInvariant`, `CancelledNeverMatched`,
  `LinkAlwaysMatched`, `AmountsInvariant`, `BankTypeCorrect`, `MatchesAlwaysWithin`,
  `RequestsAppliedOnce`. That a cancelled payment is in no match in force needs to know that
  whoever matches a payment holds its row, read it as standing, and keeps it until the commit
  (`Matching`), and that a cancellation holds the row too and has read every line
  linked to the payment (`Cancelling`); `OthersAtWork` says that no other session disturbs
  either. The amounts need what a session may claim while it matches (`Claims`): it holds the
  statement lines, what it has matched so far fits beside what is committed, and nobody has
  reconciled the same before it in a way that stands. Another session that commits has other
  lines and targets locked, so it changes none of the sums the claim is about
  (`OnlyTouched`); the commit then adds exactly the claimed lines.
- **StockLedgerProofs**: `StockTypes`, `StockRunningBalance`, `StockIssuesCovered`,
  `StockCountStands`. Every line of a posting or a cancellation is a movement (`Moving`) or a
  look (`Looking`); what these, `Begin`, `Commit` and `Rollback` change is proved once, and the
  invariants over these five. `StockTypeInv` adds to the types that an issuing line before the
  current one has left its movement (`IssuesMade`), since the receiving line of a transfer
  reads its cost. `KardexInv` says that what a transaction moved in a bin, whose row it then
  holds, continues what is committed there (`ContinuesBin`), so that its commit appends a
  balance to a balance. `CoverInv` says that every tested movement left no less than nothing,
  committed or not (`AllCovered`); `CountInv` that every count left the quantity of its line,
  because whoever has read a bin that has its row holds it until it writes.
- **SalesFulfilment** (in `ApprovalFlowProofs`): `SalesInvariant`, `SalesTypeCorrect`,
  `AlwaysWithinSource` and the action property `ReservationIsKept`. `SalesSteps` sorts the
  actions into a few kinds: all are `Orderly` with the rows of documents, orders and sessions,
  and either leave the delivered notes as they are (`Rests`) or deliver or take back one note
  (`Ships`, `Returns`), and likewise bill at most one invoice (`Bills`). `SalesInv` says what a
  document stands on (`SourcesStand`: an order something was made from was submitted, so that
  its first reservation finds nothing delivered), what a session has found and nobody can take
  back (`SessionsStand`), that the stock is the first one less the submitted notes
  (`StockFollows`) and that what counts against a source is within it (`ConsumedWithin`), which
  a submission tests under the lock of the source line and only reversions disturb, downwards.
  `StockFollows` becomes the statement of `TypeOK` by grouping the notes by order. For
  `ReservationIsKept` the sum `Owed` changes by what one order is owed (`OwedMoves`), and each
  kind of step moves the reservation by the same amount if it found its order as it is
  (`Fresh`) and delivers in order (`InOrder`).
- **RecurringJournals** (in `DocumentPostingProofs`): `RecurringInvariant`, `StatusAlwaysMatchesLedger`,
  `AlwaysOneInForce`, `RecurringTypeCorrect`. A stale session is harmless to the ledger
  because it works on a journal that was created (`WorksAtCreated`), a reversal holds the row
  of its journal alone (`ReversesAlone`), and a period has one application
  (`OneApplication`), from which `OneInForce` follows. The status of the template is not
  needed there; `JournalTypeInv` treats it, with the cursor that a reversal computed from a set of
  periods it must show to have a maximum.

`SumTheorems` has the facts on which the amounts rest: taking an element out of a sum, sums
over disjoint unions, comparison, change of one value, grouping. The library states induction
over the naturals for operators, which the provers cannot instantiate; here a set of naturals
that contains 0 and is closed under successor is shown to contain all of them, from the
well-foundedness of their order (`SetOfNaturals`), and the recursive functions behind sums,
walks and orders are unfolded by exhibiting a function that satisfies their equation.

`RecurringJournals` and `SalesFulfilment` are proved in modules that instantiate them beside
another component (`Journals` and `Sales`, their sessions renamed): a journal is a document
that is posted, a sales document one that is approved. Their theorems name the assumption on
their constants, since an instance does not bring it along. `SameSums` says that the sums of
the instance are the ones `SumTheorems` speaks of.

Only model-checked: the liveness property `RequestsEnd`, as liveness and ENABLED are out of the
prover's reach. Every invariant and action property of the passing runs is a theorem.

## Not modelled

- Numbering (`database/helpers.py`): a counter under its own row lock, with gaps by design.
- Purchase documents and purchase reconciliation: the same document flow as sales, with
  matched quantities and tolerances of their own; next in the plan.
- Batch imports: a status committed before a daemon thread does the work, one commit per row.
- Account throttling and authentication; balance confirmations; budget control; project
  capitalisation; exchange revaluation, of which only the step of the close is modelled.
- Report queries, printing, forms, the API's rendering and the SQL text guards, which have
  no state of their own worth exploring; the computation of journal lines per document
  type, which is data; cryptography, which is assumed.

## Plan

Done: the nine component modules above and the proofs of their safety properties. Next, in
this order:

1. `PurchaseReconciliation`: matched quantities and their release by returns and cancellations.
2. `ImportBatch` (end of the process between two commits), `AccountThrottling`, `Numbering`.
3. `StockLedger`, second part: serials, batches and FIFO layers.
4. `ArApLedger`, second part: credit notes, refunds, order advances, and `SubmitPayment`
   split at its row locks; an abstract party account as refinement.
5. Compositions: `ApprovalFlow` over `DocumentPosting` in place of its assumption about
   `docstatus`, and `SalesFulfilment` with both.
