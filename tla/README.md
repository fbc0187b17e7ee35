# Setuora Local: a formal model

Setuora Local is a web application (FastAPI, SQLAlchemy, SQLite) with which a
warehouse scans serial numbers into batches, submits the batches, and has a
background worker post them as vouchers to TallyPrime over HTTP. This directory
holds TLA+ modules of its core, the TLC configurations that check them and the
proofs that TLAPS checks. `PROJECT.json` maps every definition that models code
to the lines it models. Paths below are relative to `src/`.

How to run, inside this directory:

    tlc -workers 2 -config MCTallySync_one.cfg MCTallySync     # one run
    tlapm TallySyncProofs.tla                                  # one proof module

## 1. The system

One `uvicorn` process serves everything. Synchronous request handlers run in a
thread pool, each with a database session of its own. An `asyncio` task
(`retry_worker_loop`) calls a blocking pass, `process_next_tally_request`, in a
further thread. Three things decide which interleavings exist:

* **SQLite.** A read outside a transaction sees the last committed state and
  locks nothing: the driver opens a transaction at the first INSERT, UPDATE or
  DELETE and holds the only write lock until the commit. So the writes of one
  handler are one atomic step, but what it read before them may be stale.
  SQLAlchemy's identity map makes this worse: a loaded object keeps the values
  it was loaded with.
* **Locks in the process.** `TALLY_REQUEST_LOCK` (`app/services/tally.py`) admits
  one request to Tally at a time; `_enqueue_lock` (`app/services/tally_jobs.py`)
  serialises the insertion of data jobs.
* **Threads outlive their task.** A thread started with `asyncio.to_thread` cannot be
  cancelled. A restore or a reset that fails stops the loop and starts another
  (`app/routers/maintenance.py:202-233`) while the thread of the old one may still
  be talking to Tally.

### Inventory

| Component | State | Operations | Hard behaviour | Correct when | Module |
|---|---|---|---|---|---|
| Tally synchronisation of a batch (`services/tally.py`, `sync_worker.py`) | `batches.status`, `sync_request_xml`, `sync_remote_id`, `sync_started_at`, `last_retry_at`; `sync_attempts` | select, freeze payload, claim, post, record, retry click | crashes between post and record, lost and late answers, stale sessions, second thread | one voucher of a batch in Tally, the one the row keeps; synced means imported, for good; every batch is settled in the end | `TallySync`, `VoucherOnce` |
| Batches, items, stock ledger (`services/inventory.py`, `routers/batches.py`, `sale_returns.py`, `shelf_verification.py`) | `serials.status`, `location_id`, `inventory_transactions`, `batches.status`, `batch_items`, pending returns | scan, FEFO pick, remove, rate, return, shelf scan, submit | check-then-act over stale reads, two batches on one serial | stock moves only as the ledger says; a submitted batch and its voucher list what was moved; stock taken in has a place | `BatchStock`, `StockLedger` |
| Tally request worker (`sync_worker.py`) | event, loop task, threads | pass, wake, wait, stop, start | lost wake-up, starvation, restart | no wake-up lost, each queue is served, one request at a time | `RetryWorker` |
| Tally data jobs and caches (`tally_jobs.py`, `tally_cache.py`) | `tally_data_jobs`, cached sales book and ledgers | queue, claim, fetch, replace, finish, purge | duplicate requests, lease, data edited meanwhile | one active row per request, a bounded queue, cache not older than the request, every job ends | `TallyJobs` |
| Gateway check (`sync_worker.py:52-196`) | one row of `settings` | click, claim, answer | lease and late finish, second worker | every check is answered, with its own answer | `GatewayCheck` |
| Voucher arithmetic (`voucher.py`, `tally.py`, `tally_excel.py`, `preinvoice.py`) | item rates, product prices and taxes | type a rate, submit, edit a product, compute | rounding per line and in total, two postings of one batch, overlapping requests | vouchers balance and agree; a typed rate is kept | `Voucher` |
| Companies and settings (`services/settings.py`, `routers/settings.py`, `tally_check.py`) | `settings`, `tally_company_profiles`, confirmed masters | save, autosave, add, edit, activate, delete, start-up repair | two activations at once, readiness checked beside a write | settings are those of the one active company; sync is switched on only when ready | `Companies` |
| Tally masters and reports (`tally_masters.py`) | none | build and parse XML; what must be confirmed | - | - | the confirmation in `Companies` |
| Stock audits (`audit.py`) | assignments, audit batches, findings | assign, scan, submit, extend, refresh | double submit, a deadline moved meanwhile | one reconciliation shown, complete when the window is over | `Audit` |
| QR labels, relocation, replacement (`assignment.py`, `label_printing.py`, `relocation.py`, `replacement.py`) | `serials`, `stock_relocations`, print log | generate, print, move, shelve, replace | stale place or status, a label replaced under a move or in a draft | one label per unit that shows where it is | `QrLabels` |
| Expiry, movement, director and loss pages (`expiry.py`, `stock_movement.py`, `director_reports.py`, `losses.py`) | none | compute | thresholds, several modules that count one stock | pages agree with each other and with the stock | `Reports` |
| Backup, restore, reset, schema (`backup.py`, `backup_worker.py`, `database_reset.py`, `schema.py`, `maintenance.py`) | the database file and its log, two folders | copy, prune, restore, reset, migrate | crash at each step, open connections, log of the replaced file | a restore can be undone and restores what was chosen; requests find the layout they need | `Backups` |
| Users and access (`users.py`, `tally_access.py`, `access_control.py`) | users, grants, assignments to companies and ledgers | create, switch, delete, assign, configure | a click whose sender lost the right | a manager remains; an account sees what was chosen for it | `Accounts` |
| Browser code; installer and scripts | - | - | - | - | not modelled |

Who calls whom: request threads write the queues (submitted batches, data jobs,
gateway checks) and set the worker's event; the worker reads settings at the last
moment, posts to Tally and writes rows back; a restore, a reset or a saved setting
stops and starts both workers; report pages read everything and, for audits,
write. `PROJECT.json` lists the components with their files, and under `hazards`
the lines where this code can go wrong in a way a test would hardly reach.

## 2. The modules

### TallySync: a batch on its way into Tally

A row of `batches` is `status`, `frozen` (`sync_request_xml`), `rid`
(`sync_remote_id`), `started` and `aged` (`sync_started_at` and whether the lease
has ended) and `cooldown` (`last_retry_at`) at that batch. `attempts[b]` are the
`sync_attempts` rows that stand for a request. A worker has a program counter
`wpc` and the batch object its session has loaded, `job`: nothing keeps `job` and
the row equal, as in the code.

| Actions | Code |
|---|---|
| `Submit`, `OpenRetry`, `Requeue` | submit and the retry click: `queue_batch_for_sync` (`sync_worker.py:220-260`), which loads, decides on what it loaded, and updates only where the status is still as seen |
| `SaveSettings` | a change of settings or of the active company |
| `Select`, `SkipSynced`, `Lock`, `SkipLeased` | the selection of `retry_pending_batches`, and `sync_batch`: wait for the lock, look at the status again, refuse a live lease |
| `Prepare`, `BuildFails`, `SyncDisabled`, `Claim`, `ClaimLost` | `_sync_batch_locked` (`tally.py:399-513`): build or keep the payload, put back, compare-and-set to SYNCING |
| `Send`, `Accept`, `Reject`, `Unreadable`, `Timeout`, `Commit` | `post_to_tally` and the recording of its outcome |
| `LateImport`, `LateDrop` | Tally finishing, or losing, a request whose answer was given up |
| `Exception`, `Crash`, `RestartWorker` | rollback, process restart, and the loop restarted while its thread still runs |
| `LeaseExpires`, `CooldownEnds` | time |

`VoucherOnce` is the abstract promise: a batch gets at most one voucher, it may be
confirmed only when it is there, and nothing is ever undone. `PromiseKept` is the
refinement, with the vouchers of a batch read off Tally's books.

What is abstracted. A payload is the triple of company, remote id and the rest of
the settings; the remote id is a pair of company and batch, as it is a UUID5 of
both. `retry_count`, error texts and the `sync_attempts` rows that record no
request are left out. Batch types that never reach the worker are left out;
`Supported` tells the types the XML can be built for. Two assumptions about Tally
are made and named: it answers one request before it takes the next (`Send` waits
for the wire), and it refuses a payload it has imported before only by treating
it as an update of the same REMOTEID (`Imported`, `MayRefuse`).

`Reliable` is the premise of the strongest properties: answers can be parsed and
no thread of a stopped worker is left. Both exclusions are real: without the first
`sync_unreadable` finds a violation; without the second a leftover thread may overwrite
the payload of a pending batch with one built from an older load (section 3).

### BatchStock: serials in batches, and the ledger

One product; its serials are numbers in the order of their FEFO key. A request
thread holds `req` (which handler, on which batch and serials, before or after its
checks), and for a submit `view`, the items as it loaded them. `Open` is the load of
the batch and its early returns; `CheckScan`, `CheckPick`, `CheckReturn`,
`CheckShelf`, `ValidateSubmit` are the checks over what is committed then; `Insert`, `Return`,
`ScanShelf`, `Remove`, `Rate`, `ApplySubmit` are the writes. `ApplySubmit` is
`apply_inventory_for_batch` (`inventory.py:334-405`) with its
compare-and-set per serial, the ledger rows, and the change of the batch's status;
when a serial has moved meanwhile it is undone as a whole. `BuildVoucher` is
the sync worker reading the items. `StockLedger` is the abstract ledger: a move
takes a set of serials from the status each one has to another and appends one entry to each.

What is abstracted. AUDIT and QR_ASSIGNMENT batches, inactive serials, rate values
(here only set or unset, see `Voucher`) and the scan logs other than pending returns are left out. The reads
of one check are one step. Clerks' request kinds are all eight operations in any
order on any batch.

### RetryWorker: the loop, its event and the lock

The queues are counters: gateway checks, data jobs, batches somebody asked for, and batches that became due by themselves. Threads run the pass of `process_next_tally_request`
(gateway check, then a data job or a batch, alternating); `Post` and `SetEvent` are the
two halves of a request handler (commit, then set the event, which reads the
variable `_wake_event` first); `BeginPass`, `ClearEvent`, `EndPass`, `Wake`, `IntervalEnds`, `Stop`,
`Start` are `retry_worker_loop` and its start and stop (`sync_worker.py:295-370`).
`Ripen` is a quiet arrival (a cooldown that ends, a setting that makes a batch
sendable): nobody sets the event for it and it is found at the next interval.

### TallyJobs: data jobs and the cached sales book

One Tally company of one profile, so a request is a range of dates. `Look` and
`Insert` are `queue_tally_data_job` (`tally_jobs.py:74-141`) under its lock, with the
purge of old rows; `Claim`, `Fetch`, `Store`, `Finish`, `Raise`, `Crash` the worker;
`Replaced` is `replace_cached_sales_book` (`tally_cache.py:75-136`), `Duplicate` its
violation of the unique constraint. `Edit` changes Tally. Ghost state: `book` keeps
Tally's earlier states and `asked` the moment of each request, so that "not older
than the request" can be said. A row number is the greatest in use plus one, as
SQLite gives it. The rows a deleted company takes with it, requests that are not
cached, and one answer that lists a voucher twice are left out; there is one worker
thread, not the one a restore leaves running. A request that
finds a running job shares it and may get an answer older than its click: the code
does not promise otherwise and no property says so.

### GatewayCheck: the test of the connection

`row` is the value of `_tally_gateway_check_state`: identifier, status, whether the lease
has ended, and whose answer it holds. `Click` and `Queue` are the two halves of
`queue_tally_gateway_check`, `Look` and `Claim` those of `_claim_gateway_check`, both
with the comparison of the whole value; `Reload` and `Finish` are
`_finish_gateway_check`, which compares only the identifier. `Crash` loses a worker's
check, `Restart` adds the worker a failed restore starts. The text of the answer is
the identifier of the check it answers.

### Voucher: what a batch is worth

State: `rate` per item, `product` (default rate, discount, GST rate), `status`. `OpenRate`
and `SetRate` are the two rate forms of `routers/batches.py`; the commit writes the items
whose rate differs from what was read, as the session does. `OpenSubmit` and `Submit` price the
batch (`validate_priced_batch`, and the default rate where none is set); `EditPricing` is
the product page. `Line`, `Lines`, `FinalValue` and `RoundOff` are
`calculate_voucher_summary` in integers: paise, hundredths of a percent, and
`HalfUp` for the rounding of `Decimal.quantize`. `Xml`, `Excel` and `BreakupRows` are the postings of the
Tally voucher, those of the workbook, and the tax breakup of the pre-invoice. A ledger is
named by what it is for and where its name comes from, which is what the two
postings do differently. The discounted price contains the tax, which is taken out and added again; `Slack` bounds what that may
cost (`CustomerPays`): a paisa per line where the rate halves evenly and is below 100 %, otherwise more with the taxable amount. Rates are not negative, which the page that
edits a product checks (`products.py:304`) and the one that adds it does not (`products.py:145`). `crossed` is a ghost: items about which another request had
already read what it will not write.

### Companies: profiles, settings and the gate

A configuration stands for all settings of a company at once. A request is `Open` (load, early
returns) and `Commit`, which writes the attributes that differ from the load
(`Written`, `Switched`): `Save` and autosave, `Add`, `Update`, `Activate`, `Delete`. A row that has gone
meanwhile makes the flush fail (`Rollback`). `TallyCheck` is everything that confirms a
master or takes a confirmation away; `Boot` is the start: `clear_legacy_placeholder_settings`,
the default settings, and `ensure_company_records`. Only `Save` switches synchronisation on, and looks at
the readiness after its write, in the same transaction (`ReadyAfter`). `apart` is a ghost:
some request has written over another since the last undisturbed activation.

### Audit: assignments, scans and findings

`Assign` takes what is in stock and adds the anchor batch; `NewBatch`, `CheckScan` and
`Insert`, `Remove`, `OpenSubmit` and `Submit` are the auditor; `OpenExtend` and `Extend`,
`OpenRefresh` and `Refresh` the manager and whoever opens a report. `Reconciled` is
`reconcile_audit_assignment`: the findings of all batches are deleted and written anew from the
scans in the window, with the deadline as the request has loaded it. `Verified` and
`ExtraOf` are the page's own computation (`assignment_progress`). `outdated` is a
ghost: the last reconciliation used a deadline that was moved meanwhile.

### QrLabels: the labels of the units

A row of `rows` is a serial: unit, status, active, place, printed, successor. `Generate`,
`OpenPrint` and `RecordPrint`, `OpenMove` and `Move`, `OpenShelve` and `Shelve`, `OpenReplace` and
`Replace` are the handlers. The writes of prints and moves are conditional; those of a replacement and of a
shelf scan are not. `scanned` is what waits in a draft for a shelf QR: unverified items of purchases and
audits, and returns of a sale (`shelf_verification.py:75-123`, `sale_returns.py:131-165`). `Scan` puts a label there
if it is in use, `Remove` takes it out, and a shelf scan writes the place of all it has loaded, by the key of the row
and only where the value differs from the one it read, whatever has become of the label. Sales and purchases appear as
`Trade`, with the conditions `BatchStock` has; `Toggle` closes a location.

`goods` is a ghost: where each physical unit is and whether it is sold, by what was done with it. Two more name what the
code does not defend against: `crossed` the units whose label changed between the read and the write of a
replacement, `untold` those whose place was last scanned on a label that was replaced in the draft. The label in use does not
learn that place until the next move or shelf scan. `Handed` bounds which labels are scanned into drafts, as `Printed`
bounds which are printed.

### Reports: the pages over the stock

The stock side (`Sell`, `ReturnSale`, `Issue`, `Move`, `Replace`, `Find`, `Pass`) only makes histories; the
model is in the operators: `services/expiry.py` (risk rows, expected sales,
sleeping stock, heatmap), `stock_movement.py` (rows, status, filters, `EstimatedUnsold`,
available stock, days remaining), `director_reports.py` (totals, expiring soon) and
`losses.py`. Each names its module, and thresholds are those of the code's defaults.
A page is one consistent read.

### Accounts: who manages whom, and who sees what

`OpenToggle`, `OpenDelete`, `OpenAssign` and `OpenConfigure` check the sender's
right and load the target; `Toggle`, `Delete`, `Assign`, `Configure` commit. Deletion keeps an
account that has worked as a deleted row, and leaves what the code does not count to the
foreign keys (`Deletable`). `DeleteCompany` cascades. `ScopedCompanies`, `FilteredLedgers`
and `Visible` are `tally_access.py`: no assignment means no restriction.

### Backups: the database as a file

`main` is the file, `log` its write-ahead log, `conn` what requests have open, `shelf` the
backups of each folder. `Copy`, `CopyOffsite`, `Prune` are a backup; `BeginRestore`,
`Copy` (the safety copy), `Dispose`, `Unlink`, `Replace`, `Tidy`, `EndReload` are the steps of
`restore_sqlite_backup_file` in their order; `AskReset`, `DropGuards`, `DeleteAll` those of a
reset; `Migrate` one commit of `ensure_runtime_schema` in the order of the code: columns and
indexes one by one (`Altered`), then the triggers in one transaction, then the tables built anew (`Rebuilt`). `halfway` is a ghost: a
restore has failed with its file in place, and neither a start nor a restore has migrated it since. A connection keeps the file
it has opened: when the name goes, its commits are found by nobody (`ResetLost`,
`Commit` of an orphan). `FileInUse` is Windows refusing to unlink or replace an open file, at either removal of the log, `JobFails` a
folder or a reload that fails, `Crash` the program. SQLite and the file system are
modelled from how the code uses them.

### Modules that only compose

Components that interact are one module (the worker and its lock, batch and
ledger). Components that share no rows share a run instead: a general module puts
them beside each other, and a variable chooses which of them a behaviour is about,
so that the others rest: `Submits` (`BatchStock` and the worker its submits wake, `RetryWorker`),
`Trade` (`BatchStock`, `Voucher`, `Accounts`), `Warehouse` (`QrLabels`, `Audit`,
`Reports`), `TallyQueues` (`TallyJobs` and `GatewayCheck`). No property of such a run says
anything about the components together. The `MC` module of a run only names its
instance; the theorems are about the general module.

## 3. What the runs check

| Run | Bounds | Checks | Result |
|---|---|---|---|
| `sync_one` | 1 batch, 1 worker, 2 companies, 2 ledger settings (one unusable), 1 clicking user, 2 faults, fairness | `OneTrueVoucher`, `PromiseKept`, `SettlesWhenHealthy` | holds |
| `sync_overlap` | 1 batch, 2 workers, 1 company, six kinds of fault, 3 faults | `Typed`, `Safe` (inductive), `AttemptTrail`, `SyncedIsFinal` | holds |
| `sync_unreadable` | 1 worker, 1 unreadable answer | `FailedWasRejected` | **violated** |
| `stock_overlap` | `BatchStock`: 2 clerks, 1 serial: purchase, sale, sales return (damaged). `RetryWorker`: 1 requester, 2 threads, queues of 1, no gateway check, 2 starts | `TypeOK`, `TakenInIsOnShelf`, `LedgerKept`; `OneRequest`, `NoLostWakeup` | holds |
| `stock_late` | 2 clerks, 2 serials, 1 sale | `SubmittedBecomesSold` | **violated** |
| `trade_serial` | `BatchStock`: 1 clerk, 2 serials, 4 batches. `Voucher`: 2 clerks, 2 items, 2 products, 4 deals, 2 catalogues, rates 0 and 33.33, 1 edit. `Accounts`: a super admin, an admin, 2 companies, 2 threads | `OrderlyBatches`; `TypedRateKept`, `SumsAgree`, `ValuationKept`; `ManagerRemains`, `AccessAsChosen`, `DeletedStaysOut` | holds |
| `worker_fair` | 2 threads, queues of 2, 1 start, 1 failure, fairness | `QueuesMove` | holds |
| `jobs_cache` | `TallyJobs`: 2 request threads, 1 voucher, 2 overlapping ranges, 2 rows, 2 edits, 1 fault. `GatewayCheck`: 2 clerks, 2 workers, 3 checks, 1 crash. Fairness | `Types`, `QueueKept`, `FreshAsAsked`, `EveryJobEnds`; `EveryCheckAnswered` | holds |
| `warehouse_floor` | `QrLabels`: 2 locations, 2 clerks, 2 labels, 1 draft, 1 label scanned into it, 1 move. `Audit`: 2 serials, 1 assignment, 1 auditor, 1 manager, 4 moments, 2 batches. `Reports`: 3 deliveries of 3 units, 2 products, 2 warehouses, days 0, 89, 90, 121, expiries 120 and 190, 2 ledger rows | `Types`; `LabelsAreTrue`, `LabelHistory`; `FindingsTrue`, `ExpiredIsComplete`; `PagesAgree`, `ProjectionIsExact` | holds |
| `companies_office` | 2 profiles, 3 configurations (one default, one placeholder), 2 request threads | `TypeOK`, `SettingsFollowActive`, `SwitchedOnWhenReady` | holds |
| `backups_files` | 2 transactions (one prints a label), 1 request, local folder, retention 1, 1 fault, 2 clicks, fairness | `TypeOK`, `RestoreIsUndoable`, `RestoredIsChosen`, `ServedIsCurrent`, `Protected` | holds |
| `backups_guards` | the same | `GuardsStand` | **violated** |

Some properties are conjunctions of named parts, each with a sentence of its own in its module, and
each part has a mutant where it can break alone:

* `OneTrueVoucher`: `TallyHoldsFrozen`, `OneVoucher`,
  `FailedIsNotInTally`, under `Reliable`.
* `Safe`: a remote id belongs to its batch, the claim is held by who is past the compare-and-set, nothing of a
  synced batch is left to import.
* `OrderlyBatches`: a submitted batch and its voucher list what was moved, a serial is in one open
  batch, a sales return takes back everything, no batch moves a serial twice.
* `QueueKept`: what a thread has found under the lock still holds when it inserts, one active row per range, a bounded queue.
* `QueuesMove`: a full queue of jobs and a full queue of batches both get shorter.
* `SumsAgree`: both vouchers balance, the papers agree, and a customer pays the discounted prices.
* `FindingsTrue`, `LabelsAreTrue`, `LabelHistory`, `PagesAgree`: see their modules.

Why the bounds are enough. The rows of two batches do not meet in the code except
through the lock and the wire, so one batch shows every history of a row, and
the theorems hold for any number of them; three faults allow a lost answer, a crash and a
refusal in one history, and two threads are all that a failed restore leaves. In
`BatchStock` two clerks make every pair of handlers overlap, and the three batch
types are the ones that take a serial in, out and back. One voucher, two dates and
two edits are the least in which a voucher leaves a range, enters another and is cached under a
date it no longer has. Three gateway checks let an answer be two clicks old. Of the
sums, 33.33 at 5 % with and without discount, 12 % and 0.25 % round up, down and at the half; one
product per line and two lines make per-rate and per-ledger totals differ. Two labels are one replacement,
with a move, a sale and a shelf scan beside it; the first label is the one that is scanned into a draft, because of two labels
only the first can be replaced. Four moments hold a window, its end, an extension
and a moment after both. The days 89, 90 and 121 stand on both sides of the thresholds of 30 and
90 days and of an expiry date, and two sales of three units are enough for the projection to run short of
stock. A restore has one step of each kind, so one request that may connect or commit
between any two of them and one crash reach every intermediate state.

`OrderlyBatches` is checked with one clerk because it is not true of overlapping requests: a sales return
submitted twice while the serial is sold again in between moves it twice
(compare-and-set sees the status it expects), two scans put one serial into two drafts, and a late
scan breaks the rest. The run says exactly what a single clerk may rely on, `stock_overlap` what everybody may.
In the same way ghosts (`crossed`, `untold`, `apart`, `outdated`, `torn`, `halfway`, the `met` of a restore)
name the overlaps the code does not defend against: the properties say that nothing else goes wrong.

### What was found

Each with a run that TLC refutes:

* A `FAILED` batch may be in Tally: an answer that is not XML counts as a refusal
  (`tally.py:354-357`), while `sync_worker.py:230` calls FAILED confirmed. The
  next retry builds a new payload (`sync_unreadable`).
* A scan checked before a submit and inserted after it puts an item into a submitted
  batch, whose serial is not sold (`inventory.py:244`, `stock_late`).
* A reset that fails leaves the database without the triggers that make the relocation history
  permanent, and every reset fails once a label was printed, because `LabelPrintLog` is missing in
  the list of tables to empty (`database_reset.py:41-64`, `100-104`, `backups_guards`).

Seen while modelling, without a run of their own (the properties leave these cases out, and say so):

* After a failed restore, the new worker may overwrite the payload of a pending batch
  with one built from an older load (`tally.py:391-395`, `443-457`), against the comment at `tally.py:435`.
* A voucher re-dated in Tally makes each refresh of its new date fail on the unique
  constraint, until a range with the old date is loaded (`tally_cache.py:115`).
* The integration guide (`docs/deployment/tally-integration-guide.md:55` and `:83`) says
  that batches become PENDING_SYNC in cases where the worker's selection leaves them SUBMITTED.
* Two scans at the same time can put one serial into two open drafts, which
  `tests/test_inventory.py:120` refuses for scans one after the other.
* A stored rate of zero counts as no rate, so such an item follows the product's default price
  after the submit; discount and tax rate always follow the product.
* A tax rate of 0.25 % is halved and rounded to 0.13 % twice; hence the slack in `CustomerPays`.
* A replacement writes the status and place it has read, so a label sold or moved between that read and the write
  is in stock again under its new number (`replacement.py:57`).
* A label replaced while it waits in a draft gets the place of the shelf QR although it is out of use, and the label in use
  keeps the place from before (`shelf_verification.py:104`, `sale_returns.py:149`); `replacement.py` does not look at drafts.
* A restore that fails while its layout is migrated, or at the second removal of the log, serves the new file
  as it is until the next start (`backup.py:297-300`).
* Two managers can switch each other off at the same time (`users.py:153`); and an account whose
  last assigned company is deleted sees every company (`tally_access.py:160`).
* What a request commits between the safety copy and the replacement of the file is
  lost, in no backup (`backup.py:282`), and a request that connects between the new file and the last
  removal of the log can carry transactions of the old database into the new one (`backup.py:297`).

### Fairness

* `TallySync`: a thread that runs takes its next step (WF); Tally answers or the
  request times out (WF on the four outcomes together: none of them is promised). The
  selection of a batch is strongly fair, because the loop polls for ever and takes batches
  that were never retried first, then the one retried longest ago, so a batch that is due
  again and again is not passed over for ever (`sync_one` has one batch, for which
  this only says that the loop keeps polling); leases and cooldowns end (WF). Nothing is
  assumed of crashes, clicks or settings: `SettlesWhenHealthy` asks only that
  settings are usable from some moment on.
* `RetryWorker`: threads run, requests end (the HTTP timeout), the interval ends,
  `Start` follows `Stop` (the handlers do both in one `try/finally`), a request
  handler that has committed goes on to set the event. `MaxChecks` bounds gateway clicks, because a check is
  always served first: somebody who clicks without end does hold up the rest.
* `TallyJobs`: the worker takes its steps; each row's lease ends (WF per row).
* `GatewayCheck`: each worker takes its steps, its requests end, leases end. Nothing is assumed
  of clicks, polls, crashes, or the start of the second worker.
* `Backups`: the backup worker, a restore, a reset and the start of the program go on, each with WF on
  its own steps. `MaxClicks` bounds restores, resets and saved settings: who stops the worker without end does keep
  it from ever making a backup.

Deadlock is checked, except where the bounded work of an instance ends and then nothing is
left to do: `stock_overlap`, `stock_late`, `trade_serial`, `warehouse_floor`, `companies_office` and
the two runs of `Backups`. `MCTrade` and `MCWarehouse` state safety only, so none of them
needs fairness.

## 4. What is proved

Each theorem is of the component's own specification, or of the general module that puts it
beside others, for every value of the constants that satisfies the named `ASSUME`s: the number
of batches, serials, clerks, workers, threads, companies and faults is not bounded. Three theorems
have a further premise, which says how many people act at one time, because the code does not do
what they say without it (`Alone`, `OneAuditor`, `OneManager` below).

**`TallySyncProofs`, the row.** `TypeCorrect` proves `Typed`: types alone are not inductive, for a
worker that records an answer needs a payload, and that only exists because it came through
`Prepare` under the lock, so `JobOK` and `LockOK` are part of it. `SafetyCorrect` proves
`Safe`, the strengthening of three properties: remote ids belong to their batch
(`Belongs`), the claim is held while a worker is past the compare-and-set
(`ClaimIsHeld`), and no request that Tally could still import is left of a synced batch
(`NothingLeftToImport`). The last is why a stale job cannot disturb a synced row: a
job past the lock has looked at the row since. `ClaimIsHeldCorrect`,
`SyncedIsInTallyCorrect` and the action property `SyncedIsFinalCorrect` follow.
`AttemptTrailCorrect` adds `Trail`: what is on the wire or in Tally was announced by an attempt,
and a worker that posts does so under the last attempt of its batch. None of
these needs `Reliable`: they hold with unreadable answers and two threads.

**`TallySyncProofs`, the voucher.** Under `Reliable` a stronger invariant, `Steady`, is inductive on top of
`Typed` and `Safe`: there is one thread at work; what it has loaded is still what the row
says; the payload it has built is the row's, unless Tally has nothing of the batch; and whatever
Tally holds or may still receive is the row's payload. The step that needs the assumption on
Tally is a refusal: a voucher that is there is altered, not refused, so a refused batch
may be rebuilt. `TallyHoldsFrozenCorrect`, `OneVoucherCorrect` and `FailedIsNotInTallyCorrect` are
consequences, `OneTrueVoucherCorrect` joins them, and `PromiseKeptCorrect` proves the refinement: an import is a `Post`
or leaves the books as they are (the voucher was there already), the last commit of a
synced batch is a `Confirm`, everything else stutters.

**`SubmitsProofs`, the worker.** `OneRequestCorrect` follows from the fact that the thread that asks holds
the lock. `NoLostWakeupCorrect` needs the place of the pass: the event is cleared before
the second pass, so what that pass no longer looks at must have been announced since
(`SecondLook`). This is the argument for clearing the event before looking again rather
than before waiting.

**`SubmitsProofs`, the clerks.** The inductive invariant joins `TypeOK`, what is known of a
request past its validation, `LedgerChains` (each entry starts where the last one ended and the
last ends at the serial's status) and two facts about places: an item is marked as shelved
only with its serial placed, and a serial in stock from a purchase was marked. `LedgerKeptCorrect` is
the refinement of `StockLedger`: every action of every handler is a move of the
abstract ledger or leaves it alone, whatever submits overlap. `OrderlyBatchesCorrect` is about one
request at a time (`Alone`): then what a request has loaded and checked is still so when it
writes (`Undisturbed`), and a draft has moved nothing and has no voucher (`DraftsOK`); section 3 says
which overlaps break it.

**`TallyJobsProofs`** (about `TallyQueues`). `FoundStillHolds` is the invariant that makes the lock worth
having: what a thread has found under it (no active row of its range, room in the queue) is
still so when it inserts, because everything else that can happen meanwhile only
makes the set of active rows smaller. `OneActivePerKey` and `ActiveBounded` follow, and `QueueKeptCorrect` joins the three.
`FreshAsAskedCorrect` needs `Caught`: every row was asked for at a moment of Tally's history, an answer is Tally's book
of one moment since, and once it is stored each date of the range is at least that new. It survives the
refresh of an overlapping range, because only one worker writes and it asks after it claims.
`AnswerIsOwnCorrect`, the safety half of `EveryCheckAnswered`, and the gateway's share of `TypesCorrect`
follow from `OwnCheck`: a value that a worker is going to write over the row is one of the row of its own check,
so a late worker may undo what another has written but never answers another's check.

**`CompaniesProofs`.** A request names a profile that fits what it has loaded (`Fits`): an update one it has seen,
an added company a name it has not seen, a save the active one. A commit that nobody wrote under finds what it
has loaded; then each of the five handlers and the start leave one active profile whose configuration is the one in the
settings. From the states the ghost `apart` excuses, an activation that nobody disturbs leads back.
`SwitchedOnWhenReadyCorrect` needs no history: the gate looks after its own write, in the same transaction.

**`WarehouseProofs`, labels.** What `LabelsAreTrueCorrect` needs beside itself: a label out of use is `INVALID`
(`Retired`), a replacement goes on only with a label that was in use when it looked (`SeenInUse`),
and what a purchase user printed is marked (`PrintMarked`). The core is `Follows`: of a unit that did not cross,
the label in use is one row, so a move, which writes only rows still in use at the place, writes the
unit's only label, and a replacement that finds the row as it saw it retires exactly that one. A shelf scan writes
the label in use of a unit, or leaves the unit `untold`, or knows nothing of it (`ShelveFollows`).
`TypeOK` alone is not inductive: the number of a new unit stays within the bound only because
every unit has a row (`UnitsLabelled`). `LabelHistoryCorrect` follows, since a
replacement of a label already replaced writes what `Retired` says is there, and what else writes a label
out of use is a shelf scan that has loaded it, and its place alone.

**`WarehouseProofs`, audits.** `AuditOK` says that requests are about assignments and batches that exist and that an
assignment has its anchor batch. `FindingsAreTrueCorrect` proves that a finding agrees with the page (`Agrees`) once the batches of its assignment are closed
and unless its reconciliation used a deadline moved meanwhile. It is true of one auditor
(`OneAuditor`): with two requests of auditors at a time one may have checked a scan while the other submits the batch, and the
scan is inserted after the findings were written (`ScanOpen` is the part that fails).
`ReportsAreCompleteCorrect` is true of one manager (`OneManager`): what a report page is not going to write was complete when it looked
and still is (`Refreshing`), because auditors only reconcile with deadlines not later than the present one (`Later`)
and write complete findings once the window is over; another manager's extension, opened in time and committed late,
puts findings that are pending under a deadline that is over. TLC shows both failures when the premise is dropped.
`TypesCorrect` adds the types of `Audit` and `Reports`, where the status of a unit is that of its last row in the ledger (`LastOK`).

**`BackupsProofs`.** Five parts are inductive together. `Sound`: who holds the maintenance lock and how far he is; a folder holds one
file too many for the run that has not pruned yet and one for each fault (`ShelfOK`). `Undoable`: from
its safety copy on, the newest local backup covers what a restore takes away, and pruning never takes the newest. `Chosen`: from the
replacement of the file on, nobody has the new file open who did not meet the old log. `LayoutsOK`:
a column without its index is there only while a layout is migrated that was found without the column. `ServedOK`: what is served,
after a start as after a restore, was migrated, because both end only there and nothing but a migration and a restore changes a layout;
`halfway` says where a restore ended otherwise. Reset, restore,
backup, requests and crashes interleave freely; the ghosts `met` and `torn` carry the two overlaps the code does not exclude.

**`TradeProofs`.** For the accounts, `People`: a request under way was sent by another account than the one it switches off or deletes, so
its sender keeps the right it was opened with unless two of them crossed; a delete knows nothing of its target that has gone since, and
an account that stays in the records does so for its work; the access stored is the access chosen.
For the money, `Money`: what a request has read of an item it is not going to write is still so, unless
another request has written it since (`crossed`); so a commit writes back nothing old over a rate that was typed.

**`SumProofs`.** The sums of `Voucher` and `Reports` are folds, and the library's induction theorems take an operator, which the
provers cannot instantiate. `ByElements` states induction over a finite set with a set of its subsets in place of
the predicate. From it: a sum does not depend on the order, it can be taken by parts, by names or
element by element, and a count is a sum of ones.

**`WarehouseProofs`, reports.** `PagesInv` adds to the types of `Reports` what a ledger says of a unit: its last row says what the unit is
(`LastOK`), a unit that is lost is lost by its last row (`LossIsLast`), and a row's type and reason
agree with the status it leads to (`Told`). Each page counts in its own
way, by ledger rows, by units or by products, so `PagesAgreeCorrect` brings each to the
same set of units. `ProjectionIsExactCorrect` says of the director's expiry projection that selling the earliest to
expire first loses as few units as any order of sale could: no set of
units saves more than the sales of its days allow (`SavesAtMost`), and when those that expire first are given up all
others are saved (`SavesTheRest`). Neither needs a premise. The proof found an error of the model: in `Sleeping` and `MovementStatus` the arms of a `CASE`
overlapped, which TLA+ does not order; they are chains of `IF` now, as in the code.

**`TradeProofs`, sums.** `SumsAgreeCorrect` follows from `Money` and from what `Lines` gives each
line (`LinesOK`): goods and a rate of its own, and either the two halves of the tax or the whole. Every amount
of tax belongs to a pair of a kind of tax and a line (`Pairs`, `Tax`). The workbook posts parts of those pairs by rate, the XML voucher by ledger
(`PostedParts`, `XmlTaxes`, `ExcelTaxes`), so each balances and a ledger gets the same from both; the breakup of the pre-invoice is a third
division, by rate (`ByRate`). What the customer pays follows from the rounding error of one line (`OneTax`, `TwoTaxes`, `LineSlack`) and
from the round-off, which is at most half a rupee (`RoundOffIsSmall`).

What the theorems assume of the modules' constants: `Supported` and `BadLedgers` are
subsets, bounds are numbers, `None` is none of the values it stands beside, batch
types are known, the shelf interval is positive, local backups are always kept, rates and prices are numbers that are not negative or NULL,
items are finitely many and a discount is at most 100 % (`MoneyAssumption`), days are numbers and products and warehouses finitely many
(`PageAssumption`), there is a super admin from the start (`PeopleAssumption`, `bootstrap.py`), the catalogue and the
deliveries of `Reports` are of the known products. TLC evaluates the same assumptions.

Only model-checked is liveness: `SettlesWhenHealthy`, `QueuesMove`, `EveryJobEnds`, `EveryCheckAnswered` but for its safety
half, and `Protected`. Fairness and ENABLED are beyond the prover. Every invariant and every action property of a passing run is stated by a theorem.

## 5. What is left

Plan, the most important first:

1. `TallyJobs` with the second worker thread a failed restore leaves running: a data job whose lease has ended is
   then run twice (`tally_jobs.py:219`).
2. `Backups` composed with Tally's books: after a reset batch numbers start again, and with
   them the identifiers under which Tally knows a voucher (`inventory.py:66`).
3. The first batch of the queue raising an error that is not a `TallySyncError`, which ends the pass for
   those behind it (`sync_worker.py:286`): needs two batches in `TallySync`.
4. `BatchStock` and `QrLabels` over the same serials. The place of a label replaced while it waits in a draft is in `QrLabels`; what
   the submit of such a draft does (`inventory.py:369` refuses an inactive serial) is not.

These four hazards are not covered by a property yet: 1, 2, 3, and the return submitted twice (`inventory.py:369`).

### Not modelled

* Layout: PDF, Excel sheets, labels, charts, amounts in words, text filters. No state, and wrong only to the eye.
* XML as text (`tally_masters.py`, parts of `tally.py`): one call that rearranges strings. What a payload says is in
  `TallySync` (whose it is) and `Voucher` (what it posts); what an answer means in `TallySync`.
* Passwords, lockout and sessions (`security.py`, `auth.py`), and the table of sections per role: sequential code
  that its tests cover.
* Bulk assignment of pre-printed numbers: one transaction that validates a whole sheet.
* Audit batches without an assignment, from older versions; audits with several auditors of one product.
* Tables and columns one by one (`schema.py`): `Backups` has the shape of a migration, not its list.
* Browser code: every rule is enforced again by the server. Installer, scripts, deployment: outside the program.
