# Verification of mediator-service

TLA+ modules, TLC configurations and TLAPS proofs for mediator-service: a
Node.js server over PostgreSQL that keeps a warehouse of refurbished IT parts
(items in boxes on shelves), has language models ("agentic runs") fill in what
is known about an article, prints labels, exchanges CSV files with an ERP, and
serves a React application to the people in the warehouse. Paths start
at `src/`, the repository's root; `index.ts` is `src/backend/agentic/index.ts`, `db.ts` is
`src/backend/db.ts`.

    tlc -config one_row.cfg MCAgenticRuns      # any run of section 3
    tlapm AgenticRunsProofs.tla                # any *Proofs module

## 1. The system

### Components, their state and their operations

| Component | State | Operations | Module |
|---|---|---|---|
| Agentic run orchestration (`index.ts`, `db.ts`) | table `agentic_runs`: Status, LastAttemptAt, SearchQuery | dispatcher tick (stale recovery, over-cap requeue, claim, schedule, feed, contract audit), background invocation, un-awaited updates | `AgenticRuns` |
| Dispatcher interval, startup resume (`server.ts`) | whether a tick is under way | serialised interval, `resumeStaleAgenticRuns` | `AgenticRuns` |
| Operator actions on runs (`actions/agentic-*.ts`) | what a request has read | start, restart, cancel, review, close, bulk queue, bulk restart, trigger failure, remove a search link | `AgenticRuns`, `Catalog` |
| Invoker, item flow, result handler (`agentic/invoker.ts`, `flow/*`, `result-handler.ts`) | one invocation's contexts, attempts, candidate, result | load, plan, search, extract, correct, categorise, price, judge, dispatch, store | `ItemFlow`, `Invocation` |
| Item text, snapshots, export gate (`save-item`, `agentic-status`, `export-items`, `sync-erp`) | reference row, run row, snapshots, staged file, ERP | save, review, restore, capture and prune, export, mark | `Catalog` |
| Connection pool and transactions (`db-client.ts`) | ten connections, row locks of PostgreSQL | `withTransaction`, `query`, `execute` | `PooledTransactions` |
| Items, boxes, stock (`add-item`, `remove-item`, `move-*`, `bulk-*`, `clear-item-location`, `delete-entity`, `create-box`) | tables `items`, `boxes`, `events`, sync jobs | one handler each | `Inventory` |
| Id minting (`create-box`, `add-item`, `itemIds`) | ids in `boxes` and `items` | read the maximum, look up, upsert, retry | `IdMinting` |
| Item creation (`ItemCreate.tsx`, `import-item.ts`, `material-number.ts`) | a wizard per tab; references, pieces, runs | the steps of the wizard, submission, the server's handler | `Creation` |
| Label queue, print worker, direct printing (`print*.ts`, `labelpdf.ts`, `workers/process-label-queue.ts`) | `label_queue`, CUPS | queue, claim, recover, print, mark | `Printing`, `JobContract` |
| CSV inbox (`csv-import.ts`, `importer.ts`, `server.ts`) | the inbox directory, items, boxes, references, runs | upload, watch, ingest row by row, archive, take runs, export and restore a backup | `CsvInbox` |
| Devices and their parts (`in-device-components.ts`, `graduate-component.ts`, `catalog-spare-part`, `remove-from-device`, `item-relations`, `move-item`, `remove-item`) | `items`, `item_relations`, `item_refs`, compatible articles | scan, record, take out, move, unlink, remove the device, mark the donor | `Assemblies` |
| Shop queue and its worker (`queueClient.ts`, `processShopwareQueue.ts`) | `shopware_sync_queue`, the batches of overlapping runs | enqueue, claim, dispatch, write the outcome, retry | `ShopwareQueue`, `JobContract` |
| Box page (`BoxDetail.tsx`, `RelocateBoxCard`, `AddItemToBoxDialog`) | the box shown, its items, loads, handlers | load, save notes and photo, relocate, add, remove | `BoxDetail` |
| Assembly card (`ZubehoerCard.tsx`, `ItemAccessoriesTab`, `SparepartSlotPopup`, `RelocateItemCard`, `quality-review`) | parts and answers shown, the popup, handlers | load, record, take out, unlink, answer | `SparePartSlot`, `SlotAnswers` |
| Item page and dialogs (`ItemDetail.tsx`, `PanelContext`, `Layout`, `DialogProvider`) | pages, the panel, handlers under way, the dialog queue | loads, neighbour look-ups, every command | `ItemDetail` |
| Item list and bulk bar (`ItemListPage.tsx`, `BulkItemActionBar.tsx`) | rows, filter, selection | loads, ticks, bulk commands | `ItemList` |
| Placement scan (`PlacementScanView.tsx`, `QrScannerPage`) | history entries, confirmed set in sessionStorage, answers awaited | scan, confirm, skip, move, finish, take out what was not scanned | `Placement` |
| Cancellation registry, CUPS administration, search and read actions, configuration, the remaining pages | | | not modelled (section 6) |

`PROJECT.json` lists every part with its sources, how far it is modelled and
what is left out.

### How the parts interact

Everything meets in PostgreSQL. One Node.js process runs handlers, the
dispatcher interval, background closures, the print worker and the inbox
watcher on one event loop, so code between two `await`s is atomic and
everything else interleaves. Handlers read a row, return early on what they
read, and write later. The dispatcher claims rows in one SQL statement and
starts one closure per row that outlives the tick; some updates are started and
never awaited. `withTransaction` gives its callback a client, but the helpers of
`db.ts` send their statements through the pool: each is a transaction of its own
on a second connection, whatever becomes of the first. In the browser the same
holds for renderings: a handler keeps the items of the rendering it was started
on across dialogs and requests.

### What is hard, and what correct means

* **Runs.** Dispatcher, task, operator and un-awaited update write one row, all
  unconditionally by key. Correct: the claim keeps to the slots; a settled run
  stays settled until an operator says otherwise; no row is left running for
  nobody, not after a crash either; the backlog empties.
* **One invocation.** One counter of attempts serves schema corrections, search
  requests and source contexts. Correct: the work is bounded, what is stored is
  what was judged with the newest source, the answer tells what was stored.
* **Texts and the ERP.** Reviewed state and text are written by separate
  statements, and whole rows are written back over what was read before (the
  export reads both with one SELECT). Correct: what no human looked at reaches the ERP only
  through named races; the newest snapshots survive pruning.
* **Pool.** Transactions hold one connection and wait for another. Correct: no
  connection is lost or shared, no lock outlives its transaction, answers tell
  the truth, every request is answered.
* **Inventory.** Reads before awaits, statements committed one by one, a batch
  that goes on after its request was answered. Correct: stock is never
  negative, no piece vanishes unbooked, no item lies in a missing box.
* **Ids and creation.** Highest ids and numbers are read long before they are
  written. Correct: nothing that was there is written over; pieces, reviews and
  runs belong to the device they were entered for.
* **Files.** A file is ingested again after a crash, a second upload or a
  restore. Correct: nothing is added twice, archived means landed, the inbox
  drains.
* **Labels.** Overlapping workers, claims that age, attempts cut off. Correct:
  done means printed, and every page has a reason.
* **Devices.** A part lives in two tables, and requests about one device read one
  and write the other. Correct: removing a device loses no part that was taken
  out, except by a race; a device whose part is gone is marked.
* **Shop.** Runs of the worker overlap and the updates of rows are not awaited.
  Correct: a job is in one hand, and is given back only by a retry.
* **Browser.** Answers in any order. Correct: a page shows what its address
  says, a dialog answers the handler that asked, a command names what the
  operator saw.

`PROJECT.json` "hazards" lists each of these at its line with the properties
that watch it, or why none does.

## 2. The modules

Conventions. One SQL statement is one step; what a caller read before an
`await` is local state of that caller; an update of a missing row changes
nothing; operators keep the source's function names (`claimQueuedAgenticRuns`
is `ClaimQueued`, `handleConfirm` is itself). Definitions introduced as "wrong
variant" stand beside the one they vary and are used by no action: each is a
plausible bug that the properties must notice. `MC*` modules only add symmetry
sets, and the functions and sets a `.cfg` cannot write (`CsvFiles` holds the files
of two runs). `MCCreation` and `MCWarehouse` also put modules that share no state
side by side, a behaviour running through one of them. `MCCreation` does so for
`Creation`, `Placement` and `CsvInbox`, `MCWarehouse` for seven: it EXTENDS
`Catalog` and `MintedIds` (so that the assumptions on their constants are
evaluated), states the assumptions of the others again, and instantiates them, each
over variables of its own, which are 0 while another flow runs; the states are
those of the seven modules, one after the other.

### AgenticRuns

`status`, `attempt`, `query` are the columns of the row (LastAttemptAt is NULL,
within the ten minutes of STALE_RUN_TIMEOUT_MINUTES, or older). `disp` and
`held` are the tick: where it is and the rows it read. `task` are the closures
of `scheduleAgenticModelInvocation`, `late` the updates nobody awaits, `req`
operator requests between read and write, `resuming` and `booted` the startup.
`revived` is history: rows made running by a write other than the claim.

| Action | Code |
|---|---|
| `Tick`, `RecoverStale` | `dispatchQueuedAgenticRuns`, `index.ts:1135-1184` |
| `SelectOverCap`, `RequeueOverCap` | `index.ts:1186-1239` |
| `ClaimQueued`, `ScheduleClaimed`, `FeedWaiting` | `index.ts:1242-1404`, `db.ts:2304-2385` |
| `SweepIsDue`, `StampCandidates` | the contract audit, `index.ts:1405-1518` |
| `PromotionRead`, `PromotionWrite` | guard and write of `runInBackground`, `index.ts:849-937` |
| `RecordResult`, `NotificationSucceeds`, `NotificationFails` | `result-handler.ts`, `result-dispatch.ts` |
| `InvocationFails`, `AutoCancelAfterFailure` | `invoker.ts:883-1032`, `index.ts:945-1054` |
| `ReadRow` and the request writes | the actions and `index.ts:1532-2275` |
| `ListStale`, `ResumeOne` | `resumeStaleAgenticRuns`, `index.ts:2345-2453` |
| `DispatchFault`, `TaskFault`, `RequestFault`, `Crash`, `Age` | failing statements, process end, time |

Two facts about the code shape the module. `fetchRunningCount` and
`fetchStatusCount` test `Number.isFinite` on what `COUNT(*)` returns, which is a
string in node-postgres, so both answer 0 whatever the table holds: the caps
computed from them are not caps, and only the clamp inside the claiming
statement holds. And `updateAgenticRunStatus` without a Status fails, because
the column is NOT NULL: the clearing after a rejection never takes effect.

Abstractions: the order in which queued rows are claimed is left open (the code
orders by LastModified); NextRetryAt is always null in this code; identical
un-awaited updates in flight merge; an attempt ages only while its row runs. The
reset of a run is not an action here: it never completes (`PooledTransactions`).
A rejected un-awaited update is an unhandled rejection and ends the process:
`Crash`.

### ItemFlow and Invocation

One call of `AgenticModelInvoker.invoke`. `pc` is the stage; `contexts`,
`cursor` and `read` are the source contexts, the one in the prompt and those
that were in one; `attempt`, `turns` and `calls` count attempts, prompts and
model calls; `version` and `judged` are the accumulated candidate and the
verdicts on it; `result`, `request`, `links`, `reference`, `row`, `lastError`
and `answer` are what is dispatched and stored. Models, searches and statements
may answer anything the code tells apart. Text (prompts, cleaning, JSON
parsing) is left out: an answer parses or it does not.

`Invocation` is what the orchestration builds on: at most one result is stored,
ok is said only of a stored one, and an answer comes. `ItemFlow` implements it
under the mapping `Contract` at its end.

### Catalog

One article under several invocations, human requests and an export. A version
of its text is a number; `human`, `cleared` and `late` are history (versions
written by a human, standing when the article was decided, or put there by a
late writer). `log` and `kept` are the snapshots and those not pruned, `marked`
is the published mark, `erp` what the ERP was given. Every request is the list
of statements its handler still has to send (`todo`) with what it read.

### PooledTransactions

A request is a script of statements, each sent through the client (`ByClient`)
or the pool (`ByPool`), and `Tried` where its error is caught: `logEvent` and
`runUpsertBox` swallow their own, the handlers that of the job for the shop.
Six scripts stand for the callbacks of the code: `pooled` (helpers of `db.ts`
only), `created` (`create-box`: a new box whose error is swallowed), `mixed`
(`move-box`, `move-item`: a client statement and the log), `removal`
(`remove-item`: the stock by a helper, the parts through the client, the log),
`client` (`graduateComponent`, spare parts) and `reset` (`deleteAgenticRun`: a
client statement and a pooled one on the same row). An error goes to the catch
around the statement or to that of `withTransaction` (`Throws`), whether the
statement failed, its answer was lost after it was stored, or no connection came.
COMMIT may fail in both ways too. A wait for a connection ends by
connectionTimeoutMillis; a wait
for a row does not end by itself (no lock or statement timeout is set), and
PostgreSQL sees no deadlock because the second wait is in Node.js.

### Inventory

`rows`, `qty`, `box`, `place` are the items, `boxes` and `shelf` the boxes;
`ledger` is the stock according to the events and sync jobs; `req` the requests.
A handler is a read step, a step that changes rows, and a booking step, since
the helpers commit one by one. `bulkRemoveItemStock` goes on in the background
(op `background`) after its request was answered; a batch that meets a missing
item rejects without anyone to catch it: `RejectBatch` ends the process. Box
and location are two columns and the code keeps them apart: `move-box` changes
the box only, a bulk move writes null (it reads a column that does not exist),
deleting a box sets BoxID null and leaves Location.

Abstractions: the relations of parts are in `Assemblies`; the validating reads of one
request are one step; log inserts and sync jobs that fail and are swallowed are in
`PooledTransactions`, a new box that is not stored and answered ok too; ids
are fresh (`IdMinting`).

### IdMinting

`taken` are the ids with a row. Minted box ids carry a day and a number that
goes on across days; scanned ids may have letters in their date or number part.
`VisibleBoxes`, `CastFails` and `BoxNumbers` are the SQL pattern, the cast and
the regular expression that reads the result, `ItemNumbers` the same for items,
where numbers beyond `MaxSeq` (9999) do not parse. `since` is history: what
existed when a request came. Shelf ids and component ids are not modelled. The
constants, their assumptions and the forms of ids are in `MintedIds`.

### Assemblies

`rows`, `ref`, `box`, `relation`, `slot` and `scanned` are the parts (the row in
`items`, whether its id is the provisional one or was minted for an article,
where it is, its relation to the device, the slot and serial), `refs` and
`compat` the articles, `incomplete` the mark of the device. `req` is a request
between its statements: what it read, what it still has to do, and whether
another request placed one of its parts meanwhile (`overtaken`). `excused`,
`lost` and `doubled` are history. `LostOnlyByRace` says that a part that had been
taken out is deleted with its device, or loses its origin, only by a request that
was overtaken; `DonorMarked` that a device with a part outside is marked
incomplete or is about to be, unless a request was refused that, failed, a
review set the mark anew, or a part got the id of a deleted one that a move had
read before (`Mistaken`: the move looks at the parent of the deleted part, so it
puts the new one elsewhere without a mark).

### ShopwareQueue

`status`, `retries` and `due` are the columns of a job, `batch` what overlapping
runs of the worker have claimed and not dispatched, `writes` the updates they do
not await. `Crash` loses both, and no statement recovers the rows. The module
implements `JobContract` like the label queue, so that both queues promise the
same. The server does not start the worker at this commit; it is modelled as
written.

### BoxDetail, SparePartSlot, SlotAnswers

Three components of the browser with what the server stores of them. `page` (or
`shown`) is what the component shows, `load` or `fetch` the loads under way, each
with what it read, `task` the handlers between dialog, request and answer, and
others may change the rows (`foreign`). What is shown carries whether the
operator could have known better (`fresh`), which is what the properties turn
on: without it each of them is false, since any page may be out of date.
`BoxDetail!NotesOnlyBySave` says that the notes of a box change only by saving
them; the run `relocation` shows that moving the box erases them.

### Creation

`wizard` is the state of each `ItemCreate` component (step, device in the
operator's hand, chosen reference, drawn number, count, the review it keeps),
`sub` the submission the server works on, `refs`, `pieces`, `article`, `rating`
and `run` the tables. The server resolves the reference, plans, stores one
piece per statement and seeds the run; any statement may fail and any answer may
be lost (`MaxFaults`). `judged`, `chosen`, `wanted`, `spoiled`, `drawing` and
`overlaps` are history and say when a mix-up is explained.

### Printing and JobContract

`status` and `claim` are a row of `label_queue` and the age of its claim,
`worker` the overlapping runs of the worker (its interval does not wait for it),
`writes` its un-awaited status updates, `direct` a request to print at once,
`pages` what CUPS has put on paper and `doubts` the calls of lp that were cut
off after the page may have been sent. Nothing in this commit fills the queue
(`ops/30-queue-label.ts` returns early): `QueueLabel` is what code outside may do.
`JobContract` is the abstract queue: a job waits, is held, may be given back,
and ends once.

### CsvInbox

`content` are the uploaded files, `place` where each is, `imp` how far its
ingestion is, `pending` and `lost` the statements sent but not awaited and those
that failed, `items`, `boxes`, `refs`, `runs` the tables. A file that is read
again (crash, second upload, repeated watcher event) starts at its first row;
minting starts at 1 per file. `Export` writes a backup of the tables, one statement
each, to be uploaded like any file; its rows are ordered by the rank of each item
among those listed.

### ItemDetail, ItemList

`pages` are the panel's page and the route's page (address, item, run,
neighbours, loads under way), `tasks` the handlers under way with the items
their rendering named (`named`) and the items it showed (`asked`), `queue` the
dialogs, `list` rows, filter and selection. `ItemList` EXTENDS `ItemDetail`: one
browser tab. The server is the environment and answers loads in any order.

### Placement

`entries` is the browser's history of the flow, with what a return from the
scanner carries; `view` and `scanner` the mounted components; `requests` what
was asked and not answered, with whether its component still lives; `scanned`
the confirmed set in sessionStorage; `where` the things. `anew` and `walk` are
history.

## 3. The runs

| Run | Module | Checks | Bounds |
|---|---|---|---|
| `one_row` | AgenticRuns | `SettledDurable` | 1 run, all eleven requests, 2 tasks, 1 late update, 1 fault, 1 crash |
| `drain` | AgenticRuns | `CapAccounted`, `RunningIsOwned`, `BacklogSettles` | 2 runs, 1 slot, 1 task, restarts, 1 fault, 1 crash |
| `flow` | ItemFlow | `JudgedWithNewest`, `StoredAsJudged`, `ImplementsInvocation` | 3 attempts (the code's default), 2 planned searches |
| `pool` | PooledTransactions | `PoolPartitioned`, `LocksEnd`, `OutcomeFaithful`, `AllAnswered` | 4 requests of 4 kinds (removal, pooled, client, created) that all write one row, 2 connections; 172,000 states. `mixed` is a removal without its first statement, `reset` is in `reset_hangs` |
| `stock` | Inventory | `NoUnbookedLoss`, `BoxReferences` | a bulk item of up to 2 pieces and an instance, 1 box, 1 shelf, 2 requests of any kind, 1 restart |
| `creation` | Creation, Placement, CsvInbox | `ForeignReviewOnlyAfterSkip`, `SharedOnlyByRace`, `CountedAsAsked`, `ArticleHasRun`; `ConfirmedStays`; `InboxTyped`, `ArchivedRowsLand` | 2 tabs, 2 devices, 3 articles, up to 2 pieces, 1 failure; 2 things, 3 history entries, 2 open requests; 3 files (two of one name, a backup), 2 ingested at once, 2 pending statements, 1 crash or fault; 3.8 million states |
| `labels` | Printing | `DonePrinted`, `PagesExplained`, `ImplementsContract` | 1 row, 2 overlapping workers, 2 attempts, 1 claim that ages, 1 fault or crash |
| `inbox` | CsvInbox | `ReimportAddsNothing`, `InboxDrains` | 4 files (two of one name, an archive without items, a backup), 2 ingested at once, 2 pending statements, 1 crash or fault; 1.0 million states |
| `warehouse` | IdMinting, Catalog, ShopwareQueue, Assemblies, BoxDetail, SparePartSlot, SlotAnswers | `TypesOK`, `KnownIdsSafe`; `EscapedOnlyByRace`; `InOneHand`, `SyncKeepsContract`; `LostOnlyByRace`, `SerialTwiceOnlyByRace`, `DonorMarked`; `PlaceUndoneOnlyUnseen`, `RestShowsStored`; `DoubledOnlyUnseen`; `AnswersKept` | 2 requests; 2 ids, numbers to 2 of which only 1 parses, 2 days; 2 invocations, 1 request, 1 export, 1 snapshot kept; 3 jobs, batches of 2, 2 runs, 1 retry; 2 parts, 4 requests in all, 2 articles; a box and a shelf, 3 clicks, 1 change by others; 1.3 million states |
| `browser` | ItemList, ItemDetail | `ShownBelongs`, `AnswersReachTheAsker`, `BulkNamesListed` | 2 items, 1 filter, 2 handlers under way; 1.8 million states |
| `reset_hangs` | PooledTransactions | `ResetEnds` is violated, under fairness | a reset and a start of one run |
| `relocation` | BoxDetail | `NotesOnlyBySave` is violated | a box, a shelf, one note |

Type invariants that are proved (section 5) are not checked again, except
`TypesOK`, which covers the seven modules of `warehouse` at once, and `InboxTyped`,
the `TypeOK` of `CsvInbox`, which says how ingestions, files and tables fit together.

What they show:

* `SettledDurable`: a run that failed, was cancelled, rejected, approved or sent
  to review changes only by an operator's write, once nothing that started
  before is still about it. A task that has not passed its promotion guard may
  exist: it will see the status and stop. This is how durable a cancel is; a
  task past its guard does overwrite it with its result.
* `CapAccounted`: the claim keeps to MaxRunning counting all rows that no other
  write has put back to running. Without `revived` it is false: a promotion that
  lands after a restart and a claim of another row puts a second row into the
  only slot.
* `RunningIsOwned`: as long as no statement has failed, a running row that was
  attempted has a task, the claiming tick, or the startup resume to move it on.
  It is a statement about instances that neither seed runs nor remove search
  links: a removal writes back the status it read over a finished run, and then
  only the ten-minute recovery frees the row.
* `BacklogSettles` (liveness) is conditional: if from some moment on no operator
  request is in flight, then from some moment on every run with a SearchQuery is
  settled.
* `WorkBounded` (a theorem, no run): the loop has no ceiling of its own on context
  passes; attempts and contexts found first bound the prompts and calls, because
  every branch uses up one or the other. `JudgedWithNewest`: no candidate is judged that was made
  without the newest context. `StoredAsJudged`: a failed side step never lets
  another version through, and `auto_approved` needs a pass with categories.
* `EscapedOnlyByRace` (`OnlyRacesEscape` of `Catalog`): what the gate in front of the ERP lets through unreviewed is
  exactly what the named races explain. `RecentAreKept` (a theorem, no run):
  insertion and pruning are two statements; captures and restores at once still keep the newest.
* `OutcomeFaithful`: ok means everything the request needs is stored; the log, the
  job for the shop and a new box are only tried, and ok is answered without them.
  Error means that nothing ROLLBACK can take back is stored (what helpers
  committed stays: that is how the code is built), or that COMMIT was sent and
  only its answer is missing, and then all that is needed is. The log, sent last
  and past any ROLLBACK, never stands over a needed change of a helper that was
  not made. `CatchAll`, a helper that swallows what the request needs, breaks it.
* `AllAnswered`: transactions hold a connection and wait for a second, and both
  connections may be taken that way; the timeout ends it.
* `NoUnbookedLoss`: the books may show less than the stock, never more, until a
  restart cuts a request in two. Two removals that read the same last piece are
  both booked and one piece leaves, which is why this is an inequality.
* `BoxReferences`: the foreign key and the early returns together; `TypeOK` of
  Inventory contains that stock is a natural number under every interleaving.
* `KnownIdsSafe`: no request is about to write an id that already had a row when
  it came and still has. Two requests that came at the same time may still take
  one id, and the second upsert then writes over the first.
* Creation: a device carries another one's review, two new devices share an
  article, pieces are missing or doubled, or an article has no run only for the
  reasons the history variables name: a skipped step, two draws at once, a
  failure.
* `ConfirmedStays`: what was confirmed to be in the box is not offered for removal
  later, unless the operator emptied the set on the way (`anew`).
* `LostOnlyByRace`, `SerialTwiceOnlyByRace`, `DonorMarked`: see the module; a scan
  that is repeated adds nothing, two scans at once may.
* `InOneHand`, `SyncKeepsContract`: the claim by one statement keeps a job in one
  batch or one outcome, and a job that ended does not come back.
* `PlaceUndoneOnlyUnseen`, `RestShowsStored`: a saved note carries the place the
  page last loaded, and a late load may show an older box; both happen only where
  something was still under way, an answer was lost or others changed the box.
  `DoubledOnlyUnseen` says the same of the parts of a slot.
* `AnswersKept` is about each question by itself. The sheet is posted whole, and
  the answer to one question must not disturb the others: refused, lost or crossing
  answers and reviews by others unsettle their own question only (`unsettled`), and
  the next answer to it, given alone, stored and told, settles it again. Answers
  given before the sheet was loaded, or after the load failed, unsettle all. What it
  does not promise follows from the code: a review stored without its reply reaching
  the card is overwritten by the next answer, to whichever question.
* `DonePrinted`, `PagesExplained`: done is never said of what CUPS did not get,
  and two pages of one label need two claims or a call that was cut off.
* `InboxTyped`, `ArchivedRowsLand`, `ReimportAddsNothing`, `InboxDrains`: see section
  1, Files. The importer does not wait for its writes, so a file is archived while
  some are under way; that none is forgotten is `ArchivedRowsLand`.
* `ShownBelongs`, `AnswersReachTheAsker`, `BulkNamesListed`: see section 1,
  Browser; a route's page that moved to another address is excepted, because it
  is not keyed and does show the item before.

Bounds. Rows of `agentic_runs` touch each other only through the number of
running rows, so two rows and one slot show every claim and requeue; two tasks
are the fewest that meet on one row. One crash and one fault at any step reach
every recovery path. In `pool` two connections are the fewest on which every one
is held by a transaction that needs one more, of different requests, and four
requests leave two that wait for their first; a removal among them has statements
of all three sorts. Two
requests, tabs, workers, handlers are the fewest that race; two pieces tell the
last one from the one before; `MaxDrift` stops removals once books and stock are
one apart, so that the books stay in a finite range. In the minting of `warehouse` the number 2 stands for the first with five digits
(`MaxSeq` is 1), and two days restart the count. An export of `warehouse` that has
read the article goes on alone and ends the behaviour (`Describe`): nothing others
do by then changes what it gives away, and it saves the states that would repeat
all the others with another ERP. The flows of `warehouse` use the same model
values for requests, parts and places, so the symmetry of the three sets is one
of eight permutations. `KeepRecent` is 1 where the code keeps 4: pruning
compares positions only, and the theorem covers every bound. In `flow` the
contexts need no bound of their own, since attempts bound the searches. What the
bounds leave open the proofs close, for the properties they cover.

Deadlock is checked where the system may never stop (the pool, the inventory, the
labels); a run table with everything settled, a day of minting with the highest
numbers used up, an answered invocation or an empty inbox may stop.

Fairness. `AgenticRuns`: the interval of `server.ts` keeps firing and each
awaited statement returns (weak fairness of the tick, of each task, of un-awaited
updates and of the resume), and time passes (`Age`). `PooledTransactions`: a wait
for a connection is granted or times out; PostgreSQL serves the waiters of a row
lock in turn, so a statement that is enabled again and again is executed (strong
fairness); COMMIT and ROLLBACK return. `ItemFlow`: models, searches and PostgreSQL
answer or time out. `Printing`: the intervals fire, PostgreSQL answers, lp ends or
is killed, claims age. `CsvInbox`: the event loop goes on while there is anything
to do. Requests, uploads, faults and crashes owe nothing. `Catalog`, `Inventory`,
`IdMinting`, `Creation`, `Placement` and the browser are checked for safety only.

## 4. Where code and documents disagree

`reset_hangs` and `relocation` each check one promise of the documents and find it
broken; both are quoted in `PROJECT.json` "findings". In the first, resetting a run
waits for itself (`index.ts:1841`, `src/docs/detailed/agentic-basics.md:107`). In the
second, a box is relocated from its page: `RelocateBoxCard` sends no notes,
`move-box.ts:300` reads none as an empty string, and the notes of the box are gone
(`src/docs/detailed/boxes.md:110` names location and label as what `move-box` changes).
Met while modelling and visible in the
modules, without a run of their own:

* Runs. A cancelled run is overwritten by a task past its guard
  (`src/backend/agentic/README.md:37` calls an operator stop durable).
  `removeAgenticSearchLink` writes back the status it read (`index.ts:2005`). Two
  starts pass the same existence check (`index.ts:1587`). The over-cap requeue
  takes a row whose task lives (`index.ts:1209`). More rows than slots can be
  running (`src/backend/server.ts:564` says never). The feeder's MAX_WAITING_RUNS
  is never reached. A run seeded as running is failed as timed out (`index.ts:1135`).
  The clearing of a rejected run always fails (`agentic-status.ts:811`).
* Result. A rejected result is stored as failed where `src/docs/detailed/item-flow.md:63`
  says review (`result-handler.ts:560`).
* Catalog. The approved snapshot is pruned like any other (`db.ts:2199`,
  `src/docs/changelogs/agentic.md:44-50`).
* Pool. Most transactions are not rolled back (`src/docs/ARCHITECTURE.md:51`).
* Inventory. Two removals of one last piece are both booked (`remove-item.ts:58`);
  the two places of a location differ after move-box and bulk moves
  (`src/docs/detailed/boxes.md:68`); a box may be filled between the look and its
  deletion (`delete-entity.ts:64`); a batch with a missing item ends the process
  (`bulk-delete-items.ts:182`, `src/docs/detailed/items.md:109`).
* Ids. Two concurrent create-box requests may get one id; a scanned id with
  letters in its number makes every later create-box fail (`db.ts:1587`); a box
  whose upsert failed is answered as created.
* Devices. An id is minted from the largest number in use, so the id of a deleted
  part is given again; a move that read the deleted part moves the new one
  (`move-item.ts:40-60`) and leaves its device unmarked.
* Creation. Skipping the quality step posts the review of the device before
  (`ItemCreate.tsx:1564`, `src/docs/changelogs/item-lifecycle.md:89`). Another unit of
  an approved article restarts its finished run through the form with AI
  (`agentic-trigger.ts:170-222`). A lost answer and a second submission double the
  pieces (`import-item.ts:1494`).
* Placement. "Fertig" goes back one history entry, which is the scanner and not
  the box as `src/docs/PLANNING_INVENTORY_ACTIONS.md` says ("Loop exit"); the same
  document says no sessionStorage is needed; after the list of the unscanned was
  closed, closing again offers every thing of the box for removal.
* Browser. Neighbour ids written into the address by the list stay when the panel
  goes on (`src/docs/RECENT_HIGHLIGHTS.md:126`); `src/docs/detailed/items.md:111` names
  `/adjacent`, which the application does not call; a late bulk success clears a
  newer selection; the modal of an unmounted page never resolves.
* Files. A row with the id of unit 1 and several pieces mints its own id for the
  second, so one is lost. Backups export unapproved items as unpublished
  (`export-items.ts:934`) and lose in-device components, zero-stock items and
  orphan references, where `src/docs/changelogs/erp-sync.md:8` says complete.
  `strictImport` is registered and never passed on (`csv-import.ts:448`,
  `src/docs/detailed/erp-sync.md:61`). Deferred runs are skipped and their file
  removed when the article did not land (`importer.ts:2061`). Un-awaited writes
  (`importer.ts:1227`, `:1413`, `:1697`) end the process when rejected.
* Labels, ERP. Nothing queues labels; the nightly post to the ERP sync carries
  articles where the handler demands item ids (`server.ts:613-666`,
  `sync-erp.ts:49-65`) and is always refused.

## 5. The proofs

All theorems hold for every value of the constants, from the assumptions named in
the modules only (sets of names disjoint from the null values, bounds that are
natural numbers, sets that are counted are finite, uploads made of rows whose
articles, ids and boxes are those of the instance).

| Theorem | States |
|---|---|
| `AgenticRunsProofs!TypeCorrect` | `Spec => []TypeOK` |
| `AgenticRunsProofs!CapHolds` | `Spec => []CapAccounted` |
| `AgenticRunsProofs!SettledStays` | `Spec => SettledDurable` |
| `AgenticRunsProofs!OwnersKept` | `Spec => []RunningIsOwned` unless "seed" or "unlink" are among `Requests` |
| `PooledTransactionsProofs!TypeCorrect` | `Spec => []TypeOK` |
| `PooledTransactionsProofs!ConnectionsNeverLost` | `Spec => []PoolPartitioned` |
| `PooledTransactionsProofs!RowsReleased` | `Spec => []LocksEnd` |
| `PooledTransactionsProofs!AnswersTrue` | `Spec => []OutcomeFaithful` |
| `InventoryProofs!StockNeverNegative` | `Spec => []TypeOK` |
| `InventoryProofs!BoxesExist` | `Spec => []BoxReferences` |
| `InventoryProofs!LossesAreBooked` | `Spec => []NoUnbookedLoss` |
| `ItemFlowProofs!TypeCorrect` | `Spec => []TypeOK` |
| `ItemFlowProofs!WorkIsBounded` | `Spec => []WorkBounded` |
| `ItemFlowProofs!NewestIsRead` | `Spec => []JudgedWithNewest` |
| `ItemFlowProofs!StoredIsJudged` | `Spec => []StoredAsJudged` |
| `ItemFlowProofs!KeepsContract` | `Spec => Contract!Safe` (of `Invocation`) |
| `PrintingProofs!TypeCorrect` | `Spec => []TypeOK` |
| `PrintingProofs!DoneIsPrinted` | `Spec => []DonePrinted` |
| `PrintingProofs!PagesHaveReasons` | `Spec => []PagesExplained` |
| `PrintingProofs!QueueKeepsContract` | `Spec => Contract!Safe` (of `JobContract`) |
| `WarehouseProofs!TypeCorrect` | `Spec => []TypeOK` (of `Catalog`) |
| `WarehouseProofs!GateLeaksByRaces` | `Spec => []OnlyRacesEscape` (of `Catalog`) |
| `WarehouseProofs!RecentSurvive` | `Spec => []RecentAreKept` (of `Catalog`) |
| `WarehouseProofs!WarehouseTyped` | `MCSpec => []TypesOK` |
| `WarehouseProofs!EscapesAreRaces` | `MCSpec => []EscapedOnlyByRace` |
| `WarehouseProofs!KnownIdsAreSafe` | `MCSpec => []KnownIdsSafe` |
| `WarehouseProofs!JobsInOneHand` | `MCSpec => []InOneHand` |
| `WarehouseProofs!SyncImplementsContract` | `MCSpec => SyncKeepsContract` (of `JobContract`) |
| `WarehouseProofs!LossesAreRaces` | `MCSpec => []LostOnlyByRace` |
| `WarehouseProofs!SerialsTwiceAreRaces` | `MCSpec => []SerialTwiceOnlyByRace` |
| `WarehouseProofs!DonorsAreMarked` | `MCSpec => []DonorMarked` |
| `WarehouseProofs!PlacesUndoneUnseen` | `MCSpec => []PlaceUndoneOnlyUnseen` |
| `WarehouseProofs!RestIsTruth` | `MCSpec => []RestShowsStored` |
| `WarehouseProofs!DoublesUnseen` | `MCSpec => []DoubledOnlyUnseen` |
| `WarehouseProofs!AnswersStay` | `MCSpec => []AnswersKept` |
| `CreationProofs!TypeCorrect` | `Spec => []TypeOK` |
| `CreationProofs!ReviewsBelong` | `Spec => []ForeignReviewOnlyAfterSkip` |
| `CreationProofs!PiecesCounted` | `Spec => []CountedAsAsked` |
| `CreationProofs!SharingIsARace` | `Spec => []SharedOnlyByRace` |
| `CreationProofs!ArticlesHaveRuns` | `Spec => []ArticleHasRun` |
| `CreationProofs!ConfirmedIsKept` | `MCSpec => []ConfirmedStays` (of `Placement`) |
| `CreationProofs!InboxIsTyped` | `MCSpec => []InboxTyped` (of `CsvInbox`) |
| `CreationProofs!ArchivedIsLanded` | `MCSpec => []ArchivedRowsLand` (of `CsvInbox`) |
| `ItemListProofs!ItemsStayOnTheirPages` | `Spec => []ShownBelongs` |
| `ItemListProofs!DialogsAreAnsweredByTheirAsker` | `Spec => []AnswersReachTheAsker` |
| `ItemListProofs!BulkCommandsNameRows` | `Spec => []BulkNamesListed` |

`WarehouseProofs` proves an inductive invariant for each of the seven components;
`FlowInv` says that the flow that runs keeps that of its component, and the
theorems over `MCSpec` follow from it.

* **AgenticRuns.** The cap needs the types and that `revived` never holds a row
  that is not running. The set `Running \ revived` grows only in the claim: every
  other statement leaves it or shrinks it, because a write of running puts its
  row into `revived` unless it was running already. The claim adds at most the
  slots that `Running`, a superset, leaves free. The durability of a settled run
  is an action property: a step that changes the status of a settled row is a
  claim of another status, a step of something pending for it, or an operator's
  write. For the owners, `OwnInv` says what a task that has read running, or a
  request about to write, means for its row; a row that becomes running gets its
  owner in the same step, and an owner goes only when the row does. The theorem
  assumes that no request seeds a run or removes a search link: with the latter
  the property is false.
* **PooledTransactions.** The invariant adds to the four properties which phase
  holds which connections (`HoldsByPhase`) and how far `saved` and `buffered`
  follow `step` (`Progress`): while a request runs, every needed statement behind it is
  buffered or saved, and nothing ROLLBACK undoes is saved before COMMIT.
  Without the first, releasing a client could return a connection another request
  holds; without the second, ok says nothing. `Kept` is what remains true through
  an abort, where a lost answer may have left a statement stored.
* **Inventory.** Types and references are proved together, since a placement is
  typed by the box existing at that moment. The books need one more invariant,
  `Balanced`: for each stored item, ledger plus the bookings that requests in
  flight still owe is at most the stock. `Counted`/`Pending` add those up; a
  removal shrinks the stock and owes the booking in one step, a booking settles
  one of the owed, a batch owes one for each item it took (`BatchIsBulk`), and a
  creation is alone with its fresh item (`CreatesAlone`, `CreatesFresh`).
* **IdMinting** (`MintInv`). `Remembered` (what a request has seen is still taken) and
  `BoxesMinted` (create-box counts on within minted ids) make `KnownIdsSafe`
  inductive: the look-up sees a superset of what the request remembers.
* **ItemFlow.** Stage by stage: before the search has ended nothing is counted
  (`Started`); prompts sent are attempts used plus contexts passed (`Prompted`);
  calls follow prompts (`Called`); a judging stage has read the newest context or
  passed it over for a later search (`Covered`); what is being sent is what was
  judged (`Kept`), and the answer follows the row (`Answered`). Each step of the
  module then is a step of `Invocation` or changes nothing that it sees.
* **Catalog** (`Inv` of `WarehouseProofs`). `Known`: every version anywhere (loaded, read by a request, in a
  snapshot) has been made. `Gated`: whenever the row says reviewed, the text that
  stands is `Explained` (human, cleared or late), and so is what an export has
  already read under a reviewed state. For the snapshots: pruning deletes the
  ones outside the newest KeepRecent of what is there, and inserting one more
  only pushes others further down.
* **ShopwareQueue** (`ShopInv`). `Claims`: a job is in one batch or in one update
  under way, once, and while it is in a batch its row is processing; an update under
  way finds it so. `Stranded`: a processing row in no hand needs a crash. With
  `Claims` every statement is a step of `JobContract` or changes no job.
* **Assemblies** (`DeviceInv`). Of each request, what it read and the world since:
  what `removeDevice` and `unlinkPart` still delete or unlink lies in no box unless
  they were overtaken (`Doomed`), an intake that found no serial is the first unless
  overtaken (`First`), a move that will not mark the device has a reason (`Silent`).
  The last is what failed at first: a minted id may name a new part under an old
  request, which led to `Mistaken`.
* **BoxDetail** (`BoxInv`), **SparePartSlot** (`PartInv`). Both carry how far what
  counts as fresh is true: an answer under way agrees with the tables unless it is
  marked stale (`BoxReadIsFresh`, `ReadIsFresh`), a page that counts as up to date is,
  or a reload comes (`BoxPageIsFresh`, `ListIsFresh`), and a save or a record by one
  who could know has the right place, or finds the slot empty (`SaveIsFresh`,
  `RecordIsFresh`).
* **SlotAnswers** (`AnswerInv`). For each question that is not `unsettled` (`Settled`):
  the sheets of answers to other questions carry what the operator gave for it;
  while it is answered itself, its handler is the only one, and `Carried` says how
  far the new answer has come; otherwise card and store agree with what was given.
* **Printing.** `PagesAccounted` relates the pages of a row to its claims, the
  doubtful calls and whether a run of the worker that holds it has printed;
  `Attached` says a run holds a row exactly between claim and outcome. The
  simulation of `JobContract` maps each statement on the queue to one step; the
  recovery of several stale rows is one `GiveBack`.
* **Creation.** In three layers. `Inv1` (`Held`, `Reviewed`, `Counted`): a device
  is in one hand, its submission is about it, and pieces stored plus pieces still
  to store are those asked for. `Inv2` adds `Numbered`: two drawn, unstored numbers
  that are equal are in `overlaps`. `Inv3` adds `Seeded`: an article with pieces has
  a run or a submission under way that will seed it.
* **Placement** (`PlacingInv`, in `CreationProofs`). `Recorded`: whatever was confirmed
  before the list of the unscanned was drawn is still in the set, unless it was
  emptied; every handler, and every arrival at a page, keeps that.
* **CsvInbox** (`InboxInv`, in `CreationProofs`). `Landed`: of every row behind the
  ingestion, and of every row of an archived file, the box, the reference and the
  item are in the tables, or a write of the same file will bring them, or a fault took
  that write; of the row whose items are being written, the first id is still to come
  or has its write. `Grows` is what each step does to that: a landing write leaves its
  row or the item write that follows, nothing is deleted, and a restart moves the
  writes of files that left the inbox to `lost`. A restart may drop the writes of a
  file that is still in the inbox, since it is read again. `WriteSound` and `ItemSound`
  tie writes and items to the row they come from, so an export finds a row for every
  item; that the export has each rank exactly once (`EveryPlaceIsTaken`) counts the
  predecessors of an item, which is an injection on a finite set.
* **ItemDetail, ItemList.** `PageInv`: a load or a handler is about the address of its
  page, or its page is gone, or moved without a key (`LoadSound`, `TaskSound`);
  neighbours lie on their side of the address, which needs that a finite set of
  numbers has a largest (`LargestNumber`, `Neighbours`). `QueueInv`: the queue holds
  the handlers in a dialog, each `Once`, so releasing the first releases the one
  that asked. `ListInv`: what is selected are rows of an open list, and the panel
  then shows no item.

Model-checked only, and why:

* Liveness (`BacklogSettles`, `AllAnswered`, `InboxDrains`, the liveness halves of
  `ImplementsContract` and `ImplementsInvocation`): fairness and ENABLED are beyond
  the prover. The safety halves are proved.
* `CsvInbox`: `ReimportAddsNothing` sums over the rows of files, which asks for
  induction over data.
* The two violations are counterexamples.

## 6. What is not modelled

* The cancellation registry reads the run row between steps of a flow; its only
  effect is an earlier end of an invocation, a failing invocation here.
* CUPS administration and printer queues: input and output of files; `Printing`
  takes what lp answers as an outcome.
* Read and search actions change no state. Types, constants and configuration are
  the constants of the modules that need them.
* Within modelled parts: zip reading, temporary directories and `events.csv` of an
  archive; compatible articles beyond their first link; prompts and the cleaning of text; price
  history; media files; attachments of the item page; sorting and
  grouping of the list.

## 7. Plan

Done, in this order: `AgenticRuns`, `PooledTransactions`, `Inventory`, `IdMinting`
and their proofs; `Printing` against `JobContract`, `ItemFlow` against
`Invocation`, `Catalog`, `Creation`, `CsvInbox`, `ItemDetail`/`ItemList`,
`Placement`; `Assemblies`, `ShopwareQueue` against `JobContract`, `BoxDetail`,
`SparePartSlot`, `SlotAnswers`; the proofs of every safety property that a run
checks, except `ReimportAddsNothing`.

Left: the events of an archive as a part of `CsvInbox`.
