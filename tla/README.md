# Verification of the QNCH Control Centre

The control centre imports orders, advertising and ledger data from Shopify,
Meta, TikTok and Xero into Supabase, computes daily figures from them and shows
them to the people who run the business. These specifications model what is hard
to test in it: imports that several processes run at once and that crash and
resume, a rotating refresh token they share, targets that are dated, figures that
are published again and again, and what a refresh answers for. They are written in
TLA+, checked with TLC on small instances and proved with TLAPS for all of them.
`PROJECT.json` maps every definition to the lines it stands for.

Run a model with `tlc -config <run>.cfg <module>` and a proof with `tlapm <module>`.

## 1. The system

Paths are under `src/`. "Hard" names what a test would hardly reach.

| Component | State it keeps | Operations | Hard | What makes it correct |
|---|---|---|---|---|
| **Sync runner** `lib/connectors/sync-runner.ts`, `supabase-sync-store.ts` | `sync_runs` by job key, one `sync_cursors` row per connection and resource, attempt times of the connection | `claimRun`, `markRunning`, pages, `setCursor`, `completeRun`, `failRun`, `recordConnectionAttempt` | claims that race, crashes between any two calls, takeover of a stale run whose worker is alive, a cursor shared by jobs | one winner per attempt; resuming loses nothing; a finished job stays finished; a lost one can be claimed again |
| **Xero tokens** `lib/connectors/xero/oauth.ts`, `token-store.ts`, `scripts/register-xero-connection.mts` | the stored token pair, the connection's status | `currentAccessToken`, reconnecting | single-use refresh tokens with several users, lost answers, a crash before the save | no token is used before it is recorded; rotation loses no connection; a lost one is reported, a working one is not |
| **Refresh pipeline** `lib/connectors/pipeline.ts`, `app/api/cron/daily`, `app/actions/refresh.ts` | none of its own: results in memory | `refreshEverything`: load connections, one provider after another, recalculate, observe, answer | two at once, facts read long before the figures are written, throws between syncs, the platform's kill | every failure is in the answer; what it reports is in the figures it published |
| **Published figures** `lib/reporting/calculate.ts`, `persist.ts`, migration 0006 | `daily_financials`, by day and calculation version | `calculateAndPublish`, `replace_daily_financials` | overlapping publishers and versions, figures older than the facts, a trailing window of 45 days | a published day always has one set of figures; corrections within the window reach it |
| **Metric targets** `lib/settings/metric-targets.ts`, migration 0011, `scripts/seed-metric-targets.mts` | `metric_targets`, effective from and to | set, clear | long sequences with any dates, UTC against local dates | only a dated-back set, or one in the night hour, restates a reported day; one target at a time |
| **Judging figures** `lib/reporting/alerts.ts`, `lib/monitoring/targets.ts` | none | `assessHealth`, `evaluateMetrics`, `buildObservations` | ended targets | what is judged is in force |
| **Xero ledger** `lib/connectors/xero/sync.ts`, `normalise.ts`, `lib/repositories/xero-repository.ts` | accounts, transactions and their lines, invoices, balances | three paged syncs and a report | documents edited and voided while they are paged, the page cursor taken for a watermark | a completed sync missed nothing; the database follows the ledger; what is voided is taken back |
| **Shopify import** `lib/connectors/shopify`, `lib/repositories/shopify-repository.ts`, `scripts/backfill-shopify.mts`, `delete-orders-before.mjs` | variants, orders, lines, refunds, first-order dates, payouts | catalogue, orders by page and table, payouts; backfill; deletion | orders that change while they are paged, a page written in five calls, cursors of another window, thirty days of reach | a sync holds its window; windows leave no gap; first-order dates only move back |
| **Meta and TikTok import** `lib/connectors/meta`, `tiktok`, their repositories, migration 0007 | campaigns, ad sets and ads; daily metrics at each level | hierarchy, then one sync per level | restated attribution windows, rows without an entity | spend is counted once, and is the platform's latest |
| **Financial engine** `lib/financial` | none: pure functions | allocation, cost resolution, daily walk, SKUs, customers, marketing, stock, cash | pennies, zero weights, gaps in effective dates, cohorts still running | the parts add up to the whole, along every way of walking it |
| **Reporting** `lib/reporting/*-repository.ts`, `report.ts`, `dashboard-data.ts`, `series.ts`, `timeframes.ts`, the pages | none: computed on read | queries, reports, series, timeframes | a day loaded with different neighbours, UTC windows around local days, late refunds | a day shows the same figures wherever it is shown |
| **Monitoring** `lib/monitoring`, `lib/reporting/data-quality-run.ts`, `reconcile.ts` | check results, reconciliation runs | freshness, coverage, reconciliation | rows that arrive one import at a time | no false alarm, none missed |
| **Saved reports** `lib/reporting/saved-reports.ts`, `app/(dashboard)/reports` | `saved_reports`; a page on each screen | parse, save by name, open, delete | two people and a deployment between opening and saving | what opens is what was saved |
| **Sheets export** `sheets-export.ts`, `sheets-workbook.ts`, `lib/connectors/google` | a Google workbook | list, add tabs, clear, write, protect | killed between clear and write, overlapping exports, people in the sheet, resent batches | the workbook is whole, catches up, agrees with the screen |
| **Migrations runner** `scripts/migrate.mjs` | `schema_migrations` | apply each pending file with its row | two runners, kills, files with a transaction of their own | what is recorded is applied |
| **Scripts** `scripts/` | seeds, registrations, repairs | seed, register, backfill | | |
| **Auth, crypto, environment** `lib/auth`, `crypto.ts`, `env.ts`, `proxy.ts` | none (signed cookies) | sign, verify, encrypt | | |

**How they meet.** The cron route, the Refresh button and the backfill scripts each run
in a process of their own and share nothing but the database and the providers.
`refreshEverything` calls `runSync` for each resource of each connection; `runSync`
calls the store around each page it fetches and upserts; every Xero request first
asks `currentAccessToken`. After the imports, `calculateAndPublish` reads what they
wrote and replaces the current rows of `daily_financials`, the record of what was
published. The pages, custom reports,
alerts, reconciliation and the workbook do not read those rows: they compute from the
imported ones again, which is why agreement between them is worth checking. A human
intervenes by reconnecting Xero, approving the policy, mapping accounts, setting
targets, saving reports, editing the workbook, or running a script.

## 2. The modules

| Module | What it is | Composed with |
|---|---|---|
| `SyncRuns` | `runSync` and its store, step by step | refines `ImportService` |
| `ImportService` | what a sync promises its callers, with no workers, cursors or clocks | |
| `Refresh` | `refreshEverything`, with each sync as one claim and one end | takes `SyncRuns`' results as its steps |
| `XeroTokens` | `currentAccessToken` of several processes, Xero's side of a rotation, the reconnect script | |
| `XeroLedger` | the nightly import of a ledger that people change while it is paged | single importer; overlaps are `SyncRuns`' |
| `ShopifyOrders` | the import of a shop that goes on trading, backfills, the deletion script | single importer |
| `AdMetrics` | the import of two platforms that go on charging and restate | single importer |
| `SheetsExport` | writing the workbook, request by request | what the tabs hold is `Workbook`'s |
| `DailyFinancials` | publishing, as transactions, while the calendar moves | what a figure is, is `Contribution`'s |
| `MetricTargets` | writing and reading dated targets, under two clocks | |
| `SavedReports` | query strings, saved rows, screens, deployments | |
| `Migrations` | two runners over one `schema_migrations` | |
| `Money`, `CostRules`, `Contribution`, `Positions` | the financial engine as operators: exact money; effective dates, costs and assumptions; allocation, the daily walk and SKUs; customers, marketing, stock, cash | each extends the one before |
| `Books` | the rows the connectors leave behind, arriving in any order, and the queries over them | extends `Positions` |
| `Figures` | reports, timeframes, series, the pages | extends `Books` |
| `Monitoring` | reconciliation and data quality | extends `Books` |
| `Workbook` | what each tab of the export holds | extends `Figures`, `Monitoring` |
| `MC*` | values for the runs: listings, ranges, job keys, catalogues, symmetry | |
| `SyncRunsProofs`, `RefreshProofs` | the theorems about `SyncRuns` and `Refresh` | |
| `XeroProofs` | the theorems about `XeroTokens` and `XeroLedger` | |
| `PublishedProofs` | the theorems about `DailyFinancials` and `MetricTargets` | |
| `RecordsProofs` | the theorems about `Migrations`, `SavedReports` and `SheetsExport` | |
| `ChannelsProofs` | the theorems about `ShopifyOrders` and `AdMetrics` | |
| `MoneyProofs` | what sums over finite sets are equal to, and the theorems about `Money` | |
| `FiguresProofs` | the theorems about `Books`, `Figures`, `Monitoring` and `Workbook` | extends `MoneyProofs` |

`MCOutside`, `MCPublished`, `MCDashboard`, `MCChannels` and `MCImports` (the sync runner
and `MCChannels`) each check modules that share no state side by side in one run: a
variable chosen at first (`side`, `shelf`, `desk`, `channel`) says whose world moves,
and the others rest. A behaviour of such a run
is a behaviour of one module, so what holds there holds of each alone.

### SyncRuns

A job key's row is `status`, `attemptCount` and `startedAge` (the age of
`started_at`, saturating just past the stale limit; `NotStarted` when it is null).
`cursor` is the one row of the (connection, resource) all jobs share. A worker is
at a control point `pc` between two awaits:

| Action | Code |
|---|---|
| `ClaimNew`; `SelectTaken` then `ClaimTaken` or `ClaimLost` | `claimRun`: the insert; the select after a unique violation, the compare-and-set on `attempt_count` |
| `MarkRunning`, `GetCursor` | outside the `try`: a throw loses the worker (`Abandon`) |
| `ImportPage`, `ImportFails`, `SetCursor` | the loop: fetch and upsert, cut short between two statements, then cursor and the `maxPages` valve |
| `CompleteRun`, `RecordSuccess` | the end of the `try` |
| `CallFails`, `FailRun`, `RecordFailure` | the `catch`; a write may have been applied although its answer was lost (`Answered`) |
| `Abandon`, `Tick` | the process is killed; time passes |

Updates by run id are unfenced, as in the code: a worker that was taken over still
writes the row. `BoundedRuns` states the assumption the code makes about its limit
("well above the longest expected backfill"): a run ends, or is killed, before its
row goes stale. `FailPoints` and `CrashPoints` say where failures may strike; nowhere
is a throw after `completeRun` excluded, although it lands in the `catch` and marks a
completed run failed. `ImportService` has an action for it, `Reopen`.

### XeroTokens

A token is the number of the grant it came with. Xero's side is external: `valid`
holds the refresh tokens it will accept, and `Spend` uses one up and issues the
next. A process is `asking`, `exchanging`, `rejected`, `saving` or `between`
requests. Each way the exchange can go is an action: answered, rejected, failed
before Xero saw it, or spent with its answer lost, in which case `fetchWithRetry`
sends the same token again. Failures are counted by `faults`, so that a property
can speak of what happens without any. The reconnect script is two steps
(`Authorise`, `StoreAuthorisation`), because a human's consent and the transaction
that stores it are apart in time.

### Refresh

The connections' `status` and whether their stored token is `readable`, the runs by
job key, and for each refresh where it is, the outcomes of the provider at hand
(`part`) and of the refresh (`syncs`). `Thrown` is the `catch` of the provider loop:
what was in `part` is lost. The bank balances are read without a run
(`syncBankBalances`). `arrived` and `published` record which syncs' data is in the
database and which of it the published figures were computed from.

`calculateAndPublish` is three actions: `Decline` (no approved policy), `LoadFacts`, which
takes what has arrived into `read`, and `Publish`, which puts that in place of whatever
was published meanwhile; between the two anything may happen, another refresh's import
and publication included. `raced` marks a refresh that loaded its facts while another was
between its own two steps. `Error` may come after the database has committed.

### DailyFinancials

A figure is told by the facts it was computed from, and those by how often they have
changed. The calendar moves (`Midnight`): a refresh chooses the `TrailingWindow` of its
own day as it begins and keeps it past midnight (`pipeline.ts:186, 235-239`), the script
takes the dates it is given (`HandPicked`). `replace_daily_financials` is one transaction
under READ COMMITTED, in three steps: its UPDATE finds rows in its snapshot, waits for their locks and stands
down those still current; its INSERT meets rows committed meanwhile, updates its own
version's in place, and is refused by the unique index when another version's row
has become current.

### MetricTargets

The targets of one metric by `effective_from`, each told by its verdict on a figure
that does not move, and two clocks: `utcDay` for the writers and, for the readers, the
organisation's zone, which in summer is `ahead` by a day between the two midnights. A day
is over for the readers when it is before `utcDay + ahead`.

### XeroLedger

A document's state is the number of the change that made it (`rev`), so that
"the state read or a later one" is an inequality. Xero is external: it lists the
documents a request asks for (`Listed`: authorised transactions, all invoices) in an
order of its own (`place`), in which a new document comes last and an edited one
stays or goes last. `ReadPage` takes page `PageNumber` of what is listed at that
moment; `NextPages` is `nextPage`, by Xero's page count or, where Xero sends none, by
a short page; `WritePage` and `WriteLines` are the two upserts; `Advance` is
`setCursor` and, after the last page, the end of the sync. `SyncFails` is the `catch`
of `runSync`, after which the refresh goes on with the next resource; `Crash` ends
the run at any await. The `modifiedSince` that `pipeline.ts` reads from the cursor
row is a page number or null; an `If-Modified-Since` that is no date is ignored, so
the model reads the whole list every night.

Two history variables state what a sync promises: `due` is what was listed when page
one was read, less the documents that a later change may have moved to another page,
and `kept` is `due` when the last page had been written.

### ShopifyOrders

The state of an order is the number of the change that made it (`rev`), which also
orders `updated_at`; a cursor is the place of the last node in that order, so that an
order changed while pages are read comes again. An import is `SyncCatalogue`,
`BeginOrders` (`getCursor` and the search: `RefreshSearch`, or the backfill's),
`ReadOrders`, then the page table by table as `shopify-repository.ts` writes it
(`UpsertCustomers`, which also reads the first-order dates; `WriteOrders`,
`WriteOrderLines`, `WriteRefunds`, one `WriteDate` per customer), `AdvanceOrders` (the
cursor and the end of the run) and `SyncPayouts`. `ShopifySyncFails` is the `catch`
of `runSync`, `ShopifyCrashes` the kill, `DeleteOrdersBefore` the script's
transaction, which takes first-order dates back to what is left.

`promised` is what a sync has to store. A run that finds no cursor, and a backfill
whatever it finds, is asked for all its search lists (`ListingOf`). A refresh that finds a
cursor searches for everything behind it and takes over the interrupted read: it owes what
that read was asked for, all behind the cursor, and, where the interrupted read reached
back as far, its own thirty days (`ListingOfRest`, `Owed`); of a read that reached less
far the code makes up nothing, and nothing is promised. `readUpTo` is the change up to
which completed reads reach.

### AdMetrics

`charged` is what a platform says each entity spent on each day, and rises as it goes
on charging or restates a day up to `RestatedDays` back. A night is the hierarchy, the
account level and the finer level (`SyncHierarchy`, `ReadLevel`, `PersistRows`) over
`IncrementalWindow`. A row without an entity is the account's; `SameKey` is the natural
key of migration 0007, `Resolved` drops rows whose entity is not stored, and
`LoadAdSpend` is the reading the walk adds up. `Undated` are TikTok rows without a
date, which are dropped.

### SheetsExport

Google's side is `sheetId` by tab, the `cells` of each tab and `shields`, how many
protections a sheet has. An exporter's requests are `ListSheets`, `AddSheets`,
`ClearRanges`, `UpdateValues`, `ListProtectedSheetIds`, `ProtectSheets`; a batch takes
effect as a whole or not at all. The figures a tab is gathered from fill one row or two,
so that what a longer export wrote may stick out from under a shorter one.
`ProtectionSentTwice` and `AdditionSentTwice` are `fetchWithRetry` resending a request
that had taken effect. People edit cells and delete tabs (`EditCell`, `DeleteTab`).

### SavedReports

A query is a record of what its parameters hold, `Absent` and `Malformed` included;
`ParseReport` is `query.ts`, `ReportQuery` its inverse as the page writes links.
`savedReports` is the table by name, `screens` and `listed` what each person has before
them, as rendered: a save takes the hidden fields of the form, not the table.
`Deploy` changes the catalogue of metrics.

### Migrations

A runner reads `schema_migrations` (`ReadApplied`), then begins, applies, records and
commits one file after another. `Waits` is PostgreSQL's: an insert of a key that an open
transaction has inserted waits for its end. `StripOwnTransaction` takes the files' own
`begin` and `commit` out; the mutant keeps them.

### Money, CostRules, Contribution, Positions

Amounts are integers in ten-thousandths of a pound, as `numeric(19, 4)` stores them, and
pennies where the code rounds. A quotient is the pair of its terms, so that two ratios
are compared exactly, and `NotAvailable` is the missing one. Each function of
`lib/financial` is an operator of the same name. The week's and month's first days are
a constant, `Starts`, and the time zone an offset from `SummerFrom` on.

### Books, Figures, Monitoring, Workbook

`stored` is which rows of a `Catalogue` of possible rows have arrived, in any order, and
`decided` which decisions of the policy a human has taken; `cancelled` and `firstOrderAt`
are what the importer keeps beside them. `LoadFacts` is the query the reports stand on,
with `InUtcWindow` for the window in UTC it asks for and `BusinessDate` for the day an
order belongs to. `Report` is `buildReport`, `BuildPeriodSeries` a custom report,
`StockPage` to `ReportsPage` what the pages compute, `RunReconciliation` and
`CollectDataQuality` the monitoring, and `Workbook`'s tabs are functions of the same
facts. Everything below `BooksNext` is a function of the state: the specification has
the importers' actions only, and the properties compare two ways of reading it.

## 3. The runs

Bounds are the constants of each `.cfg`. A **violation** run shows a statement of
the repository that the code does not keep; it is a finding in `PROJECT.json`.

| Run | Instance | What it shows |
|---|---|---|
| `Imports` | runner: 2 workers, 2 job keys with the same 2 pages, 2 attempts each, failures at every call, crashes wherever something is half done, a stale limit of 0 so that live runs are taken over at once; workers and job keys symmetric; shop: 2 orders of one customer in pages of 1, 3 days, a window of 1, 3 changes, 1 incident (a failure, a kill, a backfill or a deletion); ads: 2 Meta entities, a TikTok one without dates, 3 days, 2 charges, 1 fault | `TypeOK`; `OneWinnerPerAttempt`; `SucceededImportedItsWindow` and `CursorSkipsNothing`: resuming from a cursor that others move as well loses nothing; `SyncHoldsItsWindow`, `WindowsLeaveNoGap`, `FirstDateOnlyMovesBack`; `SpendIsCountedOnce`, `RestatementsAreImported` |
| `Outside` | tokens: 2 processes, 3 grants, 1 failure of any of 7 kinds, reconnects at any time; ledger: 2 transactions (one undated, so dropped) and an invoice, 2 accounts, pages of 1, 3 changes, 2 faults; workbook: the cron and a person exporting 2 tabs, 2 changes of the figures, 1 touch, 1 fault | `RotationIsRecordedBeforeUse`, `RotationKeepsTheConnection`, `BrokenChainIsReported`; `CompletedReadMissesNothing`, `StoredFollowsTheLedger`; `ExportIsWhole`, `ProtectionsDoNotStack`, `WorkbookCatchesUp` |
| `Published` | runner: 2 workers, 1 job key, 2 attempts, a provider that may name a next page for ever, runs bounded, throws and crashes everywhere; targets: 3 days, summer time, the script may use any date; figures: the cron over a trailing window of 1 of 2 days, a script of a newer version over both, 1 change per day | `OneRunAtATime`, `SucceededNeverRunsAgain`, `ImplementsImportService`; `EveryRunEnds` and `AbandonedRunningIsReclaimable` under fairness; `OneTargetFromTomorrow`, `ClearedIsNotJudged`, `SetNeverUnjudges`, `OnlyTheNightHourRestates`; `PublishedDayStaysPublished`, `CorrectionsArePublished` |
| `Dashboard` | refreshes: cron and button on the same job keys of Xero, loading facts and publishing in two steps; reports: 2 people, 1 name, 3 metrics of which 2 fit, 2 saves, 2 deployments, well and badly formed links; schema: 2 runners, one on an older checkout, 4 files of which one fails, 2 kills | `FailuresAreReported`, `NothingLeftOut`, `AnswersArePublished`; `SavedReportsReopen`; `RecordedIsApplied` |
| `Figures_books` | 4 orders of 2 customers around midnight in summer time, a restocked refund, 2 platforms, ledger charges, a cost that changes, months of two days after one of eleven, arriving row by row | `DayDoesNotDependOnRange`, `BucketsAgreeWithDashboard`, `SkusReturnTheOrders`, `TheWalksAgree`, `CompleteBooksReconcile`, `CompleteWindowsAreFinal`, `SheetAgreesWithScreen` |
| `SyncRuns_stuck` | 1 worker, fair | **violation** of `AbandonedQueuedIsReclaimable`: a worker lost between `claimRun` and `markRunning` leaves a `queued` row without `started_at`, which never goes stale |
| `XeroTokens_race` | 2 processes, no failures | **violation** of `NeedsReauthIsTrue`: the slower of two refreshers marks a working connection `needs_reauth` |
| `XeroLedger_voided` | the documents of `Outside`, no faults | **violation** of `VoidedIsTakenBack`: a transaction voided after its import is listed by no later request, and its row stays authorised, where the cash and contribution queries read it |
| `MetricTargets_night` | the targets of `Published` | **violation** of `ReportedStands`: a target set on the settings page between London's midnight and UTC's starts on the day that has just ended for the readers, and changes how it is judged |
| `DailyFinancials_restated` | the cron alone, a window of 2 of 2 days | **violation** of `PastKeepsItsNumbers`: a past day published again after its costs changed is overwritten in place, being of the same version |
| `Channels_backfill` | the shop of `Imports` with 2 changes and 2 incidents, and a person who starts a backfill over an interrupted sync | **violation** of `SyncHoldsItsWindow`: the backfill resumes the refresh's cursor inside its own listing and reports success without its window. TikTok's page number and Meta's next URL are taken over the same way |
| `Figures_doubleSpend` | the books of `Figures_books` with an account mapped to advertising and to a platform | **violation** of `PlatformSpendIsCountedOnce`: the ledger's copy of the platform's spend is added to what the platform reports |

**Why the bounds are enough to see the interesting cases.** Two workers and two
attempts make every race for a claim, and a takeover of a live run, happen. Two pages are the least
for which a cursor is written, resumed from and closed. Two processes make the
token race, and three grants are one rotation, a second one and a reconnect. Three
days hold a past, a present and a future target at once. One edit lets a publisher be
overtaken, and two days with a window of one let midnight overtake it and a day leave
the window. Pages of one document, or one order, make every change between two
pages move somebody; a dropped document makes a page that is full and yet empty, and two
faults let a run be resumed and interrupted again. Two orders of one customer meet in
either sequence, so that a date must move back. A window of one day in three leaves the
window of the first night behind. One incident lets a refresh take over an interrupted
refresh; one that takes over an interrupted backfill needs two, which is 11 million
states and holds as well, and is proved. Two exporters and figures of one row or two let a
longer export be overwritten by a shorter one and the reverse. One saved name, two people
and two deployments are a report saved over, deleted and dropped from the catalogue while
another has it on screen. In the books, an order after 23:00 UTC belongs to the next
local day, a refund comes two days after its order, and the months are of two
lengths. That nothing depends on the numbers themselves is what the theorems show,
where there are any.

An action constraint keeps `Imports` small without losing a behaviour that matters:
`ChangesMeetReads` lets the shop and the platforms change only before a step that reads
them, since a change at any other moment is seen by the same reads.

**Deadlock** is checked except where the system may stop: refreshes that are done start
no more, runners and publishers end, bounded grants run out, books are full.

**Fairness.** `SyncRuns`: a live worker's next await settles, a begun claim
finishes, time passes; nobody is obliged to claim. `XeroTokens`: the cron starts a
run whenever the connection is active, its requests go on, access tokens expire;
no human is obliged to reconnect. `DailyFinancials`: a transaction the database
began ends and a row lock is handed on (strong fairness of `StandDown`, `PutUp` or
`Refuse`); the cron starts every day and of the runs that are lost not all are, so
that calculating and sending are strongly fair for it alone; nothing makes the calendar
move, which is bounded. `XeroLedger`: the cron starts every
night and its awaits settle; faults are bounded, so that some night goes through.
`SheetsExport`: the same of the nightly export; a person's is not obliged to end.
Approving the policy is not assumed: `CorrectionsArePublished` speaks of behaviours
where it happens.

## 4. The proofs

Each `*Proofs` module holds for every value of the constants under the assumptions
their modules state.

- **SyncRuns.** `TypeCorrect`. `ClaimIsExclusivePerAttempt`: invariant `ClaimInv`,
  the row's count is at or above every attempt a worker holds or has read, so a
  winning claim takes a number nobody else can have. `OneWorkerRunsAJob`: with
  bounded runs, whoever works on a row holds its current attempt and a row someone
  holds is young, so what a contender may still take over, nobody works on
  (`HoldInv`). `CursorLosesNothing` and `ResumeLosesNothing`, assuming `SameListing`:
  at every worker and in the shared cursor, the pages before the position are
  imported (`ImportInv`).
  `DoneNeverRunsAgain`, assuming `BoundedRuns` alone: a worker that has not completed its
  run holds a row that does not say succeeded, and no contender's count matches a row
  that does (`DoneInv`); a throw of `completeRun` or `recordConnectionAttempt` may turn
  the row back into failed, and only then is it claimed again. `RunsImplementService`,
  assuming `BoundedRuns` and `SameListing`: `claimRun` is `Start`, an upsert is `Land`, `completeRun` is `Finish`,
  a throw after it `Reopen`, all else a stutter.
- **XeroTokens.** `TokensTypeCorrect`; `NothingUnrecordedIsUsed` and `RotationIsSafe`
  from `RotationInv`: without a failure some process that is saving holds a valid
  token, or the row does. `ReauthIsTrueWhenAlone`, assuming one process and quiet
  reconnects (`OneAtATime`): the finding's race is the only way to a false
  `needs_reauth`.
- **MetricTargets.** `TargetsTypeCorrect`; `SettingKeepsJudging`; `ClearStopsJudging`
  (`ChainInv`: every ended target ended by today or before the start of an open one,
  so that an accepted clear leaves nothing later); `PageLeavesOneTarget`
  (`PageInv`: while targets are set for the day of the call, one is open at most and
  none reaches past today); `PastIsKept` for every day, clock and script date: of the
  days that are over for the readers, the settings page restates yesterday at most, and
  only between the two midnights.
- **DailyFinancials.** `DailyTypeCorrect`; `PublishedDayIsAlwaysThere`: a transaction
  stands down only rows of its own range and puts one up for every day of it, alone
  (`IInv`).
- **Refresh.** `RefreshTypeCorrect`: the syncs to come are the end of the connection's list
  (`EndOf`), so that every job key is a known one. `NoFailureIsLost` from `IInv`: a
  failure is in the refresh's list or in that of the provider it is at (`Heard`).
  `WhatIsReportedIsPublished` from `IInv` and `RaceInv`: what an outcome reports has
  arrived, and is in the facts loaded after it (`Seen`); whoever has yet to publish once
  an unraced refresh has loaded its facts loaded them later, so has read no less
  (`Ordered`), and what is published never falls behind those facts (`Stands`).
  `EveryConnectionIsListed` from `ListInv`: every active connection is listed in the
  answer, in the outcomes of its provider, or among the jobs and providers still to
  come (`AccountedFor`, `YetToList`), and a throw lists the whole provider.
- **XeroLedger.** `LedgerTypeCorrect`; `CompletedReadIsWhole` from `IInv`, which follows a
  document that is due: it is still listed, with as many documents before it as when
  page one was read (`ChangeKeepsOrder`); if its page is behind the cursor it has
  arrived (`Dues`); if it is in hand it is carried by the page (`InHand`), whose
  records are never older than what is stored (`Records`); and a page that no page
  follows is the end of the list (`LastPageEnds`).
- **Migrations.** `RecordedMigrationsAreApplied` from `MigrationsInv`: a file is
  applied and recorded in one commit, and a runner that has read the table finds every
  file of its checkout recorded or outstanding, so that it applies them from the first.
- **SavedReports.** `ReportsReopen` from `ReportsInv`: every screen, and every row as
  last shown, is what parsing can return (`WellFormed`), and a row holds what the person
  who saved it was told (`Holds`), which parses back to itself but for metrics that left
  the catalogue (`RowReopens`).
- **SheetsExport.** `ExportLeavesItsFigures`: an export nobody has disturbed since it
  cleared finds the tabs empty until it writes them, and its figures afterwards
  (`LeftAlone`). `ProtectionsStayFew` counts: a sheet's protections, and those still to
  be sent by exports that found it unprotected (`MayProtect`), stay within the bound.
- **ShopifyOrders.** `FirstDatesMoveBack`: until a customer's turn on a page comes, the
  date in the database is the one read when the page's customers were written
  (`DatesInv`). `SyncsHoldTheirWindow` and `NoGapBetweenWindows`, assuming `~Careless`
  (no backfill is started over an interrupted sync; `Channels_backfill` is what happens
  otherwise): what a sync promised has been deleted, has arrived, or is still ahead of
  its cursor (`PromiseInv`, `ArrivalInv`), and what an interrupted read had passed is
  stored, so that whoever resumes it may answer for it (`ResumeInv`: `Passed`,
  `StoredAsIs`); a page holds the first of what is ahead
  (`PageIsFirst`) and each of its tables is stored when its turn is past (`StagesInv`,
  `HandArrives`). For the windows, what was changed before a completed read began is
  either in or older than its reach (`WindowInv`: `ReadSince`, `ReachesBack`).
- **AdMetrics.** `RestatementsArrive` from `AdInv`: a charge the last read of the
  account level has not seen is for a day a platform still restates (`Late`), and the
  window of a read reaches back further than that (`Reaches`). It rests on
  `RestatedDays < RestatementWindow`, which `WindowAssumption` states: the code trusts
  the platforms to it as well. `SpendCountsOnce` from `SpendInv`: each platform has one
  account row a day at most, in the table and on the page in hand, and its spend is a
  total that was once the sum of what the platform charged (`BilledInv`, which follows a
  sum through a charge to one entity).
- **Money.** `AllocationIsComplete`: the fractions an allocation cuts off add up to
  whole pennies, as many as `HandOut` gives out and fewer than there are parts.
  `SharesAreFair`: no part is a penny off its exact share.
  `NothingWithoutWeight`: no more pennies are left than there are parts with a fraction,
  so that a part without one gets none.
- **Books, Figures, Workbook.** One row of absolute figures per day, `Row(d)`, is a
  function of the stored tables alone. Any facts that know a day (`Knows`: its orders,
  its refunds with the orders behind them, its customers' first orders, its spend and
  charges) compute that row, and every range that holds the day, loaded or narrowed,
  knows it. `DayIsTheSameInEveryRange`, `BucketsShowTheDashboard` and
  `SheetShowsTheScreen` follow. The invariant is `BooksInv`: the tables are well typed,
  and stored first-order dates reach back to every live order of a customer
  (`CustomersAreKnown`), without which the flag of a new customer would depend on the
  range; `BooksAreKept` proves it of every step. `CompleteWindowsStay`:
  later trading moves no customer's first order, so what
  could still enter a complete window is dated past its end. `WalksAgreeAlways`: each
  report column is the sum of its days, on whichever way it is walked, and the shares of
  a period's charge are consecutive parts of a whole. `SkusReturn`: revenue and charges
  reach the lines by `AllocationIsComplete` and stay with the lines they match by
  `NothingWithoutWeight`; SKUs group the lines without loss, since an order is told apart
  by its external id.
- **Monitoring.** `BooksReconcile`, assuming `SourcesAgree`: with every row stored both
  sides of a comparison are the sums that agree; and with some movements missing the
  modelled balance lacks exactly those, since the balances and what moved outside them
  are there from the start (`SeededStay`).

Proved invariants are stronger than the properties because these are not inductive:
`OneWinnerPerAttempt`, for one, follows from a step only if the contenders' read
counts are known to be at or below the row's.

**Sums.** A sum of the model is a fold over a finite set. `MoneyProofs` proves what sums
over any set are equal to (of parts, of a bijective image, grouped by a key, of sums and
differences) without an induction rule: among the subsets for which a statement failed
there would be a least one (`LeastSubset`, by well-foundedness of the strict subsets of a
finite set), and removing an element from it is a contradiction.

**Left to TLC.** Only what is under fairness, which is out of the prover's reach:
`EveryRunEnds`, `AbandonedRunningIsReclaimable`, `BrokenChainIsReported`,
`CorrectionsArePublished`, `StoredFollowsTheLedger` and `WorkbookCatchesUp`. Every other
property of a passing run is a theorem. The violation runs are counterexamples and need
no proof.

**Assumptions worth knowing.** Jobs of one resource that list different pages (a
backfill and a nightly run, say) share a cursor row and can resume inside each
other's listing; `ResumeLosesNothing` does not cover them, `SyncsHoldTheirWindow` says
what a refresh that does so answers for, and `Channels_backfill` what a backfill does
not. `BoundedRuns` excludes the takeover of a live run from `OneWorkerRunsAJob`,
`DoneNeverRunsAgain` and `RunsImplementService`; what survives one is in
`ClaimIsExclusivePerAttempt`, `CursorLosesNothing` and `ResumeLosesNothing`.
`WhatIsReportedIsPublished` excepts a refresh that loaded its facts while another was
between loading and publishing: that other one may publish older facts over its own.
The daily record then lacks an import until the next refresh (`CorrectionsArePublished`,
for the days of the window); the pages do not read that record.

The theorems about figures hold of any `Catalogue` of rows that the schema admits, which
`CatalogueAssumption` and `AmountsAssumption` spell out: amounts are numbers, postage
is in whole pennies, being Shopify's own amounts added and subtracted
(`normalise.ts:71-75`), costs are not negative (migration 0003, line 33), an external
id names one order, and a charge's basis and period are of the enumerated ones.
`CalendarAssumption` says that `Starts` reaches around every day that is shown; as `LongestMonth` must outlast
the month any customer joined in, it is taken over the days of trading and of the
orders. `SourcesAgree` is the hypothesis of `BooksReconcile` alone, about the business and
not the program: what customers were charged was settled, what the platforms charged was
booked, and the bank's balances are of what moved. `MCFigures` asserts it of the instance
that `Figures_books` checks. `SkusReturnTheOrders` speaks of charges whose matching lines
all net at least nothing: `allocateProportionally` may give a left-over penny to a line
the charge does not match when a matched one is below zero.

## 5. Not modelled

The components with status `not_modelled` in `PROJECT.json`, each with its reason:
single transactions run by hand, rendering, cryptography and read-only inspections.
Within modelled ones: counts of records, error texts, dates of attempts, the
organisation (every query is filtered by one) and row level security. Inside a
refresh, `runReconciliation`, `collectDataQuality` and the workbook do not appear,
since each is caught where it is called and changes no answer; what they compute is in
`Monitoring` and `Workbook`, and the workbook's requests are in `SheetsExport`.

`ShopifyOrders`, `AdMetrics` and `XeroLedger` have one importer each. Several syncs of
one job are `SyncRuns`', where a page is atomic to its listing; two Shopify imports that
overlap inside a page are not modelled. There `advanceFirstOrderDates` compares with
dates read before the page was written, and upserts never compare
`source_updated_at`, so the later writer wins whatever it read.

## 6. Plan

What is left, in this order:

1. Two overlapping Shopify imports: `ShopifyOrders` with an importer as a parameter of
   its actions, and first-order dates and order rows under the lost updates of above.
2. `Refresh` as a user of `ImportService`, so that its claim and its end are the
   promises `SyncRuns` is proved to keep.
3. The finer levels of `AdMetrics` one by one, and TikTok's own windows.
4. Storing the results of monitoring, and `connection.status` as data quality reads it.
5. Lemmas about what pages show apart from the walk: stock and cash positions, and
   that a cost resolved for a day is in force on it.

Statements of the repository that the code does not keep, noted here and under the
hazards, and without a run:

- `pipeline.ts:193-194` wants a connection that cannot be used to be a failure, but one
  that is `needs_reauth` is filtered out before (`pipeline.ts:143`).
- `persist.ts:5-6` has `daily_financials` exist "so the dashboard and Google Sheets read
  one agreed set of figures", and `README.md:522-524` has it be for the Sheets export;
  both compute on read (`dashboard-data.ts:19-22`, `sheets-export.ts`), and only the
  data-quality page reads the table. (The other half of the sentence is
  `DailyFinancials_restated`: within 45 days past figures are overwritten, and older ones
  are kept only because no refresh looks at them again.)
- `pipeline.ts:313-314` says "The stored cursor is what makes this incremental", but the
  cursor is null after every completed sync: what bounds the read are the thirty days.
- `query.ts:47` has unknown input "dropped and reported rather than silently coerced";
  that holds of metrics, while an unknown grain or timeframe becomes the default.
- `reconcile.ts:166` wants both sides of the payout comparison to "describe the same
  money", but the payouts are net of refunds and the orders are not (line 133 says the
  payout side nets them "separately"), so `CompleteBooksReconcile` speaks of ranges
  without a refund among their payouts.
- `alerts.ts:142-143` wants a dashboard with no targets not to report perfect health, but
  after the only target was cleared its row still counts as configured (line 128) and
  the dashboard is green with nothing judged.
