# Sales Anchor: specifications, model checks and proofs

This directory holds TLA+ specifications of the parts of Sales Anchor whose
correctness depends on the order in which things happen: web requests, Celery
workers, periodic tasks, bots, people, and the services they call. The code under
`src/` is the reference; each definition that stands for code is listed with its
source lines in `PROJECT.json` (`map`), each property with a change of the code
that breaks it (`mutants`).

## 1. The system

Sales Anchor is a FastAPI backend (`src/backend/app`, several processes) with
PostgreSQL (READ COMMITTED), Redis, a Celery worker (`--concurrency=2`, late
acknowledgement), a Celery beat, a Discord bot, and a web frontend. Suppliers
post price lists in LINE groups; an operator imports the exported chats, Gemini
extracts items from each posting, an analysis resolves the items to products,
and the current prices go to Google spreadsheets. Around this pipeline the
tenants sell: leads and messages, quotes, invoices, payments, orders and stock.

| Component | State | What it does | Hard behaviour |
|---|---|---|---|
| LINE import (`tcg_line_import_svc.py`) | suppliers, channels, `source_messages` | registers names and postings of a file, replaces older ones | locks of several imports, overlapping files |
| Extraction (`tasks/tcg_extraction.py`, `tcg_extraction_record_svc.py`, `line_analysis_v102_svc.py`) | `extraction_jobs`, `extraction_attempts`, `extraction_items` | claim, call, save, fail, skip, analyse | duplicated and lost messages, processes that die or come back late, no transaction around the call |
| Recovery (`tcg_extraction_recovery.py`), retry by hand (`tcg_diagnostics_svc.py`) | the same tables | passes every 600 s, requests of operators | rows are read first and written later |
| Current results (`tcg_analyzer_svc.py`, `v102_transcription_svc.py`) | `analysis_results.is_current` | analyse, merge, edit | the merge has no lock of the supplier |
| Human decisions (`v102_human_decisions_svc.py`) | `item_corrections`, `analysis_results` | accept, revoke, override, edit | decisions are ordered by the start of their transactions |
| Distribution (`tcg_distribution_svc.py`, `tcg_extraction.py`) | a key in Redis, messages, tabs of spreadsheets | ask, hold, read, clear, append, record | no mutual exclusion, calls that fail half-way |
| Sessions (`auth/self_tokens.py`, `auth/devices.py`) | families of refresh tokens | log in, refresh, log out, revoke, change the password | a revocation beside a rotation |
| Approval of logins (`routers/auth.py`) | login requests, recovery codes | ask, poll, decide, enter a code, expire | polls and decisions that race |
| LLM budget (`llm_budget.py`) | the month's costs and its ledger | reset, check, charge | check and charge are apart |
| Quotes (`routers/quotes.py`) | quotes, invoices | edit, send, decide, convert | edits that were checked before a decision |
| Payments (`routers/invoices.py`, `paypal_payments.py`, `routers/integrations.py`) | invoices, orders, PayPal's invoices, disputes | pay, void, link, confirm, webhook | calls of PayPal between two statements, repeated events |
| Own inventory (`inventory_reservation.py`) | `physical_qty`, `reserved_qty` | reserve, release, ship, adjust | sums that no row records |
| Registration links and addresses (`registration_tokens.py`, `companies.py`) | tokens, `company_addresses` | register, change, save a page | tokens checked early and used late |
| Calendar (`calendar_service.py`, `google_webhook.py`) | `calendar_events`, sync token, channel | edit, synchronise, subscribe | rows committed before the call of Google |
| Inbox and leads (`routers/webhook.py`, `routers/leads.py`) | leads, channels, two logs | file, send, merge, delete | answered before it is worked on |
| Staff invitations (`staff_join.py`), viewers (`viewer_trial.py`, `viewer_signup.py`, `viewer_admin.py`) | invitations, codes, rooms in Discord | apply, enter a code, sweep, suspend, purge | a room and a transaction cannot commit together |
| Realtime (`realtime/`, `RealtimeProvider.tsx`) | connections, queues of 100 | publish, deliver, load again | streams that break, signals taken together |

Not modelled, with the reason, in `PROJECT.json` (`components`): the discard of pending
imports (nothing creates them any more), inventory movements (a helper of the
tests), the connection of Meta pages, purchase orders, notices in Discord,
reports, the rest of the authentication, master data, tenants, migrations:
reads, calls of one service in one request, or CRUD on one row without a
protocol of its own.

What makes each part correct is said by the properties of section 4.

## 2. Modules

One module per component; its header says what an action is and what is left
out. Its state, `Init`, actions, `Next`, `Spec`, fairness where it has any, and its own
properties are in it.

| Module | Code it models | Proofs |
|---|---|---|
| `ExtractionPipeline` | worker, recovery, retry by hand, the broker | `ExtractionPipelineProofs` |
| `ExtractionJob` | abstract: what the rest may rely on for one posting; implemented by `ExtractionPipeline` | |
| `Distribution` | requests for a distribution and its runs | `DistributionProofs` |
| `DistributionInTurn` | the same with a note of whether runs have overlapped | `DistributionProofs` |
| `RefreshTokens` | refresh tokens of one user | `AccessProofs` |
| `SessionFamilies` | abstract: a login begins once, may end, and never comes back; implemented by `RefreshTokens` | |
| `LoginApproval` | logins that wait for approval | `AccessProofs`, `ProgressProofs` |
| `LlmBudget` | the budget of one tenant | `LlmBudgetProofs`, `AccessProofs` |
| `LineImport` | uploads of LINE exports | `CatalogueProofs`, `ProgressProofs` |
| `CurrentResults` | which results of one supplier are current | `CatalogueProofs` |
| `HumanDecisions` | decisions about one item | `CatalogueProofs` |
| `Quoting` | quotes and the invoices made from them | `DocumentsProofs` |
| `InvoicePayment` | one invoice, its payment, the orders that wait | `DocumentsProofs`, `ProgressProofs` |
| `PayPalDisputes` | events of disputes | `ProgressProofs` |
| `OwnInventory` | one row of stock | `DocumentsProofs` |
| `CustomerRegistration` | the addresses of one company | `DocumentsProofs` |
| `CalendarSync` | one connected calendar | `DistributionProofs` |
| `Inbox` | deliveries of Meta, leads, answers | `AccessProofs` |
| `StaffJoin` | invitations and rooms of the staff | `AccessProofs` |
| `ViewerAccounts` | codes, rooms, trials and purge of viewers | `ViewerAccountsProofs`, `ProgressProofs` |
| `RealtimeSignals` | one topic from a write to the screens | `ProgressProofs` |

The `MC` modules instantiate them for TLC. `MCExtraction` and `MCDistribution` hold
one component. `MCDocuments` (quotes, payments, stock, addresses), `MCAccess`
(sessions, approvals, budget, invitations, answers), `MCCatalogue` (import, results,
decisions), `MCProgress` (disputes, payments, logins, screens, uploads, viewers),
`MCUpkeep` (distribution, calendar) and `MCContacts` (inbox, rooms, viewers) each hold
several. In these the variable `part` is chosen initially; the chosen component takes
its steps and the others rest in their initial states. That loses nothing,
because in the models the components of one `MC` module share no variable, and it
keeps the interleavings of unrelated tables out of the state space. A type
invariant `TypesOK` guards the types of each part by `part`; some parts restrict
their component further (`OnePageRests`, `OneLinkRests`, `ResultsOfPart`, `OneAtATime`,
`OneReads`, `NobodyAsks`, `OnlyDora`, `OnlyLea`): each restriction selects actors or
schedules, and another part of the same run lifts it. Because each part is a behaviour
of its component with stuttering, what is proved of a component holds of the composed
specification. The modules of proofs extend these modules: `AccessProofs` extends
`MCAccess`, `CatalogueProofs` `MCCatalogue`, `DocumentsProofs` `MCDocuments`, `ProgressProofs`
`MCProgress`, and `DistributionProofs` both `DistributionInTurn` and `MCUpkeep`; so the
composed properties that the runs check are theorems as they stand (section 5).

Where components meet in the code: `LineImport` commits the postings that
`ExtractionPipeline` imports; an analysis that ends an extraction changes the rows
`Distribution` reads, and open jobs hold a run back (`post` in `Distribution` is
`status` and `analysed` with the attempts left out); `CurrentResults` decides which rows
exist; `HumanDecisions` starts analyses and asks for distributions; an approved
login (`LoginApproval`) begins a family of `RefreshTokens`, and a rejected one may end
families; `Quoting` hands its invoices to `InvoicePayment`, whose orders reserve in
`OwnInventory`.

## 3. State and actions

An action is one transaction (or one statement, where READ COMMITTED lets
another transaction in between), one call of a broker or of a service, or one
answer. What a handler has read and not yet written is in its process or request
variable, so that everything another actor may do in between is possible.
Faults (a crash, a call that fails with or without its effect, a commit that is
lost) draw on a bound such as `MaxFaults`; in the model they come in any order and
at any step.

**ExtractionPipeline.** `status` and `errmsg` are columns of `extraction_jobs`; `last` and
`phase` are the rows of `extraction_attempts` (`rejected` is a failed attempt with a
transient category); `items` names the attempt whose items are stored; `stale` and
`days` are the ages the recovery compares (15 minutes; 24 and 48 hours). `pc`, `job`, `att`, `code` are the locals of a
Celery process, `rpc`, `found`, `todo` those of the periodic task, `seen[o]` what a retry by
hand has read.

| Action | Code |
|---|---|
| `Import`, `Supersede` | `_write_source_messages`, `_enqueue_extraction` |
| `Receive`, `Skip`, `GiveUpBeforeClaim` | `_run_extraction` up to the claim |
| `Claim`, `ClaimConflict` | `AttemptRecorder.before_send` |
| `Respond`, `Refuse` | `AttemptRecorder.on_response`, failures of `_call_gemini` |
| `Save`, `SaveConflict` | `run_v102_extraction` with `prepare_items` |
| `Fail`, `FailLost` | `AttemptRecorder.fail`, and its write being lost |
| `Analyse`, `ReceiveReanalysis`, `Reanalyse` | the system stage and its repetition |
| `ReadForRetry`, `RetryByHand`, `ResendPending` | `retry_extraction` |
| `FindStaleRunning` ... `FinishRecovery` | the passes of `_run_recovery`, a SELECT and then one step per write |
| `Crash`, `RecoveryCrash` | a process dies between two steps |

Left out: the v6 engine (it writes the same tables through the same recorder),
the row limits of a pass, ages below 15 minutes. `TCG_AUTO_ANALYZE=1` is assumed.

**Distribution.** `data` is the number of changes that ask for a distribution and so
the version of the rows; `key` is `DISTRIBUTION_SCHEDULE_KEY`; `delayed` and `autos` are the
messages of the two tasks; `asker` is a process in `schedule_distribution`; `pc`, `by`, `got`,
`tries`, `ok` are locals of a run; `sheet` the blocks of rows in the tab. `Correct`,
`Reserve`, `SendReserved` are a correction and its request; `StartAuto`, `StartDelayed`, `StartByHand`,
`Release` the tasks and the API; `CheckRuns`, `CheckJobs`, `ReadRows` `build_distribution_rows`;
`Clear`, `AppendRows`, `WriteFailed`, `Record` `_write_tab_sync`, its tries and the record.
A call of Sheets that fails may or may not have had its effect. Left out: the
choice of rows and targets, the review tab, the notices.

**RefreshTokens.** `tok` is the table, `req[r]` a transaction: the row it has locked, the
row it has inserted and not committed, the rows its revocation saw. A refresh is
`BeginRefresh`, `Rotate`, `IssueNext`, `DeviceIsActive` and the commit; a revocation is one
UPDATE, split into what it sees and the rows it gets to (`See`, then
the revoking of a row, waiting for locked ones). **LoginApproval** keeps the row of a
request and, per process, what it read; `Decide`, the polls and the codes repeat the
status they expect in their UPDATE. **LlmBudget** is the row of the month with its
holder; before its first UPDATE a translation reads what is committed. Costs are exact
(10^-9 USD); `InBudget` and `InLedger` round them to the 4 and the 6 decimals of the two
tables. The costs of `MCAccess` lie half-way between two charges, and below the smallest.

**Quoting.** `quote` and `invoice` are rows; `req` holds what an edit, a deletion or a
conversion has read. Sending and deciding are single conditional UPDATEs. **InvoicePayment**
has the invoice, PayPal's invoices, the orders, users' requests and webhook requests;
between a read and the repeated condition of the UPDATE lies a call of PayPal.
**PayPalDisputes** tries the tenants one after the other. **OwnInventory** is a row with two
numbers; which order holds how much is known to the callers only. **CustomerRegistration** is
the set of addresses, the tokens, and the uncommitted changes of each request.

**LineImport.** An upload walks through the postings of its file, takes the lock of
a name or a channel when it gets to it, and commits at its end; `InCircle` is
PostgreSQL's deadlock detection. **CurrentResults** splits the merge into its snapshot
(`Rank`) and its UPDATE (`Apply`). **HumanDecisions** orders decisions by the start of
their transactions and queues requests for two locks. An analysis that fails in its own try
block is rolled back (`Fails`) and leaves a review reason (`Mark`); one that is broken off
elsewhere, before or after its result is written, is retried (`Retries`), gives up
(`GivesUp`) or is delivered again (`Dies`). `gaveUp` is history: nothing in the database
says so.

**CalendarSync** has the rows, Google's events, the sync token and the pending
changes, requests, workers and registrations of the channel. The advisory lock of
`sync_tenant_from_google` belongs to the session, and the model has it held for as long as a
worker reads. A title stands for all that an edit sets, the end included; `old` is the set of
the titles that end more than 30 days ago, grows by itself (`Ages`), and is noted by a worker
as `past` when it computes `time_min`. A full reading finds the events outside `old` and
deletes the rows it did not find but for those in `past`; a reading since a token is
taken to bring every change, of old events too. `apart` is history: the events
that differ from their row although every reading is done, since they were deleted
in the app alone, a late UPDATE called an overtaken edit synced, or a full reading passed over
them as long past; a change at Google takes an event out again. **Inbox** has a task per delivery with what it has read, the two logs and
the leads; merging locks both leads. A channel is a customer on a platform: `Find` asks for
the platform of the message, `Create` registers an echo's customer under Messenger whatever
the platform is. A statement of a task may fail at any step. **StaffJoin** and **ViewerAccounts** have rows, codes, rooms
in Discord, interactions of the bot that make a room while their transaction is
open, and the sweep or the purge. **RealtimeSignals** has the connections, their
queues and what each screen shows; the data is the number of writes.

Assumed rather than modelled: a 7-day code that expired is not drawn again; the
account of a calendar does not change; channels of Google do not expire;
message windows of Meta are open.

## 4. Runs

| Run | Instance | What it shows |
|---|---|---|
| `extraction_safety` | 1 posting, 2 workers, recovery, 2 faults, `ApiRetryMax` 3 | job, attempt and items tell one story; attempts and calls are limited; ended attempts and finished jobs stay; every step is one of `ExtractionJob` |
| `extraction_operators` | 2 retries by hand, a change of the rules | one answer is accepted per posting, and the job never opens again |
| `extraction_liveness` | 1 posting, 2 workers, 1 fault, fairness | open jobs settle, refused postings (until they are 48 hours old) and failed analyses are not forgotten |
| `extraction_retry_race` | violation | two retries by hand: the second deletes the items of a job that is done (finding 1) |
| `distribution_requests` | `Runs` of `DistributionInTurn`: 1 posting, 1 analysis, 2 askers, 2 runners, 2 faults, 1 crash | the key stands for a message, requests are merged, no change is missed; while runs follow each other the tab is true |
| `documents` | 1 quote with 2 requests; 1 invoice with 2 users and 2 webhooks; 3 orders; 2 links and 2 pages | approvals bind, money settles once, reservations hold, addresses hold |
| `access` | 2 requests on 3 tokens of 2 logins; 2 processes and 1 login request; 2 translations; 2 invitations and a sweep; 2 deliveries, of Messenger and of Instagram, and an answer | one live token a family, revocations end families, logins are earned, overspending is bounded, rooms belong to one person, answers reach their customer |
| `catalogue` | 3 posts, 2 processes that overlap, or more runs one after the other; 3 uploads; 3 requests, 2 workers, together or in turn | the newest post of a product is shown, imports do not wait in a circle, decisions are kept |
| `progress` | fairness; 2 disputes of 3 tenants, 1 invoice, 1 login, 1 tab with 2 writes, 2 uploads of new names, 1 viewer | every event is heard, screens follow, waits end |
| `upkeep` | fairness; 1 posting, 2 runners, 1 crash; 1 row and 1 event of Google, 2 requests, 3 edits, 2 workers, 1 failure | requests of distributions are served, the calendar catches up |
| `contacts` | fairness; a customer on Messenger and one on Instagram, 3 messages, an echo to each, 1 failure; 2 rooms; 2 accounts, 2 members, 3 codes, purge | messages stay with a customer who has a channel and are not lost by themselves, rooms of nobody are swept, viewers hold their rooms |
| `registration_single_use` | violation | two requests use one token (finding 2) |

Bounds. Rows of one table do not affect each other unless a lock, an index or an
order relates them; so an instance has the one or two rows that a lock or an order can
relate, and two or three actors for every race, which is also the concurrency of the
deployment for Celery. Bounds on faults and repeats allow a failure and a second one
while it is repaired. `MaxAttempts` is at least `ApiRetryMax + MaxFaults + MaxManual`,
the bound `AttemptsAreLimited` proves, so that it stops nothing. `MaxQueue = 2` has a message
there twice. Symmetry is used in runs without liveness, over sets whose members no
definition tells apart.

Deadlock is checked in the extraction, whose recovery never stops. The other runs set
`CHECK_DEADLOCK FALSE`: when every request is answered and the bounds are spent, the
system rests.

Fairness. A worker, a transaction or a request that began goes on (time limits,
timeouts and PostgreSQL's deadlock detection end them); a waiting Celery message is
taken in the end, with strong fairness because a worker is free only now and then;
beat starts its periodic tasks for ever (`Recover`, the reads of the calendar every 15
minutes, the sweeps); PayPal repeats an event until it is answered with 200, whatever was
done about it; a
browser opens its stream again. Nothing is assumed of users, operators, faults, or
of which outcome a call has: Gemini may refuse for ever.

Six more configurations are kept beside the runs. Each reproduces a schedule in
which something the code or a comment wants does not hold: `distribution_overlap`
(`Distribution`), `payment_void_race` (`InvoicePayment`), `calendar_twice` (`CalendarSync`),
`quoting_edit_race` (`Quoting`), `extraction_skip_race` (`MCExtraction`), `sessions_password`
(`RefreshTokens`).

## 5. Proofs

TLAPS checks the theorems for every value of the constants that the named
assumptions allow: bounds are natural numbers (`RetryMax` and `ApiRetryMax` are positive),
`None` and its likes are not members of the sets they stand beside, the roles of one
component are disjoint. Sets of postings, workers, requests, tokens, quotes, tabs or
accounts may be infinite, except where the argument counts them: the orders of
`OwnInventory`, the requests of `HumanDecisions`, the processes of `LlmBudget` and the
channels of the files in `MCCatalogue`. Where a theorem needs more (no change of the rules,
no request sent twice, no signal lost) it is a hypothesis of its own, named below.

A theorem about a composed specification (`Access`, `Catalogue`, `Documents`, `Progress`,
`Upkeep`) also stands on what the `MC` module fixes when it instantiates a component, the
rest of the constants being arbitrary. `MCAccess`: two customers, their messages and
a reply, up to 4 leads, 2 merges or deletions and one failure of a task; one link for each
invitation, links that are not slow, one fault; hard limits of 1 and 2 within one
month, or limits up to 2 over three months. `MCCatalogue`: files of known suppliers only
(`CatalogueAssumption`). `MCProgress`: two files of two new names and one whose channel is gone,
one viewer. `MCDocuments` and `MCUpkeep` fix nothing.

| Theorem | States |
|---|---|
| `ExtractionPipelineProofs`: `TypeCorrect`, `JobAndAttemptAgree`, `AcceptedOnce`, `EndedAttemptsNeverChange` | `TypeOK`, `JobMatchesLatestAttempt`, `ExtractedOnce`, `EndedAttemptsStay` |
| `PipelineKeepsPromise` | with `MaxRules = 0`, `ExtractionPipeline` implements `ExtractionJob` |
| `AttemptsLimited`, `OneCall` | `AttemptsAreLimited`, `OneCallAtATime` |
| `CallsLimited` | with `Operators = {}`, `CallsAreLimited` |
| `FinishedJobsStay`, `AnalysisIsRetriedOnce` | with `MaxRules = 0`, `FinishedStays`, `AnalysisRetriedOnce` |
| `StagesStay` | with `MaxRules = 0` and `Operators = {}`, `StatusesStay` |
| `DistributionProofs`: `TypeCorrect`, `KeyStandsForMessage`, `EveryChangeIsRead`, `OneDistributionAtATime` | `TypeOK`, `KeyIsBacked`, `NoChangeIsMissed`, `RequestsAreMerged` |
| `TabStaysTrue` | `TabIsTrue` of the runs that follow each other |
| `CalendarTypes`, `VisibilityStays`, `RecordedChannelStaysOpen` | `TypeOK`, `VisibilityIsKept`, `RecordedChannelIsOpen` of `CalendarSync` |
| `UpkeepTypes` | `TypesOK` of `MCUpkeep` |
| `AccessProofs`: `TypeCorrect`, `AtMostOneLiveToken`, `FamiliesDoEnd`, `OutdatedIsRefused` | `TypeOK`, `OneLiveToken`, `FamiliesEnd`, `NoExchangeOfOutdatedTokens` |
| `PromiseIsKept` | `RefreshTokens` implements `SessionFamilies` |
| `EntriesDoBelong`, `BudgetDoesHold`, `JoinsDoHold`, `AnswersDoReach`, `AccessTypes` | `EntriesAreEarned`, `BudgetHolds`, `JoinsHold`, `AnswersReachTheirCustomer`, `TypesOK` of `MCAccess` |
| `DocumentsProofs`: `TypeCorrect`, `ApprovalsDoBind`, `DecisionsAreFinal` | `TypeOK`, `ApprovalsBind`, `DecidedOnce` |
| `MoneyDoesSettleOnce`, `AddressesDoHold`, `DocumentTypes` | `MoneySettlesOnce`, `AddressesHold`, `TypesOK` of `MCDocuments` |
| `ReservationsDoHold` | with `Repeats = {}`, `ReservationsHold` |
| `StockTypes`, `ReservedIsExact`, `ShelfDoesCount` | `TypeOK` of `OwnInventory`; with `Repeats = {}`, `ReservedIsWhatIsHeld`; without repeated shipments, `ShelfIsCounted` |
| `PromisesHold`, `ConstraintsNeverRefuse` | with `Repeats \subseteq {"reserve"}`, `PromisesAreBacked`, `NoConstraintError` |
| `CatalogueProofs`: `TypeCorrect`, `NewerPostsDoWin` | `TypeOK`, `NewerPostsWin` of `CurrentResults` |
| `ImportsDoKeepOrder`, `DecisionsDoStay`, `CatalogueTypes` | `ImportsAreInOrder`, `DecisionsAreKept`, `TypesOK` of `MCCatalogue` |
| `LlmBudgetProofs`: `TypeCorrect`, `OverspendingIsBounded` | `TypeOK`, `OverspendIsBounded` |
| `MonthDoesCount` | with translations that follow each other, or no end of a month (`Alone`), `MonthIsCounted` |
| `ViewerAccountsProofs`: `TypeCorrect`, `RoomsStand`, `ViewersDoHold` | `TypeOK`, `ViewersHaveTheirRoom`, `ViewersHold` |
| `ProgressProofs`: `DisputesStayApart`, `NoDisputeIsLost` | `ShownToItsTenant`, `AnsweredAfterStored` of `PayPalDisputes` |
| `ScreensNeverGoBack` | with `Guarded`, `ScreenNeverGoesBack` of `RealtimeSignals` |
| `HiddenTabsAreQuiet` | `HiddenTabsDoNotLoad` |
| `BehindIsSeen` | with `Connected` and `NothingIsLost`, `BehindIsNoticed` |
| `ProgressTypes` | `TypesOK` of `MCProgress` |

The hypotheses are the code's. With a change of the rules the unguarded UPDATE of
`Skip` closes a job that another worker has claimed (`extraction_skip_race`), and with two
retries by hand a job loses its items or is opened again (finding 1). A page that does
not number its loads shows the answer that comes last. `NothingIsLost` says that the loads are
numbered, no load fails, Redis loses nothing, and a tab's own signals do not fill its
queue: each of these is how a tab can stay behind until the next signal. Two
translations that begin in a new month both reset it, which `Alone` excludes.

**Extraction.** `JobMatchesLatestAttempt` and `ExtractedOnce` are not inductive: a worker that
is about to write relies on what it holds. The invariant adds `Registers` (a worker
that is not idle holds a posting, and an attempt that was given out) and `Unused` (numbers
above `last` have no row); with the two properties `Unused` is `Story`. The refinement adds
`Skipped`: without a change of the rules, a blank or excluded posting is never tried,
so the unguarded `Skip` is a skip of the abstract job or changes nothing.

*Limits.* That a finished job stays finished needs no invariant of its own: it follows
from the refinement, in which no step leaves those stages (`FinishedStep`). The marks of a
failed analysis need two facts at once: who has just saved a result is the only one
to mark it and the job is unmarked until then (`SavedOnce`), and marked jobs are done
(`MarkedAreDone`); else a message delivered twice could ask for a third analysis. What
the SELECT of the recovery has found must still be so when it writes
(`FoundAreRejected`), which only another retry could change.
The bounds on attempts and calls are the hard part, because both are about what may
still come. `Owed(j)` says that the recovery is about to take, or will take, a running
job from its worker, or that nobody works on it any more; `OwedStep` shows that only a
fault makes it true. `AttemptsAreOwed` then bounds not the attempts but the attempts *plus*
everything that is entitled to another one: a job that waits, a job that is owed, a
job the retry has found, and every operator that has read it as failed. A claim
moves one unit from "waits" to "attempts", the reset of a stale job one from "owed" to
"waits"; nothing else moves without paying a fault or a retry by hand.
`CallsAreOwed` counts in the same way the workers that call for a job that is not their
own (`LateCallers`), with `HoldersDiffer`: an attempt number is given to one worker.

**Distribution.** `KeyIsBacked` is inductive with the types. `NoChangeIsMissed` is inductive
relative to it: the one case is a correction that finds the key taken and relies on
another's message. `RequestsAreMerged` needs `OneRequest`: while nothing fails, the key is
set as long as its message exists, and the message is in one place only.

*The tab.* While runs follow each other one run at most is between its read and its
record. The invariant says what it holds: it carries the newest rows read, the tab is
empty from its clearing to its append (`TabIsEmptied`), success is noted only by a run that is
about to record it (`OnlyRecordersAreOk`), and if nothing has failed the newest rows are in the
tab or on their way (`NewestIsUnderWay`). Each part is said of the behaviours whose runs have
not overlapped, and the step that sets `overlapped` makes it void.

**CalendarSync.** A full reading deletes rows it has not seen, so the invariant is about what a
worker read while Google went on changing. `Exclusive`: who holds the lock is the only one to
write. `ReadsHold`: an event that was read as deleted is deleted, and one that a full reading left
out (`Missed`) is not there, or had ended more than 30 days before, or has a change that is
not older than the token the reading got; for this the token is at most one more than the
number of the last change, and what is long past stays so (`OldGoesOn`). A row exists only of an event
that was made (`EventsHold`). `ChannelsHold`: a channel that is about to be recorded is open, and
no other registration takes it for the old one it is to close.

**RefreshTokens.** That a family has one live token (`OneLiveRow`) needs what the row locks
guarantee: the row a refresh has locked is live and nobody else's (`LocksAreHeld`), and the
row it inserted but has not committed continues the family of that row and its
start (`NewRowsContinue`). That a revocation ends a family nobody was rotating needs
`SeenRowsWait`: a row the UPDATE has seen is still live and unlocked, or somebody else has
ended its family. `RowsHaveFamilies`, `OnlyUsedRowsAreSeen` and `EndedWereBorn` tie the bookkeeping
together. The refinement maps a family to unborn, alive or dead by its rows.

**Quoting.** That an approval binds amounts is not inductive, because edits read and write
apart: `EditorsDisturb` says that who still edits an approved quote began before the approval
(the property excludes exactly these); `ConversionsAgree` that a conversion, which
has locked its quote, carries the quote's amounts; `QuotesAreFound`, `EditsHaveFees` and
`NumbersAreNext` that requests hold what they have read.

**ViewerAccounts.** A room is made while the transaction is open, so the invariant says of
each handler what it holds: who makes a room for a new viewer holds the account's row
(`MakersHoldTheRow`), who makes one again does so for a member or a purged one (`OpenersAreMembers`),
a room just made is nobody's yet and the right account's (`NewRoomsArePrivate`), and the sweep has
only read rooms of purged accounts (`StraysHaveNobody`). `PurgeHoldsTheOld` says that the purge
keeps the rows it has chosen locked, which is why a payment or an extension cannot come
in between. `HandlersKnow`, `RequestsKnow`, `LiveCodesHaveOwners` and `OnlyMembersHaveRooms` are the types
of what is held.

**OwnInventory.** The row keeps two sums, so the argument is about counting: the units
of the orders in a state are a finite set (`UnitsAreFinite`), and an order that changes its
state takes exactly its quantity along (`OneMoreOrder`, `Moves`). With it the three
equations and inequalities are inductive together, once the lock is stated: one
request at a time has read the row (`OneReads`), and what it has seen still holds when
it writes (`ReadersHaveSeen`). The theorems say which repeated requests each of them
survives; a repeated release or shipment takes what other orders hold.

**LoginApproval.** A machine is let in once, when its request is completed and not before
(`InWhenCompleted`); a recovery code that is being used is in one transaction, and a used one
and the request it opened name each other (`CodesAreHeld`); a request with too many wrong codes
is rejected (`WrongAreCounted`), which matters as the count is written apart from the check.

**LlmBudget.** `Counted` ties the budget to its ledger while a transaction is open: what the
holder of the row has written beyond the committed one is in its own entries. As a charge
is rounded to 4 decimals and a row of the ledger to 6, they are not equal: each call adds
at most 0.0000505 USD to their difference (`Agree`). The bound on overspending counts, as
in the extraction, what may still come: what is charged plus the largest charge for every
translation that has been checked and not charged (`BoundedBy`), where the one that holds
the row has seen its own. `MCAccess` uses these theorems twice, for the two
instances it composes (`SameBudget`).

**StaffJoin.** As with viewers, a room is made while its transaction is open. Who enters a
code holds the row of an invitation without a room (`EntriesHoldTheRow`); the room it made is
new and nobody else's (`NewRoomsAreTheirs`); a room that a row names stands and is its own
(`NamedRoomsStand`, `RoomsAreOfInvites`); what the sweep is about to delete was old when listed and
is nobody's (`SweptAreNobodys`). It is the age that keeps the two apart: a sweep cannot list a
room that is new, and a new room that is named ages only afterwards. `PeopleAreCounted` and
`MembersAreOne` follow the invitation's status.

**Inbox.** What a task has found may be merged away before it stores. `FoundIsOwner` says
that the lead a task has found is still the customer's *if it exists*, `StoredIsFiled` that
what is about to be logged is stored under that lead, and `AnswersConcernLeads` that an answer
under way is to a customer who wrote to its lead; merges and deletions, which move both
tables, keep all three, and so does an echo of Instagram, which takes no channel away. With `KnownAreStored` the three properties about filing (`Filed`) are
inductive.

**CurrentResults.** The newest post is shown whatever overlaps, because no decision hides it
(`NewestIsSafe`). That every pair shows its newest post holds in turn only: `TurnsAreTidy` says which
pairs are in order at each step of a run (between two merges all of them, during one
those that it does not touch) and that the note of touched pairs covers the rest.

**LineImport.** With known suppliers channels have the order of their names (`ChannelsAreFixed`),
and an upload still has to write only names after those it has locked (`EntriesAreInOrder`), so
who waits for a lock waits for a larger channel (`WaitingIsUphill`); a circle would have
a largest one. `HeldApart`, `WritesAreOwn` and `FilesAreLocked` say what an open transaction has
written: new, under a channel it holds, one message each, of a file nobody else imports.
For new suppliers `MCProgress` proves the types (`UploadsAreSane`, `TxsAreApart`): there the lock
is a name's, and circles are possible.

**HumanDecisions.** The result must follow decisions that commit while an analysis runs.
`AnalysesCatchUp`: either something is pending (an analysis waits, or its request is about to be
sent, or was lost), or every analysis that computes has read all that was decided, and if no
worker is at one the result reflects it, or the last to end failed (`marked`, `gaveUp`). It stands on the locks (`LocksAreHeld`) and on times being counted
(`LogIsNumbered`, `TimesAreCounted`). That an accepted reason stays accepted is proved of requests
in turn (`InTurn`): their rows are numbered in the order of their times.

**Payments.** Between a read and the UPDATE lies a call of PayPal, so the invariant says of
each request that the link, and the PayPal invoice it has seen paid, are of its own
invoice (`LinksAreOwn`, `PayPalIsSane`), and that an invoice with a payment is closed (`PaidIsClosed`);
with `OrdersExist` the properties about orders and money are inductive.

**CustomerRegistration.** A page is saved by several statements that nobody else sees.
`VisitsAreInOrder` says what each request has changed at which of its steps; rows are of
committed requests (`RowsAreCommitted`) and a default is a row (`DefaultsAreRows`).

**PayPalDisputes.** The handler tries the tenants in turn, so no tenant but the owner can
store an event; that none is answered before it is stored needs `OwnersAreTried`: the owner is
still among the tenants to be tried, or a verification failed, which is remembered.

**RealtimeSignals.** `ScreenInv`: what a tab has loaded, or will load, is not newer than the data,
and with numbered loads not older than the screen. `FollowInv` says that a tab which
will not be up to date after its loads has a reason to load again: a signal of
somebody else in its queue or not yet sent, a timer, or a broken stream (`WillLoad`). The hard
case is a full queue, which drops signals. A tab skips its own signals, so a queue
full of them would lose another's; `OwnAreCounted` shows that these, and the signals to come,
are of different writes, so that it cannot happen before `MaxWrites` exceeds `QueueMax`.

**Composition.** In each `MC` module a step of one part leaves the variables of the others
alone, so the composed specification implies the inductive invariant of every part, and the
composed properties follow. `ProgressTypes` takes the types of a viewer from
`ViewerAccountsProofs` (`SameViewers`).

Model-checked only:

- liveness: `NothingIsForgotten`, `RequestsAreServed`, and the liveness in `CalendarFollows`,
  `EventsAreHeard`, `ScreensFollow`, `WaitsEnd`, `ConversationsAreKept` and `RoomsAreSwept`. Fairness and
  ENABLED are outside the prover. What these properties say of safety is proved
  separately where the table lists it (`VisibilityStays`, `RecordedChannelStaysOpen`,
  `DisputesStayApart`, `NoDisputeIsLost`, `ScreensNeverGoBack`, `HiddenTabsAreQuiet`, `BehindIsSeen`);
- the merges and deletions of leads beyond `MCAccess`, and the rooms of `MCContacts`, as far as
  they are parts of those properties;
- imports of new suppliers beyond their types: there two uploads can wait for each other,
  and only that PostgreSQL ends the wait is claimed (`WaitsEnd`);
- `DoneHasItems` and `OnlyTransientErrorsReopen` with operators, where they are false.

## 6. Findings

1. `retry_extraction` promises that jobs not in error are skipped, but its `DELETE` does
   not repeat the condition (`tcg_diagnostics_svc.py:223`). Run `extraction_retry_race`.
2. A registration token is said to be for a single use; it is read as unused and marked
   at the end of the request, whatever it is by then (`registration_token.py:136`). Run
   `registration_single_use`.

What else the models show where code and intention part (those with a
configuration of their own are marked with its name):

- *Extraction.* The UPDATE to `filtered` or `empty` names the job, not the status it was read
  with (`tcg_extraction.py:394`; `extraction_skip_race`). A worker that dies after the items were
  committed and before the analysis leaves a job that is done and never analysed, which
  no pass of the recovery selects (`tcg_extraction.py:475`). A posting that stays refused
  until it is 48 hours old, because the recovery or its notice failed that long, is no longer
  reported (`tcg_extraction_recovery.py:397`).
- *Distribution.* Two runs clear, then both append, and both record success
  (`tcg_distribution_svc.py:682`; `distribution_overlap`). Older rows can be written last, over those that a
  later run read (`tcg_extraction.py:914`). Only successful analyses trigger a run again after a
  hold, though the docstring names every extraction that ends (`tcg_extraction.py:483`). A repeated
  analysis that fails leaves its row of `analysis_runs` open (`tcg_product_master_svc.py:848`) and
  holds every later run back.
- *Results.* Merges of one supplier cross and show an older post; one that is broken off,
  or a product that stays unresolved, leaves two. Hence two of the properties are
  about analyses that follow each other.
- *Decisions.* A reason accepted in a transaction that began before an edit, and
  committed after it, does not count. An analysis that fails in its own try block returns
  as if it had succeeded: the task ends as `reanalyzed` and is not retried, the result
  is without the last decision, and only the review reason of the post says so
  (`line_analysis_v102_svc.py:1573`); written after the lock was released, the reason may come
  after a later analysis succeeded. One that gives up after its retries leaves nothing
  at all (`tcg_extraction.py:855`).
- *Import.* Two files with new names in opposite orders wait for each other until PostgreSQL
  ends one. A file that is older than what is stored closes a newer posting's row, and a
  supplier without a channel can get two.
- *Quotes.* An edit or deletion that was checked before a decision is written after it
  (`quoting_edit_race`); two editors of one quote leave a total that is not the sum; a
  quote can be converted twice in turn.
- *Payments.* `void_invoice` voids an invoice that was paid in between, which its test
  excludes (`payment_void_race`). An order can be moved on by an event whose invoice was
  settled otherwise, or be left while a payment comes early; a status PayPal does not
  name is passed over. If PayPal cannot be asked back about an event, `paid` is false
  and the event is answered with 200 all the same (`paypal_payments.py:699`, `integrations.py:945`):
  PayPal does not repeat it, and the invoice stays unpaid until somebody confirms it by hand.
- *Disputes.* PayPal's repeated older event writes over a newer one when the numbers do
  not order them.
- *Sessions.* A password change that is committed while a login is under way does not end
  the session that this login begins (`sessions_password`).
- *Logins.* A poll that comes late finds its request completed, and the hourly limit is
  counted before the insert, so requests at the same time pass it.
- *Budget.* Each translation that was checked before the limit was reached may overspend by a
  call; two translations that begin in a new month both reset it; an entry of the
  ledger is lost with its transaction though the call was made. A charge is rounded to 4
  decimals, half to even (the default of `Decimal`, not `ROUND_HALF_UP` as the comment at
  `llm_budget.py:522` has it), and a call under 0.00005 USD is charged nothing, however
  many of them there are; the ledger keeps 6 decimals of each.
- *Inventory.* A repeated ship or release is indistinguishable from a second one, as the
  row knows no orders.
- *Calendar.* A synchronisation between the commit of a new row and the answer of Google
  makes a second row of the same event (`calendar_twice`), and a deletion in that window
  leaves Google's. The late UPDATE of an overtaken edit says `synced` of the title of the later
  one (`calendar_service.py:409`): if that one dies, the row differs from Google for ever and says
  it does not. A full reading deletes the row of an event that was moved at Google to a time
  more than 30 days back, or whose row an edit moved out of that time when Google did not
  know of it yet; the row comes back with the next change, seen by its owner only. It leaves older
  rows of deleted events (`google_webhook.py:346`).
- *Inbox.* Two first messages at once, or an echo and a message, make two leads. On
  Instagram they need not come at once: `_create_outbound_lead_for_echo` always registers
  the platform `messenger` (`webhook.py:558`, `574`), so the customer's first message, and
  every further echo before it, makes another lead. A message that fails takes the rest
  of its delivery along; a message that was sent is not recorded when its lead is merged
  away meanwhile.
- *Staff and viewers.* A link that is slow to commit and a commit that raises though it took
  effect cost somebody the room; of two sign-ups at once both codes stay live; a second
  room of a living viewer is swept by nobody.
- *Realtime.* A signal that Redis loses, a full queue and the very first load are made up
  for only by the next signal or a reconnection.
- *Purchase orders* (not modelled). Sending the mail writes the status it read
  before.

## 7. Plan

1. An abstract specification of the tab (it shows one version, versions only grow),
   implemented by `DistributionInTurn`; and one of an invoice, implemented by `InvoicePayment`.
2. `LineImport` with new suppliers: `FileImportedOnce` and `OneActiveMessage` where a channel is made by
   the import itself.
3. `Inbox` with any set of customers.
4. The parts named in section 1 as not modelled, where a protocol is added to them:
   the mails of purchase orders first.
