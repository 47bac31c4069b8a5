# A verification development of VATCrawlbot / vatengine

VATCrawlbot keeps a tenant's e-invoices in step with the Vietnamese tax
authority's server (GDT). It runs on Cloudflare Workers: cron and users put
messages into a queue, workers pull invoices from GDT and store them in
PostgreSQL, one Durable Object per tenant meters the requests, and a web page
shows, reconciles, exports and shares what is stored. This directory holds TLA+
models of the parts that keep state and are hard to test; TLC checks them on
small instances, and TLAPS proves all but one of their safety properties for
all instances. `PROJECT.json` lists, for every definition, the source lines it
stands for, and for every property a plausible bug that breaks it.

    tlc -workers 2 -config TenantLimiter.cfg MCTenantLimiter.tla
    tlapm EgressProofs.tla

## 1. Inventory

Paths are relative to `src/`; `W` is `apps/sync-worker/src`, `S` is
`packages/sync/src`, `A` is `apps/api/src`, `G` is `packages/gdt-client/src`,
`B` is `apps/web/src`.

| Component | State | Operations | What is hard | What makes it correct |
|---|---|---|---|---|
| Token bucket and breaker (`W/rateLimiter.ts`), limiter object (`W/tenantLimiter.ts`) | tokens, last refill, failures, open-until | `/acquire`, `/result` | fractions of tokens, a clock that jumps, breaker before bucket | permits bounded by bucket plus time; no starvation by polling |
| Throttle and retries (`W/throttledTransport.ts`, `G/http.ts`), job wrappers (`W/run*Job.ts`, `W/deps.ts`) | per call: attempt, time waited, abort signal | permit, wait, send, back off, record | nested retry loops, timeouts racing late permits, jobs acting on each other through the breaker | requests paid for; an open breaker drains; jobs end |
| Delta chain (`W/runDeltaJob.ts`, `S/chunkSync.ts`, `S/audit.ts`) | rows of `lan_dong_bo`, stored invoices, the chain's messages | audit, open, pull a chunk, successor, close | a guard that is no lock, state kept only in messages, crashes between open, send, close and acknowledge | one chain per run, bounded chains and messages, rest at last |
| Queue consumer, dead letters, replay (`W/index.ts`, `W/fanout.ts`, `W/dlqConsumer.ts`, `W/replay.ts`) | queues, `dong_bo_that_bai` | receive, acknowledge, retry, requeue, park, close, replay | at-least-once, unordered; two counters of attempts | none lost silently, none cycles for ever |
| Header job (`W/runJob.ts`, `S/sync.ts`), stored invoices and their history (migration 0017) | `hoa_don`, `lich_su_thay_doi_hoa_don` | pull, compare, upsert, trigger | two pulls of one page, records listed by the time their transaction began | the record listed first says what is stored, with two named exceptions |
| Line items (`W/runDetailJob.ts`, `S/detailLines.ts`, `S/missingLines.ts`) | `dong_hang_hoa` | select, fetch, replace | overlapping replacements, enqueue after commit | lines neither lost nor piling up |
| Source documents (`W/runHoSoGocJob.ts`, `S/tepHoaDonGocStore.ts`) | R2 objects, `tep_hoa_don_goc` | fetch, put, put, record | two stores | no row without its files |
| Share packages (`A/routes/goiChiaSe.ts`, `taiCongKhai.ts`, `packages/export`) | `goi_chia_se`, archive in R2 | create, pack, publish, revoke, download | pack racing revoke; death while packing | packed once, complete, dead when revoked |
| Backfill (`A/routes/taxAccounts.ts`, `backfill.ts`, `A/backfillTracker*.ts`, `B/.../useRangeBackfill.ts`), coverage (`S/coverage.ts`), tokens (`W/recorder.ts`) | tracker; progress derived from runs; token of the account | connect, press, enqueue, track, poll | four parties and no common transaction | done means complete; failures show; the page learns the end |
| Egress probe, canary (`W/egress*.ts`, `W/health.ts`, `W/canary*.ts`, `packages/thong-bao`) | last verdict, alerted, streaks | probe, alert, save | alert and save are two calls, alerts get lost | told once, told at last, bad news remembered |
| Registration, links, passwords, login (`A/routes/dangKy.ts`, `xacThucEmail.ts`, `datMatKhau.ts`, `auth.ts`), administration (`A/routes/admin/tenants.ts`) | tenants, users, one-time tokens | register, prove, decide, resend, set, log in | two administrators, links in the mail | decisions agree; links work once; locked means out |
| Reading (`packages/query`, `packages/reconcile`, `packages/export`, `A/routes/exports.ts`) | none but the page's cache | list, summary, gaps, export | statements of one request see different commits | nothing skipped, sums add up |
| Web session (`B/features/auth`, `B/lib`) | cookie, tabs' caches, saved filter | start, log in, query, log out, expire | late answers, a shared machine | own data only; nobody waits for ever |
| Database layer, cryptography, texts, page layout, earlier prototype | - | - | - | not modelled, section 7 |

How they interact: cron and the API only *send* messages; every job is a queue
delivery; jobs of one tenant meet in the limiter object and in the database; a
delta chain is a sequence of deliveries that hand a message on; chain and
dead-letter consumer both close runs; the API reads runs to show progress and
to guard against double work; the probe's verdict turns messages back at the
consumer's door; what the pages show is derived from rows at every request.

## 2. Modules

Each module is one state machine; its header comment says what a step is. The
modules meet in the state they abstract: a row of `lan_dong_bo` in `DeltaSync`
is a `Run` in `Backfill` and a run in `StoredInvoices`.

| Module | Models | State and actions |
|---|---|---|
| `RateLimiter` | `rateLimiter.ts`, pure | `Refill`, `Answer`, `AfterAcquire`, `RecordResult`, with tokens in units of 1/`Second`, so that the arithmetic is exact where floating point is approximate |
| `TenantLimiter` | `tenantLimiter.ts` | `clock`, `stored`; `Acquire`, `Result`, `ClockMoves`. A Durable Object handles one request at a time, so load-apply-store is one step |
| `ThrottledJobs` | a job's way from preflight to `recordResult` | per job a step, attempt, deadline, time waited; one action per await |
| `RunLedger` | what readers of `lan_dong_bo` may rely on | abstract: `Open`, `Close`, `GrowOld` |
| `DeltaSync` | one scope's chains, queue, dead letters, workers, failures | every step that another actor can see is an action: `Guard`, `Decide`, `Open`, `Pull`, `Send`, `Close`, then `Ack`, `Retry` or `Requeue`; `Crash`, `SendAnswerLost`, `CloseFails`, `DlqFails`, `ReplayRollsBack` are the failures |
| `SharePackage` | packages, the row and the object of each, and the source-document jobs that feed them | `Create`, `PackAsk`, `Elect`, `PutZip`, `Publish`, `RevokeAsk`, `TaiAsk` and the rest, one action per transaction or object call; `CallDies`, `Redeliver` are the failures |
| `TenantLifecycle` | registration, proof, decisions, links, passwords | what one SQL function does is one step; routes that make several calls take one for each; `Die` cuts a request off |
| `Backfill` | connecting an account, a range, jobs, tracker, polls | `Register` ... `Disconnect`, `Press`, `Enqueue`, `InitTracker`, `Poll`, and per job `Take`, `Preflight`, `Audit`, `Send`, `Pull`, `Header` |
| `EgressAlerts` | both alert machines | `Probe`, `Canary`, `Weather`; delivery may fail, answer late or be cut off before the save |
| `StoredInvoices` | pulls, trigger, phase 2 | `Begin`, `SelectExisting`, `CommitPull`, `EnqueueDetail`, `DeleteLines`, `InsertLines`; retries, losses, the user's `BackfillLines` |
| `Reading` | list, summary, gaps, export, the page's count | one action per statement, with writers between |
| `ExportFile` | what an export writes | operators: columns and rows of the flat, the line and the wide formats, sums in decimal, sorting, the unique names of files; `Reading` uses them |
| `MonthWindows` | `syncJob.ts`, `coverage.ts`, `fanout.ts`, pure | operators: the calendar, the months of a range, the current and the previous month at an hour in UTC, covered and missing months, batches |
| `Settings` | `configClamp.ts`, `goiDichVuConfig.ts`, `fanout.ts`, `rateLimiter.ts`, `syncRetryConfig.ts`, pure | operators: variables, quotas, limits and Retry-After as numbers |
| `Worklist` | `ruiRo.ts`, `tienChuoi.ts`, pure | operators: the front page's list of things to do, exact differences of money |
| `WebSession` | tabs of one browser | one action per request and answer |
| `EgressProofs` | - | the invariants and the theorems of what stands between a job and GDT: `TenantLimiter`, `ThrottledJobs`, `EgressAlerts` |
| `<Module>Proofs` | - | the invariant and the theorems of `DeltaSync`, `Backfill`, `SharePackage`, `TenantLifecycle`, `StoredInvoices`, `Reading`, `WebSession` |
| `MC*` | - | constants for TLC |

The pure modules state what their functions owe as named assumptions that TLC
evaluates over bounded inputs: `WindowsAssumption` (every day of a range is in
exactly one window, across a leap February, the turn of a year and 17:00 UTC),
`BatchesAssumption` (nothing lost, doubled or reordered, both limits kept),
`VariablesAssumption`, `QuotasAssumption` and `WaitsAssumption` (no text turns
the limiter off, stops a chain, or leaves the bounds), `WorklistAssumption`
(graver things first, an empty list only when there is nothing). The runs
`Backfill`, `TenantLimiter` and `Reading` evaluate them.

`ThrottledJobs` and `TenantLimiter` share `RateLimiter`. `DeltaSync` sees the
limiter, GDT, the token and the egress gate only as branches a step may take
("no permit", "token dead", "pushed back"): anything those components can
answer is among the branches, so its safety properties hold whatever they do.
Likewise a chain of pulls is one step of `Backfill`, and a run of
`StoredInvoices` may go on or end at will.

### Abstractions

* *`DeltaSync`*: `Decide` and `Pull` do their reads and calls in one step: in
  `Decide` the count of the database is the last thing read, in `Pull` the chunk
  is fetched first and committed in one transaction. A chunk is a step from page
  cursor to the next; whether it was the last is chosen freely. Nothing deletes
  rows of `hoa_don`. Ageing of a run may come at any time. The numbered audit
  rows of `ghiAuditDu` are a different kind of row.
* *`ThrottledJobs`*: ticks wait for the deadlines that are due; the limiter
  answers within `Latency`.
* *`SharePackage`*: what GDT answers for an invoice is a constant `source`; the
  static files that all packages share are left out; a request does not live
  for a week. Dead-letter replay is in `DeltaSync`. The last way out of names
  that collide appends the invoice's identity (`TenTep`), of which
  `goiHoaDonZip.ts:98` appends the first six characters. `WaitingIsServed` is
  about documents that were sent for: what a creation had not sent when it died,
  and an invoice that is stored only after the package was made, are awaited
  until another package fetches them.
* *`TenantLifecycle`*: a password is its own hash; the captcha and the limits of
  login attempts are reasons for which a request does not begin. Sessions carry
  nothing but the tenant. The DNS records of an address' domain are a constant,
  and a resolver that does not answer lets the address pass, as in `dangKy.ts`.
* *`Backfill`*: pushing back and retrying are one counter; GDT may end a session
  at any time; time is counted in units of the slack of `backfill.ts:41`. A job
  does not crash after `Audit` has opened its run (`runDeltaJob.ts:238`): what
  such a run leaves behind is counted in `DeltaSync` (`OrphanBound`).
* *`EgressAlerts`*: ticks of one cron do not overlap (their period is far above
  the limits of a Worker), so a tick is one step, with the cuts as variants.
* *`StoredInvoices`*: a status is its two fields, each with a history of its own.
  Transactions of pulls begin one after the other and the clock of the database
  does not go back; of records of the same time, which readers order by their
  random id, nothing is said. The portal answers anything at each fetch, but never takes
  an invoice back; one page; equal waiting messages count up to `MaxDetail`;
  two batches that wait for each other's row locks are a `RetryPull`; the
  `fetchDetail` option inside a pull, which no deployed caller sets, is left out.
* *`Reading`*: requests only read, so one at a time is enough; a sum of money is
  the count of the invoices summed. `EMPTY_LINE` is one entry of a file. A csv
  and an xlsx of one format have the same rows. The name of a file in a zip is its
  stem with a count, kept apart where `zipStream.ts:18` joins them: a stem that
  ends like a count is not told from one.
* *`WebSession`*: a request carries the cookie of the moment it is sent. If two
  users' sessions overlap in the tabs of one browser (`shared`), nothing is
  promised; section 6 names what happens then.

Assumed of the platform, because the code relies on it: a queue delivers at
least once, in any order, counts failed deliveries per message and gives up to
the dead-letter queue after `max_retries`; a message sent anew starts with
count zero; transactions are atomic, READ COMMITTED, row locks hold until
commit; object stores are atomic per object.

## 3. Runs

| Run | Question | Answer |
|---|---|---|
| `TenantLimiter` | Can permits outrun bucket plus time, or can polling starve? | `CreditInv`, `WindowBound`, `StarvationBound` hold |
| `ThrottledJobs` | Has every throttled request a permit of its own; does traffic drain when the breaker opens; do jobs end? | `PaidInv`, `BreakerDrains`, `EveryJobEnds` hold |
| `DeltaSync_Concurrent` | Can chains fork or get lost among two consumers? Is the whole a ledger of runs? | `OneChainPerRun`, `MessageBounds`, `TypeOK`, `LedgerSpec` hold |
| `DeltaSync_Faults` | What is left after a crash or a lost call anywhere? | `OrphanBound`, `ChainBound` hold; `Settles`: it comes to rest |
| `SharePackage` | Are packages packed once, complete, dead once revoked, and finished? | `FilesInv`, `PackedOnce`, `NothingSilentlyMissing`, `RevokedPublishedIsDead`, `WaitingIsServed`, `PackagesFinish` hold |
| `RevokedLink` | Is *every* answered revocation final, as `taiCongKhai.ts:5-7` says? | `RevokedIsDead` is violated: see below |
| `TenantLifecycle` | Do two administrators agree, do links work once, is a locked tenant out? | `DecisionsInv`, `LinksAreSingleUse`, `LockedOut` hold |
| `Backfill` | Is what is followed under way, do its failures show, is "done" complete, does the page learn? | `FollowedInv`, `OwnFailuresShow`, `DoneIsComplete`, `PageLearns` hold |
| `EgressAlerts` | Is an incident told, and once, when alerts get lost? | `ToldInv`, `SilenceIsInformed`, `BadNewsIsRemembered`, `IncidentIsTold` hold |
| `StoredInvoices` | Are lines doubled or forgotten, is the history true? | `CopiesInv`, `NewsIsTrue`, `LinesAreComing` hold |
| `Reading` | Do readers see what stood still while writers write? | `ExportInv`, `ExportReadsRight`, `NoPageSkips`, `ReportsAreRight`, `DoneIsShown` hold |
| `WebSession` | Does one tenant's data reach another's screen? Does the start screen end? | `OwnDataOnly`, `NobodyWaitsForever` hold |

A name that ends in `Inv` is the module's type invariant together with a small
safety property named in it; `CreditInv` is the inductive invariant of the
limiter.

*RevokedLink.* The packing request publishes with an `UPDATE` on the id alone.
A revocation between the election of the packer and that `UPDATE` finds no
object to delete, sets `da_thu_hoi` and answers 200; then the package becomes
`san_sang` and its link opens. What does hold is `RevokedPublishedIsDead`: a
revocation that found the package published is final.

Several properties say exactly how far the code goes, because the stronger
statement is false: `SilenceIsInformed` and `BadNewsIsRemembered` name the
histories (`slip`) after which the operator and the stored state disagree;
`CopiesBound` allows as many copies of an invoice's lines as jobs overlap;
`NewsIsTrue` excepts a value that one run writes twice, and a record whose
transaction had begun before the one before it was committed; `PageLearns` excepts
jobs that leave no run; `OneChainPerRun` is stated for behaviours without
failures or replays (with them at-least-once delivery duplicates a chain by
design, and `OrphanBound`, `MessageBounds`, `ChainBound` say what is left);
`OldLinksAreDead` speaks of the links that a resend found.

### Bounds, and why they are enough

* `TenantLimiter`: 2 tokens, 2 per second, a second of 5 ticks, so a token takes
  a fractional number of ticks; the clock takes any of its readings at any time.
  The theorems remove the bounds.
* `ThrottledJobs`: one job of each kind, two pages, two attempts, a breaker that
  opens after two failures, fewer tokens than the jobs want. 12 ticks are
  several retries and two breaker periods, and all jobs end before.
* `DeltaSync_Concurrent`: two workers (the guard's race needs two), two requests,
  one replay, both families of invoices with one missing each, one further
  round, exact totals, no failures, symmetric workers and runs. Two runs are as many chains as two
  workers can open at once. `DeltaSync_Faults`: one worker, one family, totals
  that may be unknown, one backpressure, one retry, one failure anywhere. Its
  `ChainBound` is that of one worker with an ageing run; for any number of
  workers it is proved.
* `SharePackage`: one package of two invoices of equal number (their files
  collide), two requests and two jobs at a time, one retry, two faults. Two
  requests are a packer and its rival, or its revoker.
* `TenantLifecycle`: two businesses, one tax code, two links, two requests
  (two administrators, or an administrator and the customer), two passwords; the
  domain of one address takes mail by an A record only, the other's not at all.
* `Backfill`: the current month in both directions, one worker, one further request
  (cron or button), one session, both modes, time one unit beyond the slack's
  edge. One direction hides the other's failure, and a foreign run completes
  the backfill's month, within these bounds.
* `EgressAlerts`: the streak of three as in the code, two faults, two kinds of
  noise; nothing else is bounded.
* `StoredInvoices`: one invoice, two statuses that differ in both fields, one
  field missing in one of them, two runs, two workers, four transactions of
  pulls, one waiting message, one fault: invoices share nothing but the message
  that carries them, and the races are of two jobs on one invoice. Four
  transactions are an insertion and three changes: one to be crossed by another,
  and one that sets the history right. When they are used up the run may stop,
  so deadlock is not checked.
* `Reading`: four invoices, batches and pages of two, so that a boundary falls
  inside a day; one change of a status; filters with and without a status; three
  sorts; lines with a tax that is rounded from a half up and down, without a rate
  and with GDT's own tax.
* `WebSession`: two tabs, two users, two requests under way per tab.

### Fairness

* `ThrottledJobs`: weak fairness of the clock and of every job's steps: timers
  fire, a pending request is answered or aborted (`http.ts` 141-143).
* `DeltaSync`: weak fairness of each worker as a whole (nothing says which
  outcome) and of the dead-letter consumer; none of cron, users, replays,
  ageing, other writers or failures. `Settles` rests on the ceilings alone.
* `SharePackage`: requests and jobs that have begun go on; strong fairness of the
  open page's request to pack, which `useQuery` repeats while the package can
  be packed and which may be disabled between by other requests in the model.
* `TenantLifecycle`: requests go on, and sessions end after their eight hours.
* `Backfill`: jobs, requests and the pages' polls go on. Nobody has to press.
* `EgressAlerts`: crons come again. No fairness of Telegram or of the portal:
  `IncidentIsTold` assumes them stable instead.
* `Reading`: a fetch under way is read and then shown or fails.
* `WebSession`: the browser ends every request, with an answer or an error.

## 4. Proofs

All by `tlapm`, for every value of the constants that satisfies the modules'
named assumptions: finiteness of the sets that are counted, bounds that are
natural numbers, one tenant, one consumer and one attempt at least, the shape of
a filter and of an invoice's lines, and model values that are none of the
others. None of them speaks of a reachable state.
Every module follows one layout: an invariant with named parts, a lemma per
action that the step keeps it, `InvNext`, and theorems of a few lines. The
operators `Put`, `Take` and the like have lemmas that say what they do to a
bag or a record; a kind of step that several actions take (`QuietCall`,
`WorkKeeps`, `OneJob`) is proved once.

| Proved | Of | The invariant, and why it is needed |
|---|---|---|
| `CreditInvariance`, `WindowBoundHolds`, `StarvationBoundHolds` | `TenantLimiter` | `CreditInv`: the bounds are not inductive. `WindowCredit` adds the credit left in the bucket to the permits granted; together they never exceed a full bucket plus what was earned. `DenialCredit`: the credit in the bucket covers the time of the denials and is below one token |
| `RequestsArePaid`, `TrafficDrains` | `ThrottledJobs` | a throttled job has its first permit all along and a second one while it is granted a request. `late` counts from zero whenever the breaker may open; while it is open a job that is granted a request has sent none since, and nobody is granted a new one. A single job has sent no more than its attempts |
| `TypeCorrect`, `MessageBoundsHold`, `ChainBoundHolds` | `DeltaSync` | `Inv`: every message in any bag, parked or about to be sent, is well-formed and bounded; what a worker holds, by step. The chain bound is inductive because a worker passes the guard only when no young run is running: what counts then are workers that passed the guard, and each becomes one running run or none |
| `LedgerImplemented` | `DeltaSync` | the refinement of `RunLedger`, under the identity on `status`, `fresh`, `numbered`: `Open` is `Open` (its guard is the chain bound), `Close` and `DlqClose` are `Close`, `Age` is `GrowOld`, all else stutters |
| `OneChain`, `OrphansAreCounted` | `DeltaSync` | what carries a run is counted: copies of its messages in the queue, of its dead letters, and the workers that owe it something. A step does one of five things: the counts stay (`Kept`), a run opens with one carrier (`Begun`), a run is closed with one carrier less (`Ended`), a message is played back and no count falls (`Doubled`), or a fault lets the count of one run fall (`Broken`). `Chain` says which run a worker that holds a message works for, so that no step moves the counts of two |
| `FollowedHolds`, `FailuresShow`, `DoneIsDone` | `Backfill` | `Covered`: from the batch of a backfill on, each month and direction of it has a message, a worker, a run of its own, or a job known to have left none. `Due`: nothing that a backfill owns began before its batch was sent, and the tracker comes at most a slack after that; so the filter for old runs takes no run of its own. That a page stays done needs no strengthening: completed runs stay |
| `NoPageIsSkipped` | `Reading` | a page is a slice of ranks. Until the last page is read, an invoice that was there all along and was not seen has a rank at or behind the offset (`NothingSkipped`), because rows that come in only make it grow |
| `ExportIsWhole` | `Reading` | `FileInv`: what was selected when the export began and stayed so is in the file, in the batch that was read, or ahead of the cursor; a full batch is the first of what is ahead, a shorter one is all of it. What is in the file is not ahead of the cursor, hence in it once. The entries of one invoice are its lines, each once, or one empty one; the number of a file in a zip is that of its namesakes before it |
| `ReportsHold` | `Reading` | sums are counts of disjoint parts (`SummaryFine`). Numbers have ranks: the first `MaxGaps` holes are those of a rank below `MaxGaps`, so a hole that is left out has as many below it. A report speaks of rows that only become more; what was there when it was asked for is remembered (`before`) |
| `RowsKeepTheirFiles`, `OnePacker`, `ArchivesAreComplete`, `RevokedStaysDead`, `NobodyWaitsInVain` | `SharePackage` | a package never returns to preparation. Hence one packer (`PackingOK`), and none after a revocation that found the link published (`PackedForGood`, which holds from the request on, not from its answer). What a packer counted as fetched is what GDT has (`Counted`), because a package with a document still awaited is not counted; and the names of files in an archive tell any two invoices apart (`NamesDiffer`). Each job's step says which files are there (`FilesOK`) |
| `TenantsAreDecidedOnce`, `LinksOpenOnce` | `TenantLifecycle` | no decision is counted for a tenant that waits for one (`DecidedOnce`). A link that set a password, or that a completed resend found, is spent (`LinksSpent`), also for the requests that are between finding and making |
| `AlarmsDoNotNag`, `SilenceWasEarned`, `RecoveryIsOwed` | `EgressAlerts` | as long as no alarm is remembered as told, each alarm that was heard has a fault of its own (`EveryAlarmHasAFault`): the alarm itself is the one more |
| `CopiesAreFew`, `HistoryTellsTheStatus`, `NoLinesForgotten` | `StoredInvoices` | `HistoryOK`: besides `NewsIsTrue` itself, that the record listed first began no later than the latest record was committed, and neither is ahead of the clock; so a transaction that began after that commit puts its record first. `OneEach`: there is a map from the copies of an invoice's lines to the consumers that inserted them, one each, and a consumer that has deleted deleted its own. `RunsOK`: a run has one pull, and what it owes is among what its pull has found. `LinesServed` |
| `TabsShowTheirOwn` | `WebSession` | which request a tab waits for (`Engaged`), that a tab without a session keeps nothing (`Emptied`), and that, until two sessions overlap, tabs, requests, cookie and filter name one user (`OneUser`) |

Of the 32 safety properties that passing runs check (the refinement and the
`CreditInv` of `TenantLimiter` among them), 31 are theorems. TLC checked each
invariant on the constants of its module's run before it was proved.

Where a definition is recursive, or a proof would be an induction over data, the
proofs use counting and least elements instead: sorted lists are stated by
ranks and chosen by them (`Ranks`, `FirstOnes`), and what `FlattenSeq` joins is
shown by looking at the least length at which it would not be
(`OneByOne`, `Flattened`).

What the proofs changed in the models, with the same behaviours as before:

* Places where TLC evaluates more than TLA+ says: a `CASE` with overlapping
  arms in `EgressAlerts` (TLC takes the first arm that holds, TLA+ any of them),
  conjunctions and set differences without parentheses, an `EXCEPT` inside an
  `EXCEPT`.
* The ceiling on `attempt` in `ThrottledJobs`, which was that of the throttled
  jobs for all jobs and is now each job's own.
* Assumptions that were used without a name: the tenants of `TenantLifecycle`
  are a finite, non-empty set; the owner of background work in `Backfill` is no
  backfill; the filters and lines of `Reading` have their fields, and numbers in
  them.
* What was recursive where a set can be counted: the copies of messages in
  `DeltaSync` (`Copies`, for `BagCardinality`), the order of a batch
  (`InOrder`, for `SetToSortSeq`) and the number of a file's name
  (`UniqueName`) in `Reading`.
* The value of a row in a column `Reading` has no constant for, which was left
  to TLA+'s choice, is a constant (`Column`). Some of those columns a new status
  overwrites (`sync.ts:281-290`): `NoPageSkips`, and with it `NoPageIsSkipped`,
  says nothing of lists sorted by them (`Overwritten`).
* `ExportInv`, `ExportReadsRight` and `ReportsAreRight` share out what
  `Reading`'s types, gaps, sums and files owe in such a way that all of it but
  the second is proved.

Only model-checked:

* `ExportReadsRight` of `Reading`: sums and products of decimals, rounded, and
  what a column shows in each of the formats. Its scales are powers of ten and
  its sums folds over lists, which need induction over data.
* The pure modules `MonthWindows`, `Settings`, `Worklist`, `ExportFile`: their
  named assumptions are evaluated over bounded inputs, for they are recursive or
  speak of a calendar.
* Liveness (`EveryJobEnds`, `Settles`, `PackagesFinish`, `LockedOut`,
  `PageLearns`, `IncidentIsTold`, `DoneIsShown`, `NobodyWaitsForever`), which
  needs fairness and `ENABLED`.

## 5. Plan

In the order of what they would say about the system: two tax accounts of one
tenant (audit and quota), the splitting of a long batch over several queue
calls, the user's read marks. Then, in the proofs, the part of
`ExportReadsRight` that is not about decimals: a zip's documents and the
profile of a converted file.

## 6. Known divergences and hazards without a property

What comments or texts say and the code does not do, beside `RevokedLink`:

* Line-item and source-document jobs take one permit and let `fetchWithRetry`
  make two attempts on the bare transport (`deps.ts:189`); the comment promises
  one permit per request.
* The throttle refuses with a made-up 429, which header and chunk jobs record as
  a failure of GDT (`runJob.ts:104`): jobs short of permits open the breaker.
* The abort signal is read before `await tryAcquire()`, not after
  (`throttledTransport.ts:80`): a late permit calls GDT on a dead signal.
* `chotDeltaRun` does not look at the run's status (`chunkSync.ts:228`): a late
  dead letter of a finished chain makes a completed, numbered run failed.
* A registration whose mail fails cannot be proven later: no route sends another
  (`xacThucEmail.ts:63` invites to ask for one).
* Two resends at once may leave two live links (`0014_dat_mat_khau.sql:93`); a
  change of password writes without a condition what it verified before
  (`auth.ts:339`).
* A package of files named alike is numbered from `-1` (`zipStream.ts:18`),
  where its comment says `-2`; a convert accepts `xml.zip` and `html.zip` and
  stores a sheet under that name (`exports.ts:171` says xlsx or csv).
* The history of changes promises "Mới nhất trước", newest first
  (`invoiceChanges.ts:101`), and lists by when the transaction began
  (`0017_u35_lich_su_thay_doi_hoa_don.sql:15`): when two pulls overlap, the
  record of the later change may stand below that of the earlier one until the
  field changes again. `NewsIsTrue` leaves these out by name (`crossed`).
* A 401 of a job that began with an old token clears the account's new one
  (`recorder.ts:92`); in `Backfill` it is a step that a chain may take.

Seen while reading and not in any model: the audit compares a count per tenant
with totals per account (`audit.ts:115`); a header job of more than 2000 pages
completes with a warning (`query.ts:175`); batches enqueued one after the other
answer "busy" when a later one is refused (`queueEnqueue.ts:43`); the quota of
tax accounts is counted before the insert (`taxAccounts.ts:143`); new and
updated invoices are told apart before the upsert (`sync.ts:310`), so two pulls
count one invoice as new twice; "mark all as read" marks news that arrived after
the page was drawn (`routes/invoiceChanges.ts`); an administrator may change a tax
code as long as no run is counted, and the tax accounts are then deleted
(`0015_admin_doi_mst.sql:64-70`): a run that is opened between the two goes with
its account, and the invoices it has stored stay under the new code; a wait after a 5xx is not held under
`maxBackoffMs` (`http.ts:178`); tabs of two tenants share one
cookie and one saved filter, and a late 401 or a late answer to a logout ends
the session that came after (`apiClient.ts`, `auth-context.tsx`).

## 7. Not modelled, and why

Tenant isolation is enforced by PostgreSQL's row security, which a model would
have to assume rather than show. Mapping of invoices, the cell formats of sheets, tax-integrity sums and the
customers' list have no interleaving to explore and no state. An
administrator's change of a tax code (POST doi-mst), allowed before the first
synchronisation only, is one transaction against runs and tax accounts, which
`TenantLifecycle` does not have; of what that module has, it touches only that a
tax code is unique. The pages' layout keeps no state beyond
what `Backfill`, `Reading` and `WebSession` follow; the administrators' page has
the shape of the customers' on an origin of its own. Cryptography is used
through library calls; the wording of messages is left out. The earlier
prototype (`backend`, `frontend`, `scripts`, `spikes`) is not deployed. What is
partly modelled is named, per component, in `PROJECT.json`.
