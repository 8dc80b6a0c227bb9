# Formal models of quant-api-platform

TLA+ models of the parts of quant-api-platform in which order matters: the
controlled-execution pipeline, the caches under the dashboard, the broker
snapshots, the ingestion jobs, the event pages and the overnight brief; and of
the calculations whose result is easy to get wrong: the backtest ledger, the
time splits, the prediction rule and the adjusted prices.  TLC checks them on
small instances; TLAPS proves every safety property of the passing runs for every
value of the constants.

## 1. The system

The platform is a FastAPI service (`apps/api`), a command line (`apps/cli`, also
run as Cloud Run jobs), a React front end, and a PostgreSQL database behind a
set of libraries (`libs`).  It keeps market data and research state, mirrors a
Trading 212 account read-only, and carries order intents through a pipeline of
human decisions.  It runs as one or more stateless processes: what several of
them share is the database, and what each keeps to itself is its in-memory
caches.

| Part | State | Operations | What is hard |
|---|---|---|---|
| Controlled execution (`libs/execution`, `routers/execution.py`) | `order_intent`, `order_draft` rows | create intent, create draft, approve, reject, expire-stale, risk-check, submit | synchronous handlers run in a thread pool, each with its own session: read, test, write without a lock |
| Live broker cache (`libs/portfolio/broker_live_cache.py`) | per key a cache entry and an in-flight task, in memory | `get_or_fetch` by many tabs; retry; restart | tasks and waiters interleave on the event loop; 429s; failures; expiry while waiting |
| Broker snapshots (`libs/ingestion/sync_trading212_readonly.py`, `libs/portfolio/portfolio_service.py`) | account, position and order snapshot rows, `source_run` | a sync with three guarded fetches and two commits; the dashboard's reads | overlapping syncs, fetch failures, crashes between commits, an account emptied between syncs |
| Provider caches (`libs/market_events/providers.py`) | TTL caches of provider results, in-flight tasks | earnings, per-symbol earnings, news, profile; cancellation by a section budget | failed results are results too; cancellation of shared tasks |
| Market events service (`libs/market_events/market_events_service.py`) | none of its own | feeds by scope, ticker detail, calendar with its fallback, news of two providers with a wider retry, profile | a status put together from several answers, any of which may fail |
| Price history (`libs/ingestion/sync_eod_prices_universe.py`, `bootstrap_research_universe_prod.py`, `libs/instruments/mirror_instrument_mapper.py`, security master, `eod_freshness`) | `price_bar_raw`, `instrument`, `instrument_identifier`, `ticker_history` rows | plan and execution per ticker, provider fallback, scaffolding, freshness report | overlapping runs, partial failure of a ticker, a transaction aborted midway, resumption after a death |
| Write guards (`apps/cli/main.py` and the planners) | none | flags, classification of the database, plan, execution | each check sees another sign of which database it is |
| Other ingestion (`libs/ingestion`: prices, filings, earnings, fundamentals, corporate actions, calendar; the two loaders) | their tables, `source_run` | one job each, rerun by hand or schedule | two commits, aborted transactions, idempotence |
| Backtest (`libs/backtest`) | cash, positions and value in a run; result tables | rebalance at dates, cost models, honesty report, time splits | ledger arithmetic, dates without prices, split boundaries |
| Prediction (`libs/prediction`) | shadow predictions | regime, anchor, one row per ticker, evaluation | signs and bands that compose |
| Overnight brief (`libs/market_brief`, `libs/scanner`, `libs/portfolio/mirror_watchlist_service.py`, `libs/research_snapshot`) | the rows of a brief; snapshot rows | scan, merge with the mirror, news, sections, snapshot, history | a shared session, sections derived twice |
| Research (`libs/research`) | none | adjusted prices, factors, event study, point-in-time reads | windows and look-ahead |
| Data quality (`libs/dq`) | `data_issue` rows | rules over the price tables | thresholds, repeated runs |
| AI (`libs/ai`) | none | prompt, provider call, structured answer | external service |
| Core (`libs/core`, `libs/db`) | token bucket, sessions, models | `RateLimiter.acquire`, sessions, configuration | token accounting |
| CLI, other routers, front end, scripts, migrations | - | thin callers; display; schema | modelled through the libraries they call |

How the parts interact: routers and Cloud Run jobs call the libraries; the
libraries share nothing but database rows, and inside one API process the
caches.  The broker mirror reaches the dashboard twice, through the live cache
(minutes) and through the snapshot rows (as often as the sync job runs).  The
price sync needs the instruments the bootstrap scaffolds, and the scanner, the
backtest and the research code read the prices it stores.

What would make each part correct: a decision about an order is final and an
order is approved once (execution); one fetch at a time, spaced, and data that
never runs backwards (live cache); a reader gets one whole sync, the newest
(snapshots); answers fresh or marked, failures never hiding good data, every
request ending with an answer (provider caches); what a job reports stored is
stored, and an interrupted job can be run again (ingestion); no write to
production that nobody declared (guards); a page that says nothing false about
what it lacks (pages); a history that agrees with the brief it is of; a ledger
that adds up, folds that do not look ahead (backtest); a confidence that the
signals support (prediction); one price per day, whoever asks (research).

## 2. Modules

| Module | Models | Extends / composed with |
|---|---|---|
| `DraftLifecycle` | abstract: what an order draft may go through | - |
| `OrderExecution` | the execution tables and the requests on them | `DraftLifecycle` as an `INSTANCE`, the refinement `LifecycleSpec`; `MCPlatform` |
| `LiveCache` | the live broker cache of one process | - |
| `BrokerSnapshots` | the sync jobs, the snapshot tables, the broker, the readers | `MCIngestion` |
| `ProviderCache` | the per-symbol earnings cache, its fan-out and its direct readers | - |
| `PriceIngestion` | bootstrap, mirror bootstrap, security master, price sync and freshness report on the tables they share | `MCIngestion` |
| `IngestionJobs` | the other ingestion jobs, as runs over a `source_run` row and keyed rows | `MCPlatform`, `MCIngestionJobs` |
| `WriteGuards` | the guards between a command line and a write | `MCPlatform` |
| `NewsFeed` | both news providers' caches and fan-outs, their merge, the brief's section state | `MCPlatform`, `MCNewsFeed` |
| `EventPages` | the feed and detail pages over calendar, symbol fallback, news and profile | `MCPlatform` |
| `Brief` | one overnight brief, its snapshot and its history | `MCPlatform` |
| `Backtest` | the trading loop under two cost models, the honesty verdict | `MCPlatform`, `MCBacktest` |
| `TimeSplits` | the folds of `time_split.py` | `MCPlatform` |
| `RuleV2` | the prediction rule | `MCPlatform` |
| `AdjustedPrices` | split and total-return adjustment of a window | `MCPlatform`, `MCAdjustedPrices` |
| `MCPlatform` | the order workflow and the research side's machines side by side; a behaviour follows one of them | the ten modules above that name it |
| `MCIngestion` | the two mirrors of the outside world, side by side in the same way | the two modules above that name it |
| other `MC...` | instances for TLC | the module after `MC` |
| `OrderExecutionProofs`, `LiveCacheProofs`, `BrokerSnapshotsProofs`, `ProviderCacheProofs`, `PriceIngestionProofs` | theorems | the module before `Proofs`, and `TLAPS` |
| `JobsProofs` | theorems of `WriteGuards` and `IngestionJobs` | both, and `TLAPS` |
| `ResearchProofs` | theorems of the research side, one section per module | `RuleV2`, `TimeSplits`, `Backtest`, `EventPages`, `NewsFeed`, `Brief`, `AdjustedPrices`, `FoldFacts` |
| `FoldFacts` | lemmas about folds, sums and sorts of finite sets | the community modules they are of |

An operator whose name ends in `Bug` is not part of any specification.  It is
the operator that follows it with one plausible slip; substituting it must
break a property, which shows that the property says something about the code.

### OrderExecution

`intents` and `drafts` are the committed rows of `order_intent` and
`order_draft`.  FastAPI runs these synchronous handlers in a thread pool, each
with its own session, so `approve`, `reject` and `expire-stale` are two steps:
`Load...` reads the rows and tests their status, `Commit...` writes whatever
the rows have become, with only the columns the handler assigned, because
SQLAlchemy's `UPDATE ... WHERE id` repeats none of the tests.  Between the two
the request may die (`Abort`).  `create_intent`, `create_draft_from_intent`,
the risk check and `submit_draft` read rows that cannot change under them in a
way that matters (ids, and one counting statement) and are single steps.  The
seven checks of `libs/execution/risk_checks.py` are the seven conjuncts of
`AllPassed`; the market-open check is a free choice.  `SubmitDraft` goes as far
as the code does: `submit_draft` passes the draft where
`pre_submit_risk_check` expects the session and raises `TypeError`.  `report`,
`attempt` and `revived` record what the caller was told and which drafts a late
commit brought back from their end; they influence nothing.

`DraftLifecycle` is what is promised of overlapping requests: a decision is
considered (`Consider`) under its guard, stays open, and lands (`Land`) on whatever
the draft has become, or is dropped.  The refinement maps `open` to the decisions
that the requests in progress hold.

### LiveCache

One event loop: code between two awaits is atomic, so `get_or_fetch` up to the
point where it waits is one action (`ServeCached`, `RefuseCall`, `JoinFlight`,
`Launch`), and so are a call upstream (`Begin`, `Retry`), the end of a task
(`Succeed`, `Limited`, `Fail`) and the resumption of its waiters (`WakeAll`).
`blocked_until` is what the stored `x-ratelimit` headers say of the next call.
A payload is the moment it describes.  `shown` and the `floor` of an answer
remember what clients had been given, and survive a `Restart`, which loses
everything else.

### BrokerSnapshots

A sync is `Start`, `FetchPositions`, `Flush`, `Store`, `Finish`, and may `Die`
in between; the two commits of the code are `Store` and `Finish`, and
`snapshot_at` is taken at the flush, as the column default is.  Any number of
syncs overlap.  `FetchPositions` keeps any subset of the broker's book: a call
that fails keeps nothing, an entry that cannot be normalised ends the loop.
Readers are the two queries `_latest_sync_session_id` and the rows of that
session.  Rows with `NoSession` are those from before the column existed.

### ProviderCache

The event loop again (Python 3.12), with what `LiveCache` has not: failures are
results and are stored, a page fans out over its tickers under a semaphore and
a budget, and cancellation.  `wait_for` cancels a page's workers; the worker
awaits the shared fetch task without a shield, so the cancellation goes into the
task and everybody who waits for it gets a `CancelledError` (`Expire`,
`Unwinds`, `Wake`).  Every waiter pops the registration of its symbol,
whichever task is registered by then, as `finally` does.  The clock stops at
`MaxTime`, where all timers are due.  `Tick` does not pass a whole TTL while a
waiter is ready to resume: the TTL is six hours, the loop resumes in
milliseconds.

### PriceIngestion

Two job slots, each running one kind of job after another, over the identifier
table and the bars.  What a job does between two commits is one step.  The plan
of a sync (`PlanSync`) reads the newest bar of each ticker; `ResolveInstruments`
picks one identifier per ticker as the unordered query does; then one step per
ticker: `SyncTicker` inserts what a provider answered, or rolls it back without
a word when a bar was refused; `SyncTickerFails`, `SkipUnresolved`.  The
freshness report is two queries, `QueryMax` and `ReportFreshness`.
`PlanBootstrap`, `PlanMirror` and `ReadMaster` decide what is new before
`ScaffoldTicker` and `StoreMaster` write it.  Any run may `Die`.  `unread` and
`overlapped` are history variables for the properties.  A ticker may come to have
two instruments, and a sync resolves to either of them, so the history of a ticker
(`DaysOf`, `HolesHaveCause`) is that of all its instruments, as it is in the plan's
query.

### IngestionJobs

What tells the twelve jobs apart is one record each (`sync_eod_prices_fmp`, ...):
what becomes of a row that exists, whether a refused row is swallowed, whether a
failure is recorded, what is counted.  A run is `Start`, `Fetch`, its rows
(`StoreRow`, `SkipRow`, `RefuseRow`), `CommitRows`, `CommitRun`; an aborted
transaction ends in `CommitLost`, a failure between rows in `FailMidway`.  An
insert under `ON CONFLICT` waits for the open transaction that has the key
(`Waits`); a lookup does not, and a plain insert is stopped by a constraint only
where there is one (`Duplicates`).

### WriteGuards

`ChooseMode`, `BuildPlan` and `Execute` are the three places that check, with
the refusals between them.  A URL is one of five kinds by what it shows of its
database (`Urls`), since that is what the classification reads.  `RunUngated`
is any command without a guard.

### NewsFeed and EventPages

`NewsFeed` follows one request at a time through each provider: the cache, then
workers behind a semaphore, barred for the rest once one of them is told 402 or
429, cut off by the section's budget; then the merge (`Items`, `MergedStatus`) and
what the brief says of it (`SectionState`).  `EventPages` is the level above: a
page asks the calendar (`AskCalendar`), by symbol if that is empty
(`AskSymbols`), news (`AskNews`, `RetryWide`) and the profile; a news or symbol
answer there is any answer that the fan-outs can come back with.

### Brief

One session and one brief: `ScanStocks`, `ReadMirror`, `PlanMapping`,
`FetchNews`, `FetchEarnings`, `Persist`, with the failures of each.  The mirror
maps a ticker by any history of an instrument, the plan by its identifiers and a
history that has not ended, so the plan may take back what the mirror mapped
(`HistoryOnly`).  A swallowed
database error leaves `aborted`, and whatever uses the session next fails.
A section is the set of its tickers in the code's order, ties included (`Ahead`,
`InOrder`); the history derives it from the stored rows by the same operators, and
`KeepsItsPlace` says that what it shows stands there as it stood in the brief.

### Backtest, TimeSplits, RuleV2, AdjustedPrices

`Backtest` is one step per date with a bar: carry prices forward, mark, trade
towards the targets on a rebalance date, pay; in exact arithmetic with closes in
whole units, so rounding to cents is not modelled.  `Report` is the honesty
verdict on two runs under two cost models.  `TimeSplits` is the loops of the
three splitters, both ends inclusive.  `RuleV2` is the regime, the anchor's lag
and one `Predict` per ticker, with the thresholds as constants.
`AdjustedPrices` stores bars, splits and dividends one by one (`PutByExDate` puts
an action where `ORDER BY ex_date` reads it) and states its properties over every
window of the stored days.  Its values are fractions, and a column of factors is
the `Product` of a ratio for each action.

## 3. Runs

| Run | Instance | Shows |
|---|---|---|
| `exec_reject_race` | one draft, two workers | counterexample to `RejectionIsFinal` |
| `exec_submit` | one draft, one worker | counterexample to `CleanApprovedSubmits` |
| `live_cache` | two tabs, one key, two task names, two tries, clock to 4 with a TTL of 2 | `SingleFlight`, `CallsAllowed`, `NoTimeTravel`, `EveryRequestEnds` |
| `snapshots_ghost` | two tickers, two syncs, one reader, one change of the book | counterexample to `ClosedDropOut` |
| `provider_cache` | a page with two tickers and one permit, one detail request, three flight names, clock to 3 | `FreshOrMarked`, `StaleWins`, `LossHasCause`, `CompleteOrMarked`, `EverythingEnds` |
| `provider_cancel` | the same | counterexample to `NeverRaises` |
| `ingestion` | two account syncs, two broker tickers, one reader, one change of the book; two price tickers, one of them protected, two job slots (sync, mirror, master; sync, bootstrap), three runs, days 4 to 7, one unreadable bar | `SnapshotsTypeOK`, `HeldTogether`, `WholeSync`, `Supersedes`, `SuccessIsStored` (snapshots); `HolesHaveCause`, `LookbackHeals`, `CountedIsStored`, `DuplicateHasCause`, `FreshIsTrue` (prices) |
| `platform` | one intent, two drafts, two requests that overlap, two order shapes; the machines of the research side, each with its own small sets (`Platform.cfg`) | `TypeOK`, `ApprovedHasTimestamp`, `DraftedIffHasDraft`, `OneCleanActiveDraft`, `SettledStaysSettled`, `LifecycleSpec` (orders); `NavIsEarned`, `OverdraftIsCosts` (backtest); `ConfidenceIsEarned` (rule); `LimitsAreTold`, `ArticlesOnce`, `PagesOwnUp` (news and pages); `HistoryAgrees` (brief); `ProductionIsDeclared` (guards); `RunRowTells`, `RerunIsSafe` (jobs); `WindowsAgree` (adjusted prices) |
| `entry_costs` | one position, closes 500 and 501, the endpoint's default rates | counterexample to `HonestAfterCosts` |
| `news_limit` | one request for two tickers | counterexample to `OkMeansNoLimit` |
| `jobs_rerun` | two runs, one key | counterexample to `RerunAddsNothing` |
| `split_direction` | three days, two closes, one 2:1 split | counterexample to `SplitIsContinuous` |

Why the bounds are enough.  The races are between two requests on one row, two
tabs on one key, two syncs and a reader, a page and another request on one
symbol, two runs of a job: two of each is where they begin, and the theorems of
section 5 cover any number.  Each clock reaches past every limit counted in it
(the expiry and intent ages; two TTL windows; a TTL, a budget and a call limit),
so that every timer is seen running, due and past.  In `provider_cache` the
second ticker is what makes a worker wait behind the semaphore, and its detail
request shares a symbol with the page.

`platform`, the orders: two requests over two drafts of one intent.  Ages are
counted in a clock of two moments and both limits are zero, so a draft and its
intent are seen before and after they expire.

`ingestion`, the snapshots: two tickers let a sync keep part of the book; one
change of a book that begins with one position opens, closes or swaps one, and so
gives an emptied account.  Rows from before the session column are there for every
ticker or for none.

`ingestion`, the prices: days 4 to 7 hold a Friday, a weekend and a Monday, with a
trading day before the first run; three runs are an interrupted one, one beside
it and one that should mend both.  `BootstrapDays` is 3, longer than a
run can lag behind another in this calendar.  That is needed: with a first window
shorter than the time a dying or slow run's bars lie ahead, `HolesHaveCause` is
false, which is no concern of the code, whose first window is 540 days
(`DEFAULT_BOOTSTRAP_DAYS`).  The
theorem makes it a hypothesis (`RunsAreShort`); here it holds because the whole
calendar is no longer than the window.

`platform`, the research side: the machines share no variable, so the state space is
the sum of theirs (about 480 thousand states with the orders; `ingestion` has 2.6
million).  Five bar dates with months of two days
give months with and without a bar, a price that is missing before and after
the first trade, and cash that goes negative by its costs.  The fields of the
rule take a value below, at and above each of their thresholds.  News has three
articles, two sites, two tickers and both providers, enough for a row to be
dropped for one key and to be needed for another, and two requests, so that the
second finds an old entry.  The pages need no bound on their number: the state
space closes.  The brief has three tickers, one of them known
only by an instrument's history, with caps of one and two, so that every cap cuts.  Two runs and two keys for the
jobs, all twelve of them.  Two actions and three sessions for adjusted prices.

Symmetry is used where no liveness property is checked (`platform`, `ingestion`,
`snapshots_ghost`) and no operator names a member of the set.
Deadlock is checked except where sessions, requests, runs, days or arguments are
used up and the system really stops.

`FoldsApart` of `TimeSplits` is proved and not run.

## 4. Fairness and liveness

`LiveCache`: weak fairness of a task's start, of its end and of its waiters'
resumption.  The event loop runs what is ready, and httpx gives up after 30
seconds, so every attempt ends.  No fairness of clients, of a retry or of a
restart.  `ProviderCache`: weak fairness of the loop's own steps together,
timers included; every request there is made once, so the steps of one cannot
starve another's for ever.  Nobody is obliged to open a page, and the provider
is not obliged to answer: `TimesOut` is a timer of the loop.
No other module states fairness or promises that something happens: a request, a
job or a command may die anywhere, and the calculations end with their input.

`EveryRequestEnds` and `EverythingEnds` are model-checked only; liveness is out
of the reach of the installed provers.

## 5. Theorems

Every safety property of a passing run is a theorem, and so is `FoldsApart`, which
no run checks.  All hold for every value of the constants that satisfies the
`ASSUME` of the module, which types them (and asks for a positive TTL, a positive
number of tries, finite sets of tickers, keys and runs, a positive step between
folds, and a momentum threshold not above the extension threshold): any number of
drafts, requests, tabs, keys, syncs, pages, flights and runs, any limits, an
unbounded clock.  One theorem has a hypothesis of its own, named where it stands:
`RunsAreShort`.  Each inductive invariant below has one lemma per action or kind of action.

* `OrderExecutionProofs`.  `TypeCorrect`.  `ApprovalGate`
  (`ApprovedHasTimestamp`) and `DraftedIntents` rest on `GateInv`: approval
  stamps the clock of its own commit, so creation times must be in the past, and
  a commit reaches only rows that exist, so what is loaded must have existed.
  `SettledDecisions` needs no invariant but the types.  `TablesImplementLifecycle`
  (`LifecycleSpec`) needs that an idle worker holds no draft (`IdleHoldsNothing`):
  a load is then a `Consider`, a commit a `Land` that stays open for the drafts
  another request holds under the same decision, an abort a `Drop`.
  `NoDoubleClean` (`OneCleanActiveDraft`) is inductive beside `GateInv` and
  `AbsentUnreported` (no verdict is about a draft that does not exist): a verdict is
  good when it is given, a draft becomes active only when it is created, without a
  verdict, or when a late commit brings it back, and then it is in `revived`.
* `LiveCacheProofs`.  `OneFetchPerKey` and `CallsSpaced` rest on `FlightInv`:
  what is registered is flying, and what `get_or_fetch` tested before a launch
  stays true while the task flies, because nobody else can replace the entry; a
  retry may leave long after the tests.  `ResultsNeverRunBackwards` adds
  `TravelInv`: nothing shown is newer than the clock or than the stored entry,
  an attempt began after everything shown or stored for its key, a good task's
  payload is stored or older, and a waiter can be satisfied by it.
* `BrokerSnapshotsProofs`.  `Course` orders the three time stamps of a sync,
  `Tables` says that the tables hold what the committed syncs wrote and nothing
  else, and `Reading` that the session a reader took was not outranked by
  another one committed when it asked.  `LaterSyncSupersedes` follows: what
  began after another sync was stored is stamped later.
* `ProviderCacheProofs`.  `Course` says that a waiter waits for a flight of its
  symbol that is in use, and that a flight that has landed did so less than a
  TTL ago; `Account` bounds what the workers of a page may be doing by its phase
  (`Stage`), says that a page that reports no failure has had none (`Honest`),
  and finds for every flight that is cancelled and every answer lost a worker
  that was cut off (`Losing`, `Loss`).  The action properties follow from the
  invariant in each step.
* `PriceIngestionProofs`.  `IngestInv` numbers the instruments and says of each
  run under way that what it read is still in the tables (`Course`).
  `CleanAnswersHeal` (`LookbackHeals`) and `ReportsAreTrue` (`FreshIsTrue`) follow
  because bars only ever come to a table, `CountsAreTrue` (`CountedIsStored`)
  because the rows counted are those the transaction adds.  `DuplicatesExplained`
  (`DuplicateHasCause`) adds `AloneInv`: as long as scaffolding runs have not
  overlapped, the plan of the one that is at work names the ticker of every row
  there is, or the run has passed it.  `HolesExplained` (`HolesHaveCause`) adds
  `HoleInv`.  That a window begins before the newest bar its plan saw is enough for
  a ticker that had bars; for one that had none, another run may meanwhile have
  stored bars outside the window, so `Fills` says that between those and the window
  nothing is unseen.  It needs `RunsAreShort`: no run is still at work when the
  days since its plan exceed the first window (`BootstrapDays`, 540 by default; the
  Cloud Run tasks are given minutes, an hour at most).  Without it the property is false, as section 3 says.
* `JobsProofs`, the guards.  `ProductionWritesDeclared` (`ProductionIsDeclared`):
  the invariant carries what the flags were when the mode was chosen (`ModeFits`)
  and what the database was classified as when the plan was built (`PlanFits`) down
  to the execution.
* `JobsProofs`, the other ingestion.  `RunRowsTell` (`RunRowTells`) rests on
  `RunInv`, which follows one run through its phases: every key it could read is
  still to do, written, or in the table; its count fits what it wrote; a refused row
  leaves only ways to end without a run row.  Rows only ever come to the table, so
  no other run can falsify it.  `RerunsAreSafe` (`RerunIsSafe`) adds `CopyInv`: a
  key has as many rows as runs that committed it, an open transaction under
  `ON CONFLICT` has its new keys to itself, and what a lookup did not find no
  earlier run has stored.
* `ResearchProofs`, prediction.  `ConfidenceEarned` (`ConfidenceIsEarned`): a row is
  what the rule makes of some inputs in a regime that has been read; the argument is
  about the range of the composite, above all that a big move answered by the
  dampener leaves no momentum (`BalancedMove`).
* `ResearchProofs`, time splits.  `FoldsStayApart` (`FoldsApart`): each fold begins
  its test `step_days` after the one before, and the loop's counter is `step_days`
  past the last fold's (`Spaced`, `Counter`).
* `ResearchProofs`, backtest.  `LedgerInv` types a ledger and says that the value a
  run records is its cash plus its positions at the closes, a sum over a finite set
  that a trade in one asset changes by that asset's part only.  `NavOnlyEarns`
  (`NavIsEarned`) compares two such values; `OverdraftsAreCosts`
  (`OverdraftIsCosts`) adds up the buys of a rebalance against the value they are
  sized by.
* `ResearchProofs`, event pages.  `PagesTellTheTruth` (`PagesOwnUp`): `PagesInv`
  keeps, beside what a page shows, which lookup gave it and whether the wide retry
  was made.  The property names the two failures that a feed leaves unflagged and the
  hint that is also given without the retry; nothing else is left unsaid.
* `ResearchProofs`, news.  `NewsShownOnce` (`ArticlesOnce`) takes the merge apart
  row by row: after each row, what is kept is apart, and each row received so far
  has its article or site among what is kept (`KeptOf`).  `NewsLimitsTold`
  (`LimitsAreTold`) rests on `NewsInv`: a fetched value has rows only under "ok",
  a provider that ends "empty" has barred none of its workers, and one that ends
  without a row names what barred it.  A limit behind rows is outside it
  (`news_limit`).
* `ResearchProofs`, brief.  `HistoryTellsTheBrief` (`HistoryAgrees`): the rows are
  typed and `HistoryAgrees` itself is inductive, since only `Persist` writes the
  snapshot and nothing changes the rows after it.  The step needs the sorts: the
  order of a section is a strict order of distinct tickers (`StrictOrder`), so each
  has its place; the first ones of a sorted set, sorted, are the same sequence; and
  the places of a part of it follow the places of the whole.
* `ResearchProofs`, adjusted prices.  `WindowsTellOnePrice` (`WindowsAgree`): two
  windows that both hold a day and reach past a dividend take it on the same close,
  so they multiply the same ratios; after the last action all ratios are 1.
* `FoldFacts` holds what these proofs need of `FoldFunction`, `FoldLeft`, `MapThenFoldSet`
  and of sorting.  The library's induction theorems cannot be used here, since the
  provers cannot instantiate an operator parameter; where a fact holds for sets or
  prefixes of every size, the proof takes a smallest one for which it fails.

What is not proved.  `EveryRequestEnds` and `EverythingEnds` are liveness under
fairness, which the provers cannot treat; they are model-checked.  The eight
counterexamples of section 6 are TLC's.

## 6. Where the code and its documents disagree

Shown by a run:

1. `exec_submit`: `submit_draft` cannot submit (`libs/execution/broker_router.py`):
   its call of the risk check raises `TypeError`.
2. `exec_reject_race`: an approval in flight overwrites a rejection
   (`libs/execution/drafts.py`).  `SettledStaysSettled` is what remains true.
3. `snapshots_ghost`: after everything is sold, the emptied sync writes no
   position row, and readers stay on the sync before it, contrary to "naturally
   drops out of the dashboard view".
4. `provider_cancel`: a page out of time cancels the fetch another request
   waits for, and that request ends in a `CancelledError` instead of a 200 with
   `provider_status`.
5. `split_direction`: `adj_factor` (`libs/research/adjusted_prices.py:65`)
   multiplies the closes before a split by the ratio instead of dividing by it,
   contrary to the example in `docs/data_contract.md`.
6. `entry_costs`: the value series of a backtest begins after the first trades
   (`libs/backtest/engine.py:405-407`), so what they cost is in no return.  With the
   default rates, a position bought at 500 and quoted at 501 gains under the legacy
   model, ends below the capital under the realistic one, and is "honest":
   "retains most of its textbook return after realistic execution costs"
   (`routers/backtest.py:151`).
7. `news_limit`: a provider that brought one ticker's news and was answered 429 for
   another is `ok` (`libs/market_events/providers.py:771`), and so is the brief's
   news section, whose "ok" is "data present, no rate-limit anywhere"
   (`overnight_brief_service.py:428`).  `LimitsAreTold` is what remains true.
8. `jobs_rerun`: `sync_corporate_actions`, `sync_earnings`, `sync_fundamentals`,
   `sync_fundamentals_sec` and the loaders of earnings and corporate actions store
   every row again under a fresh identifier, contrary to `docs/data_contract.md:70`
   "Re-running an ingestion job MUST NOT create duplicates".  `RerunIsSafe` says what
   the jobs with a key or a lookup keep: a looked-up row is repeated only by runs
   neither of which began after the other's commit.

Met on the way; the models do what the code does:

* A fetch that fails or is answered 429 leaves nothing in the live cache that
  holds the next poll back, contrary to "only one tab actually pays the upstream
  call within any TTL window".
* `providers.py:87` says a news section out of budget is marked
  timeout or partial.  What has arrived is reported as `ok`, or as `empty`.
* A feed whose calendar is empty and whose lookup by symbol fails keeps the
  calendar's `ok`.  `/earnings` and `/news` with `scope=ticker` pass no ticker on,
  so both are always empty and `ok`.  The hint "30d fallback also empty" is also
  given when both providers were limited and no retry was made.
* The mirror of a production database behind a proxy on this host is classified
  as local, without any declaration.
* `sync_fundamentals_sec` stamps a period with the filing day of the metric it meets
  first (`sync_fundamentals_sec.py:124`) and keeps the latest filing of every
  metric: a figure of the same period that was filed later is seen by a
  point-in-time read from the earlier day on.
* `persistence.py` writes the commission per share into `commission_bps`, and the
  `commission_bps` of the command line (`main.py:260`) and of the API reach no cost
  model.
* A test window of `time_split.py` covers `test_days + 1` days, so with the
  defaults consecutive test windows share one (`FoldsApart`).
* The rule's bucket `below_minus_3` and a confident `down` are provided for and
  cannot occur (`ConfidenceIsEarned`).

## 7. Not modelled, and what is left

The component list of `PROJECT.json` gives the state of each part.  Left out of
parts that are otherwise modelled: the order rows, the account line and ticker
resolution of the broker sync; drawdown, turnover and annualised figures of the
backtest; the scanner's own snapshot and the taxonomy previews; the single
queries of `pit_views.py`; profile fields, row formats, limits and wording
everywhere.  None of them changes state that something else reads, or each is
one query or one formula whose correctness a test reaches.

Left out altogether: factors, event study and screeners (figures over whole
tables, no state), the SQL of the data-quality rules (evaluated by the database),
the AI modules (free text), configuration, sessions and table definitions (their
transactions are part of the modules that use them), HTTP adapters (what they
return or raise is a choice in the modules of their callers), single-row
handlers and authentication, the front end, migrations and one-off scripts.
The token bucket of `libs/core/rate_limit.py` is left out because every request
builds an adapter, and so a bucket, of its own.

What would be worth adding: the order rows of the broker sync in
`BrokerSnapshots`; a refinement of what `ProviderCache` promises a page, so that
`NewsFeed` and `EventPages` could use that promise in place of a free choice of
answers; and the converse of `WindowsAgree`, by how much a dividend beyond the end
of a window changes a total return.
