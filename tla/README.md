# QuantPulse: verification project

TLA+ models of the parts of this repository whose rightness is hard to test:
interleavings, crashes and failures, and the analyses whose answers must agree
with the data they are made of. TLC checks them on small instances, TLAPS proves
the most important properties for every instance. Paths below are relative to
`src/repo/` of the repository.

## 1. The system

QuantPulse is a quantitative research dashboard: a Python ETL (`etl/`) fills a
PostgreSQL database and a Redis cache, a FastAPI process (`api/app/`) serves
them, and a Next.js client (`web/src/`) shows them.

| Component | State | Operations | Talks to | What makes it right |
|---|---|---|---|---|
| Run lock (`etl/scheduler.py`) | the lock file, the pids of living processes | `_acquire_lock`, `_release_lock` | every ETL process, through one path | one run at a time; a dead run's lock does not shut later runs out |
| Scheduler and watermarks (`etl/scheduler.py`, `etl/utils/state.py`, `etl/jobs/macro_job.py`) | the state file (last successful date of each job), the jobs of the run, a thread pool for each stage | `run_once`: plan, stages, clean-up, metrics; `update_job_state`; manual macro backfills | the lock, the database pool, the jobs | a recorded date was completed; a skipped job was covered; stages in order; every success recorded; runs end |
| Database engines (`etl/utils/db_pool.py`) | two locks, the engine and factory caches, the loader singleton | `get_engine`, `get_session_factory`, `create_session`, `dispose_all_engines`, `_get_loader` | scheduler threads, jobs | one engine for each configuration; locks nested in one order; every call returns |
| Database loader (`etl/loaders/pg_loader.py`) | tables, transactions, tables made on demand | the upserts, replacements and inserts of each table, retention | jobs, the API's background work | a batch is seen whole or not at all; relations of news agree with their item |
| Checkpointed jobs (`etl/jobs/stock_detail_job.py`, `etl/bootstrap_stock_data.py`) | checkpoint and status files | batches, save, clear, resume | loader, fetchers | after a crash nothing is skipped that was not stored |
| Stock basics (`etl/utils/stock_basics_cache.py`, `etl/fetchers/market_client.py`) | the basics file and its temporary file, a checkpoint of Hong Kong stocks | save, merge, `get_stock_basic` | API and ETL processes | readers never find a torn file; a request that can be answered is |
| Snowball client (`etl/fetchers/snowball_client.py`) | the library's token, ready and blocked globals, two market-wide caches | token set-up, calls with one repetition, quotes, candles, financials | job threads, other sources | a good token is never blocked; nothing later than asked for; a failed fetch costs nothing |
| API cache (`api/app/core/cache.py`) | the memory map with expiry times, Redis | `get_json`, `set_json`, `delete_cache_pattern`, `clear_cache` | request threads, Redis, ETL publishers | bounded memory; bounded staleness; nothing old after an invalidation |
| Background work (`typed_cache.py`, `live_market/core.py`, `event_feed_service.py`) | sets of keys being refreshed, thread pools | claim, hand over, work, release | the cache, threads | one job at a time for a key; no key stays claimed |
| Live market answers (`live_market/core.py`) | cached profiles, pages, series | profiles with extras, prices, financials, scores, lists | cache, database, provider | what is known is not lost to a failing source |
| Users' rows (`auth_service.py`, `user_*`, `portfolio_*`, `routers/`) | rows with unique keys, stock pools as JSON or rows | register, upsert, delete, migrate | request threads, reports in the cache | reports follow the rows; a pool survives its migration |
| Reference tables (bonds, exchange rates, institutes, disclosures) | partitions of rows | serve or fetch and replace | request threads | a partition shows one fetch |
| Strategy, news graphs, stress tests, macro scenarios, cigar butt analyzer | saved runs, feature files, exposures | one analysis for each request | the database, files | what is said agrees with the data, and with itself |
| Web query cache (`web/src/services/api/core.ts`, `utils/persistentCache.ts`, `hooks/useApiQuery.ts`) | an entry for each URL: data, times, the request in flight, listeners, a timer; local storage | run, prime, invalidate, subscribe, hydrate, collect | components, `fetch` | newer data is not overwritten by older; loading ends |
| Web session and watch lists (`AuthProvider.tsx`, `utils/watchTargets.ts`, `hooks/useStatsTargets.ts`) | token, user, lists in local storage | sign in and out, check, add, remove, merge, upload | other tabs, the API | pages show the token's owner; what a user wished for stays |

`PROJECT.json` lists every component with its files and its status, maps each
definition to the lines it models, and lists under `hazards` what is hard to test
in this code, at its line, with the properties that watch it.

How the parts meet in the code: `run_once` takes the run lock, asks the pool for a
session (through `get_session_factory`), plans against the state file, runs jobs
whose upserts go through the loader singleton and so through the pool, records
dates, and releases the lock. **As the code stands it does not get past the second
step**: see `db_pool_hang`. The tests of the scheduler replace `_get_db_session`;
`EtlScheduler` models the rest of `run_once` under the same supposition, named
`PoolReturns`. The API shares the database, Redis and the basics file with the
ETL, and calls the ETL's fetchers and loader from its background threads; the
web client shares only HTTP with the API, and its tabs share local storage.

## 2. Modules

A module models one component; its header says where it lives and what is told of
the data. A constant stands for a set of threads, symbols or days. Variables named
*history* are only there for properties to refer to: no guard of the code reads
them. `mixed`, `raced`, `leaked`, `missed` and `unsure` are of that kind: they
remember that an overlap happened which the code does not prevent, so that a
property can say what holds otherwise, and they are forgotten as soon as the code
has recovered.

### The ETL

**EtlLock.** `lock` is what is at `LOCK_PATH`: nothing, an empty file (truncated by
`open("w")`), a pid, or `Garbled` bytes of two writers. A process is its pid;
`"other"` is a pid in use outside `run_once`, so a lock can name an unrelated
living program. `linked` tells whether the file a process has open is still the
one at the path, since an `unlink` in between makes its bytes go nowhere. Each
file-system call is one action; `Die` strikes anywhere. The payload's time stamp
is not modelled: nothing reads it. `raced`: two `_acquire_lock` calls overlapped,
or the file could not be written (the code then returns True).

**EtlScheduler.** One run at a time (that is `EtlLock`'s subject), its worker
threads, and a macro backfill script in a process of its own. `text` and `marks`
are the state file, `upc`, `snap` and `item` where a thread stands in
`update_job_state` (`Load`, `Open`, which truncates, `Write`), `job` what became of
each job in this run. `WriteOver` says what bytes are left when two writers opened
the file before either wrote: the longer document wins or a tail of it survives the
shorter one and the file is no longer JSON, which `_load_state` reads as `{}`. The
jobs of the stages are the constants `SourceJobs` and `DerivedJobs` (the code's
third stage has no job). `FixedJobs` are those whose range `_plan_jobs` sets to the
target date; `MacroJob` also keeps the `Refresh` and `Bank` dates, records them
before its own, and is skipped only while the macro snapshot in the database is
healthy, a nondeterministic answer. `completed` is history: the dates each key's
work was done for. `mixed`: two updates overlapped in this run, or one was cut off
between truncating and writing.

**DbPool.** Threads over the two locks, `_engine_cache` and `_LOADER`. Taking a lock
and running the block under it are separate steps; an exception leaves all the
blocks it passes. `_session_factory_cache` has no variable because the lines that
would fill it follow a call that cannot return: `EnterFactory` leaves the thread
waiting in `get_engine` for the lock it holds. `served` is history: the engines
handed out for a configuration since the last `dispose_all_engines`.

**EtlTables.** A writer of `PgLoader` with its transaction: rows written so far are
locked until commit, rollback loses them, two writers that lock in different orders
deadlock and one fails. `rows` keeps, for each key, the batches whose rows are there
now; `batches` counts the committed ones, and `whole` is history: what those leave of
each key, each applied as a whole in the order of their commits. `kind` is the
table the behaviour is about; the named operations are the loader's and say which
way the table is written: upsert, replacement, insertion of what is missing,
retention, a table made on demand.

**NewsRelations.** A news item's related symbols, once as text in its row and once as
rows of a table of relations, under the loader's and the API's writers.

**StockDetails, Bootstrap.** Runs over lists of symbols with a checkpoint, which is
rewritten in place (`Torn` when cut off), and, for details, a status of each symbol.
Runs overlap when started by hand. `reached` and `loaded` are history.

**BasicsCache, StockBasics.** The basics file as two processes save it, each system
call a step, with the temporary file's name shared; and above it `get_stock_basic`
with the batches of Hong Kong stocks, where a save is one step.

**SnowballToken, FetchCaches, Fetchers.** The token (the environment can change at
any time; a call that was rejected blocks what the environment says *then*); the two
caches for answers about a whole market, looked up under a lock and fetched without
it; and the requests, one a behaviour, with what each source would answer.

### The API

**ApiCache.** Request threads over the memory map and Redis. A value is the version
of its source, and `changed` keeps when each source changed. `Reports` are the keys
of one user's target reports: `Commit` changes their source and then goes through
`delete_cache_pattern` once for each kind of report. Other keys have sources that
move without a word to the cache. `MemoryFirst` are the keys of types for which
`should_use_memory_cache` holds. Every Redis call and every block under
`_memory_lock` is a step. `Dropped` empties the whole memory map: the patterns
contain `|`, `_match_pattern` hands it to `re` as an alternative, and the last
alternative of `scope|*user_id=7|*` is `.*`. Redis forgets expired keys by itself
(in `Tick`); the memory map only when it looks (`MemoryGet`) or needs room
(`Evict`). `raced`: a change of the source overlapped a call that already held a
value, a request read Redis while the key was being deleted, or the deletion failed.

**BackgroundRefresh.** The four kinds of background work: keys are claimed under a
lock, a job is handed to a pool or a thread, works, and releases them. `leaked` is
history: `Thread.start` raised in `typed_cache.py` or `event_feed_service.py`, after
the claim and outside any `try`. No service passes a `background_refresher` to
`cached_call` yet, so that kind is modelled as it would run.

**LiveProfile, LiveAnswers, StockPages.** A profile with its extras, as requests and
the background refresh read, fill and write it; prices, financials, scores and
research from cache, database and provider; pages of the stock list with
placeholders filled from the basics file and cached profiles. Names and sectors are
in StockPages only. There every request goes through `list_live_stocks` in steps of
its own, without a lock: `Look` (the page in the cache), `List` (database or basics
file, on a miss), `FillNames`, `FillProfiles`, `Store`. What it carries from one step
to the next is in `call`, with the page that it read.

**UserRows, StockPools, PartitionTable.** Requests as transactions over rows with a
unique key: read, decide, commit; with the cached reports on the rows, the pools
that move from JSON to rows, and the partitions of reference data that a read
fetches and replaces. Services that write rows the same way are named operations
of the same form.

**SmokeButt, StrategyRuns.** The rows a strategy trains on and scores, signals and
the buckets of a backtest; and its runs, with files of features and payloads and
the memory of several processes.

**NewsGraph, PortfolioStress, MacroScenarios, CigarButt.** Analyses: a behaviour is
one request, `Init` chooses what is asked and the data, one step computes the answer.
The properties compare the answer with the data, with other answers on changed data
(an order, a sign, a larger number) and with itself. The code's settings and limits
(rows for a split, buckets, news, chains, days of returns) are constants, and so are the
amounts and prices that a company's panel is made of.

### The web client

**QueryCache** implements **QueryPromise** (`Promise == INSTANCE QueryPromise WITH
value <- Data, excused <- Untracked`, checked as `KeepsPromise`). One cache key, its
entries (an invalidation replaces the entry that components listen to), requests in
flight with retries, timers, the copy in local storage, page loads and another tab.
An action is everything a callback does until it returns, as JavaScript runs it.

**Session, WatchSync.** The token and what `AuthProvider` shows of it while several
checks are awaited; above it (EXTENDS) the watch list in local storage, on the
server and in the query cache, with the merge of the stats page. `MaxTargets` is
`MAX_WATCH_TARGETS`: `Kept` says which lists the limit may leave of the symbols that
`addWatchTarget` or `replaceWatchTargets` has. A list is a set, so of the symbols that
come first together (the server's, in the merge) any may be cut. `Recalled` is
`readWatchTargets`: an empty list is read as the one under the legacy key. `cut` is
history, the symbols that the limit last kept out.

### Instances

`MCEtlLock`, `MCEtlScheduler`, `MCDbPool`, `MCApiCache` add bounds, symmetry and
bundles of properties to one module each. `MCWeb`, `MCApi` and `MCEtlJobs` hold
several parts that share no state: `part` (in `MCWeb`, `crowd`) says which of them a
behaviour is about, and the variables of the others are idle. That is the disjoint union of the parts'
state spaces, not their product, and loses nothing: no step of a part reads another's
variables.

## 3. Runs

| Run | Kind | What it asks |
|---|---|---|
| `etl_lock` | pass | mutual exclusion and ownership outside of races; a stale lock is replaced |
| `etl_lock_duplicate` | violation | two runs at once, against `TECHNICAL_DOC.md` line 214 |
| `etl_scheduler` | pass | truth of the watermarks, skipping, order of stages, recording, with crashes |
| `etl_scheduler_live` | pass | runs end, with one worker and a failing disk |
| `etl_state_lost` | violation | a success that is not recorded |
| `db_pool` | pass | one engine, nested locks, who returns and who is stuck |
| `db_pool_hang` | violation | `get_session_factory` never returns |
| `api_cache` | pass | bounded memory, bounded staleness, invalidation outside of races |
| `api` | pass | the thirteen parts of `MCApi`: claims backed and released, nothing worsens, the best in hand is answered, reports follow targets, pools survive their migration, partitions show one fetch, analyses agree with their data (`AnalysesAgree`: the strategy, news in order, exposures, verdicts on companies; `AnalysesSound`: the rest) |
| `etl_jobs` | pass | the nine parts of `MCEtlJobs`: progress is backed, what was fetched is kept, requests are answered in full and as asked, only rejected tokens are blocked, relations match, batches are whole |
| `web` | pass | the query cache implements its promise, components stay subscribed, refetches see writes, loading ends; wishes for the watch list hold; the session shows the token's owner |
| `web_lists_shared` | violation | one user's symbols enter another's account |

What the violations show is in `PROJECT.json` under `findings`, with the lines of
the documents and tests they disagree with.

Bounds, and why they are enough:

- `etl_lock`: two pids. Three would add no new kind of overlap, since every step
  looks at one file and at most one other pid; the proof covers any number.
- `etl_scheduler`: two source jobs (one is the macro job, the only special one) and
  a derived one, days 1 and 2, two starts of a run or a backfill: a crash followed by
  another run over what it left, two writers in one stage, a backfill beside a run.
  `WritesFail` is exercised by `etl_scheduler_live`, where a single day and worker
  keep the liveness check small. `CHECK_DEADLOCK FALSE`: the starts run out.
- `db_pool`: three threads, so that a holder, a waiter and a third party meet; two
  configurations (the loader's and another); four engines and one disposal.
  `CHECK_DEADLOCK FALSE`: the hung process stops, which is what the run shows.
- `api_cache`: two threads, a report and a quote, room for one entry, so that eviction
  happens; one change of each source; a clock to 3 with ttl 1, default ttl 2 and
  calls of at most one tick, so that an entry can be stored, expire in Redis, be
  copied with the default ttl and outlive the bound if there were a way. Threads are
  symmetric (invariants only).
- `api`: two request threads beside the background refresh; three keys for two
  workers, so that a job waits; three symbols of which one is foreign and one no
  stock, two rows a page; for pages, two requests for one query at once, four
  databases (`Databases`: empty, without names, with one name, with everything), one
  row at a time in the basics file and the profiles together (`MaxSourced`), which
  change while at most one request is in flight (`MaxBeside`): enough for a request to
  store less than another has found meanwhile, with or without a page that it read;
  two rows and two contents, so that two requests can write the same and different
  rows; two partitions and four replacements. The analyses
  take small sets of data which hold each branch of the code: six days of prices
  with gaps and up to six candidates, rows enough for a split and too few, up to three
  pieces of news where two are shown and two chains are kept, so that each cut happens,
  two targets under up to three rules, five calendars of returns around the sample that
  an exposure needs, up to three phrases, companies that differ from a sound one in a few
  figures, with prices on both sides of each value. `CHECK_DEADLOCK FALSE`: an analysis ends
  with its answer, and a backfill whose ranges are all loaded has nothing to do.
- `etl_jobs`: two threads, processes or runs, so that each pair of steps overlaps;
  two stocks, one of Hong Kong, in batches of one; two tokens, of which the server
  accepts any; two batches for each of four tables, one for each way of writing
  (upsert with and without a null in the key, insertion, a table made on demand);
  days 1 to 3. `SYMMETRY` over threads and names: no part tells them apart, and only
  invariants are checked. `CHECK_DEADLOCK FALSE`: runs, batches and requests run out.
- `web`: one component, so that its subscription can be lost to the collector, two
  entries (the one listened to and its successor) and two requests that can overtake
  each other, one retry, one tick for each time limit, one change on the server.
  `RetryDelay` is 0: a retry is a step of its own either way.
  `Crowds` says who and which symbols are in a behaviour of the watch list together:
  two users and one symbol, for the change of users; or one user, two symbols and a
  legacy list with `MaxTargets` 1, so that additions and merges exceed the limit. One
  read, write and check at once for each token. `{}` is the query cache.
  Of the passing runs this one and `api` are the longest, about three minutes each.

Fairness:

- `etl_lock`: a living process goes on (`WF` of its steps); runs are started again
  and again, as the operator's timetable does; and a run is not killed at the same
  step each time (`SF` of the steps up to replacing the lock).
- `etl_scheduler_live`: the threads of a run go on, and a job's runner returns or
  raises: the fetchers use timeouts. Starting runs, crashing and refreshing are not
  fair. A database session that can be opened is.
- `db_pool`: a thread that can go on does, and a waiter gets a lock that is released
  again and again (`SF`): CPython's locks are not fair by contract, but the waits
  here are short and few.
- `api`, for background work only: the oldest job of a pool goes on and ends (its
  requests have timeouts), and a request that has claimed keys goes on to hand its
  job over or to raise. Requests, refreshes and answers of providers are not fair.

## 4. Proofs

Checked by TLAPS for every value of the constants, under assumptions that the modules
name and TLC evaluates on every run: distinct constants, naturals, finiteness
(`LockValuesAssumption`, `SchedulerAssumption`, `PoolAssumption`, `CacheAssumption`,
`RefreshAssumption`, `QueryAssumption`, and those of `MCApi`, `MCEtlJobs` and `MCWeb`).
Those of the three MC modules say that what stands for nothing (`Nothing`, `None`,
`Torn`) is told from the values beside it, that stocks and symbols are numbers, since
lists are sorted by them, and that limits are naturals. For the analyses: a horizon, a
step and a bucket count are at least one (`StrategyAssumption`), news names stocks that
there are (`NewsAssumption`), days of returns are finite sets of numbers and a sample is
of one at least (`StressAssumption`), amounts are integers and prices naturals
(`AmountsAssumption`). `QueryAssumption` has one that
the code's callers honour: `cacheTimeMs` is at least `staleTimeMs`.

- **Lock** (`EtlLockProofs`). `MutualExclusionUnlessRaced` is not inductive.
  `LockInv` adds, as long as `raced` is false: at most one process acquires, at most
  one works, the file is the worker's, a process acquiring beside a worker has not
  got past the probe of the worker's pid, and the file being written is the one at
  the path. One step for each action, each conjunct below it.
- **Scheduler** (`EtlSchedulerProofs`). `WatermarkSound` needs that whatever a thread
  loaded, or is about to write, was completed: that invariant (with the types) is
  closed under every action because `Recorded` only combines the two and crashes only
  forget. `SkippedIsCovered` follows with the fact that `completed` grows.
  `StagesInOrder` has an invariant of its own about which statuses each stage allows.
- **Recording** (`EtlSchedulerProofs`). `RecordedUnlessMixed` rests on two facts.
  `ItemsOwn`: a job that saves is about to write its own key with the run's end date,
  and every other update is of a key that no job has. `FileHeld`, while not mixed: at
  most one update is between its load and its write; until it opens the file it holds
  what is there, from then on the file is blank and *it* holds what was there; so the
  date of every job that is done is in the file or in that one hand. The update that
  writes adds its own date to it. `FileHeld` was model-checked before it was proved.
- **Pool** (`DbPoolProofs`). The invariant says which thread holds which lock at which
  place and that `served` only names the cached engine; `HungForGood` is an action
  property from it: the lock's holder has no enabled step.
- **Cache** (`ApiCacheProofs`). `Types` adds to `TypeOK` that a call in progress has a
  key and that Redis holds nothing expired. Four lemmas, the "fates", say once what a
  step of a thread may do to the other threads, to its hand, to memory and to Redis;
  the rest argues from them. `MemoryBounded` follows from `EvictMakesRoom`: whichever
  of its three cases `Evict` takes, fewer than the limit stay beside the new key (this
  needs `EvictCount` to be positive). `StalenessBounded` is not inductive: `AgeInv`
  bounds what each stage adds to a value's age (in a hand `MaxDelay`; in Redis one
  `Ttl`, less a tick when it is read; the copied time to live), and a change of the
  source leaves `Current` where it is because it turns "now" into the moment of the
  change. `CoherentUnlessRaced` needs `CoherenceInv`: where a level holds another
  version than the current one, the scope that will delete it is still in `todo` (for
  memory), or in `todo` or `scope` (for Redis), and no hand holds another version.
- **The parts of the API** (`ApiProofs`). A behaviour of `MCApi` stays with its part, so
  the invariant of the whole (`ApiInv`) is one for each part that keeps state, and a
  lemma for each part says that its own `Next` keeps it.
  - Claims: `OneHolder`, each claimed key has exactly one job or request that will give
    it back, unless leaked; two that claim under the same lock cannot both find it free.
  - Profile: a call about to write has at least what it found (`ResultCovers`), so
    writing over the cache or over the answer takes nothing away; `NothingWorsens` is the
    action property, for profiles and for pages of the stock list.
  - Answers: what a request has in hand at each of its steps bounds its answer from
    below (`BestOf`), and the cache never holds rows without a signal.
  - Pages: what a page shows of a symbol is among what the database, the basics file
    and the cached profile can say of it. From `FillNames` on the rows in a request's
    hands fill the page that it read, whatever the sources become (`Merge` takes no name
    or sector away, and keeps symbols and their order): so does its answer, and a page
    is only stored over by one that fills it or by a request that had not read it.
  - Users' rows: whatever service a request is for, it begins by reading and ends with
    a commit, a failure, a drop or a stored report; `ReportsFollowTargets` is then
    inductive, because a commit of targets leaves its request about to drop, and what a
    late or a forgotten request leaves is `missed`.
  - Pools: a migration carries the symbols of the JSON that it read (`MigratesRead`), and
    rows beside a JSON that is not empty are those of that JSON (`RowsOrJson`): a second
    migration then fails on the key.
  - Reference tables: unless two filled it, a partition has rows of one fetch.
  - Backtests: `RunInv`, unless a day is mixed at most one request writes its features,
    and every frame in memory, in a file or in a request's hands is the one in the
    features' file of its day.
- **The parts of the ETL** (`EtlJobsProofs`), laid out the same way under `EtlInv`.
  - Details and bootstrap: the place of a run, in its hands and in the checkpoint, is no
    further than what was reached; a status that it will merge or write, and the status
    file, name only what was stored.
  - Basics file: of saves that never overlapped at most one is under way, the temporary
    file is its own, and it writes what it was meant to leave. Fetches: the margin list
    is empty only since its fetch was given up last.
  - Basics: at each step of a request that could be answered, what it will look at
    next still answers it (`ServeInv`); what a load has passed over is in the table.
  - Token: unless the environment's token came under a call, each call's token is the
    environment's, so a rejection is about the token that will be blocked.
  - Relations: an item in order has rows for all its symbols or none, and its text.
  - Loader: `LoaderInv` says of a key what its row is at any time. If a writer has
    replaced it, it is the only holder of the key, and it remembers what the committed
    batches left there. Rows that stand beside one another are those of the committed
    batches, without what holders deleted, with what they added. At a commit the holder's
    part becomes `whole`, at a rollback it goes, hence `BatchesWhole`.
  - Requests: an answer is computed in one step, so what is proved is what each kind of
    request computes, for any stocks and days and any answers of its sources; the two
    codes of a symbol, the two limits and at most five quarters are `Asked`'s own. The
    lemmas: the first places of a list (`FirstsSay`, over the lemmas on places that the
    batches use), the first code that fits, and the quarters, where `Back` takes three
    months off (`BackSays`) and so the chain of periods, unrolled, is an arithmetic one.
- **The web client** (`WebProofs`).
  - Session: `ShownIsOwned` has two parts. `AgreesUnlessMixed` needs `AsksForShown`:
    unless mixed, answers are awaited for the shown token only. All but two of the actions end in `syncAuth`, so one lemma
    (`SyncAuthSets`) says what that establishes. `OwnerUnlessLoading` is inductive.
  - Watch list: while a wish stands, nobody else is signed in (`Alone`). A symbol that
    was added is in the list and nothing under way takes it from the server (`InSafe`);
    of one that was removed, nothing that a merge may use has it, and every read that is
    under way was served after the write (`OutSafe`). With the limit, a symbol that was
    added is in the list or in `cut`: whatever a merge leaves out of the list it sends to
    the server with the rest or found there. With the legacy list, a wish against a
    legacy symbol stands only while the list is not read as that one: that a list which
    is not empty never becomes so but by removals needs the limit to be positive and the
    symbols to be finitely many (`TargetsAssumption`).
  - Query cache: the actions are whole callbacks, made of the same parts, so each part
    has a lemma. `Follows(q, s)` says what the cache is in the midst of a callback: the
    current entry's data is what it was when the callback began, or an answer that is
    no older unless a request runs unseen (`Learnt`), and what local storage has of an
    answer that the cache waited for is not older than data that it may replace.
    Creating, hydrating, looking, notifying, starting and settling preserve it, and
    `Settled` turns it into the next state's `DataInv` and a step of `QueryPromise`:
    the refinement, action by action. `KeepsPromise` rests on `InflightBacked`, the
    request that the current entry waits for is answered with no older data;
    `RefetchSeesWrites` on `AskedSafe`, a refetch waits for a request of the entry it
    listens to that the server answered after the call; `StaysSubscribed` on `Heard`, a
    mounted component listens to exactly one entry, which the collector then spares.

- **The analyses** (`AnalysisProofs`). `AnalysesAgree` is `StrategySound`, `NewsInOrder`,
  `ExposuresSettle` and `VerdictsStand`, one theorem each; `BacktestsAgree` is about the
  strategy's runs, above. A behaviour of an analysis is one request, so the invariant is that what is asked stays as it was chosen and that the answer is the one
  computed from it. What needs an argument is the algorithm, for any data.
  - Order: the code sorts everywhere, and the model's `Sorted` and `BestFirst` are
    functions chosen to be in order. `PlacesTell` gives a finite line its places by
    counting what comes before each element, so such a function exists (`LineInOrder`),
    and what it returns has every element once (`SortedAscends`, `BestRanks`).
  - Strategy: `NothingAhead` from the latest of the periods that have ended, one less and
    so on; `RowsApart` from the cutoff, which is a day of the rows themselves;
    `SignalsInOrder` and `BucketsFair` from the arithmetic of the slices
    `i * n \div buckets` and from places; and `FreeAgain`: two rebalancing days are a
    horizon of the window's days apart, and those of a stock without gaps are the same.
  - Exposures: of the rows that are stored the newest that is not too new is taken and
    only then its sample is looked at (`CachedIs`, `CachedOnce`). What the first request
    makes is stored under the day that the second looks for, and is newer than what the
    first passed over (`FoundAgain`, `NoneMissing`), hence `ExposuresSettle`.
    `OwnDaysCount`: where no index is to match, a sample is all of the stock's own days.
  - Cigar butts: `VetoesAreFinal` follows a veto through bonus, plan and flags;
    `PositionIsBacked` and `LevelIs` go through the cases of the levels and of the ways
    to the money, `NavsAre` says what the three values of a panel are, and
    `UnreadGetsNone` what becomes of a panel of which nothing was read.
  - News graphs: `RanksNamedFirst` sets the scores apart (news that names the stock has
    more than any other can have), and `NewestAreMany` counts: what the query's own limit
    leaves out is older than three times as many as are shown. `LargestKept` and
    `EdgesEnd` say that keeping the largest node of an id loses no id, so an edge keeps
    its ends. `LimitIs` says what keeping the strongest chains leaves, once for any
    chains, and `PropagationLed` applies it for any number of news and limits.

Only model-checked: `StaleLockReplaced`, `RunEnds`, `CallsReturnUnlessHung` and
`JobsClaimsReleased`, since liveness under fairness is outside the prover; and what
`AnalysesSound` says: the chains from a stock's news to others, which are joined from
lists of lists and filtered (`FlattenSeq`, `SelectSeq`); the sums, clipped shocks and
rules of stress tests; the merged rules of macro scenarios; and, of cigar butts, the
comparisons between two panels (order of news, good news, cuts, a lower price). All of
them are about what a fold or a recursive definition computes, and the provers cannot
use the library's induction theorems.

## 5. Plan

Done: all modules of section 2 and the proofs of section 4. What would come next:

1. The rest of `AnalysesSound`: with a prover that can use induction over sequences,
   lemmas about `FoldLeft`, `SelectSeq` and `FlattenSeq` first.
2. A composition of the lock, the pool and the scheduler for two processes, with an
   abstract specification (runs are serial, a recorded date was completed) that it
   implements outside of races.
3. The bought list and its merge by update times, the order within a watch list (which
   symbols the limit cuts), the HTTP client's fallbacks, the
   publisher of Redis keys.

## 6. Not modelled

What third-party services answer beyond "rows, none, or an error"; SQL, columns and
the schema; password hashing and the encoding of tokens; rendering, logging, wording
and statistics; the gradient-boosted regressor of the strategy (any order of scores
stands for it). They have no protocol, or only one that the parts above contain.

- ETL HTTP client: attempts in a row with back-off and no shared state.
- ETL data jobs: they fetch, reshape and upsert; the scheduler has them as runners
  that return or raise, `EtlTables` has what they store, `Fetchers` what they ask for.
- The first creation of the state file, alerts (which never raise), the date
  arithmetic of `etl/utils/dates.py`, the enrichment of names and sectors.
- `delete_cache` of a single key, which no service calls.
- Windows' `os.kill` semantics: the lock model takes the probe of a pid to be
  truthful, as on POSIX for one user.
- Watch lists: the order within a list, so that the limit may cut any of the symbols
  that come first or last together; the migration of a list to a user's own key, since
  no token of this API leads `getAuthUserId` to a user (`web_lists_shared`).
- API middleware (a ring buffer of timings), pages of the web client.

## 7. What else was seen in the code

Met while modelling; the models have the code as it is, and where a property would
say otherwise it is stated with the exception. Not all have a run of their own.

- Scheduler: `main.py:23` and `scheduler.py:295` both shift the date, so a run started
  from the command line works for two days ago.
- Basics: the temporary file of an "atomic" write has one name for all writers.
  `get_stock_basic` saves again what it read from the database, which renews
  `updated_at`. `search_stocks` shows placeholders for names when quotes fail.
- Snowball: `_select_finance_record` looks for the 28th, so the newest quarter's own
  report (30th, 31st) is skipped; `get_index_daily` stores today's quote under a past
  day; `_call_quotec` gives up a whole batch for one error; a failed fetch of the
  margin list is kept for an hour, and a hit ignores `as_of`; quotes of Hong Kong are
  served at any age after a failed refresh; a call rejected with an old token blocks
  the new one untried.
- HTTP: the curl fallback drops parameters and proxies and takes error pages for
  answers; the urllib path sends twice and appends parameters again at each retry
  (`http_client.py:187-239`).
- Redis publisher: `etl/loaders/redis_cache.py:161`, the last writer wins.
- Details: the snapshot and research sections call functions that are never imported.
- API cache: a pattern with `|` empties the whole memory map (`cache.py:276`); "LRU" is
  eviction by expiry (`cache.py:116-125`); portfolio reports (600 s) are never
  invalidated.
- Stock pages: `list_live_stocks` holds no lock between reading a page and storing it, so
  of requests that overlap the slower one may store placeholders over names that the
  other found. A request that read the page cannot do that to it, one that found no page
  or an earlier one can (`core.py:1023`); `NothingWorsens` says so.
- Watch lists: the 51st symbol drops the oldest here while the server keeps it, and the
  next merge, which puts the server's symbols first, may drop another
  (`watchTargets.ts:146,160`); the removal of the last symbol brings the list under the
  legacy key back, which the merge uploads (`watchTargets.ts:114`).
- Strategy: features and payloads fall back to files of other versions; a torn pickle
  fails every backtest of its day; training labels reach past the validation cutoff;
  reports count from the end of their period, not from their publication; holding
  periods of suspended stocks overlap; a forced retraining takes the day's old features.
- News graphs: an index's chains end in ids that are no nodes; news whose sector is
  beyond its first three has no edge to it.
- Stress tests: one suspended holding makes old exposures acceptable; overrides and
  lambda do nothing for stocks without exposures; "CNYUSD" is inverted and "CNY/USD"
  is not; the idiosyncratic term applies even where nothing is shocked.
- Macro scenarios: a clause is split at "+", so the number of "港股 +6%" loses its
  subject; "0%" counts as no number; rules and overrides of mixed oil clauses may
  disagree in sign.
- Cigar butt: a company of which nothing is known is rated A; the cap for a missing
  path to redemption never reaches the rating; subtype B's stop is unreachable;
  combined subtypes get no cap of their own; `_check_c1b` divides the market value once
  too often; restricted cash is flagged and not deducted; the baseline of two or
  three dividends is divided by one more than it sums; more cash can add a flag, since the burn rate is unknown while
  T0 is negative.
