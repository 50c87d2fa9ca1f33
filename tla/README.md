# Verification of community-search

community-search is a federated search engine in Rust: each node crawls the
sites its operator chose, indexes them with Tantivy, keeps its operational state
in SQLite, answers searches alone and together with its peers, and knows other
nodes through gossip. This directory holds TLA+ modules that model the parts of
the node with state and concurrency, TLC configurations that check them on small
instances, and proofs that TLAPS checks for every instance.

To repeat everything, in this directory: `tlc -config X.cfg M` for each run of
PROJECT.json, and `tlapm M.tla` for the modules whose name ends in `Proofs`.
PROJECT.json maps each definition to the lines it models.

## 1. Inventory

| Component (`src/src/...`) | State | Operations | Interacts with |
|---|---|---|---|
| Indexer, writer, journal (`index/indexer.rs`, `index/writer.rs`, `db/crawled_pages.rs`) | Tantivy index, writer buffer, pending journal, two channels, `indexing_inflight`, `crawled_pages` | receive upsert, receive delete, deadline flush, commit, `mark_indexed_batch` | page crawls and imports send upserts, admin handlers send deletes, `/status` reads the counter |
| Page crawl (`crawler/page.rs`, `crawler/fetcher.rs`) | the row read before the fetch | conditional GET, 304/other/fresh arms, send job, write row, count outlinks | site, row store, indexer |
| Breadth-first driver (`crawler/driver.rs`) | queue, visited set, counters, 429 counter, sleeps | pop, crawl, enqueue links, back off, give up | page crawl, sitemap, robots |
| Robots, sitemaps, URL classes (`crawler/robots.rs`, `sitemap.rs`, `url_class.rs`, `canonical.rs`, `parser.rs`) | robots cache shared by all tasks; a task's visited sitemaps | fetch and cache rules, walk sitemaps, normalise, classify | driver, page crawl, site |
| Scheduler, pause, size limit (`crawler/scheduler.rs`, `api/admin/crawl_control.rs`, `index/size.rs`) | running set, tasks, pause flag, `crawl_targets` | tick, dispatch, end of run, pause | admin handlers, driver, restart |
| Crawl targets, collections, outlinks, ranking rows (`api/admin/*.rs`, `db/*.rs`) | rows with foreign-key cascades | add, remove with a delete batch, re-time, create, rename, delete, promote, dismiss | indexer, crawls under way, import |
| Export and import (`api/admin/export_import.rs`) | archive of rows and documents | export, import | indexer channel, row store |
| Rate limiter (`api/rate_limit.rs`) | per-address log, violations, cooloff; peer cache | admit, reject, penalise, reset, refresh cache | node peers, clock, configuration |
| Admin authentication (`api/auth.rs`, `api/auth_attempts.rs`, `auth/token.rs`) | failed attempts, lockouts, token | check, fail, succeed, ensure token | every admin route, restart |
| Node configuration (`api/admin/config.rs`) | copy in memory, limiter's limit, table | read, update | limiter, fan-out, restart |
| Gossip (`federation/gossip.rs`, `federation/discovered.rs`, `api/gossip.rs`, `api/admin/gossip.rs`, `protocol.rs`) | `discovered_engines` | snapshot, exchange, merge, write back, remove, self-entry, refuse another major | other nodes, operator, restart |
| Peers and their health (`federation/health.rs`, `federation/storage.rs`, `api/admin/nodes.rs`, `collection_peers.rs`, `discovered.rs`) | failure counts, enabled flag, subscriptions | probe sweep, disable, re-enable, subscribe, promote | fan-out, admin |
| Fan-out search (`federation/fanout.rs`, `federation/peer.rs`, `api/public.rs`, `api/sse.rs`, `api/mcp.rs`) | requests under way | query peers, time out, merge, stream | health, local search |
| Local search and ranking (`search/*.rs`, `index/reader.rs`) | none | query, cut, score, sort | index, ranking rows |
| Router, UI, process (`api/router.rs`, `api/ui.rs`, `main.rs`) | none of their own | start, serve | all |

What is hard in this code: two stores without a common transaction (SQLite and
Tantivy) kept together by a journal column; values read before an `await` or
under another lock and used after it (page rows, gossip lists, peer lists,
configuration snapshots, timestamps, lockouts, the robots cache); two channels
drained by one task while admin handlers act on other threads; ids that SQLite
reuses; foreign keys switched off on a shared connection; crashes between any two
of these; and counters and sets that several tasks keep by hand. The hazards of
PROJECT.json give the line of each.

What makes each component correct:

* pipeline: the journal column tells the truth about the index, every fetched
  page gets into the index, removed pages leave it, the in-flight counter is
  exact;
* driver: nothing is lost or crawled twice, delays are kept, every run ends;
* discovery: what is crawled is on site, allowed and in one spelling, and the
  search for it ends;
* scheduler: one crawl per target, none forgotten, a pause takes effect;
* catalogue: references hold, an export loses nothing, an import adds and never
  replaces, the admin's verdicts stay;
* limiter: the limit, escalation and cooloff hold for concurrent requests;
* administration: a lockout locks and ends, the token survives, memory and table
  agree;
* gossip: lists are additive, times are monotone, versions stay apart, everybody
  is discovered;
* federation: failing peers are disabled and come back, every peer listed is
  heard once, answers are ranked, every search ends.

## 2. Modules and how they correspond to the code

### IndexPipeline

The core. Crawl tasks, the indexer, admin handlers, sites and crashes share
SQLite (`tstate`, `pages`) and Tantivy (`index`, `staged`). `pages[c][u]` is a
row of `crawled_pages` reduced to owner, validator, `content_hash` and
`indexed_content_hash`. The index holds at most one document per URL because
`IndexWriter::upsert` deletes by the URL term before it adds. A validator is
represented by the content it stands for; sites outside `Etagged` send none.

Atomicity follows the runtime. The scheduler thread is a current-thread
runtime, so a crawl task and the indexer interleave only at awaits: sending a
job and writing the row are two steps because the admin threads (with their own
connection) and a crash may come between, but no other task may (`ThreadFree`).
A flush is two steps, `Commit` inside `Recv`, `RecvDelete` or `Deadline`, and
then `Mark`, for the same reason. The `select!` is biased, so a delete waits
until no upsert is queued. A refused row of a removed target is the foreign key
on `crawl_target_id`: the bundled SQLite enables foreign keys by default and the
code relies on it.

History variables (`tainted`, `orphan`, `lost`) record where the code itself
gives up a guarantee. They do not restrict any step; the properties say that
nothing else goes wrong.

| Code | Actions |
|---|---|
| `Scheduler::tick_once` | `Dispatch`, `Finish` (detail in CrawlScheduler) |
| `crawl_page` | `Load`, `Answer`, `OtherStatus`, `FetchFails`, `KeepRow`, `SkipIndex`, `BeginSend`, `Send`, `SendFails`, `WriteRow` |
| `indexer::run`, `flush`, `IndexWriter` | `Recv`, `RecvDelete`, `Deadline`, `Mark`, `CommitFails`, `MarkFails` |
| `handle_crawl_targets`, `delete_item` | `AddTarget`, `RemoveTarget`, `SendDelete`, `SendDeleteFails`, `DeleteCollection` |
| `main` | `Init`, `Crash` |

### CrawlDriver

`crawl_target` as one sequential process; the site chooses among the outcomes of
`crawl_page` at each fetch. `consecutive_429s`, the budget, the re-queue at the
front and the marking of links at the time they are pushed are as in the code.
The order in which a page's links are pushed is any order. Sleeps are counted in
seconds: `effective_delay_for_run`, `rate_limit_backoff` (a table of the powers of
two it can return) and `sleep_dur` are the code's functions, `slept` what the walk
has slept since its last request and `owed` what it should have.

### Urls and Discovery

Urls holds the pure functions on URLs: `normalize_url`, `is_in_prefix`, `host_of`,
the blacklist, `detect_canonical_prefix`, and the part of `crawl_page` that
decides where a page is filed and which links it follows. A URL is a record of
its parts; its host a sequence of labels, its path a sequence of tokens, its
query a sequence of pairs (`ParsedUrl`, what the url crate may return; of http it
has a path that starts with `/`). A string operation of the code (stripping `www.`,
dropping a default port, sorting a query, a prefix test on text) is the
corresponding operation on those sequences. The stable sort of a query takes, for
each key in alphabetical order (`KeyOrder`), the pairs that have it (`Having`). Discovery runs crawl tasks over these
functions: each asks the shared robots cache (`Needs`, `AskRobots`, then
`RobotsArrive` or `RobotsFail`, since the fetch is an await and the cache is not
locked over it), walks sitemaps with their cap, and crawls what it found. The
cache is a function on the origins that have been inserted, like the HashMap.
`AddChildren` is the loop over the entries of an index, as a function of the number
of entries seen. The definitions of the machine are named for its tasks
(`TaskInit`, `TaskNext`, `TaskSpec`), so that CrawlSchedulerProofs can extend both
Discovery and CrawlScheduler. The order of pages is CrawlDriver's matter, the fate
of contents IndexPipeline's.

### CrawlScheduler

Ticks against tasks, admin handlers and restarts. A tick is two steps because
the pause flag and the size are read before the query. Time is kept as ages that
saturate at `MaxAge`, which loses nothing: a saturated age is due under each
interval. A failing directory scan counts as an empty index (`unwrap_or(0)`), so
`CheckTick` may see either.

### RateLimit

One client address. A request takes its timestamp in `Arrive`, its bucket in
`Bucket` and its decision in one of `RejectCooling`, `Violate`, `Allow` or
`StorageFails`, the whole of `check_and_record_key` under the database mutex.
`Retain` drops the log entries that have left the window, as `retain` does;
`granted` is the sequence of all grants so far.
`MaxSkew` bounds how long a request may wait between the first and the last.

### GossipDirectory and Gossip

GossipDirectory is the abstract promise: a set of known engines per node that
holds the node itself, grows, and shrinks only by the operator's hand. Gossip is
the code: tables with names and times, one exchange per link whose snapshot is
read before the round trip and written back after it, a handler that merges
under the mutex and answers with its list before the merge, upsert loops without
a transaction, removals, restarts under another name. `Directory` in Gossip is
the refinement mapping and `Additive` the claim. Times do not travel
(`EngineSummary` has none), so one clock serves all nodes. Each side runs `check_compatibility` on the
other's version and refuses another major. Left out: a second concurrent exchange
over the same link and a request that is served after its sender gave up.
Promoting an entry to a peer is in Federation.

### AdminAuth and AdminApi

AdminAuth is `require_admin_token`: a request takes its time, checks the lockout in
one section under the mutex, compares the token and records the outcome in
another; each of the two statements may fail, and the code then goes on
(`AdmitUnread`, `JudgeUnrecorded`). Times are relative: `left` is what a lockout
has left, `age` how old the time is a request goes by, at most `MaxLag`. `guesses`
and `armed` are history. AdminApi puts `put_config` behind it: `PutPatch`,
`PutLimit` and `PutPersist` are its three lock sections, and a restart loads the
table. `disturbed` records that two updates overlapped or a write failed, where
the code itself promises nothing.

### Ranking and Federation

Ranking has the local search as operators: candidates by BM25 cut at four times
the limit, scores, a stable sort. The sort is given by ranks: the place of a result
is one more than the number of results before it (`Rank`, `Ordered`). The factors
of a score are whole numbers, and the freshness factor is zero after three
half-lives.
Federation composes it with peers, subscriptions, health and fan-out. Rows are
addressed by id, and SQLite gives a deleted highest id again, so `NextId` does. A
search lists its calls once (`Search`), outcomes come in any order (`Outcome`,
which also records health, as the stream and the JSON collector do), the budget of
a JSON search may run out (`Deadline`), and the sweep goes by a list read before
its probes. The MCP tool is a third kind of request.

### Archive and Catalog

Archive gives export and import as functions on the tables: `Export` is
`build_envelope`, one `ExportCollection` for each collection in the order of their
names (`ByName`); `Apply` is `apply_envelope_inner`. An import takes a file from
outside, so the archive may violate the UNIQUE constraints of the tables, and is
then refused as a whole (`Accepted`). Catalog is the machine around
them: every admin handler on collections, targets, rankings, outlinks, peers and
subscriptions, crawled pages and their outlink counts, the indexer, one crash, one
end of the indexer. `fk` is the state of `PRAGMA foreign_keys` between handlers:
while it is off, deletes cascade to nothing. Adding a target is two actions
because the handler awaits a probe of the site before it takes the mutex. A crawl
is one action here; IndexPipeline has its steps.

## 3. Runs

| Run | Module, cfg | Shows |
|---|---|---|
| pipeline_readd | MCIndexPipeline, PipelineReadd | one URL, a target and its re-addition, one site change, crash, failure and removal: journal, counter and documents consistent |
| pipeline_topology | PipelineTopology | two collections, nested prefixes, a redirect, one removal or collection deletion: every document has its row, a removal on its way or an orphan's excuse |
| pipeline_converges | PipelineConverges | two concurrent tasks, one change, one crash: the index converges (liveness) |
| etag_crash | EtagCrash | **violated**: a page with validators lost by a crash never gets into the index |
| driver | MCCrawlDriver, Driver | the walk over a diamond of four pages with back links, sitemap, a budget of three, delays and back-offs |
| scheduler | MCCrawlScheduler, Scheduler | two targets, two intervals, pause, size limit, one restart; safety and liveness |
| limiter | MCRateLimit, Limiter | two concurrent requests, both buckets, a peer change, decisions up to a second late |
| gossip_line | MCGossip, GossipLine | three engines in a line and one of another major version, with failures, a removal or a restart; safety, refinement and liveness |
| admin_api | MCAdminApi, AdminApi | two concurrent admin requests: lockout, token and configuration; safety and liveness |
| federation | MCFederation, Federation | two peers, their rows, health and sweep, streamed and JSON searches; safety and liveness |
| catalog | MCCatalog, Catalog | the tables under admin handlers, crawls, imports and faults |
| discovery | MCDiscovery, Discovery | two tasks on one site sharing the robots cache; safety and termination |

The finding of PROJECT.json quotes, for the violated run, the comment and the
migration that say otherwise.

### Bounds and why they suffice

* Pipeline. One or two URLs, collections and targets: every interaction is about
  one document and at most two rows or two tasks that share it. Two contents are
  needed for "old" and "new", and to come back to an old one. `BATCH_SIZE = 2` and
  channel capacities of 1 give a partial and a full batch, a job waiting for room,
  one queued and one buffered at once; the convergence run uses `BATCH_SIZE = 1`,
  its question being the order of commits. One crash, failure and removal can each
  fall at any step; the crash inside a flush is switched by `FlushCrash`, because
  `Convergence` is not promised across it.
* Driver. The graph has a page with two parents and back links, so a link may be
  discovered twice while its page is queued, in hand or settled; `MAX_429` is the
  code's 5. The delay of 2 s lies between the Crawl-Delays of 1 and 3 s, and
  Retry-After is absent, 0, or above `MAX_BACKOFF`.
* Scheduler. `MaxAge = 2` is the largest interval, so "due", "not due" and "never
  crawled" all occur; the bounds on counters only cut repetitions.
* Limiter. Two rungs of the ladder and room for two violations and a clean period;
  limits 1 and 2 distinguish the buckets. `WINDOW = 3` and `MaxSkew = 1` leave a
  window in which the limit can be stated.
* Gossip. Three engines in a line is the smallest network in which an engine serves
  and asks at the same time and knowledge has to travel over two hops; their minor
  versions differ, and a fourth engine of another major asks and is asked. One
  event, a removal or a restart, falls anywhere. Two seconds are "earlier" and
  "now".
* Administration. Two requests, so that one is between its two sections while the
  other is decided; two tokens; two failures lock for two seconds, so a lockout
  expires within the run; one statement fails; two restarts, so that an override
  comes and goes.
* Federation. Two URLs and two ids, so that an id passes from one peer to the other
  while a call or a probe of the first is under way; threshold 2, so that one
  failure does not disable; a stream, a JSON search above the depth cap, a query
  that does not parse and a blank one. One answer ties with a local result.
  Ranking is checked for every index of five documents from four kinds and eight
  configurations, with a limit of one, so that the cut at four is met.
* Catalog. Two names, so that collections are renamed, collide and take over
  rowids; one page under two prefixes, one host, one peer; five operations are enough to create, fill,
  export, delete and import again; three archives, one with a ranking and a peer,
  one with a subscription to a peer it does not bring, one that the schema refuses;
  the list of examples is full at one.
* Discovery. Two targets of one site whose prefixes overlap, an origin with and
  one without `www.`; a cap of two sitemaps with documents that list each other;
  URLs that differ in port, query order, tracking parameters and host spelling.

Deadlock checking is off where the bounds on crashes, removals, operations and time
make the model stop, and where removing the last target or finishing all crawls
leaves nothing to do.

### Fairness

* Pipeline: strong fairness of each task's progress and of the indexer, since the
  steps of the one thread disable each other for a moment; tokio polls every
  ready task and its channel semaphore is first come, first served. That a run
  reaches each URL again and that the site answers now and then are the recrawl
  interval, the walk and an assumption on the site. Nothing is assumed about
  admin steps, failures or crashes.
* Driver: weak fairness of its own step.
* Scheduler: the ticker fires, the clock advances, a query tried for ever
  succeeds now and then, and a run ends, which the driver run shows.
* Gossip: the periodic loop begins exchanges for ever, and one tried for ever
  between compatible engines is now and then served and written back. Nothing is
  assumed about failures.
* Administration: the clock advances and each request is carried on to its end;
  clients need not ask.
* Federation: the sweep ticks for ever, and every call of a search ends because
  the HTTP client has a time-out; a client is assumed to read its stream. Nothing
  is assumed about peers: `Recovers` has "stays up" as a hypothesis.
* Discovery: each task goes on, and a fetch of robots.txt that is not answered
  fails by the client's time-out.

## 4. Proofs

All theorems hold for every value of the constants under the modules' ASSUMEs
(finite sets of targets, requests, slots and collections, positive sizes, `None`
apart from the data, intervals within `MaxAge`, a growing ladder, links between
distinct nodes, sitemaps and robots.txt files as sequences, targets http serves,
references that are parsed URLs or none, keys in one order, archives whose outlink
rows an engine could have written). Each theorem is Init, step and consequence of
one inductive invariant:

* **IndexPipelineProofs.** `TypeCorrect` needs `TaskHasUrl`: a task past its
  fetch has a URL and a content. `JournalIsFaithful` proves `JournalInv`.
  `JournalFaithful` alone is not inductive: `Mark` writes what the flush holds,
  so that must describe the index; it was taken from the writer's pending
  journal, so that must describe the staged documents; documents without a
  pending entry must equal the last commit, or a flush would change them behind
  the journal's back; and an entry of a second collection must have tainted the
  first. `TableStep` shows that all crawl and admin steps at most forget journal
  entries; `CommitJournal` treats the three flushes at once. `InflightIsExact`
  proves the counter, with the finite-set theorems for the tasks waiting to
  send; `ZeroIsDurable` follows from it and `JournalInv`. `UndisturbedJournal`
  shows the literal reading of the column's documentation when there is one
  collection and no removal, database failure or crash inside a flush.
  `DocsAccounted` proves `DocInv`, which extends `DocHasRow` backwards along the
  way of a document: staged documents and queued jobs have a row, a queued removal
  or an orphan's excuse, or the task that sent the job is about to write the row;
  rows belong to the collection of their target. `DocumentsHaveRows` follows.
* **CrawlDriverProofs.** `DInv` keeps the queue free of repetitions, splits
  `visited` into queue, page in hand and settled pages, counts the latter, and
  says where the links of a fresh page are. Lemmas on sequences without
  repetition give pop, push to the front and append of a set in any order. From
  it `NothingLost`, `CountsAreExact`, `FrontierIsExhausted` and
  `DriverTypeCorrect`, for any finite site. `RequestsArePolite` needs `Rested`: a
  sleep under way is as long as what is owed, and at the head of a loop that will
  go on it has been slept.
* **CrawlSchedulerProofs.** `SchedulerTypeCorrect`, `NeverTwice` and `NeverBack`:
  one inductive invariant, in which `OneRunPerTarget` is what lets
  `LastCrawledAdvances` speak of the only run. The second half is about
  Discovery. `DiscoveryInv` says whose rules the cache holds (an origin's own, or
  none after a failure, `Rules`) and that everything requested was allowed by
  them, whatever two tasks that miss the cache at once write over each other:
  `RobotsAreObeyed`. `SitemapBudget` counts documents visited and in hand: at most
  the cap in the first round, since the candidates are truncated; the children
  collected for the second are fewer than the cap, because the index that lists
  them is itself visited (`ChildrenBounded`, by induction over the entries of the
  index). Hence `DocumentsAreBounded`. The last part is about URLs, for any keys,
  tracking parameters and queries. The canonical query has for each key the pairs
  of the query, in their order, unless the key tracks (`CanonicalKeys`); so
  queries with the same pairs for each key have one canonical form
  (`CanonicalSame`), `normalize_url` is idempotent (`NormalTwice`) and the normal
  forms of one page are equal (`NormalSame`). A text that starts with that of an
  http URL has the same scheme, host and port, because the labels of both hosts
  end at the first `/` or `:` (`TextSite`, `PrefixSite`). `SiteInv` says that the
  frontier and what the sitemaps found are in normal form and under the prefix, as
  are the entries marked inside of the document being read: redirects, canonical
  links, hrefs and entries each go through `is_in_prefix` on their normal form
  (`FreshSite`, `LocsSite`). From it `FrontierStaysOnSite` and `PagesOnce`.
* **RateLimitProofs.** `LInv` says on which rung of the ladder the running cooloff
  was imposed and that the cache is true of the peers it was read from. From it
  `CooloffsHold`, `PenaltiesEscalate` (the ladder is assumed to grow, as the
  default 60/300/3600 does) and `BucketsFollow`. `WindowsAreLimited` needs `WInv`:
  for every instant that still matters, the row's log accounts for the grants
  after it (`Covers`), with the lateness of requests as slack, because a late
  request logs an earlier time than it is granted at. What `retain` keeps is shown
  by induction over the log.
* **GossipProofs.** `GInv` adds to the types that the snapshots under way are
  ordered and no later than the clock, since they are written back later, and that
  each node lists itself. From it `GossipTypeCorrect`, `SeenInOrder`,
  `SeenTimesKept` and `ImplementsDirectory` (the refinement of GossipDirectory).
  `MajorsStayApart` needs `VInv`: the snapshots and answers of exchanges under way
  are of their initiator's major too.
* **AdminApiProofs.** `AInv` adds to the types what a lockout has left against the
  time since it was set (`Served`) and where the three copies of the configuration
  stand at each step of an update (`Underway`). From it `AdminTypeCorrect`,
  `LockoutsAreServed`, `ConfigurationSettles` and `TokenSurvives`.
  `GuessesAreBudgeted` needs `BudgetInv`: while an address is locked out, each
  request already past the check may still compare one token, and no other passes;
  while it is not, each recorded guess is in `failed_count`, which the end of a
  lockout leaves where it is.
* **FederationProofs.** `FInv` has three parts. Rows have one URL each and
  subscriptions refer to rows. Every search is well formed: its calls are told
  apart by row and collection and by source, and its output holds one batch for
  each call that is neither open nor failed. And every row has room for the calls
  open on its id: `ChargedForOpenCalls` is not inductive, since a late failure raises the count of a disabled row; but each
  such failure closes a call, and no search opens one on a disabled row, so count
  plus open calls never grows. From it `FederationTypeCorrect`,
  `OnlyOpenCallsAreCharged` and `PeersAreHeard`. The sweep may hold any entries.
  Ranks of the places of a finite function of scores are 1 to n, because a place
  has strictly more before it than any place before it does (`RankFacts`); so
  `Ordered` is a permutation in the order of scores and ties (`OrderedFacts`,
  `ByScoreFacts`), and `RankedForAll` follows for every index, configuration of
  whole numbers, collection and limit: a match left out either lost the second sort
  to all that are shown, or was cut by four times the limit that match as well.
  `AnswersAreRanked` needs one more invariant, `ResultsOK`: the results of a batch carry its source and
  none is there twice. As no two batches have one source, the list made of them has
  no repetition (`FlattenApart`), and the place of a result in it is well defined.
  Scores and weights of peers may be negative.
* **CatalogProofs.** `Good(d)` is what the schema promises of the tables `d`; each
  handler makes a good database of a good one, and so does an import, by
  induction over the collections of the archive. `CInv` adds that foreign keys are
  on between handlers, without which a deletion would leave orphans. From it
  `ReferencesHold`. The same induction shows that an import extends every table and
  no collection that was there (`Extends`), hence `ImportsAreAdditive`;
  `SettledStay` treats crawls and imports alike (`Kept`). `UnindexedAreQueued`
  needs the queue of jobs to cover the unindexed pages (`QInv`), and takes as
  hypothesis that each archive has a document for each of its pages: the code
  queues documents, not pages. `RoundTrips` shows for every reachable database and
  index that the export, read collection by collection in the order of names, is
  taken in whole by an empty engine, under row numbers 1, 2, ... of its own, and
  changes nothing where its collections are known.

Some theorems state facts that no run lists, since the proof covers them for every
instance: the type invariants of the pipeline, driver, scheduler, gossip,
administration and federation, `InflightIsExact`, `DocsAccounted`,
`UndisturbedJournal`, `CountsAreExact`, `SeenInOrder` and `TokenSurvives`. The types
of the limiter, the catalogue and discovery are conjuncts of `WindowLimit`,
`Referential` and `DocumentsBounded`.

Induction over data. The library's induction theorems take an operator, which the
provers cannot instantiate. Where a proof needs induction over the length of a
sequence (`NatInd` in four of the proof modules) it
is stated for a set of numbers and derived from `WFMin`, the least counterexample;
`SeqInd` is the same for sequences, and what `FlattenSeq` of the community modules
returns is derived from it (`FlattenFacts`).

Only model-checked: every liveness property (`Convergence`, `EveryRunEnds`,
`PauseDrains`, `Recrawled`, `EveryoneDiscovered`, `LockoutEnds`, `SearchEnds`,
`Recovers`, `Terminates`) and anything that needs ENABLED, which are out of this
prover's reach. No module with a theorem uses a RECURSIVE operator.

## 5. Observations without a run of their own

These follow from the same code and are not checked by a listed run.

Pipeline:

* The delete arm of the indexer deletes documents that upserts of the same commit
  have buffered, and the flush then marks them indexed (`index/indexer.rs:141`; the
  comment at 139 says the journal still advances correctly). `list_page_urls` sees
  existing rows only (`api/admin/crawl_targets.rs:149`): pages queued or being
  crawled when a target is removed stay in the index. JournalInv and DocHasRow
  record both (`tainted`, `orphan`).
* A pause with `indexing_pending_count = 0` is not quiet
  (`api/admin/crawl_control.rs:38`, comment at 4-6): a crawl between two pages shows
  in neither.
* A crash between the Tantivy commit and the journal update, and a page that then
  goes back to its former content: `already_indexed` holds and the newer text
  stays (`index/writer.rs:127-132` calls the worst case a redundant re-upsert).
* A URL crawled for two collections has one document, of the last one
  (`index/writer.rs:93`); the other's row still claims it.
* A failing journal update ends the indexer task (`index/indexer.rs:195`),
  although the comment at line 162 says it does not.
* The 304 and error arms write back validators read before the fetch
  (`crawler/page.rs:102`), over newer ones another target's task has stored.
* `indexing_pending_count` restarts at 0 after a crash although fetched pages are
  not indexed (`api/admin/status.rs:50-54,86`).

Crawling:

* A 304 yields no links (`crawler/page.rs:117`), so an unchanged seed ends a walk.
* An error that is not a 429 does not reset the counter of consecutive 429s
  (`crawler/driver.rs:155`). After a 429 the politeness delay is skipped: a back-off
  of a second, or a Retry-After of 0, may be shorter than it.
* Two tasks that miss the robots cache both fetch robots.txt, and a later failing
  fetch writes allow-all over good rules, for the life of the process
  (`crawler/robots.rs:93,113`; the doc at 35 says an origin is fetched at most once).
* Up to `2 * MAX_SITEMAPS_PER_TARGET - 1` documents are fetched
  (`crawler/sitemap.rs:28` says the cap is 20). A prefix without a trailing slash
  admits longer names; `detect_canonical_prefix` accepts any host with the same path.
* `strip_leading_www` replaces the first `://www.` of the text, which is that of a
  path when the host has none (`PathText`): inside the prefix
  `https://archive.org/web/https://www.old/` is also `.../web/https://old/`
  (`crawler/url_class.rs:129`; the comment at 126 says such a path is left alone).

Federation:

* An incoming entry is stamped with the time of contact (`federation/gossip.rs:431`),
  so a renamed engine gets its old name back from a peer. A removed engine comes
  back with an exchange under way, or from a peer; the additive merge allows it.
  Nodes without a SELF_URL share the key "".
* `lookup_collection_id` reads a UUID as an integer (`api/public.rs:237`), fails, and
  saved ranking configurations are never applied. `ConfigFor` models it.
* Calls and probes of a deleted peer are charged to, or re-enable, the peer that has
  its id now; the sweep also re-enables peers the admin disabled (`docs/spec.md`
  184-187 describes it). A peer subscribed with several collections is charged for
  each of them per search. Calls dropped at the deadline of a JSON search are not
  recorded. Each hop has the same time-out, so a peer that fans out itself may count
  as failing though it is up.
* The depth of a streamed search is not capped by `MAX_FANOUT_DEPTH`. Candidates are
  cut at four times the limit before boosts are applied.

Administration and catalogue:

* The limiter's timestamp is taken before an await and a lock
  (`api/rate_limit.rs:378`): over the full window a late request may exceed the
  limit, which is why `WindowLimit` speaks of `WINDOW - MaxSkew` seconds.
* Two overlapping configuration updates may leave memory, limiter and table
  different until the next start (`api/admin/config.rs:88-107`); `disturbed`.
* A ranking row outlives its collection (no cascade) and is inherited by the next
  collection with its rowid; an import that meets one fails as a whole.
* Renaming a collection leaves documents and subscriptions under the old name; an
  imported document takes a URL indexed under another collection; an imported page
  keeps its validators, so that a crash that loses its queued job and a 304 leave it
  unindexed. The hash of an imported page never equals a crawled one, so it is
  indexed again at its next fresh crawl.
* A closed indexer channel makes an import answer 500 after its rows are committed,
  and a retry skips the collection.

## 6. Not modelled

Power loss with `synchronous=NORMAL` (a crash here is one of the process); the
`None` arm of the indexer's receive, which cannot be reached while the scheduler
holds a sender; formatting, HTML and XML parsing, snippets, routing, migrations and
Tantivy's query evaluation, which are input and output or belong to libraries;
floating point in scores; back pressure of a slow reader of a stream; a limit that
changes under a running window of the limiter; a second exchange over one link and
requests served after their sender gave up, in Gossip; `admin_notifications`, which
is written and never read, and `collection_peers.enabled`, which nothing changes;
`run_health_check_once`, `exchange_with_peer`, `run_periodic_sync_once` and
`db/settings.rs`, which only tests call; the re-canonicalisation tool
(`bin/recanonicalize_targets.rs`), a sequential offline script of one guarded UPDATE
per row. Each component's entry in PROJECT.json says what it leaves out.

## 7. Plan

Every component of the inventory with state of its own is modelled, and every
safety property of a passing run is a theorem. What is left is Gossip with late
requests and two exchanges per link.
