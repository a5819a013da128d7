# GrantSetu in TLA+

GrantSetu is a funding-discovery service for NGOs: a FastAPI application over
one SQL database that imports grant opportunities from external sources,
detects what changes, alerts subscribers by email, ranks opportunities for an
NGO's profile and shows them in a one-page frontend. These modules model the
parts of it whose correctness depends on the order in which things happen.
Paths below are relative to the repository (`src/` here is the service's own
`src/` directory, `api/` its API).

Check a run with `tlc -workers 2 -config <run>.cfg <module>`, and the proofs
with `tlapm <module>Proofs.tla` (`Connectors` and `Queries` share
`ConnectorsQueriesProofs.tla`, which takes about five minutes).

## 1. Inventory

### How the service runs

Every endpoint is a plain `def`, so FastAPI runs it in a thread of a pool. The
container starts two worker processes (`Dockerfile`), each with its own pool,
background tasks and, if enabled, scheduler. All of them share one database
and nothing else. A request, a background task and a scheduled run each open a
session of their own (`api/db/session.py`). Three facts about these sessions
decide most of what follows:

* `autoflush=False`: what a session adds or changes is invisible, to its own
  queries as well, until it commits;
* a commit issues `UPDATE` only for the columns whose value differs from the
  value the session loaded, so two sessions that change different columns of
  one row both succeed;
* nothing locks a row between reading and writing it. The only things that
  keep two sessions apart are unique constraints.

### Components

| component | state | operations | what is hard | what makes it correct |
|---|---|---|---|---|
| Grant synchronisation, `src/ingestion/sync_grants.py` | `imported_grants`, `opportunity_changes`, `grant_sources` | `sync_source` and the functions it calls | many records, one commit; overlapping syncs; partial re-fetches; duplicates inside a feed and across sources | no import is dropped, no field moves unlogged, no known value is erased, the dedup hash names its row |
| Refresh jobs, `api/routers/grant_sources.py`, `api/scheduler.py` | `refresh_jobs`, pending background tasks | start, run, poll, fail; single-source sync; scheduled run | jobs that overlap, raise half way or lose their process | counters are true, a completed job has alerted everybody, a job ends |
| Alerts, `src/email/notify.py` | `email_logs`, mail sent | `notify_subscribers_of_new_grants` | mail goes out before its rows are stored | at most one alert per subscriber and grant |
| Subscriptions, `api/routers/subscribers.py`, `src/email/tokens.py` | `subscribers`, `email_logs` | subscribe, resend, verify, unsubscribe, preferences | read then write across sessions, tasks that are lost | tokens are single-use and dated, consent is renewed |
| Email providers and templates, `src/email/service.py`, `templates.py` | none | send, format | | a send never raises |
| Connectors, `src/connectors/` | none | `is_configured`, `fetch_records` | network failures | any list of records, or an exception |
| Page fetching, `src/discovery/fetcher.py` | robots cache, last request per domain | `fetch_url` | shared by threads without a lock; redirects; retries | the domain's pace and robots.txt are respected |
| Extraction, `src/discovery/`, AI helpers, `src/ai/` | none | text to fields | | data only |
| Sign-in, `api/routers/auth.py`, `src/auth/` | OAuth states of a process, `users`, `user_sessions` | login, callback, logout, migrate-guest | states per process, threads | a state is used once; a profile keeps one owner |
| Saved and feedback, `api/routers/saved.py`, `feedback.py` | `saved_opportunities`, `opportunity_feedback` | save, update, remove, hide | check then insert | no duplicate, no error for a repetition |
| Profiles and website analysis, `api/routers/ngo_profile.py`, `website_analysis.py` | `ngo_profiles`, `website_analyses` | create, update, analyse, apply | lost updates of JSON lists | manual entries are kept |
| AI configuration, `api/routers/ai_config.py`, `src/ai/crypto.py` | `ai_provider_configs`, a key per process | put, patch, test, delete | a test that returns late | a test result belongs to its configuration |
| Startup, `api/main.py`, `api/db/migrations.py`, `src/ranking/corpus.py` | schema, default sources, corpus singleton | migrate, seed, build | several workers start at once | each worker starts |
| Live feed and detail, `api/routers/grant_sources.py`, `opportunities.py` | none (reads) | list, detail, recommended, AI search | paging with hidden rows | no row is skipped or repeated |
| Match scoring, `src/ranking/live_match.py`, `eligibility_rules.py` | none (pure) | score, curve, tier | rounding, boundaries | the curve is monotone, the breakdown adds up |
| Historical corpus, cleaning, evaluation, analytics | read-only data | search, clean, measure | | sequential |
| Frontend, `frontend/index.html` | the page | search, live feed, refresh and poll | answers out of order | the page shows the last request |

### How they interact

A refresh job (button, scheduler) or a single-source sync calls `sync_source`
for each source; `sync_source` asks the connector, which asks the fetcher and
perhaps an AI provider, and commits rows of `imported_grants` and
`opportunity_changes`. The grants it reports as new go to
`notify_subscribers_of_new_grants`, which reads `subscribers` and their NGO
profiles, calls the mail provider and stores `email_logs`. Subscribers come
and go through their own endpoints meanwhile. The feed, the recommendations
and the frontend only read what these commit.

The hazards that follow from this are listed with their lines in
`PROJECT.json`, each with the property that covers it or the reason why none
does.

## 2. Modules

| module | role |
|---|---|
| `GrantSync` | `sync_source`, run by any number of threads |
| `OpportunityLedger` | what the import promises to the live feed (abstract) |
| `RefreshJobs` | refresh jobs, single syncs and the alerts they send |
| `Subscriptions` | the life of one subscription |
| `SignIn` | OAuth states of each process, sign-in, sessions, a guest's profile |
| `Requests` | what the handlers of an NGO's workspace share |
| `AIConfig`, `NgoProfiles`, `Bookmarks` | its AI provider and key; profile and website analyses; saved and hidden opportunities |
| `Workspace` | the three composed: one pool of threads, one restart |
| `Fetcher` | `fetch_url` in the threads of a process |
| `Extraction` | which words of a page each field is read from |
| `Connectors` | `fetch_records` of every connector and the website analyser, page by page |
| `Startup` | workers that migrate, seed and load the corpus |
| `Matching` | the score of a live grant for a profile |
| `Feed` | what each read endpoint answers |
| `Queries` | requests that follow one another while the table changes |
| `Lists` | what several of them say about lists: entries kept, in order |
| `GrantSyncProofs`, `RefreshJobsProofs`, `SubscriptionsProofs`, `SignInProofs`, `FetcherProofs`, `StartupProofs`, `WorkspaceProofs`, `ConnectorsQueriesProofs` | theorems about these, for every value of their constants |
| `MC...` | small instances for TLC |

How they fit together: `Workspace` extends `NgoProfiles` (which extends
`AIConfig`, since an analysis asks for the provider) and `Bookmarks`, all over
`Requests`. `Connectors` extends `Extraction`. `Queries` extends `Feed`, which
extends `Matching`. `Requests`, `Extraction` and `Matching` take their lists
from `Lists`. `GrantSync` implements `OpportunityLedger`. Between these
groups the modules meet in what one leaves to the other: `RefreshJobs` takes
from `GrantSync` that a row is imported once; `GrantSync` takes any list of
records from `Connectors`; `Queries` lets a sync change any row.

### GrantSync

`grants`, `changes` and `source` are the committed tables; `sync[w]` is the
session and the local variables of thread `w`. A call is cut where another
thread's commit can be seen or where it can fail: `StartFetch` (loads the
source), `FetchReturns` or `FetchFails` (the network), one `Reverify` or
`Import` per record of the feed (each queries the database), `Commit` or
`CommitRefused`. `UnknownConnector` and `NotConfigured` are the early exits;
`SessionLost` stands for a process that exits or a database that fails.
`loaded[e]` is a row as the session read it, `local[e]` as it is in memory;
`Flushed` writes the columns in which the two differ. `Clash` is the unique
constraint.

Abstractions: a title is a model value (normalisation for the hash, strip and
lower case, is injective on the values used); `title` stands for the two
columns the hash reads, `description` for the other nullable ones, `country`
for the one whose default is not empty. Time is a counter; a deadline is the
tick at which it lies, in one of three textual forms, because the hash is
computed over the text: `date`, `datetime` (what `isoformat` prints) and `bad`
(what `fromisoformat` refuses). A deadline with a time zone, which cannot be
compared with `utcnow()`, is not represented. `change_id` is abstracted to the
number of the sync that wrote the row. `last_sync_summary`, provenance columns
and logging are left out. A row is in the catalogue only if it was committed,
so what a session adds is not visible to its own duplicate check, as in the
code.

`OpportunityLedger` has two variables, the tracked fields of every imported
opportunity and the log. One action, `Publish`, may do anything as long as no
opportunity disappears, every field that moves is explained by a new log entry
with the value it moved to, and none moves to an empty value. `GrantSync`
implements it under the mapping `Catalogue`, `Log` (`LedgerKept`).

### RefreshJobs

`sync_source` is one step here, `SyncSource`: it commits some grants that were
not imported yet, or nothing; `SyncRaises` is the case where an exception
leaves it. That two calls never report the same row as new is what the unique
constraint of `imported_grants` gives (`Commit` and `CommitRefused` in
`GrantSync`). Everything else follows `_execute_refresh_job` line by line: one
step per commit, and inside the alerts one step per subscriber, since every
send takes as long as the provider does. `StepFails` is any other database
call that raises inside the job's `try` (or in a single-source sync).
`RaisesOutside` is one that does not: `db.get` before the `try`, or a call of
the except branch itself; the thread is then free and the job stays as it was
stored. `RefreshRaises` is the `db.refresh` that comes between the job's commit
and its task or call. `Exit` and `LoseTask` are the exits of a process, with a
thread or with a task that has not started; `lost` remembers which of the two
kinds left a job. Subscribers in `Loyal` stay
verified; the others change at any time (`SubscriberMoves`), which is all of
`Subscriptions` that the alerts see. `imported`'s values are history too.

### Subscriptions

One row of `subscribers` and everything that can happen to it. Each request
reads in one step (`Subscribe`, `Resend`, `Verify`, `Unsubscribe`,
`TaskStarts`) and commits in a later one; a send has three (token and
clock read, provider called, row and log committed). Tokens are numbered in
the order of their generation and their hash stands for them. `Column` is the
rule that an unchanged column is not written. `uses` and `lost` are
history. Left out: `ngo_id`, and the preferences endpoint.

### SignIn

A thread runs one request, which is cut wherever another thread of its process
can change the dict `_pending_states`, and between its two commits:
`_cleanup_states` lists the expired states (`StartCleanup`) and deletes them
one by one (`CleanupDelete`, which raises `KeyError` if the state is gone);
`CheckState` and `RedeemState` are the test and the `del`; `Exchange` is the
call to Google with its checks (`Trusted`); `StoreUser` and `CreateSession` are
the two commits. States and session tokens are numbers in the order of their
generation. `given` remembers of each state its process and its time;
`redeemed` is history. `Exit` empties the dict of a process and ends its
requests, and its states belong to nobody. `MigrateGuest` looks at the owner,
`MigrateCommit` writes the column if it differs from what was loaded.

### Requests, AIConfig, NgoProfiles, Bookmarks, Workspace

A handler that writes is two steps, the load (`Begin`) and the commit (`End`),
with the steps of `_get_fernet` and of the provider's call in between where it
makes them. `Written` is the rule of the session that a commit names only the
columns it changed. A request that is refused before it writes is no step.
`fernet[p]` is the global of process `p`; a deployment says which process runs
each thread and whether a key is configured. A ciphertext is the key it is
under, the text and a nonce, so that no two are equal. `tested` and `crossed`
are history: the key that the last result was about, and whether the commit
that wrote the key or the result found the other changed. A list entry is a text
in a spelling; `Lower` forgets the spelling. The tables of `Bookmarks` are
sequences, so that an id stays an id after its row is gone. `Restart(p)` ends
the requests of a process and forgets its key. Left out: columns of
a profile that nothing merges into, and the provider's name, model and URL. A
historical save that names an explicit `opportunity_ref` beside its number can
be stored twice, under two references: the unique target is the reference, and
that is what `OneRowPerTarget` says. The unique constraints are those that
`create_all` gives a new table; `_add_missing_columns` adds columns, not
constraints, so a table older than `api/db/models.py:102-107` has none and is
not covered.

### Fetcher

`robots` and `age` are the two dicts of the process. Time is the number of
ticks since the last request to a domain, up to `Gap`, so that the state space
is finite without a bound on time; a tick is a step of everybody's sleep. The
rate limit is cut in two: the look at the last request (`Pace`) and, after the
sleep, the write of the new one (`Stamp`), with any other thread between.
`overtaken` and `unread` are history. `validate_url_is_safe` is a constant
set. The request of robots.txt has a step of its own, which the code does not
pace and `RequestsSpaced` does not count; what cannot be read is stored as
permission, as in the code. A time-out is one step: `httpx` limits each
operation, not the whole answer, so that a server which drips its answer ends
in time is taken for granted. A port that `urlparse` refuses
(`ValueError`, `fetcher.py:204`) is left out.

### Extraction, Connectors

A text is a sequence of words. The code looks for markers, keywords and places
as substrings; `Inside` gives the terms that a word contains, so that a place
may be found in a word that names none ("goa" in "goals").
`Extraction` is the rules of `src/ai/research.py`: where each field is looked
for (windows around markers, in words instead of characters), the order of
markers and patterns, what the AI's answer replaces. An answer may hold
something else where a text or a list was asked for (`NotText`), which makes
the code raise. `Connectors` is one run, one step per page, with every failure,
redirect and answer chosen at the step. A reply is `broken` if it is a PDF that
opens and whose pages raise, or a page with a link that `urljoin` refuses:
these, an answer of the wrong types and the data of a grants.gov hit that are
no object (`grants_gov_connector.py:133`) end the call (`Raise`), and what was
read is lost with it. `read` is history; a record holds the place in it of its
page. Title cleaning, summaries and currency are left out.
A list that the code builds by filtering another (`links`, and `_merge` in
`NgoProfiles`) is written as the places that are kept, taken in order
(`InOrder` of `Lists`), which says the same as a loop and can be reasoned
about.

### Startup

One container on SQLite, where each `ALTER TABLE` commits by itself. A worker
goes through `lifespan`: configuration, `create_all` (look, then create each),
`_add_missing_columns` (the inspector's cache is `looked` and `seen`), the
backfill, the sources, the corpus. A worker that raises stops the container
(`Stop`), which starts again. `file` is the processed corpus, whole when its
last opener has closed it; `RefreshIndex` rebuilds it in place, by a worker
that serves or by the script. `wrote` is history.

### Matching, Feed, Queries

Pure operators and a small state machine around them. A text is the set of
phrases it holds, a share is in per cent, weights are in hundredths of a point.
The TF-IDF similarity is a constant operator of the terms, the grant and the
pool, so that it may depend on the pool, as it does. `Feed` translates the
queries (filter, sort, offset, hidden rows), the canonical scores, the
understanding of a question with and without an AI, and the tiers. `Queries`
interleaves them with `Import`, `Change` and `Hide`: a reader's walk through
the pages until one is empty, the pages that show the score of one grant, one
question, one score.

The table is a set. No query has a tie-breaker, and all rows of one sync have
one `date_collected` (`sync_grants.py:256`), so `BestFirst` gives every order
that a sort admits, and each reply is one of them, chosen anew: PostgreSQL
promises no order among equal rows, and changes it with updates and limits;
SQLite usually keeps that of the row ids. Python's sorts (`rank_live_grants`,
`_search_live`) are stable over an order that is the database's. Where one
reply lists ties in another order than the next, an operator of `Feed` gives
the set of the replies there can be. `Unhidden` and the relevant results are
`EntriesAt`, the entries at the places that are kept. `Leftover` gives the
keywords that are left of a phrase when the stopwords are dropped: a phrase
that sets a window may leave some ("month") or none. An answer of the AI may
hold a null for a list or a text for a number (`WrongType`); the request then
raises (`AskRaises`).
`QueriesAssumption` says of the constants what the code and its libraries
give: a key is given once in the table at the start (the primary key of
`imported_grants`), a TF-IDF cosine is between 0 and 1, page sizes are
positive, the geography, deadline and eligibility parts take the values of
their tables.

## 3. Runs

| run | instance | shows |
|---|---|---|
| `GrantSyncSerial` | 3 sources (one with an unknown connector), 2 external ids, 1 thread, 2 syncs, 103 feeds | `TypeOK`, `StampsOrdered`, `HashNamesRow`, `NoSecondCopy` when syncs do not overlap |
| `GrantSyncRace` | 2 sources, 2 threads, 3 syncs, 4 feeds | `LedgerKept`, `ActiveMeansSynced`, `SessionsSound` when they do |
| `RefreshJobs` | 2 sources, 2 grants, 2 subscribers, 2 threads, 1 job, 2 single syncs | `AlertAtMostOnce`, `CountersHonest`, `CompletedMeansAlerted`, `JobEnds` with steps that raise and processes that exit |
| `SubscriptionsSerial` | 1 thread, 3 emails, 4 requests, clock to 4 | `SingleUse`, `FreshTokenUnused`, `ResendSpaced` one request at a time |
| `SubscriptionsRace` | 2 threads, 2 emails, 3 requests, clock to 2 | `TokenDated`, `PendingGetsLink` when requests overlap |
| `SignIn` | 2 processes with 2 and 1 threads, 2 accounts, 2 states, 2 sessions, 1 profile, clock to 2 | `StateUsedOnce`, `SessionsEarned`, `OwnerKept`, `RefusedForAReason` with processes that end |
| `Workspace` | 1 NGO, 2 threads in one process or two, with and without a configured key, 3 requests, 1 API key, 1 restart | `RowsSound`, `StoredKeyOpens`, `ResultOfStoredKey`, `StageMovesOnRequest`, `MergeSound` |
| `Fetcher` | 2 threads, 4 addresses of 2 domains, gap 2, 2 attempts, 2 redirects | `RequestsAllowed`, `RequestsSpaced`, `FetchReturns` |
| `Startup` | 2 workers, 1 script, 2 tables, 3 added columns, 2 default sources, 1 crash, 1 rebuild | `ReadyMeansMigrated`, `RestartSafe`, `Serves` |
| `Connectors` | a listing, 3 pages with up to 7 replies each, 5 answers of an AI, every kind of source | `FieldsHaveEvidence`, `PagesIndependent`, `EveryLinkFollowed` |
| `Queries` | 3 grants of 2 syncs that arrive and change, 1 sample, pages of 1 and 2, 7 questions, 5 answers of an AI, a grid of 1152 scores | `WalkMissesNothing`, `SurfacesAgree`, `AskEarnsItsTier`, `ScoreFair` |
| `GrantSyncCrossSource` | 2 sources, 1 thread, 3 syncs | a violation: see below |

`GrantSyncCrossSource` checks a statement of the repository that the code does
not keep, and TLC finds the counterexample; the quoted line is under
`findings` in `PROJECT.json`.

### Known divergences

Each of these follows from the modules as they stand. For the first list the
statement of the repository is a definition of the module and a configuration
beside it checks that definition alone: `tlc -config <cfg> <module>` prints the
trace. The properties of the runs above say what the code does keep, and name
what they except.

| statement, and where it is made | what the code does | definition | configuration, module |
|---|---|---|---|
| "a job must record its own failure, never crash silently" (`grant_sources.py:147`) | `db.get` (102) comes before the `try`, and the calls of the except branch (148-153) and `db.refresh` (196, `scheduler.py:36`) are outside it: what raises there leaves the job queued or running, its process alive | `NeverCrashesSilently` | `RefreshJobsRaise`, `MCRefreshJobs` |
| fields are merged, "so a user's own manual entries are never discarded" (`website_analysis.py:72-76`) | the whole list is written as loaded and merged (95): an entry stored in between is discarded | `ManualEntriesKept` | `WorkspaceEntries`, `MCWorkspace` |
| "Connected and working" (`frontend/index.html:2751`) | the result of a test is stored on whatever key the row holds by then (`ai_config.py:133`) | `WorkingKeyWasTried` | `WorkspaceResult`, `MCWorkspace` |
| a generated key is "used for that run only", and lost by a restart (`src/ai/crypto.py:14-18`) | each of the two workers of the `Dockerfile` generates its own (38): what one stores never opens in the other, without a restart | `OneKeyPerRun` | `WorkspaceKeys`, `MCWorkspace` |
| "ignoring 'duplicate column' errors so it's safe to call on every startup" (`migrations.py:8-9`) | nothing handles the error of the `ALTER TABLE` (60-66): of two workers that found a column missing, the second does not start | `DuplicateColumnsIgnored` | `StartupColumns`, `MCStartup` |
| "Never fabricates a country" (`src/ai/research.py:256`) | places are looked for as substrings (269): "goals" beside a deadline gives India | `CountryIsNamed` | `ConnectorsCountry`, `MCConnectors` |
| "Never raises -- a corrupt/encrypted/unreadable PDF returns ''" (`pdf_extract.py:33`) | the pages of a PDF that opens are read without a handler (39): the run ends and its records are lost | `PdfNeverRaises` | `ConnectorsPdf`, `MCConnectors` |
| "ALWAYS fall back to a deterministic, keyword/regex-based method" (`src/ai/research.py:3-6`) | an object where a text was asked for raises in the join (428), a null for a list in the loop (125-127) | `AlwaysFallsBack` | `ConnectorsAnswer`, `MCConnectors` |
| "browse the full, unranked live-discovery feed" (`opportunities.py:132`) | pages are cut from rows without a total order (`grant_sources.py:340-344`): on PostgreSQL a grant may be on no page although none left the feed | `FullFeedBrowsed` | `QueriesFeed`, `MCQueries` |
| a grant without a canonical match has "no score", "never fabricate one" (`live_match.py:450-453`) | Ask AI shows its similarity to the question (`opportunities.py:296-300`), while the grant's page shows none | `AbsentMeansNoScore` | `QueriesScore`, `MCQueries` |
| "Never raises" (`query_understanding.py:179`) | a null for a list (197-199), or a text for a number of days (`ai_search.py:119`), fails the search | `AskNeverRaises` | `QueriesAsk`, `MCQueries` |

For the second list, state the property, check it in the run named, and TLC
shows the trace.

* *A country is erased* (`GrantSync`). `_apply_changes` skips a value only when
  it is falsy, and the default of `RawGrantRecord.country` is the text
  "unknown" (`src/connectors/base.py:34`), so a re-fetch without a country
  replaces a known one and logs `country_changed`; "a partial re-fetch that
  extracted LESS than before never erases previously-known good data"
  (`src/ingestion/sync_grants.py:21-22`).
* *An expired grant comes back* (`GrantSync`). The status of a known row is
  derived from the record alone (`sync_grants.py:226`): without a readable
  deadline the row keeps its old one but becomes `unknown`, which the default
  feed shows; "do not continue presenting the opportunity as active" (90-91).
* *A source fails the job* (`RefreshJobs`). `sync_source` catches what
  `fetch_records` raises, not what `get_connector` or the commit raises
  (`registry.py:21`, `sync_grants.py:270`), so the job fails and later sources
  are not synced; "Never lets one source's failure stop the rest [...] or
  failing the whole job" (`api/routers/grant_sources.py:96-100`).
* *Mail without a log row* (`RefreshJobs`). All digests of a call are sent
  before the one commit that logs them (`src/email/notify.py:155-170`); an
  `EmailLog` is "A record of every email the system attempted to send"
  (`api/db/models.py:198`).
* *A fresh link is refused* (`SubscriptionsRace`). `verify_email` writes
  `verify_token_used_at` of the row whatever its token is by then
  (`api/routers/subscribers.py:113`): a resend that commits in between loses
  its link, unused.
* *An old link renews consent* (`SubscriptionsSerial`). Subscribing again
  leaves the earlier token in the row until the task has stored a new one
  (`subscribers.py:58`), so an unused link of the first sign-up verifies the
  second; "a fresh verification email is required" (55-57).

The same models show, by running a property of the serial runs with two
threads: two clicks on one link both verify (`SingleUse`), two resends both
pass the rate limit (`ResendSpaced`), two syncs of one source leave a hash that
names neither of them (`HashNamesRow`), and two syncs of two sources import one
grant twice (`NoSecondCopy`). These properties are therefore stated, and
checked, for calls that do not overlap.

Where a property of a newer module has an exception, the exception is what the
code does, and dropping it makes TLC show the trace: two threads that waited
together send together (`RequestsSpaced`); a robots.txt that could not be read
once opens its domain (`RequestsAllowed`); two requests that both read a
profile unowned both take it (`OwnerKept`); a key made by two first uses at once, by
another process or before a restart does not open (`StoredKeyOpens`); a test
that is answered after the key was replaced, or a new key whose request had
loaded the row before a test committed, leaves a result beside a key that it
is not of (`ResultOfStoredKey`); an application that had not loaded an entry
drops it (`MergeSound`); a worker that decided to create what another created
first does not start (`RestartSafe`); Ask AI shows a score of a grant whose page
shows none (`SurfacesAgree`); a broken page or an answer of the wrong types
takes the records of all pages (`PagesIndependent`); a grant
that leaves the feed between two pages makes the reader miss another
(`WalkMissesNothing`), as does a page that ends among the rows of one sync, or
one for an NGO that has hidden as many rows as a page is made of, which is
empty before the end; a torn corpus file stops every start (`Serves`); the
points of a breakdown differ from the score by up to two, since each is rounded
by itself and those that are zero are not shown (`ScoreFair`: relevance 7,
overlap 28, geography 0.4, multiplier 0.85 give parts of 27 and a score of 25).

### Bounds, and why they are enough

* `MaxNow`, `MaxSyncs` (`GrantSync`), `MaxSingles` (`RefreshJobs`), `MaxNow`,
  `MaxSends`, `MaxCalls` (`Subscriptions`), `MaxNow`, `MaxStates`, `MaxTokens`
  (`SignIn`), `MaxCalls`, `MaxRestarts` (`Workspace`), `MaxCrashes`,
  `MaxRefreshes` (`Startup`) bound counters in the guards of the actions that
  increase them, and nothing else. `Fetcher`, `Connectors` and `Queries` need
  none: their constants are the code's own limits.
* A row needs one sync to exist, one to change; a second source needs the
  same two. Two syncs reach every pair (old row, new record), and the feeds of
  `GrantSyncSerial` contain every shape of one record: each attribute known or
  not, each deadline before, at and after the clock, missing or unreadable,
  each status that the code tells apart. Two sources are enough for a second
  copy and a third adds only the unknown connector.
* The third sync of `GrantSyncRace` is there so that two syncs can overlap on
  a row that a first one has created.
* `RefreshJobs`: two sources so that one can succeed before the other fails;
  one grant each; one subscriber that stays and one that comes and goes, one
  grant that does not match everybody; three runs of which any two overlap.
* `Subscriptions`: a limit and a lifetime of two ticks have an inside and an
  outside; two sends overlap with a verification or with each other.
* `SignIn`: two threads of one process race for its dict, the third reaches
  another process with the same state; a state of lifetime one is good, at its
  limit and past it within two ticks; two states, so that one is cleaned up
  while the other is used.
* `Workspace`: a race needs a request before it that stores the row and two
  that overlap; the saved row, the configuration and the analysis are each
  reached by one request. One process whose threads race for the key, two with
  a key each, and two with the configured one are the cases that
  `StoredKeyOpens` tells apart.
* `Fetcher`: one page redirects within its site and to the other, which
  redirects back: longer than `MAX_REDIRECTS`, over a forbidden page and an
  unsafe address. A gap of two has a beginning and a middle.
* `Startup`: one table that was there and one that was not, a column with a
  default, one without that is backfilled, one in the new table; one crash at
  every step, after which workers start over what it left.
* `Connectors`: `MAX_PAGES` is below the number of links; each page has a
  reply with every field, one without grant signals, one empty, one redirected
  to another link, none, one broken; `HITS_MAX` is below the number of focus
  areas; one word contains the name of a place.
* `Queries`: three grants that differ in every attribute the code tells apart,
  so that pools and orders of all sizes occur, two of them brought by one sync;
  pages shorter than the feed; a grant that is like a question and not like the
  profile.

Deadlock is not checked where a run may stop: where its bounds are reached,
where the service is idle, and where one run of a connector is over. `Fetcher`
and `Queries`, which have no such end, check it.

### Fairness

Users, subscribers, the clock, failures and exits have none. `RefreshJobs`
assumes that a thread that has a step takes it (`WF_vars(Step(w))`) and that
the pool runs a task it was given; `Subscriptions` the same. That is what a
thread pool guarantees as long as its process lives, which is why both
liveness properties except what an exit took along, and `JobEnds` also what a
call outside the `try` left behind. `SubscriberMoves` has no
fairness and does not have to stop. `Fetcher` assumes that time passes and that
a thread takes its steps, since every request has a time-out and every sleep
ends. `Startup` assumes that a worker runs, that a file being written gets
written, and that the platform restarts a container that has stopped; it does
not assume that a start succeeds. `Connectors` assumes that its one thread goes
on.

## 4. Theorems

`GrantSyncProofs` proves for every set of sources, threads, external ids and
feeds and for every bound, from `GrantSyncAssumption` alone (distinct special
values, feeds are sequences of records):

* `TypeCorrect`: `Spec => []TypeOK`;
* `SessionsAreSound`: `Spec => []SessionsSound`;
* `ActiveSourcesSynced`: `Spec => []ActiveMeansSynced`;
* `ImportKeepsLedger`: `Spec => LedgerKept`, the refinement.

The inductive invariant is `IInv == TypeOK /\ SessionsSound /\
ActiveMeansSynced`. `ActiveMeansSynced` is not inductive by itself: a commit
that leaves `status` unwritten because it loaded `active` relies on the row it
loaded from having had a date (`SourceRead`). `LedgerKept` needs to know that
a column which a commit writes is one the session moved, and that the session
holds the log row of that move (`DirtyLogged`), that this log row is not in the
table yet, which follows from the numbers of the syncs being their own
(`NumberOwn`), and that the row written to exists (`LoadedFirst`). The lemma
`StepShapes` reduces the actions to the six ways in which they change
sessions; the invariants are then proved shape by shape, and only `Commit`
concerns the ledger.

For syncs that do not overlap, `OneAtATime` (at most one thread), it also
proves

* `HashesNameRows`: `OneAtATime => (Spec => []HashNamesRow)`;
* `StampsAreOrdered`: `OneAtATime => (Spec => []StampsOrdered)`;
* `NoCopyIsImported`: `OneAtATime => (Spec => NoSecondCopy)`.

The hypothesis is needed: with two threads TLC finds the counterexamples named
under the divergences. The invariant added is `OneSync`: of the thread in its
loop (`LoopSound`), the rows in memory and those it will add are sound as of
its clock, what it loaded is still what the table holds, and a row it will add
has a hash that no other source's row carries. A commit then writes rows it
made sound (`CommitRows`); a sync that fails writes none.

`RefreshJobsProofs` proves for every set of jobs, threads, sources, grants and
subscribers, whatever raises and exits, from `RefreshJobsAssumption` (the
tables are finite, `None` is no row and no run, a grant has one source):

* `TypeCorrect`: `Spec => []TypeOK`;
* `AlertedAtMostOnce`: `Spec => []AlertAtMostOnce`;
* `JobsCountHonestly`: `Spec => []CountersHonest`;
* `CompletedJobsHaveAlerted`: `Spec => []CompletedMeansAlerted`.

The inductive invariant is `TypeOK /\ RunsStored /\ FoundByOne /\ MailedOnce`.
The code looks `dedup_key` up before it sends and stores it after every
subscriber was served, so nothing about `logs` can carry the argument. What
does: a row is imported once, hence in the `found` of at most one thread
(`FoundByOne`), and that thread takes each recipient once (`MayMail`), so a
pair that may still be mailed has not been mailed (`MailedOnce`). `TypeOK` needs
`RunsStored`: a thread updates the row of a job that exists. Only `SyncSource`
and `SendDigest` concern the mail; the other actions go through `QuietStep`.
That two runs never both import a row is how `SyncSource` is defined here; it
stands for the key of `imported_grants`, which `GrantSync` models.

The last two need the relation between a job's row and the one thread or task
that works for it, `Report`: nobody else writes the row (`OneOwner`), its
counters are those of the sources taken so far and of the grants found
(`Counted`), and once the alerts have begun every subscriber already taken has
a log row, or a mail about to be logged, for each grant that matches
(`Alerts`). `RInv == IInv /\ Report` is inductive; the steps of other threads
are dismissed by `Private`.

`SubscriptionsProofs` proves for any number of threads and any limits, from
`SubscriptionsAssumption` and `NoRowAssumption` (`Never` is no row):

* `TypeCorrect`: `Spec => []TypeOK`;
* `TokensAreDated`: `Spec => []TokenDated`.

Here `IInv` adds `HoldsRow`: a thread past its first read, and a task, have a
row to write to, because no endpoint deletes one.

While requests do not overlap, `Alone` (at most one thread; tasks may still be
lost and sends cut off between any two steps):

* `TokensVerifyOnce`: `Alone => (Spec => []SingleUse)`;
* `FreshLinksWork`: `Alone => (Spec => []FreshTokenUnused)`;
* `ResendsAreSpaced`: `Alone => (Spec => []ResendSpaced)`.

`SInv` adds that a request which has read the row holds it as it is
(`LoadedIsRow`), that a token being sent is newer than every other
(`NewestToken`), that a token in use is marked as used until it is replaced
(`UsedMeansUsed`), and that the date of the last send in the row is that of the
last email in the log (`SentAtIsLast`), which is what the rate limit compares
with.

`SignInProofs` proves for every set of processes, accounts and profiles, any
finite set of threads and any bounds, from `SignInAssumption` (`None` is no
account and no process):

* `TypeCorrect`: `Spec => []TypeOK`;
* `StatesUsedOnce`: `Spec => []StateUsedOnce`;
* `SessionsAreEarned`: `Spec => []SessionsEarned`;
* `OwnersAreKept`: `Spec => OwnerKept`;
* `RefusalsHaveReasons`: `Spec => RefusedForAReason`.

`IInv == TypeOK /\ ThreadsSound /\ StatesSound /\ SessionHasUser /\ Earned`. The
test and the deletion of a state are two steps, so no single-use argument can
rest on the test; `StatesSound` says that a state is only ever in the dict of
the process it was given out by and that one that was redeemed is in none, and
the deletion, which raises if the state is gone, is what counts. It also says
that an unused state of a live process that is in time is still there, which is
what `RefusedForAReason` needs. The number of sessions is bounded through
`Earned`: sessions, and callbacks that will still make one, are together no
more than the states redeemed. `ThreadsSound` gives what a request holds: its
state was given out, what it lists as expired is, and the owner it loaded is
nobody or its own account. The cleanup takes the least expired state first,
which has to exist (`LeastExists`).

`FetcherProofs` proves for any threads, addresses, replies and limits, from
`FetcherAssumption`:

* `OnlyAllowedPages`: `Spec => []RequestsAllowed`;
* `PoliteToDomains`: `Spec => RequestsSpaced`.

`IInv == TypeOK /\ RobotsRead /\ \A w : Sound(fetch[w])`. A retry goes back to
the first address without asking `robots.txt` again; it is right because the
first address was cleared before the first request and stays so while the hops
after it are looked at (`ClearedFetch`). That the requests are apart rests on
`SleepsEnough`: a thread that nobody has overtaken sleeps for no less than the
rest of the gap, tick by tick. Neither needs fairness.

`StartupProofs` proves for any workers, scripts, tables, columns and default
sources, from `StartupAssumption` (the added columns are listed once and belong
to tables, workers are not scripts):

* `ReadyIsMigrated`: `Spec => []ReadyMeansMigrated`;
* `StartsAgain`: `Spec => RestartSafe`.

`IInv == TypeOK /\ Shape /\ \A w : Done(w) /\ Raced(w)`. `Done` says, for each
step of `lifespan`, what of the schema is in place when a worker is past it; it
survives the other workers because nothing is ever dropped (`Grows`). A worker
that decided to create something which is there by now was overtaken by one
that wrote at the same step since the container started (`Raced`), so when its
statement fails, that is the reason `RestartSafe` allows. For the columns the
code's docstring allows no such reason (see the divergences): the theorem says
what the code does keep, that nothing an earlier start left makes one fail.

`WorkspaceProofs` proves for any threads, processes, deployments (with and
without a configured key), NGOs, payloads and websites, from
`WorkspaceAssumption` (payloads are what request validation lets through,
`None` is no row):

* `TablesStaySound`: `Spec => []RowsSound`;
* `StoredKeysOpen`: `Spec => []StoredKeyOpens`;
* `ResultsAreOfStoredKeys`: `Spec => []ResultOfStoredKey`;
* `StagesMoveOnRequest`: `Spec => StageMovesOnRequest`;
* `MergesAreSound`: `Spec => MergeSound`.

`IInv == TypeOK /\ ThreadsOK /\ KeysOK /\ Analysed /\ Targets`. `ThreadsOK`
gives what a request holds between load and commit: rows of their types, an id
that was given out, a target of its own kind. `KeysOK` orders the keys: those in
the table, in threads and in the processes were all made (`MadeKeys`), and the
key of a process is the only one it made since its start unless two first uses
raced in it (`ProcessOK`). So a process opens what it stored since then, and
what is configured opens everywhere. `ResultOfStoredKey` is inductive with the
types of its history (`ResultInv`): only `Commit` and `DeleteCommit` write a
configuration (`ConfigMoves`), and no two ciphertexts are equal, so that a
commit which found the row as it had loaded it either keeps key and result or
resets the result (`CommitTells`). `Targets` is
`OneRowPerTarget` and `RemovedStaysRemoved`, which rest on the unique
constraints and on ids that are not reused. `MergeSound` is about lists:
`MergeFacts` proves that `_merge` keeps the list and appends no second spelling,
which needs that the fresh entries can be taken in order at all
(`OrderExists`, from the least number principle `Least`).
Its second half, that applying a proposal adds no second spelling, compares
with the list the request loaded: a spelling that another request stored
meanwhile is not seen by `_merge`, and may be doubled.

`ConnectorsQueriesProofs` proves for any addresses, pages, links, markers, windows,
answers of a provider (of wrong types too), broken pages, configured sources
and whatever terms a word contains, from `ExtractionAssumption` and
`ConnectorsAssumption` (lists are lists, a window holds its marker):

* `RulesHaveEvidence`: `Spec => []FieldsHaveEvidence`;
* `PagesStayIndependent`: `Spec => []PagesIndependent`.

First come the operators: a window holds only words near a marker and is empty
only on a page without one (`NearMarkerFacts`); a deadline is a date of the text
searched (`DeadlineFacts`); a name stops at a boundary (`NameFacts`); hence
what `RuleBased` returns is on the page (`RuleBasedFacts`), and `Extract` rejects
exactly the pages that are not `Accepted` (`ExtractFacts`). Then `IInv ==
TypeOK /\ ListsOK /\ LinksOnce /\ RecordsMatch /\ Evidence`: `LinksOnce` says that
no link to come was followed before, which the order of distinct links gives at
the start (`DetailLinksFacts`) and every `Tail` keeps; `RecordsMatch` pairs each
record with its page while the run has not raised, and says that only a broken
page or a malformed answer makes it raise. Only `FetchPage` reads a page into a
record (`PageStep`); what ends a run drops them all (`RaiseStep`).

The same module proves of `Queries`, for any rows, statuses, profile,
questions, answers of an AI, page sizes, concepts and similarities, from
`QueriesAssumption`:

* `FeedIsComplete`: `QueriesSpec => []WalkMissesNothing`;
* `ScoresAgree`: `QueriesSpec => []SurfacesAgree`;
* `TiersAreEarned`: `QueriesSpec => []AskEarnsItsTier`;
* `ScoresAreFair`: `QueriesSpec => []ScoreFair`.

The inductive invariant is `QInv == QueriesTypeOK /\ WalkSound /\ ToldSound /\
AskEarnsItsTier /\ GradedSound`.

`WalkMissesNothing` speaks of the end of a walk only. `WalkSound` says what
holds on the way, while no row has left the feed: a grant of the start is
hidden, was seen, or is still to come, whatever order the next reply gives to
rows of one date (`Met`). That a grant is past the offset in every order is
counted: as many rows as the offset are newer (`Over`, `OverFirst`). A page is
two times its size before hidden rows are dropped, so it shows every row that is
not hidden and that the offset passes (`PageShows`); and an empty page is the
end, or hidden rows fill what it is made of (`PageEmpty`). Where a page ends
between rows of one date the count says nothing of them: this is where the
exceptions of the property come from. An import or a change that takes no row
from the feed leaves what was newer newer (`MetAfterSync`).

`ToldSound` says that every score told is the canonical one of a row of the
table as it is now or, where there is none, that the feed, the recommendations
and the page tell none (`ToldOf`). All that is needed of a sorted reply is
that it lists the rows it was given, each once, best first (`BestFirstFacts`),
and not which of its orders it is. `SearchFacts` and `ItemFacts` give of every
result of a search where it came from and what is shown of it,
`CanonicalFacts` and `TierFacts` its score and tier. `ConceptOverlap` is a recursive function;
that it is defined, and a per cent, is `ShrinkingExists` and `OverlapFacts`,
by contradiction with a least number of terms at which it would fail.

`ScoreFair` is arithmetic on all shares in per cent. The curve is monotone
(`CurveMono`), by its seventeen pieces, hence the score is (`ScoreMono`), and
the highest score of an excluded grant is below the lowest of an admitted one
(`ExcludedFair`). That the points differ from the score by at most two is
closer than rounding alone gives: five roundings and that of the score, each
wrong by at most a half, allow three. Three is reached only if all of them
are exact halves, and a half is rounded to an even number (`RoundFacts`,
`ScaledFacts`); then the gap is even, and three is not (`GapFacts`).

### Only model-checked

* Liveness (`JobEnds`, `PendingGetsLink`, `FetchReturns`, `Serves`,
  `EveryLinkFollowed`), which the proof system does not reach.
* `GrantSyncCrossSource`, which is a counterexample.

Every invariant and every action property of the passing runs is stated by a
theorem; those of calls that do not overlap carry that as a hypothesis, as the
runs do.

## 5. What is left

* To model, if the code grows there: preferences of a subscriber, more than
  one NGO per workspace (accounts do not share rows today), the history of an
  opportunity as the detail page lists it.

## 6. Not modelled

* Text extraction from HTML and PDF, the wording of AI prompts and answers,
  mail delivery and formatting, TF-IDF: input to the models, any value or a
  failure.
* `api/routers/analytics.py`, the historical search and its ranking: each
  request reads one snapshot and computes; a model would restate pandas.
* Cleaning, validation and evaluation scripts: offline and sequential.
* The frontend: script of one page. Answers that arrive out of order and the
  end of polling are listed as a hazard without a property.
* Request validation: the inputs of the models are the values that pass it.
  Admin tokens and the redaction of responses change no state.
* `PATCH` preferences, creating a grant source, starting and stopping the
  scheduler (but see `Startup` for the one a worker starts).
* Time zones: a deadline with one raises when it is compared
  (`sync_grants.py:95`); the models' clock has none.
* Statements seen while modelling that concern presentation only: the
  assistant's titles and Ask AI include grants the NGO has hidden, and the
  docstring of `get_live_opportunity` says that the score is computed "against
  just this one opportunity" while the code takes it from the canonical ones.
