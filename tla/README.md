# EGG-API: models, model checking and proofs

EGG-API puts a documented public read API, an administration API and an
administration UI in front of an Elasticsearch or OpenSearch index of heritage
records, and fills that index from OAI-PMH endpoints and files. This directory
holds TLA+ models of the parts of `src/app` whose correctness depends on
interleavings, failures or long sequences of calls, TLC configurations that
check them on small instances, and TLAPS proofs that hold for every instance.

* [Inventory](#inventory): the system's parts and what makes them correct
* [Modules](#modules): what is modelled, and how it corresponds to the code
* [Runs](#runs): what TLC checks, the bounds, the fairness
* [Proofs](#proofs): what TLAPS proves, and along which argument
* [Disagreements](#disagreements-between-the-code-and-its-documentation)
* [Not modelled](#not-modelled)
* [Plan](#plan): what comes next

## Inventory

The program is one FastAPI application. Synchronous handlers run in the
threadpool of their process, `async def` handlers (all the POST handlers of the
admin UI) on its event loop, where they block it while they work. A daemon
thread per process runs the import scheduler, an asyncio task per process the
purge loop. Several processes may share the SQLite file (workers of one host)
and the backend. Each `SQLiteStore` method opens `with conn:` on a connection of
its own thread, so a method is one transaction at most, a SELECT before the first
write takes no lock, and two methods called in a row are two transactions.

| Component | State | Operations | Interacts with | What is hard | What makes it correct |
|---|---|---|---|---|---|
| Public read API, HTTP cache (`public_api/routes.py`, `http_cache.py`) | none of its own; ETags live in clients | `search`, `facets`, `get_record`, 304 revalidation | reads the epoch, calls the adapter | the ETag is fixed before the backend is asked | no answer older than an acknowledged write; no client pinned for ever; negotiated representation respected |
| Container, configuration (`dependencies.py`, `config/manager.py`, `admin_api/routes.py`) | snapshot of services, `_index_epoch`, `egg.yaml` | `ingest`, `reload`, `save` | everything reads `container.state` | readers without a lock; a reload that fails half way; a crash while writing the file | settings, services and lockout change in this order and whole; running and stored configuration agree; a failed reload leaves services and lockout alone |
| Backend adapters (`adapters/`) | an HTTP client | `search`, `get_record`, `get_facets`, `bulk_index`, `detect`, `scan_fields` over `_request` with retries | public API, importers, wizard | transient errors, lost replies, deadlines | bounded attempts and time; a retry does not change what was done |
| Keys (`auth/`, `admin_api/keys.py`, UI handlers) | `api_keys` | create, activate, suspend, revoke, rotate, delete (a revoke), validate, ensure the admin key | sessions, usage audit | check-then-act over several transactions; worker death between them | a lockout leaves no session behind; a replaced secret stays replaced |
| UI sessions, one-time links, CSRF (`admin_ui/auth.py`, `sqlite_store.py`) | `ui_sessions`, `setup_otps` | login, link exchange, lookup and touch, logout, logout everywhere, purge | keys | same; clocks of several requests | a link opens one session; a session ends with its key, its lifetime or its idle window |
| Import sources, runs, scheduler (`scheduler.py`, `admin_api/imports.py`, UI handlers) | `import_sources`, `import_runs` | add, delete, tick, "Run now", start, finish, reschedule | importers, `Container.ingest` | long runs between short statements; several processes; a thread killed anywhere | runs are closed once, by their owner; due sources are run; the cadence is kept |
| OAI-PMH harvester (`importers/oaipmh.py`) | position in the endpoint's list, chunk, counts | `iter_records`, `ingest`, `identify` | adapter, scheduler | resumption tokens, a batch that fails, an endpoint that misbehaves | ends; a harvest that reports no error shipped every record |
| File importers (LIDO, MARC, CSV, EAD) | none | `ingest_*_file` | adapter | one bad record among good ones, ids made up for components without one | no record lost silently, but for documents that come out with the same id |
| OAI-PMH provider (`oai_provider.py`) | none; tokens live in clients | `handle`, six verbs, resumption tokens | adapter | paging over a changing index | what stays in the index is listed exactly once |
| Rate limiters, public lockout (`rate_limit/`, middlewares of `main.py`) | timestamps per subject | `allow`, `record_failure`, `is_locked`, `reset` | login, public API, reload | check and append without a lock; check before the request, record after it, on the event loop | at most N per window, but for what runs at the same time; a window of failures locks, and nothing else does |
| Storage, migrations (`storage/`) | the schema | `initialize`, `migrate`, baseline | every process at start | a crash between a migration and its version row; two processes at once | what is recorded was applied; no session is lost to a late migration; any database reaches the last version |
| Setup wizard, discovery (`admin_ui/setup_service.py`, UI handlers) | `setup_drafts` | steps, back, test, mint the first key, publish, reset | keys, container, adapter | resubmitted steps, two tabs, publish half way | what is published is what was chosen; a backend that was found connects |
| Query policy (`query_policy/engine.py`) | none | `parse`, `compute_cache_key` | public API | boundaries of page depth | accepted requests stay within the limits; equal keys, equal queries |
| Mapper, schemas | mapping health counters | `map_record` | public API | - | - |
| Usage audit, metrics, purge (`main.py`) | `usage_events`, counters | log, purge | store | storage errors must not hide a response | retention |
| CLI, desktop, runtime paths | sidecar files | start, mint a link, sidecar keys | store | - | - |
| Landing page, i18n, logging, tracing, releases | none that matters | rendering, observation | - | - | - |

`PROJECT.json` lists the same components with their modules, and under `hazards`
the places in the code where something can go wrong that a test would hardly
reach, each with the properties that watch it or the reason why none does yet.

## Modules

| Module | Stands for | Lines |
|---|---|---|
| `RegularReads` | abstract specification: what the read endpoints promise about freshness | a regular register over versions of the index |
| `PublicCache` | ETags, 304s, `Container.ingest`, restarts and reloads | implements `RegularReads` |
| `AdminAccess` | keys, sessions, one-time links, over threads and worker deaths | |
| `ImportRuns` | sources, runs, schedulers, "Run now" handlers, faults | |
| `OrderedReload` | abstract specification: what a call that replaces the configuration promises | settings, services, guard, replaced in this order, each in one step |
| `ConfigReload` | `Container.reload`, `ConfigManager.save`, readers without a lock, crash and start | implements `OrderedReload` |
| `SetupWizard` | drafts, the forms of the wizard, the search for a backend, publication | |
| `RecordDocs` | what each importer makes of a record: documents and their ids | pure operators |
| `Harvest` | one import of any kind, its endpoint or file, and the backend it fills | uses `RecordDocs` |
| `BackendRetry` | the adapter's calls, their retries, and a network that loses and delays | |
| `QueryPolicy` | from the parameters of a search to the body of a search request | pure operators |
| `RequestGate` | lockout, key, rate limit and policy before a public request reaches the backend | uses `QueryPolicy` |
| `Migrations` | the migrations at the start of processes, statement by statement | |
| `*_proofs` | theorems and proofs about the modules they extend; `AdminUI_proofs` about `AdminAccess` and `SetupWizard` | |
| `MC*` | constants and symmetry for TLC | |

Definitions named after a bug (`StoredLateEtag`, `LockoutSessionsFirst`, ...) and
marked *Mutant* are plausible mistakes kept next to the definition they replace:
each shows that some property would notice the mistake.

### PublicCache

Index contents are a version number: each bulk write the backend applies makes
one. `committed` is the last version applied, `searchable` the one `_search`
sees (the backend refreshes in the background, action `Refresh`; `GET _doc` is
real-time, `Visible`). `epoch` is `Container._index_epoch`.

A writer's call is two steps, because the backend applies a batch before
`Container.ingest` learns of it: `BulkApply` (or `BulkReject`, when no document
of the batch is accepted), then `BulkReturn`, which bumps the epoch as `ingest`
does (`BumpsEpoch`: `ingested > 0`) and acknowledges the write to its caller.
Writers in `RawIngesters` stand for the UI "Run now", which calls
`adapter.bulk_index` and bumps nothing. A reply can be lost (`LosesReplies`).

A request is `Ask` (the ETag is computed from the epoch of this moment; no match),
`Fetch` (the backend answers with what is visible at that moment), `Reply` (the
client stores the 200 under its URL with the ETag of `Ask`), or `NotModified`
(the ETag matches: 304, the client keeps its copy) or `FetchFails` (4xx and 5xx
store nothing). The representation a client asked for and the one it has
stored are tracked, because URL and ETag do not always name it.

`Restart` resets the epoch and drops what is in flight; `SwitchBackend` is a
reload that names another index: other contents, same epoch. `max-age` is left
out: a client that does not ask observes nothing.

### AdminAccess

One action per SQL transaction. A thread (`th`) runs one handler at a time; its
record says which statement comes next and what it remembers from the previous
ones. So `LoginCheck` (`validate_api_key`) and `SessionInsert`
(`create_ui_session`) are apart, and so are `Lockout` or `Rotate` and
`EndSessions`, `OtpSelect` and `OtpMark` and `SessionInsert`, `CreateCheck` and
`CreateInsert`. `WorkerRestarts` kills the handlers of any set of threads where
they stand and runs `ensure_admin_key`.

Secrets are numbers in order of issue. History variables: `lockouts[k]` counts
the suspends, revokes and rotations written for a label, `ackd[k]` is the last
whose handler returned to the operator. A session remembers the count its login
saw (`seen`) and whether it was stored after a lockout it had not seen was
acknowledged (`late`). Time is abstracted: a session or link may expire at
any moment, which covers lifetime, idle window and purge.

### ImportRuns

One action per SQL statement again, for scheduler threads (one per API process)
and "Run now" handlers (REST and UI differ only in what they write through, which
`PublicCache` models). `Tick` lists the due sources once (`run_pending`);
`StartRun`, `ImportReturns` (success, or failure reported or raised),
`FinishRun`, `Reschedule` (one period after the time *of the tick*). The order of
the due sources within a tick is left open. `StatementRaises` is a database error
in any writing step: a handler answers 500, a scheduler gives up its tick and
polls again. `ProcessEnds` stops any set of threads where they stand, which
includes `Scheduler.stop` giving up after its 5 s. `served` remembers the tick
that last rescheduled a source.

### ConfigReload

A configuration is a version, the way the backend secret is given (`elsewhere`,
`inline`, or `stripped` by `redact`), and whether services can be built from it
(the SQLite path can be created and opened). `memory` is what the ConfigManager
holds, `disk` is `egg.yaml`, `state` the snapshot in place with the
configuration its services were built from, `lockout` the same for the public
lockout, `open` the snapshots whose HTTP client is open. `memory` is not part of
the snapshot although `ContainerState` has a field for it: every snapshot shares
one ConfigManager.

A reload is `Begin` (the lock, then the copy in memory), `Truncate` and `Write`
(`write_text` opens, then writes), `Build`, `Swap`, `SwapLockout`, `CloseOld`;
`SaveRaises` and `BuildRaises` release the lock and undo nothing. `Submit` stands
for the handlers that replace the whole configuration, `Edit` for those that copy
the one in memory before they wait for the lock (`Submitted` says which whole
configurations a run submits; a form reaches every other one). A public request
reads three things without a lock: the public lockout when it arrives (`Arrive`,
`main.py:257`); the ConfigManager, for the public mode before anything else
(`TakeMode`, `auth/dependencies.py:16`, `public_api/routes.py:375`) and for the
caching or the schema later (`TakeCaching`, `http_cache.py:60`); and the snapshot in
place, for the policy and, at a later time, for the adapter (`TakePolicy`,
`TakeAdapter`). The ConfigManager keeps the configuration of a reload that raised
(`SaveRaises`, `BuildRaises`), and requests read it. `Crash` ends the process at any step;
`Start` reads the file and is not enabled when the file is refused. A file of
which only a part was written is left out: it is either empty or complete.

The handlers of one event loop run one after the other: that is one element of
`UiThreads`, which does one reload at a time.

`OrderedReload` says what this amounts to from outside, where the configuration is
in place three times: the settings that requests look into one by one, the services
that serve them, the guard that turns clients away. A call replaces the three in this
order, each in one step, and two calls never mix theirs: `Store`, `Replace`, `Arm`,
`Acknowledge`. Requests see the steps: one may look into the settings of a call and
be served by the services of before it, and settings of a call that is then refused
stay (`Refuse`), while services and guard are those of before. No request is served
by services older than those a call was answered for before it began; when a call is
answered, what it submitted is in place three times *and* is what a restart would
find. Before that a restart may find the default configuration or the new one
(`Disturb`), and a refused call may leave it so. `OrderedReplacement` is the
refinement: the lock and the clients are hidden, `Begin` is the step that stores,
`Swap` the one that replaces, `SwapLockout` the one that arms. It contains
`AckedConfigServes`, which therefore has no run of its own.

### SetupWizard

The POST handlers of the wizard are coroutines that never wait: each is one action,
from the `load` of the draft (`Post`) to its whole-row `save`. The page of the mapping
is a function, run by a thread: `PageProposes` loads, `PageSaves` saves what was
loaded, and any form may come between the two. `stored` is the table `setup_drafts`. A
draft keeps the fields that decide what is published or which screen comes next;
`"structural"` stands for the fields `id` and `type`, which `draft_to_config` always
adds. `server` is the host that the search for a backend looks at and administrators
type, by how it answers `GET /`; `Interpret` is the gate of the search, which lets a
server pass that names no version, `Detects` that of the adapter. `Publish` replaces
the configuration, `PublishHalfway` is a reload that saved it and failed to build the
services (`ConfigReload` has the steps), `PublishRefused` a draft that does not
validate: `Validates` has the two checks of `AppConfig` that a draft can fail,
complete credentials and no field exposed without a mapping. The second one cannot
refuse a draft, as `DraftToConfig` leaves such fields out. History: `chosen` is the
public mode submitted last, `intact` whether nothing since may have undone it,
`adopted` whether the draft's backend is one that the search reported as ok.

### RecordDocs and Harvest

`RecordDocs` holds one operator per format: the documents and ids that a parser
makes of a record. The interesting one is `EadIds`: a component without a
`unitid` is named after its parent and a counter that all levels of the walk
share, and a component without a `<did>` takes everything below it with it. A
`unitid` is taken bare, so that two components may have the same one, or one that is
made for a third (`ead.py:129-137`); in the index they replace one another.

`Harvest` is one `run_import`. `FetchPage` is a request of `iter_records` and
its answer: the endpoint is another installation of this program (`SearchPage`,
`HasNext`, `Lists`: its index may change between two pages, `AddRecord` and
`RemoveRecord`) or a foreign one, whose token may lead to the same page again, which may list
records without a header (`Headless`, skipped), and which may answer without a list:
`FetchNothing` is the `return` of `oaipmh.py:309-311`, after which the last chunk is
sent and the harvest is a success, wherever it stood (`cut`).
The five `Read*` actions read a file of each kind; what a record that does not
parse does to the others differs (`ParsedMarc`, `XmlParses`). `AppendDoc`,
`PageEnds`, `Bulk` and `BulkRaises` are the loop of `ingest`, which is the same
in every importer. A document is a record and a place in it, so that `target`
tells which of two documents with one id is in the backend. What the import
counts is left out: `ImportRuns` has the row of a run.

### BackendRetry

One adapter makes `MaxCalls` calls one after the other. An attempt ends with an
answer (`Answered`), a transient exception (`TransientError`) or another one
(`OtherError`). An answer of 2xx may not be JSON, which raises, and an answer to a
bulk request may list no documents, which counts all of them (`blank`,
`adapter.py:571-574`). After an exception of either kind the backend may have executed
the request (`Unanswered`). A pause follows (`Pause`, `ComputeSleep`) unless the attempts or
the deadline are used up. The network may have lost the request, lost the answer
to an executed one, or still hold the request, to deliver it after the caller
gave up (`pending`, `Delivers`). `copies` counts how often the backend indexed a
document for a call: for a document with an id that is harmless, one without is
there as often. Time is in ticks; `AttemptTime` bounds an attempt (httpx bounds
each phase of one).

### QueryPolicy and RequestGate

`QueryPolicy` is `parse` as the sequence of its checks, and `translate_query` as
the window and the number of facets the backend is asked for.

`RequestGate` follows requests through the gate. The lockout middleware is a
coroutine (`main.py:257-286`): it looks before the request and records after it
(`Arrive`, `Leave`), and any number of `Requests` may be between the two. What it
calls in between runs in a thread of the pool: to authenticate and ask the limiter
takes one, and to parse and ask the backend takes one again, so that at most
`PoolSize` requests are there (`InPool`, `ThreadFree`). The public mode is read in the
shared ConfigManager, which a save changes before its reload and also when that
fails (`SaveMode`). The in-memory
limiter is three kinds of step (`EvictOne`, `Measure`, `AppendTime`), because the
interpreter may switch threads after each call into the deque and not between a
comparison and its call; `Increment` is Redis's atomic INCR, `RedisDown` the
fallback that lets everybody pass. A reload puts limiters (`ReloadState`) and
then a lockout (`ReloadLockout`) in place, and requests go on with those they
took. `admitted` and `failures` are the histories the properties speak of: the times
let through and answered 401, without those at the head that have left the window
(`Since`, which is also what `_evict` does to the deque of the lockout).

### Migrations

The schema is a set of objects (tables and the columns added later); each migration is
a sequence of statements, and one action executes one statement. Of the data the
database has what migrations change: whether there are sessions and from when, and
whether one of them lacks its last activity (`activity`), which the column of version
8 starts without and the UPDATE fills; the quota tables are an object that version 4
drops. `Done` says what of this is over once a version is applied. `db` is what is
committed, `work` what the process with a transaction open (`tx`) sees: `sqlite3`
opens one before DELETE, UPDATE and INSERT, commits CREATE, ALTER and DROP at once
when none is open, and `executescript` commits first what is open (`ScriptCommits`).
`Look` reads the columns, `Apply` relies on what was read; `missed` remembers that a
process found the column of version 8 while it was not filled, which makes it skip the
UPDATE too. `Boot` reads the recorded versions and `Guess`, if there are none, the
tables, so that another process may commit between the two; `Guess` itself is one step
although it is several SELECTs. What that hides: a process that sleeps between the
SELECT for version 1 and that for version 9 while another one runs all migrations up
to the first table of version 9 and dies there would record version 9 without the
second table. Databases start fresh, legacy (no `schema_version`) or as an earlier
release left them. `Dies` rolls back; another process's commit is kept out while a
transaction is open (`MayWrite`).

## Runs

| Run | Question | Result |
|---|---|---|
| `cache_record` | record endpoint, two ingesting threads, one polling client, 3 versions: is the endpoint a regular register, and does the client catch up? | holds |
| `cache_search` | search and facets in two formats, with raw writes, lost replies, a restart and a switch: is a 304 always for the representation asked for? | holds |
| `access_threads` | two threads, two labels, three session tokens, one link, a rotation, a lockout per label, a worker death: what do lockouts and links guarantee? | holds |
| `imports` | a scheduler and a "Run now" handler over two sources, 2 ticks of the clock, one fault: ownership, outcomes, cadence, spacing; are due sources run, are runs closed? | holds |
| `config_reload` | two concurrent reloads, a request, a save and builds that raise, a crash: do file, memory and services agree, is a client leaked or closed too early, does every reload end? Do requests see memory, services and lockout replaced in this order, each whole, no two reloads mixed? | holds |
| `wizard` | two administrators, four forms in any order, mapping pages that save, six kinds of host: is what is published what was chosen, does a host that was found connect? | holds |
| `harvest` | seven kinds of source, six records (two with one id, one deleted, one garbled, one that cannot be mapped, one without a header; finding aids without ids, and with ids that collide), pages and chunks of two, one change of the index, answers without a list: is a finished import complete, up to where it was read, does it end? | holds |
| `backend` | two calls, up to three attempts each, with and without deadline and pauses: are the counts of an answer that lists documents earned, are copies and waiting bounded by what the settings say? | holds |
| `gate` | three requests in flight over two threads, one host, one key, two modes, both limiters, three instants, one reload: is the limit kept up to what the threads do at the same time, the lockout up to what is in flight? | holds |
| `migrations` | three processes on 18 databases, two deaths: is what is recorded applied (but for the backfill a process missed), are sessions kept, does every process come up? | holds |
| `access_otp_race` | two threads, one link | `OtpSpentOnce` violated |
| `migrations_torn` | one process that dies inside the first script | `BaselineIsTrue` violated |

**Bounds.** `cache_record` has two writers so that an epoch bumped by one can meet a
write of the other still in flight, and three versions so that one can be stored, one
acknowledged and one in flight. One client is enough for each property, which speaks
of one client at a time. `access_threads` needs two threads for every race of the code
(each is between two handlers), two labels because a lockout must not touch another
label's sessions, and three tokens so that a link could open more sessions than there
are threads. `imports` has periods 1 and 2 over 2 ticks: both sources are due in the
same tick, and a source comes due again after it ran. `config_reload` has two
versions, so that what is left of one reload differs from what another brought, and
three snapshots: the first, and one for each of two reloads that overlap, or one for a
start after a crash; four configurations are submitted as a whole, one of each kind
that the properties tell apart, and the form makes the others of them. One fault is
enough for each of their properties, and the proofs remove every bound of the safety
properties of these four modules. `wizard` posts four forms: a choice, a change that
might undo it, the form or page in between and the publication. `harvest` fills two
pages, and part of a third, of each source with six records, so that a change of the
index falls before, on or after a page boundary, and its ceiling of four pages is
reached only by an endpoint that repeats itself. `backend` needs two calls for a
request of the first to arrive during the second, and two retries for a deadline to
cut the second. `gate` has a quota and a threshold of one, so that a second request
can be at the limit with the first, and a third one, so that more requests are in
flight than there are threads and the lockout is overrun by more than the pool allows;
windows of one and two seconds in a clock of three instants let entries expire while
requests are under way. A rate window of one second has no two instants, so that this
run cannot reach two fixed windows of Redis within one moving window: the factor of
two in `QuotaHolds` is covered by the theorem only. `migrations` has three processes
because a loser of a race may itself be overtaken.

**Symmetry.** `access_*` permute threads, tokens and links, `wizard` the
administrators, `gate` the requests; none of these three checks liveness. The other
runs either do or are small enough without.

**Fairness.** Of `PublicCache` (`FairSpec`): a started bulk write returns, since
httpx timeouts, the retry limit and the retry deadline bound it; a polling client
goes on polling, and an answer that has arrived is delivered; `SF` on `Fetch`
because each attempt may fail instead, and the assumption is that the backend
does not fail every attempt for ever. `Refresh`, failures, restarts and new
writes are under no fairness. Of `ImportRuns`: a thread in a run goes on (the
importers' calls have timeouts), and the loop of the scheduler polls for ever
(`scheduler._loop` catches whatever a tick raises). Faults are bounded and under
no fairness: a scheduler under an unbounded stream of faults runs nothing. Of
`ConfigReload`: a thread in a reload goes on (saving and building wait for the
disk only; the adapter does not call its backend when it is built), and `SF`
because the lock is granted in no particular order: with finitely many reloads
each of them gets it. New reloads, faults, the end of the process and requests
are under no fairness. Of `Harvest`: the import goes on (`WF`), as it has a thread
of its own and every request a timeout; the endpoint's index changes finitely
often and under no fairness. Of `Migrations`: a process that ended is started
again, and `SF` on its statements, because a process that waits for SQLite's lock
polls for it while another that failed is being started again; deaths are
bounded. `SetupWizard`, `BackendRetry` and `RequestGate` assume none: their
properties are about what may not happen.

## Proofs

TLAPS checks every step below for every value of the constants that satisfies
the named assumptions (`WritersAssumption`, `CadenceAssumption`, ...), which TLC
evaluates in the runs. The proofs follow one pattern: the inductive invariant as a
conjunction of named parts, one lemma for `Init`, one for `[Next]_vars` with a step
per action, and the theorem. TLC checked each inductive invariant on the instance of the
component's run before it was proved.

**PublicCache_proofs.** `TypeCorrect`. `EpochCountsWrites`: `EpochIsEarned` adds
to the epoch the writes that will still bump it, which makes it inductive: an
applied write moves both sides, a return moves one from the second summand to
the first. `RecordReadsAreRegular` and `SettledRecordsAreCurrent` are about the
record endpoint (`Kinds \subseteq {"record"}`) with writes through
`Container.ingest` only, no restart and no switch (`OnlyIngestWrites`); with
`RawIngesters = {r1}` or `MaxRestarts = 1` TLC refutes it, so that the first two are needed.
`ReadsAreRegular` is not inductive: it does not say what a stored copy may still
be used for. `FreshIfCurrent` does: a copy, stored or on its way, whose ETag is
still the current one is at least as new as the last acknowledged write. An
acknowledgement of an applied write bumps the epoch in the same step, so that no
copy made before it has a current ETag any more; this is where the order "ETag
first, backend second" matters (mutant `StoredLateEtag`). For
`SettledCacheIsCurrent` the strengthening is `LagIsInFlight`: each version a copy
with the current ETag lacks belongs to a write in flight that will bump; here
`LosesReplies = FALSE` is needed. `RecordsImplementRegister` is the
refinement: initial states map to initial states, every step to a step of
`RegularReads` or a stutter, given the invariant above.
`NegotiationIsRespected` holds for any mix of writers, losses, restarts and
switches, as long as the record endpoint is not served in JSON-LD
(`"record" \notin Kinds \/ "jsonld" \notin Formats`: the ETag of a record does not
name its representation, and TLC refutes the property with both). A copy, stored
or on its way, is in the representation that every request with its ETag is
served (`CopiesMatchTags`); the lemma `TagsNameRepresentations` is where the
hypothesis is used.

**AdminUI_proofs**, about `AdminAccess`. `TypeCorrect`. `SettledSessionsEnd` is inductive as it
stands once sessions carry `late`: the step to look at is `SessionInsert`, where
a session whose thread saw fewer lockouts than are acknowledged is marked late,
and `EndSessions`, which deletes all sessions of the label in the step that
raises `ackd`. `LockedKeysHaveNoSettledLogin` follows from it with
`LoginSawActive`: a login that saw the last lockout of its key saw the key
active, and it is active still, since only a counted lockout makes it inactive.
`SecretsStayRetired` needs that the admin label, once there, stays
(`AdminExists`), so that `INSERT OR IGNORE` ignores.
`LinksAreSpentFirst` is inductive given types: a link is marked in the step that
moves its thread to the insertion, and nothing mints a spent link again.

**AdminUI_proofs**, about `SetupWizard`, in the same module because both are the
admin UI; the wizard's specification is named `WizardSpec` so that the two can be
extended together, and no theorem mixes them. `WizardTypeCorrect`. The lemma
`ScreensKeepChoices` says of the six screens that are not about the backend or
the mode that they save the loaded draft with the backend and the mode it had.
`ChoicesArePublished`: the history `intact` is about the draft in the table, but
what is published is the one the form loaded; `ChoiceKept` says that both carry
the choice. `AdoptedBackendConnects` is an action property about a test of the
connection; `AdoptedFits` carries what adoption established (the search still
reports the host as ok, the draft has its address, its adapter and no
credentials) to the loaded draft, and `OkIsDetected` compares the two version
gates for every product and version.

**ImportRuns_proofs.** `TypeCorrect` (with the fact that a thread in a run knows
an existing row). `RunsHaveOneOwner`: ownership is inductive because the id of a
new row is greater than that of every row some thread knows. `OutcomesStayFinal`
follows from it: the row a thread closes says "running". `SourcesStayScheduled`.
`OneSchedulerSpacesRuns`, under `OneScheduler` (with two schedulers TLC refutes
it): the strengthening `ScheduleIsSpaced` says that next_run_at and
every source a tick has left are a period after the last accounted run, and that
the source being run is not among those left.

**ConfigReload_proofs.** `TypeCorrect`, which includes that no inline secret is
written. `QuietConfigurationsAgree` and `ClientsAreNotLeaked` speak of the time
between reloads and are not inductive; `Partway` is what a reload relies on at
each of its steps: it alone holds the lock, memory is the configuration it was
given, the file is that configuration redacted once written, the previous
snapshot keeps its client until the end. With `LockIsHeld` and `DownIsIdle`
(`Safe`) the five are inductive: `WithinReload` covers the steps inside,
`OutsideReload` everything else, and the steps that give the lock back establish
the two invariants from `Partway`. What makes a start agree with the file is that
redacting what was read changes nothing (`ReadIsRedacted`).
`AckedReloadsServe` needs `Numbering`: a snapshot takes the place of older ones
only, which again is the lock's doing.
`ReloadsReplaceInOrder` is the refinement of `OrderedReload`, without any
assumption that saves or builds succeed. Where the call of a thread stands is read
off its place (`CallPlaces`). At `Begin` the lock is free, so that no other thread is
in a reload (`FreeMeansNone`) and none of the open calls has stored anything: the
guard of `Store`. `Partway` carries the rest: at `Swap` it says that the snapshot was
built from what this call submitted and not from what another one stored in the
ConfigManager meanwhile, and that the file already holds it; at `CloseOld`, that
memory, services, lockout and file are all still so, which is what `Acknowledge` asks.
A `Build` is a stutter, `Truncate` and `Write` disturb the file, both exceptions are
`Refuse`. That a request is served by nothing older than it is due is `Numbering`.
The lemmas `OneCall` and `OneReader` say that a step of one thread changes at most its
own call or request.

**BackendRetry_proofs.** `TypeCorrect`. `CopiesStayBounded`: `AttemptsPay` says
that for the call under way the copies made and the requests still in the network
are no more than the attempts already made, so that the attempts left pay for
what may still come; for earlier calls the bound is all that is needed, as a late
delivery moves one from the network to the index. `CountsAreEarned`: when the
answer a call ends with lists documents, the call counts only those listed as
indexed, and these were indexed in the same step; a delivery that comes later only
adds. For an answer of 2xx that lists none (`blank`) nothing is claimed, because the
code counts every document then, indexed or not. `CallsAreTimely`: `TimeIsSpent`
bounds the time of a call under way by the attempts and pauses behind it, and
with a deadline by where it stood when it last looked at the clock.

**Migrations_proofs.** `TypeCorrect`, `RecordedVersionsAreApplied`, `SessionsAreKept`
(an action property). What is recorded is true of what is committed, but a process
acts on what it read before others committed, perhaps on a wrong guess about the
first migration, so that the invariant has a part for the database (`Stored`) and
one for what each process relies on (`Own`). What *applied* means is two things: the objects
are there (`Effects`), and what was to go is gone or filled (`Done`). `Stored`: rows are
an initial segment (`Ordered`), every row but the first is applied also within an open
transaction, and a transaction only adds to what is committed. `Done` of version 3 lasts
because nothing makes an old session, that of version 4 because nothing makes the
quota tables, that of version 8 because the column is added once and the sessions of
later have an activity; while the version is not recorded yet, its process added the
column and will fill it, or did not and then `missed` says so. `Own`: the process of an open
transaction is past the first migration; the versions it skips are recorded; what
its statements so far should have made is there (`SoFarMade`); a process that took
the first migration for applied when it was not meets a statement that fails
before it can commit (`GuessFails`), which is why the torn start that violates
`BaselineIsTrue` leaves `RecordedIsApplied` intact; and one that wiped
the sessions of today runs into the row of the third migration (`WipeConflicts`),
which is what keeps them. That other processes notice of a step nothing but
growth is one lemma (`Notices`), applied to every action.

**RequestGate_proofs.** `TypeCorrect`. `BackendStaysSpared` is about the operators
of `QueryPolicy`: whatever passes the checks asks within the profile; the product
of page and size is the one place with arithmetic. `LockoutIsEarned`: once evicted,
the deque of the lockout *is* the history of the failures within the window
(`Matched`), which both lose at the head. `LockoutIsKept`: the failures of an
address and its requests under way, each of which may add one, are together at
most the threshold less one plus the number of requests in flight (`Bounded`): a
request comes in only while the failures are fewer than the threshold, and then the
requests under way are at most all. The pool plays no part in it: `Requests` is any
finite set, and no bound on it comes from the code. `QuotaIsKept` has two halves. In memory,
`Quota` is the same sum of the bucket and the requests that measured it and have not
yet appended (`Measured`), which are in the pool, and so no more than its threads
(`PoolHolds`, kept by `Authenticate` and `Parse`, the two steps that take a thread).
`Remembered` says that the history ends with
the bucket, what precedes it being out of the window: the bucket evicts by the clock
reading of a request, which is never later than the clock. With Redis,
`Counted` says that of each fixed window no more recent requests were let through
than its counter says nor than the limit, and a moving window meets at most two
fixed ones; that a counter lives until its window can no longer be recent is the
arithmetic of `Start`. The requests that pass uncounted while Redis does not
answer are outside `admitted` and outside the claim.

**Harvest_proofs.** `TypeCorrect` with `Stages` (what is where at which stage).
`NoRecordTwice`: what this program has listed lies at or before the cursor of the
next page (`Once`), so that no change of the index can bring it back.
`HarvestsAreComplete`: of every record that has stayed in the source, is not
`Skipped`, and lies at or before the cursor (or in a page without a successor that is
not the answer without a list), every document is in the page, in the chunk or
delivered (`Complete`), where delivered allows for refusal and for another document with
the same id (`Namesakes`), of another record or of the same finding aid. Of the ids
nothing is assumed but that the walk of a finding aid yields ids (`IdsAssumption`), a
fact about a recursive walk over any tree, which these provers cannot establish by
induction; TLC evaluates it for the finding aids of the run, and for every other kind
it is proved (`DocIdsAre`). After an answer without a list (`NothingIs`, `cut`) the claim
is about what lies at or before the last token. The page is a set of
documents that are read in order (`FirstDoc`), which makes the order a lemma
(`FirstDocIs`) instead of an induction over a sequence.

**Only model-checked.** Liveness (`PollingClientCatchesUp`, `DueSourcesRun`,
`RunsEnd`, `ReloadsEnd`, `ImportEnds`, `StartsSucceed`), which is beyond this
prover, as is `ENABLED` and with it the deadlock check. What the recursive
definitions of `RecordDocs` compute (`EadIds`), see above.

## Disagreements between the code and its documentation

Two have a run of their own that ends in a counterexample, and a quotation in
`PROJECT.json`:

1. A one-time link read twice before it is marked opens two sessions
   (`access_otp_race`; `sqlite_store.py:431-433`: "a replay attempt gets `None`
   rather than a second admin session").
2. A first start that dies inside the first script leaves `api_keys` alone, the
   next one takes version 1 for applied, and no start succeeds any more
   (`migrations_torn`; `migrations.py:295`: "If `api_keys` already exists,
   baseline 1 is effectively applied").

The others are reproduced with the modules at hand by changing a constant:

3. The UI "Run now" bypasses `Container.ingest` (`dependencies.py:148-151`): in
   `cache_record`, `Ingesters = {i1}` and `RawIngesters = {r1}` violate
   `ReadsAreRegular`.
4. The epoch is lost at a restart and its values are issued again
   (`routes.py:126-127` of the public API: "a cached 304 never outlives the backend
   state"): in `cache_record`, `MaxRestarts = 1` violates `ReadsAreRegular`.
5. Schedulers of two processes run the same source (`scheduler.py:12-14`: "races
   nobody"): in `imports`, `Schedulers = {w1, w2}` violates
   `ScheduledRunsAreSpaced`.
6. A login in progress survives an acknowledged lockout (`key_service.py:107-108`:
   "the operator-initiated lockout is immediate"): in `access_threads`,
   `SettledSessionsDieWithTheirKey` without its exception for `late` is violated.
7. A configuration accepted with an inline secret is stored without it, and
   refused at the next start: in `config_reload`, that `Read(disk)` is `Valid`
   whenever the lock is free is violated.
8. `InMemoryRateLimiter` is "threadsafe in CPython thanks to GIL-protected deque
   mutations" (`limiter.py:6-7`): `QuotaHolds` is violated without its allowance for
   the other threads (and with Redis without its factor of two: the windows of
   `redis_limiter.py` are fixed, those of the in-memory limiter move).
9. The wizard keeps its progress "so a refresh or tab close never loses work"
   (`admin_ui/routes.py:760`): a Publish that is sent again publishes an empty
   draft, since nothing requires a draft to exist (`Publish` after `Publish`).

10. A reload is promised as all or nothing: "readers see either `previous` or
   `new_state` — nothing in between" (`dependencies.py:333-334`). The public mode, the
   caching and the schema are read in the ConfigManager, which changes before the swap
   and keeps the configuration of a reload that was refused (`auth/dependencies.py:16`,
   `config/manager.py:91`): `OrderedReplacement` is violated when `Refuse` of
   `OrderedReload` puts the settings back, or `Replace` requires them to be still the old ones.
11. `bulk_index` counts every document as ingested when a 2xx lists none
   (`adapter.py:571-574`, "adapters / fixtures that do not report per-item status"):
   `CountedIsIndexed` is violated without its condition `~blank`.
12. An answer without `ListRecords` and without an OAI-PMH error ends a harvest as a
   success with pages unread (`oaipmh.py:309-311`): `HarvestIsComplete` is violated
   without its condition on `cut`.
13. A session that was there before version 8 may keep an empty `last_activity_at`,
   where "legacy rows get their `created_at`" (`migrations.py:175-177`): a process that
   finds the column skips the UPDATE with it. `RecordedIsApplied` is violated without its
   exception for `missed`, and this needs no death: of two processes that start together
   the second one may find the column that the first one has just added, and record the
   version before the first one's UPDATE, which is then rolled back with its row. The harm
   is small, as `get_ui_session_key_id` takes `expires_at` for a missing activity
   (`sqlite_store.py:332`).

Met while reading and not covered by a run: `bulk_index` does not refresh, so a search
right after a bump may pin pre-write results; the record ETag does not name its
representation; a reload to another index keeps the epoch; a link opens a session for
an admin key that is suspended. `oaipmh.ingest` aborts on the first batch that raises,
where it says that the remaining pages keep streaming (`oaipmh.py:362-366`); importers
of files catch `AppError` and `OSError` only. The provider answers 502 for a whole
page on which one record cannot be mapped. Finding aids without any id all get
`archdesc-root` and replace one another in the index, and so do components of one
finding aid with one `unitid`, or with one that is also generated for another
component. The jitter of `_compute_sleep` comes on top of its cap, and the deadline of
a call may pass by a pause and an attempt; a 5xx that meets the deadline is not
surfaced but answered as "exhausted". `draft_to_config` "never regresses operator-only
settings" but resets language, idle timeout, lockout and retry settings; step 1 of the
wizard, sent again, resets mode, profile, exposure and key; the mapping page may save
a draft over a newer one, or bring one back that was published. Foreign keys are
declared (`migrations.py`, `ON DELETE CASCADE`) and not enforced, so that the runs of
a deleted source stay. `Container.reload` saves before it builds, and a build that
raises leaves file and memory new and services old, where `import_config` says that a
bad payload leaves the running service on its previous config; one request may take
its policy and its adapter from two snapshots. `GET` then `PUT` of the configuration
makes the sentinel `***` the inline secret. The scheduler keeps the store it was given
at start when a reload names another SQLite file.

## Not modelled

What the parsers of LIDO, MARC, CSV, EAD and Dublin Core make of a record besides
ids and documents, the record mapper and the
schemas (sequential functions on text and documents); rendering, translations,
logging, metrics and tracing (observation only); the release check; process
launching of the CLI and the desktop application. Within the modelled parts:
hashing and its legacy upgrade, key prefixes and `last_used_at`, `max-age`,
the clock of idle sessions, the choices of facets and sorts in the wizard, what an
import counts, indexes of the schema, the usage audit. Cryptography is assumed: a token or
secret that was not issued is not accepted.

## Plan

The order is by how much of the system's behaviour hangs on the part.

1. Done: `PublicCache` with `RegularReads`, `AdminAccess`, `ImportRuns`,
   `ConfigReload` with `OrderedReload`, `RecordDocs`, `Harvest`, `BackendRetry`, `QueryPolicy`,
   `RequestGate`, `Migrations`, `SetupWizard`, model-checked and with proofs of
   their safety invariants.
2. Safety proofs about the operators of `RecordDocs` that need no induction.
3. Idle sessions: lifetime and idle window with clock readings of concurrent
   requests, implementing the "may end at any time" of `AdminAccess`.
4. Composition of `ImportRuns` with `PublicCache` (a run's batches are the
   writes of the cache).
