# DepthFusion in TLA+

DepthFusion is a context and memory server for coding agents: hooks and MCP tools
capture what a session found out, keep it as files under `~/.claude`, score it, let
it decay, retrieve it again, share it between agents on a bus and between devices by
delta sync, and serve it offline under leases. Much of it is text processing; what is
hard is that the same few files and tables are read and written by several processes
at once (the MCP server, git and Claude Code hooks, a nightly cron job, CLI tools, a
desktop app), any of which may be killed. This directory holds the models of that part,
and of the algorithms whose result is easy to get wrong.

Python paths below are relative to `src/src/depthfusion/`.

## Contents

| module | what it models |
|---|---|
| `DiscoveryStore` | the directory of discovery files: capture, score and pin edits, decay, dedup, prune |
| `Capture` | how sessions become discoveries, and discoveries a persona |
| `SessionFiles` | the hook after a commit; pairs of memories to merge, the compactor, the canvas |
| `RecallFeedback` | recall ids, and feedback that is applied once |
| `Recall` | a recall through its filters, phases and fallbacks |
| `Fusion` | the weighter, the gates, rank fusion, and what is kept of candidates, chunks and clusters |
| `HnswIndex` | the vector index with its two files |
| `GraphAlgorithms` | breadth-first walk with an access filter; union-find over similar memories |
| `SessionLinks` | edges between sessions, the nightly loop, merging of entities |
| `ContextBus` | abstract specification of a context bus |
| `FileBus` | the bus on a JSONL file, refining `ContextBus` |
| `Publishing` | a publication on its way from bus to log to index; the register of projects |
| `EventFabric` | publication on graph store and stream, watchers that reconnect, seeds and trails |
| `MemoryLog` | the decision tools over an event log and a memory store |
| `CheckpointHistory` | checkpoint files with diffs: queries, resumption, pruning |
| `McpSessions` | sessions of the MCP server, their tracked activity, checkpoints, shutdown |
| `RateLimiter` | fixed windows in memory and in Redis |
| `PolicyEngine` | decisions on records and tools, and their cache |
| `Administration` | roles and the admin console, with the record of what was done |
| `AuditTrail` | exports under audit, with limiter, anomaly detector and purge |
| `SearchCache` | the cache of answers with eviction by score |
| `QueryPages` | metric files, the table of tool calls, and the queries that page through them |
| `ModelTelemetry` | outcomes of dispatches, cached statistics, recommendation, usage, drafts of skills |
| `Backends` | chains of models, the lazy embedder, the reranker, the recursive client |
| `DocumentIngest` | pipeline, hash index, chunkers, quarantine |
| `SharePointSync` | the PID lock, the delta listing, the cursor file |
| `SyncEngine` | push, pull and tokens |
| `OfflineLease` | leases, purge engine, device clock, restarts |
| `DeviceTrust` | the sealed cache, the signed snapshot, signals, the plan, labels, offline search |
| `Identity` | the cached key set under token validation; keychain and device-code login |
| `Migration` | migrate v2, its rehearsal and the ACL backfill |
| `Installation` | the installer and its wizard |
| `DiscoveryStore_proofs`, `Stores_proofs`, `Server_proofs`, `Services_proofs`, `Devices_proofs`, `Setup_proofs`, `Inflow_proofs` | TLAPS proofs |
| `MCDiscoveryStore` | an instance of one module, with a history variable |
| `MCDiscoveries`, `MCStores`, `MCServer`, `MCServices`, `MCDevices` | instances of several modules, one of which runs |

A module of the last line chooses a `part` in the initial state; that component moves and the
others keep a single state. One run so covers several components that share nothing. The parts are
not a composition: where components interact (a purge with the cached records, publications with
the bus, sessions with checkpoints) one module has both sides.

`PROJECT.json` lists components, runs, mutants, the map from definitions to source lines, hazards,
findings and theorems. Run `tlc -config X.cfg M` and `tlapm X_proofs.tla` in this directory.

## Inventory

**Discovery store** (`core/file_locking.py`, `capture/decay.py`, `dedup.py`, `hygiene.py`,
`pruner.py`, the tools in `mcp/tools/graph.py` and `capture.py`). *State*: `<name>.md` files with
scores and a pin in their frontmatter, `.superseded` files, `.archive/`, a sidecar lock per file.
*Operations*: capture (exists-check, write, dedup), score, pin and feedback edits (read-modify-write
under the lock), the nightly decay and dedup, prune. *Hard*: four kinds of processes on the same
files, of which only the rewrites take the lock; death at any step. *Correct when* rewrites are
isolated, pins are honoured, a group of duplicates keeps a live member, no document disappears.

**Capture and sessions on disk** (`capture/auto_learn.py`, `compressor.py`, the extractors,
`session/`, `hooks/`, `cognitive/persona.py`, `consolidator.py`). *State*: transcripts that grow,
summaries, one file of entries per project, day and kind, commit notes. *Hard*: a look whether a
file exists, then a model that works for long, then the write. *Correct when* each session is looked
through once and what is dropped is dropped for a stated reason.

**Recall, feedback, fusion, index** (`mcp/tools/_shared.py`, `core/feedback.py`, `retrieval/`,
`fusion/`, `cognitive/scenario_aggregator.py`). *State*: the registered recalls, vectors and labels
in two files, the kept candidates. *Hard*: optional phases that fail and are passed over, feedback
from several threads, a death between two files. *Correct when* answers are in scope, known and full,
a recall moves a score once, and no vector is shown under another's name.

**Graph** (`graph/`). *State*: entities, edges and events in SQLite or one JSON file. *Operations*:
traverse, link sessions, merge entities. *Correct when* a walk is exact, linking is complete and
idempotent, and merging widens nothing.

**Context bus and publishing** (`router/bus.py`, `mcp/tools/bridge.py`, `capture.py`, `project.py`,
`core/project_registry.py`). *State*: lines of `bus.jsonl`, a log of important events, the register
of projects. *Hard*: several processes, readers without a lock, torn lines, three stores one after the
other. *Correct when* the file bus does what the memory bus does, a content is noticed once, and the
register loses nothing.

**Event fabric and memory log** (`core/event_store.py`, `api/events.py`, `storage/event_log.py`,
`storage/memory_store.py`, `mcp/tools/decisions.py`). *State*: the graph, a Redis stream per project,
checkpoint files, an event log and a memory store. *Hard*: partial failure, reconnecting watchers,
two processes on one JSON graph. *Correct when* a publication is found again, each watcher hears of
it in order, the log covers the store, a resumed session gets the latest checkpoint.

**MCP server and sessions** (`mcp/http_server.py`, `server.py`, `session_activity.py`, `ratelimit.py`,
`mcp/tools/_registry.py`). *State*: open sessions, the calls made in each, rate counters. *Hard*:
requests of one session run concurrently, DELETE and shutdown await. *Correct when* a session closes
whatever fails, its calls are in a checkpoint, and a tool runs only for whom the policy lets.

**Authorization, audit, administration, identity** (`authz/`, `audit/`, `api/role_admin.py`,
`api/admin_console.py`, `identity/`). *State*: a decision cache, roles, an audit log, a JWKS cache, a
keychain. *Hard*: decisions that are cached, threads around a limiter, keys that rotate, a provider that
sets the pace. *Correct when* what is served is what would be decided, exports keep their cap, and
what was answered is on record.

**Queries, telemetry, backends, ingest** (`api/query.py`, `metrics/`, `storage/telemetry_store.py`,
`telemetry/`, `analytics/`, `backends/`, `recursive/`, `ingest/`, `connectors/`). *State*: logs that
grow, cursors, caches of statistics, content hashes, delta cursors. *Hard*: paging over what changes,
duplicates reported by several processes, a failure after a hash was recorded. *Correct when* a walk
misses nothing, statistics lag no more than they say, a skip is justified.

**Sync engine** (`sync/engine.py`, `router.py`). *State*: records with an ACL and a label, a changelog,
a token on each device. *Hard*: three connections per pull, lost responses, a limit. *Correct when* no
push widens access and no device misses a change for ever.

**Devices** (`cache/`, `app/src-tauri/src/cache/store.rs`, `authz/policy_snapshot.py`). *State*: leases
and a high-water mark, the sealed cache, a signed snapshot, activity signals. *Hard*: a clock the user
may set back, crashes between two stores, being offline. *Correct when* purging time never goes back,
nothing expired stays for ever, and a device decides offline by what the server said less than a snapshot's life
before what the device's clock shows.

**Operator's tools** (`install/`, `cli/`, `scripts/`). *State*: env file, hook scripts, `settings.json`,
databases. *Hard*: files rewritten in place, kills, second runs. *Correct when* one copy stays intact
and a run that ended well leaves nothing to do.

**User interface** of the desktop application, and what only parses, renders or measures: see the notes
of the components in `PROJECT.json`.

Interaction: hooks and MCP tools write the discovery store; retrieval reads it and records recalls,
whose feedback edits it; the nightly job edits, renames and archives in it; bus and event fabric carry
items between agents; the MCP server checkpoints sessions into the event fabric; sync carries records
between hub and devices; the lease manager decides what a device may keep of them offline.

The ways these can go wrong that a test would hardly reach are listed under `hazards` in
`PROJECT.json` with the properties that would catch them; more of them are below.

## What each module models

### DiscoveryStore

| in the model | in the code |
|---|---|
| `live`, `superseded`, `archive` | `<name>.md`, `<name>.md.superseded`, the files of `.archive/` |
| `lock` | the flock on `.<name>.md.scorelock` |
| `EditStart`, `RewriteMissing`, `LockAndRead`, `Replace` | the callers of `atomic_frontmatter_rewrite`, and its steps: exists-check, flock and read, splice and `os.replace` |
| `HygieneStart`, `DecayRead`, `DecayArchive`, `DecayDone` | `run_hygiene_for_project`, `apply_decay` |
| `DedupRead`, `Supersede`, `DedupDone` | `dedup_against_corpus`, `supersede` |
| `PruneIdentify`, `PruneMove`, `PruneDone` | `identify_candidates`, `prune_discoveries` |
| `CaptureCheck`, `CaptureWrite` | the writers of discovery files |
| `Kill` | SIGKILL: the kernel drops the flock, files stay |

Salience and importance are integers in hundredths. Two documents are near-duplicates when they have
the same topic; the embedding backend decides that in the code. `write_text` and a move are one step
each. The prune phase of the hygiene job only counts. A capture may take any free name, which allows
more than the dated names do. Stamps that `pruner.py` adds after a collision are distinct. A process has one
role (`RolesAssumption`), and only the decay pass writes `last_decay_date` (`EditsAssumption`).

### Capture, SessionFiles

A learner is a call of `auto_learn` or `compress_session`, with a step between each look whether a file
exists and the write after it; the extractors are taken to be switched on. `PersonaNext` is the
trigger with its count, and the backend that `DistillationClient` finds once. The commit hook asks git one
question after the other, between which other commits are made; a note is named by date and hash. Merge
candidates, the tiers of the compactor and the budget of the canvas are operators over small inputs.

### Recall, RecallFeedback, Fusion, HnswIndex, GraphAlgorithms

`Recall` has a step for each filter and phase of `_tool_recall_impl`; a phase may fail, and may order as
it likes, since scores are left out. `RecallFeedback` takes `apply_feedback` apart at its lock and at the
rewrite of each file. `Fusion` has the weighter, the gates, `rrf` and the cognitive order as operators
over pools of blocks with scores and a cosine in percent, and three objects as state: what is kept
(`evaluate`, `load`), the state between chunks (`absorb`), the block index (`fit` with any centroids,
`search`). `HnswIndex` has the map file and the index file with a death between their replaces and label
numbers that are handed out again. `GraphAlgorithms` has two parts: the union-find steps through the pairs
with path halving, and the walk expands the entities of a hop in any order.

### SessionLinks

A linker reads events and edges and writes an edge at a time, beside another one and sessions that publish; `StartNight` and `EndNight` are the server's loop
with its sleep until the next night. An ACL is a list of readers or no list, which lets everybody read; `MergedAcl`
takes a missing list as an empty one, and leaves the first entity's as it is when neither names anybody, so that
a missing one becomes closed or, beside an empty one, stays open.

### ContextBus, FileBus, Publishing

`ContextBus` is what `InMemoryBus` does: publish is one step. `FileBus` is the JSONL file: flock, scan,
append in parts, newline, unlock, truncate, a process that dies in between, and a reader without a lock.
`Bus == INSTANCE ContextBus WITH items <- Rows` maps the file to the rows that parse; the abstract publish
happens when the row is completely written (or found by the scan). `ReadSpec` adds histories of what was in the file all the
time that a subscriber read, and of what was in it at any time. The `_hash_index` cache never decides
whether an item is stored and is left out; threads are processes. `Publishing` uses the atomic bus and
takes a publication from the bus to the log of important events and the vector index, with
`publish_context`, the hooks and the sync of a project's files; the register is written through one
temporary file, which each writer truncates when it opens it and writes from the start: of two that have both
opened it the later one writes over the earlier one's text, and a short text leaves the end of a long one
(`Overlays`). Of a conversation's lines only those of the assistant are stored, and only long ones.

### EventFabric, MemoryLog, CheckpointHistory

`EventFabric` has `publish` and `publish_memory` write by write on SQLite (committed rows) or JSON (a copy
in memory, one file, which two processes of different projects may write at once, leaving a mixture). `publish`
names any memories, whether the graph has them or not, as the route takes any. Further the stream of each project
with its ids, watchers with `XReadBegins`, `XRead`, `XReadTimesOut`, `Yield`, broken connections and the cursor
they come back with (a client that began with `$` sends it again until it has received an entry, and each read
then waits for what comes after it began), and what `fabric_seed_bundle` and `agent_trail` find.
`MemoryLog` appends to the log before it writes the store; a kill tears a line, the next append is glued
to it. `CheckpointHistory` collects diffs within a budget of time, keeps paths under a normal form, lists
under a scan and a page limit, resumes from the latest file and prunes.

### McpSessions, RateLimiter, PolicyEngine

`Initialize`, `CallAdmitted`, `CallRecorded`, `CallAnswered` are POST /mcp; `DeleteAdmitted`,
`CheckpointWritten`, `PublishDone`, `PublishFails`, `DeleteWithoutProject` are DELETE /mcp with
`_publish_session_checkpoint`; `Stop`, `Cancel`, `OrphanEnds`, `Sweep*` are the lifespan hook under the
server's graceful shutdown. Code between two awaits is one step; tools record in executor threads at any
moment. A half-written checkpoint does not parse and every reader skips it, so `saved` holds the whole
ones. `SessionsSpec` adds histories of what clients got answers to and of what was answered when a publish
began (`FairSessionsSpec` with fairness). `RateLimiter` runs INCR, EXPIRE and TTL as separate commands. `PolicyEngine` has the cache as a
set of decisions with the order in which they expire; it looks into it and evaluates in two steps, threads in between; `CallTool` is the gate in front of a tool: known, its
flag set, its capability granted, in that order.

### Administration, AuditTrail, QueryPages, ModelTelemetry

`Administration` makes each change, its record and its answer a step, with faults and purges in between.
`AuditTrail` runs the policy check, the limiter, the audit row and the detector of an export call by call; the
rows are a set of numbered ones, as the table is. Retention is longer than the window with a call in it, and a
query returns more rows than a burst (`AuditBounds`), as the configured values are.
`QueryPages` appends to files of a day and rows of a table while a client follows cursors; each page is cut
from the whole list read anew. Times of day are hours with a zone. `ModelTelemetry` keeps rows, caches and
budgets of several processes; averages are small numbers.

### Backends, DocumentIngest, SharePointSync, SearchCache

A chain falls back on limits, overload and timeouts and on nothing else. The embedder is loaded under its
lock. A call of the recursive client reads the shared token, may be refused and adopts a fresh one. A run of
the pipeline records the hash, reads the file again, cuts, embeds and stores, and may fail or die at each
step; a file may change back to what it was between the hash and the parser. A SharePoint sync tests the PID lock and writes it in two steps, pages through changes, and saves the
cursor last, which is `latest` when the last page brought no token. The cache evicts by score until the new answer fits.

### SyncEngine

`PushCheck` is `sync_push` up to the first record that it accepts and stamps, `PushBegin` takes the write lock
and puts it in, `PushNext` checks and puts in one of the others each, `PushCommit` commits them together; `PullSince`,
`PullRows`, `PullToken` are the three reads of `pull_records`; `PullLost` loses a response. Stamps are
distinct and increase (a server clock that is set back is not modelled). There is one worker in the runs,
because the handlers have no await and the module's docstring has one writer; `Workers` is a parameter,
and TLC refutes `NoWidening` and `NothingMissed` with two. No application mounts the sync router at this
commit; its tests do. `Stores.cfg` has one payload, since no property tells payloads apart.

### OfflineLease, DeviceTrust, Identity

`Issue`, `Renew*`, `Denied*` are `LeaseManager`; `RunOnTimer`, `RunOnRevoke`, `ListExpired`, `DeleteLease`,
`WipeRecord`, `Revoke*` are `PurgeEngine` one store call at a time; `SetClock` sets the device clock to
anything; `Restart` keeps the database, the cache and the token, and loses the rest. `RunSpec` adds the
history `due`, the records that the run under way has to remove. `DeviceTrust` has the
encrypted cache statement by statement with its seal, the snapshot with the keys it is signed by and a device
clock that may be behind the server's by up to `Lags`, signals
pruned by two processes, and as operators the prefetch plan, the label mapping, the accounts of services
and the blend of the offline search. `Identity` has two parts: logins that poll at the pace they are told,
several programs beside each other, and requests that wait for one lock, fetch the keys, and retry once for
an unknown one.

### Migration, Installation

Each file operation of migrate is a step; a kill may come between any two, and the operator runs the tool
again. A migration adds all the ACL columns or none, as `0001_acl_columns.sql` and `0002_roles.sql` do
(`MigrationBounds`). The installer and the wizard merge the env file, write scripts and register hooks in `settings.json`;
a file rewritten in place is first empty and then whole, unless another process had opened it too and wrote
before: then the text lies over the other one (`Overlay`), and `settings.json` may be no JSON.

## Runs

Every property of a passing run is stated above its definition with the code it is about; those named
`...Sound` or `...Kept` are conjunctions of the named parts.

| run | properties | bounds |
|---|---|---|
| `Discovery` | `RewriteIsolated`, `PinSticky`, `DecayDateMonotone`, `OneSurvivor`, `GuardedStays`, `NothingLost`: rewrites are isolated, pins and decay dates survive other edits, superseding leaves a live member, no document is lost but one whose file another one took. `ExtractsSound`: sessions are looked through once, entries are dropped only for a file of that day, a commit has a whole note unless something moved under the hook, merge pairs leave one of each group, sections and canvas keep their ratio and budget | files: 2 names; an editor, a nightly job and kills; or a capture and a pruner, 3 days, 5 captures; or an editor, a nightly job and a capture on one day, 2 captures, 2 archived files, one kind of edit. 2 learners, 2 transcripts, 1 midnight, 1 cut. Persona every 2, 4 batches. 2 hooks, 3 commits. Texts: lists of up to 4 parts, 6 memories |
| `Stores` | `BusSpec`: the file bus implements the abstract one; `ReadsWhatStayed`; `LogSound`: the log covers the store but for one event per torn line; `CursorCovered`; `WithinLimit`; `MovedOnce`; `LabelsMatch`; `GraphSound`: walks, clusters, links and merges are exact; `NothingMissed`, `NoWidening` | 2 publishers, 3 items, 1 legacy row, 1 clear, 1 reader; 2 callers, 2 memories, 4 events, 1 tear; 2 syncs at once, 3 changes, 2 kills, `latest`; 2 searches, 3 keys, limit 6; 2 threads, 2 recalls, 2 chunks of one file; 2 discoveries, 3 labels, 3 deaths; 4 entities, 3 hops; 4 memories; 2 documents, 2 readers, batches of 2, 3 log rows, limit 2; 3 sessions, 2 linkers, 1 kill, 8 ticks |
| `Server` | `CheckpointsCover`: a newer checkpoint covers older ones and what was answered; `FabricSound`: what is published is found again, in order; `ServerProgress`: DELETE closes, shutdown ends (`SessionsEnd`), and what is in the stream reaches a watcher (`Delivered`); `QuotaKept`; `PolicyObeyed`: what the cache serves is what would be decided, and a tool runs exactly for whom its capability is granted; `AnswerSound`: answers of a recall are in scope, known and full; `RankingSound`: weighter, gates, fused ranks, kept candidates and clusters are what they claim | 2 sessions, 2 concurrent requests, 2 DELETEs, 1 failure, 2 runs; 2 producers, 2 projects, 2 contents, both stores, 2 publications, 1 crash; 1 watcher that began with 0 or `$`, 3 publications, batches of 2, 2 broken connections; 2 workers, quota 2, 3 ticks; 2 deciders, 6 inputs, a cache of 2; 2 callers and none, 3 tool names; 4 notes; pools of up to 3 blocks, 3 vectors |
| `Services` | `ExportsWatched`: the cap is kept and a burst is seen; `HistorySound`; `ToolsKeepStores`: one copy stays intact; `AnswersSound`: pages miss nothing, outcomes count once, statistics lag as stated, a reranker answers as many blocks as were asked for; `InflowSound`: skips are justified, a content is noticed once, the register keeps what it accepted; `SetupSound`: what was answered is on record, the user's lines stay, runs settle; `BackendsSound`: chains fall back only where they may, one model is loaded, an expired token was one | 2 exporters, cap 2, 3 exports, 1 restart; 1 saver, 1 query, 2 projects, 4 paths, scan limit 2, page 1; 2 databases, 2 migrations, 3 starts; 2 recorders, 1 client, pages of 1, 3 events over 2 days of 2 hours; 2 ingest runs of 3 contents; 2 listeners and a shell, 3 calls, 1 fault; 2 users, 3 calls, 2 tokens; 3 dispatchers and an adviser, 3 outcomes; 3 senders, 2 sends; 2 registrars, 1 kill; 2 installers, 2 modes, 2 runs, 1 foreign change, 1 kill |
| `Devices` | `PurgesSound`: purging time never goes back and a run removes all it has to; `ExpiredLeaseEnds`; `GrantsKept`: a device polls no faster than told, trusts no withdrawn key for longer than the cache, hands out only leases it sealed, decides by what was allowed less than a snapshot's life before what its clock shows, keeps recent signals; `PlansSound`: it plans within its budget, and labels, accounts and offline scores are mapped as stated | 2 records, TTLs of 1 and 2, clock 0..2, 1 restart; 1 program, intervals 0..2, 9 seconds; 2 requests, 2 keys, 3 moments; 4 papers, 3 changes, 2 crashes; snapshot life 1, instants 0..2, a clock up to 1 behind; 2 recorders, 3 notes; 4 records, budgets 3, 4, 6 |
| `DiscoveryNewerWins` | **violated** `NewerWins`: the older of two duplicates survives the nightly dedup | one part of `Discovery` |
| `DiscoveryDecayKeepsEdits` | **violated** `DecayKeepsEdits`: decay overwrites a score set meanwhile | the same |
| `OfflineLeaseOrphan` | **violated** `NoOrphan`: a crash between two deletions leaves content without a lease | as in `Devices` |
| `SyncPagination` | **violated** `NothingMissed`: a pull that its limit cuts returns a token past what was cut | as in `Stores`, limit 1 |
| `McpActivityLost` | **violated** `NothingLeft`: a call answered while a DELETE publishes is in no checkpoint | 1 session, 2 requests, no failure |
| `EventFabricReplay` | **violated** `NothingSkipped`: a watcher of two projects that reconnects from its last id misses an entry | 1 producer, 1 broken connection, no crash |
| `RecallVisible` | **violated** `VisibleIsRegistered`: a chunk only the vector index finds is answered unregistered | as in `Server` |

The bounds let each race happen that the properties are about: two actors on the same file, key or row,
one step of a third kind (a kill, a purge, a broken connection) between any two of theirs, and one more
item than a limit holds. Each passing run has one type invariant per part. Every property has a mutant in
`PROJECT.json`, and the conjunctions have several: an operator beside the real one with a plausible
bug, for which TLC finds the property violated. Symmetry is not used, as some of the properties are
temporal; where two learners or two transcripts are alike, `MCDiscoveries` fixes which comes first,
and `MCServices` lets the second of two idle threads begin only beside the first
and the first role be `owner`.

`NothingLost` says that each captured document is somewhere, but for those in `displaced`; that it is only in one place is not claimed:
`os.replace` puts a file back that was moved away during a rewrite, and one document is then both live and
archived. When a capture has taken the freed name in between, the file that is put back is written over the captured
document, which is then nowhere; or one document's file is moved onto another's in the archive. `displaced` holds
exactly those, and the property says that there are none unless edits, moves and captures cross on a name. The
scenario `crossing` has all three; the other two have more days, names and kinds of edits. `OneSurvivor` is checked with
one dedup pass at a time; two at once can supersede each other's file. `QuotaKept` counts a quota per worker
for the backend in memory, which is what it does. Where another property has an
"unless" (a process killed while it wrote, two that wrote at once), it names a case that the code leaves
open; those cases are under hazards or below.

Deadlock is checked in `Discovery`, `Stores` and the runs of one store. `PartEnded` lets a part rest there
where it is done or at its bounds (any part of `Stores` but the bus). `Server`, `Services`, `Devices` and the
runs of sessions, fabric and recall do not check it: their parts stop after the last shutdown, answer or at
their bounds.

## Fairness

`Devices`: the timer fires again and again (`WF(RunOnTimer)`; the application calls it periodically) and a
run that began goes on, as it is a loop without waiting (`WF(PurgeStep)`, `WF(RevokeStep)`). Nothing is
assumed of users, servers, the clock or crashes, except that crashes are bounded.

`Server`, part `sessions`: tools and file writes return (git is run with a time limit, and the file write is
local), and the event loop continues what awaited them (`WF` per request and for the lifespan hook). No
fairness for SIGTERM, failures, cancellation or clients.

`Server`, part `stream`: a watcher whose connection broke connects again, as `stream_events` says clients do,
and the read loop of the server goes on (`WF` of `Connect`, `XReadBegins`, `XRead`, `Yield` per watcher). None for
publishers, whose crash may leave an event out of the stream: `Delivered` starts with the stream.

The other specifications have no fairness; only safety is claimed of them.

## Proofs

`tlapm` checks seven modules. Each theorem holds for every value of the constants that satisfies the named
assumptions of its module: sets are finite where something is counted, the special values differ from
real ones, times and bounds are naturals. The assumptions that say more are named below. The pattern is
the same everywhere: an inductive invariant, its initial case, one lemma per action, a theorem that the
specification keeps it, and theorems that the properties of the runs follow from it. An
invariant that is not obvious was checked by TLC on the instance of its run first.

### Discovery store (`DiscoveryStore_proofs`)

- `TypeCorrect`, `Isolation`, `PinsPersist`: `TypeOK` (salience in [0, 5] included), `RewriteIsolated` and
  `PinSticky`, from the inductive invariant `IInv` (`Invariance`): `TypeOK`, a finite archive, and
  `JobsSound` (what a process knows of the file it works on; only tool calls edit pins), `HoldsLock` (between
  read and replace it holds the flock), `IdsBounded` (no document is newer than the last capture).
  `RewriteIsolated` is not inductive alone: another process can change a file in place only from its own
  critical section, which `HoldsLock` excludes, and a capture brings an id that none before it had. A pin
  then stays because the body that is spliced is the one that is there.
- `MarksRise`: `DecayDateMonotone`, from `DatesIInv`: no mark, of a file or of a body read under a lock, is later
  than today, nor later than the day on which a pass that is under way began. Assumes `OneJanitor` and
  `PastMarks`. Two nightly jobs at once break it: the one that began before midnight sets back what the other
  has marked after it.
- `FilesInvariance`: `FilesIInv` in the three scenarios of `MCDiscoveryStore`. Against the nightly job: a path
  has one document, so that what was archived from it is the same one (`SameDocument`), and what the job is about
  to move is there, next to the file that stays, and not guarded (`Moving`). Against prune: the stamps of
  archive names increase (`Timed`), and nothing that is about to be pruned was pinned all the time
  (`Pruning`). In all three, with `OneWriter`: what an edit will put back is live or elsewhere,
  where a capture will write is nothing or what is elsewhere, too, and every document is live or elsewhere, displaced
  included (`PutsBack`, `WritesFree`, `AllKept`). From it:
  - `NothingIsLost`: `NothingLost`, with `OneWriter`. Initially this is a counting argument: there are as many live
    documents as ids. Two captures at once may both find a name free, and the second write replaces the
    first;
  - `SurvivorStays`: `OneSurvivor`, with `OneJanitor`. Two passes can supersede each other's survivor;
  - `GuardedRemain`: `GuardedStays`, with `OneJanitor` and `OnePruner`. The second of two prunes may move a stub
    that was made after its listing.

### Context bus (`Stores_proofs`)

- `Implements`: `Spec => BusSpec`, the refinement of `ContextBus` with `items <- Rows`, from `IInv`: `TypeOK`
  (`TypeCorrect`), `HoldsLock` (a process in the middle of an operation holds the flock), `KnowsItem`, `Fresh` (what
  is about to be written matches no line) and `TornEnd` (a process in the middle of its row has left the last
  line torn). `Fresh` makes the write a step of the abstract bus, which stores only content that is not there;
  `TornEnd` says that finishing a row takes no other row away. Each step is then `Publish`, `PublishUnanswered`
  (a crash just before the newline), `Clear`, or leaves rows and answers alone.
- `ReadsAreSound`: `ReadsWhatStayed`, from `ReadsIInv`: a row that was there all the time of a subscription was
  delivered or lies behind the reader's position, which is why a reader without a lock misses nothing, also
  beside appends and a truncation.

### Stores and tools (`Stores_proofs`, `Services_proofs`)

| theorem | property | the inductive invariant adds |
|---|---|---|
| `CursorSafe` | `CursorCovered` | each sync under way has offered, or still has to, all up to where it will set the cursor, but for what a listing from `latest` passed over |
| `MovesOnce` | `MovedOnce` | what a thread took under the lock is what it has moved and not yet noted; nothing is moved for a recall still to be minted |
| `LabelsRight` | `LabelsMatch` | labels are handed out once, above all in the file; the index file matches the label file, in either order of deaths |
| `LogRebuilds` | `LogSound` | events of calls under way are apart; each torn line costs at most one logged event, counted with the line that is still open |
| `CacheWithinLimit` | `WithinLimit` | the types: the limit is inductive; evicting the lowest scores until the new row fits needs sums over finite sets |
| `ToolsAreSafe` | `ToolsKeepStores` | what each stage of a run leaves on disk (`InCopy`, `InApply`, `InPromote`, `InRename`, `InBackfill`), so that a kill between any two leaves an intact copy |
| `HistoryIsSound` | `HistorySound` | a query has read, or still has to, every file that was whole when it began and is not pruned; an id names one file, and no file that is being written is waited for; what this version stores has its own key |
| `BackendsAreSound` | `BackendsSound` | a dispatch has been refused by all before the one it is at; whoever loads holds the lock; a call that nobody interferes with has the configured token, then the valid one |
| `ExportsAreWatched` | `ExportsWatched` | the limiter's list has every grant within the window, and the audit log every recorded one that the detector looks back on |

`ToolsAreSafe` assumes that a migration adds all ACL columns or none, as the two in the repository do.
`ExportsAreWatched` assumes that retention
outlasts the detector's window by the longest call, and that its query returns more rows than a burst;
without the second, the rows that the LIMIT cuts hide the burst. `HistoryIsSound` is from `HistoryIInv`
(`HistoryInvariance`), for any number of publishes, queries and prunes. It assumes `HistoryPaths` (a normal form is its
own) and `HistoryOld` (what earlier versions wrote names files in any spelling, secrets among them perhaps, under ids of
its own); that a diff is found under its key is claimed of what this version wrote.

### Installation, administration, ingest, publishing (`Setup_proofs`, `Inflow_proofs`)

Each of the four components has an inductive invariant of its own:

- `AdministrationIsSound`, from `AdminIInv` (`AdminInvariance`): what is answered is on record until its day is
  purged, a fault leaves at most one change without its record for each call it ends, the last line about an
  assignment tells whether it holds. `RecordsHold` says so of what is about to be answered, too, `FaultsEnd` counts the
  calls that are neither under way nor answered, and `RolesOnLines` compares role and last line where nobody is between
  the two. Assumes `SomeoneListens`, that there are processes that serve.
- `InstallationIsSound`, from `InstallIInv` (`InstallInvariance`): the user's lines stay unless two merged the env file
  at once or one was killed while it wrote; each registered hook is there once; `settings.json` is empty only while it
  is written or after a kill, and no JSON only after an overlap of two of whom one wrote over the other; the others'
  part of it is lost only under a copy an installer held; a run beside which nothing ran leaves its mode and all hooks.
  `RunsKept` says which files a run that is alone has completed at each stage, the
  other parts what a copy under way has of the user's lines and of the others' settings. Assumes `FilesAtFirst`:
  what is there before has each key once.
- `IngestIsSound`, from `IngestIInv` (`IngestInvariance`): a file is skipped only if that very content is stored, or the
  last run that recorded a hash of it failed or parsed another content than it had hashed (`fate`). `HashFollows`: a hash
  is of what is stored, or on its way, or `fate` tells why not; runs of one file exclude each other (`RunsApart`).
  What is stored is all of the document, in overlapping chunks.
- `PublishingIsSound`, from `SendIInv` and `RegistryIInv` (`PublishingInvariance`), for any number of senders and
  registrars. `EventsKept`: the event of a new important content is with one thread, or written, or missed;
  `IndexKept`: the one thread that indexes an item has what was sent last. `OneAtATime`: a registrar alone has in its
  copy all that was accepted; `NoJsonIsWritten`: a file that is no JSON is being written, unless a registrar died over it
  or one wrote over another's; `FilesSuffice`: no more are
  at work than have been called, so that the model's numbers of files do not run out.

`SetupIsSound` and `InflowIsSound` take these to the run: its specification implements that of each component
(`ServicesDoAdmin`, `ServicesDoInstall`, `ServicesDoIngest`, `ServicesDoPublish`: a step of the chosen part is a step of
that component and a stutter of the others), so `SetupSound` and `InflowSound` are invariants of it.

### Server (`Server_proofs`)

- `QuotaIsKept`: `QuotaKept`, for any number of workers, from `LimiterIInv`: what was allowed in a window is at
  most what was counted in it (by each worker in memory; in Redis less the checks still under way), and a
  counter does not expire before its window ends.
- `PolicyIsObeyed`: `PolicyObeyed`, from `PolicyIInv`: every entry of the cache, every answer and every check of a
  tool under way has the decision that evaluation gives for its input.
- `NewestCovers`: `CheckpointsCover`, from `SessIInv`: sessions, requests and publishers agree on their stages
  (`Phases`), stamps of checkpoints increase, and a snapshot that is being written has all that was promised when
  it began.
- `FabricIsSound`: `FabricSound`, from `FabricIInv`, for both graph stores, any memories named and any number of
  publishers, projects and watchers: each stage of a publication has written what precedes it (`StageWritten`: for JSON in
  the process's own copy), ids of a stream increase, and a watcher of one project has received a run of its stream, the
  batch under way being the next part of it. A JSON graph with several processes loses writes, so what lasts there is
  what a process published since it started (`Lasting`), and what is said of the stream's entries speaks of SQLite.
- `RecallIsSound`: `AnswerSound`, for any files, queries and hits of the vector index, from `RecallIInv`
  (`RecallInvariance`): what is registered is what the filters let through, the candidates are part of it and one of a
  stem, and until the gates reject some they are of every stem that matched. That an answer is full is then counting: a
  reranked pool has as many chunks as it may (`FilledIsFull`), and as many ids as chunks (`AsManyIds`), so what
  the vector index adds cannot leave the answer shorter. Assumes that files and vectors are finitely many.

### Sync and devices (`Devices_proofs`)

- `PushesNarrow`: `NoWidening`, and `PullsMissNothing`: `NothingMissed`, from `SyncIInv`: stamps in the log increase,
  a push has checked what its transaction will replace, and what a pull has not read yet is behind its token.
  Both assume `OneWorker` (the handlers have no await; TLC refutes both with two), the second also `NoneCut`,
  that a pull has room for all records: a cut pull does miss records (`SyncPagination`).
- `PurgesAreSound`: `PurgesSound`, from `LeaseIInv`: the mark in memory is the persisted one, a run's time is not
  past it, and what the run has to remove is expired, listed or already gone (`SweepUnderWay`).
- `GrantsAreKept`: `GrantsKept`, for a device with all its parts, from the invariants of each: `LoginInvariance` (a
  sleep ends no sooner than it was told to), `KeySetInvariance` (the keys held are those of a fetch of known age,
  whoever fetched), `TrustInvariance` (the seal is of the last complete change; a snapshot has roles allowed when
  its life began, and lives as much longer as the device's clock is behind; a process that still has to prune attends to each signal too many).
- `DeviceTypesHold`: `PartsTypeOK` of `MCDevices`, from the same invariants and the types of login, key set and trust
  side.

### Model-checked only

- Liveness under fairness, which is out of the prover's reach: `ExpiredLeaseEnds` and `ServerProgress` (`SessionsEnd`,
  `Delivered`).
- What is computed by recursion or by folds over sequences: `GraphSound` (walks, union-find, `Path` recursive),
  `RankingSound`, `PlansSound` and `RerankSound` (operators over small inputs, checked against a reference), the pages of
  `AnswersSound`, the texts of `ExtractsSound`.
- The learners of `ExtractsSound`.
- `PartsTypeOK` of `MCServer`, `MCStores` and `MCServices`: types of parts that have no proof yet are in
  them; the types of the parts with a proof are in the invariants above.

## Where the code and its documentation disagree

The violation runs, each with the lines in `PROJECT.json` under `findings`: the older of two duplicates
wins in the nightly pass; decay overwrites an edit; a crash orphans cached content; a paginated pull skips
records; tool calls during a DELETE are in no checkpoint; a watcher of two projects that reconnects misses
entries; a chunk that only the vector index knows is answered but not registered.

Smaller ones, seen while modelling. The models have what the code does:

- Exports: the sweep query of `authz/export_audit.py:294` reads a `project_id` that
  `audit/log.py:219` never stores; audit queries are ascending with a LIMIT, so a full log shows its oldest
  rows (`audit/log.py:290`).
- Policy: roles that are assigned are never read by the policy engine (`api/role_admin.py:219`); a PUT of the
  policy that leaves a level out closes it. `decide()` says that an unsigned or expired snapshot denies, but an
  unclassified resource is allowed before the snapshot is verified (`authz/policy_engine.py:413`).
- Tools: tools/list names every enabled tool whatever the caller may do; a refused call counts as activity;
  over stdio no principal is bound, so that every tool is denied.
- Telemetry table: stamps are compared as texts, so those with an offset go by wall clock; equal stamps come
  newest first, or oldest first with a filter; usage windows end at 23:59:59 (`analytics/aggregation.py`).
- Fabric: nothing writes the edges that `observer_count` counts; `agent_trail` drops the offset of `since`;
  the seed of a project has memories last published by another one when their content was published here.
- Checkpoints: `query_checkpoints` applies the scope after the limit; torn files are never pruned; the day of
  a file is local in one place and UTC in another; a resumed session gets the whole record, diffs included.
- Budget: a repeated outcome is debited again (`analytics/budget.py:245`); `budget_alert` ignores blended
  statistics; a model that costs 0 scores 0. Skill candidates: a dry run inserts its row as well.
- Backends: `complete(model=)` of OpenRouter sticks; after a 401 any HTTP error of the second request of the
  recursive client is told as an expired token (`recursive/client.py:222`).
- Cognition: `maybe_trigger` (`cognitive/persona.py:158`) takes a count that grows, its callers pass that of one
  call; merge candidates are only logged (`mcp/server.py:625`); the nightly link loop runs every second night
  (`mcp/server.py:533`); `auto_learn` has a warning on contradictions that cannot fire.
- Capture: one file of entries per project and day, so later sessions' entries are dropped; the commit hook asks
  git several times, and its note is named by today's date, so one commit may have two notes.
- Bus: a content that comes back after another one is a duplicate and does not become the last row again;
  the contents of backlog and research carry a stamp, so they are never duplicates.
- Fabric: `publish_event` calls the graph write durable (`api/events.py:95`); a JSON graph loses it to the next process
  that writes, to a mixture and to a death within a write, and `_load` then starts with an empty graph.
- Ingest: a run that fails after it recorded the hash is never repeated for that content (`ingest/pipeline.py:146`);
  and a file that changes after the hash and later changes back is skipped, though "identical to the last-ingested version"
  (`:138`) is false of it: the other content is stored.
- Merging of entities: an empty ACL merged into an entity without one leaves it open to all, where `graph/dedup.py:14`
  says fail-closed.
- Register: two that save at once may rename a text over the end of a longer one (`core/project_registry.py:36`), and
  every later call fails on it.
- Devices: snapshots have no rollback check; the snapshot and the offline search use the raw clock; content
  without a lease is not under the seal; two pruners may prune too much. A failing keychain reads as not enrolled.
- Migration: what live processes write between copy and promotion is lost, and the `-wal` file is not copied.
- Installer: an installation for a lower mode leaves the settings of a higher one; a torn hook script is
  never written again (`install/install.py:812`); torn settings end later runs (`:854`); steps of the wizard are
  shared by all tabs and not enforced.
- Fusion: the recall passes no embeddings, so the weighter only cuts by score, where `retrieval/hybrid.py:222`
  speaks of a fallback; two near-duplicates in one batch are both kept; the block index says clusters and cuts
  blocks.

## Further hazards

Forty hazards are in `PROJECT.json`. Of those that are not, these have a property:

- a second decay of one day after an edit (`core/file_locking.py:79`, `DecayDateMonotone`); a pin set between
  decay's read and its archiving (`capture/decay.py:211`, `GuardedStays`);
- a reader of the bus without a lock (`router/bus.py:231`, `ReadsWhatStayed`); eviction for one long answer
  (`cache/manager.py:354`, `WithinLimit`); a worker that dies between INCR and EXPIRE (`mcp/ratelimit.py:181`,
  `QuotaKept`); a walk that reaches a node by two ways (`graph/traverser.py:109`, `GraphSound`); a death between
  the two files of the vector index (`retrieval/hnsw_store.py:459`, `LabelsMatch`); two linkers at once
  (`graph/session_entity_linker.py:127`, `GraphSound`); a publish that hangs at the end of a session
  (`mcp/http_server.py:243`, `ServerProgress`); torn settings and scripts (`install/install.py:854`, `:812`,
  `SetupSound`); commits during the hook (`hooks/git_post_commit.py:69`, `ExtractsSound`).

And these have none:

- several workers of the sync server: a push is checked before its write transaction (`sync/engine.py:368`),
  stamps are taken before the lock (`:289`). The runs have one worker;
- two dedup passes at once: left out of the bounds, see Runs;
- a renewal that writes its lease back after a full wipe (`cache/lease_lifecycle.py:503`); the offline search
  filters leases by the raw clock (`:830`), so one may be shown again until the next purge;
- events published between two `$` reads before the first delivery (`core/event_store.py:163`): the model loses them as
  the code does, and `Delivered` begins with the first entry; lost updates of two decision tools on one memory;
- a second flush when the bus is closed on a full disk (`router/bus.py:202`);
- a SharePoint item that fails is passed by the cursor (`connectors/sharepoint.py:633`): `CursorCovered` asks that
  it was offered; and a listing from `latest` passes over what came before it (`:632`): it allows that;
- an id that a caller gives twice in one feedback moves its score twice (`core/feedback.py:243`): `MovedOnce` speaks of
  calls, whose ids are sets in the model;
- cached answers that outlive an edit (`mcp/http_server.py:683`): no code says how fresh an answer must be; and the
  endpoint passes a `limit` where the recall reads `top_k` (`:689`);
- the sort by score after the vector search, which undoes the reranker's order (`mcp/tools/_shared.py:753`);
- an upsert into the vector index with arguments it does not have (`mcp/tools/graph.py:437`), caught and logged.

## Not modelled, and why

- What a text says: extraction, parsing, tagging, rendering, BM25, softmax attention, k-means arithmetic,
  embeddings. Pure computation on strings and reals; where its result steers control, any result may come.
- Schemas and argument checks of the tools, REST routes that pass their arguments on, the legacy SSE
  transport and the stdio loop: no state beyond one request.
- The bus wrappers in `router/` (they build items and call the bus), the in-memory stream backend, Chroma,
  dashboards, hardware probes, the Windows installer, vps-gpu.
- Signatures and ciphers: a seal or signature verifies or does not.
- Network clients and the operating system: their outcomes are choices in the models.
- Key wrapping, login window, export streaming and user interface of the desktop application.

Some of what is modelled has no caller in production at this commit, only tests: the sync router, exports
under audit, `DeviceLease`, `sign_policy_snapshot`, admission, prefetch and activity signals,
`OfflineQueryEngine`, `EntityDeduplicator`, the budget, `PersonaEngine`, the selective gates, `BlockIndex`, `MaterialisationPolicy`, and `rrf` of `fusion/`.

## Plan

Done: every component with state of its own has a module, what is left out of each is in its note, and the
safety properties of the stores, the server, the bus, the discovery store, the backends, the devices, the
installer and administration, ingest and publishing are theorems. What a further step could add:

1. The types that remain in `PartsTypeOK`.
2. Lemmas on operators: `MergedAcl`, the label mapping, the gate of tools.
