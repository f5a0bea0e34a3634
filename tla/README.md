# Verification of eden-api

TLA+ specifications of the stateful core of eden-api (`src/api/app`), the TLC
instances that check them and TLAPS proofs about them. Paths below are relative
to `src/api/app` unless they start with `src/`.

## 1. The system

One scheduler process (the leader) collects public data, normalizes it into fact
tables and builds *products*: immutable, content-addressed snapshots in MariaDB.
A stateless API serves them. An operator uses a CLI for import, restore and
reports. All coordination goes through the database: rows, and advisory locks
(`GET_LOCK`) that live on a connection and die with it.

| Component | State | Operations | Correct when |
|---|---|---|---|
| Snapshot store `products/snapshots.py` | payload, snapshot, provenance and head rows; lock `eden:publish:<key>` | publish, restore, retain | readers see one atomic switch; the head is always servable; cleanup keeps what it must; shared payloads survive |
| Product refresh `products/refresh_requests.py`, `run_product_refresh` in `scheduler/runtime.py` | one `product_refresh_request` row per family; locks `eden:product:<family>`, `eden:heavy-write` | mark, claim, complete, defer, build | no mark is lost to an older build; a clean family shows what it was marked with; every mark is worked off |
| Source job `run_source_if_due` | `ingestion_run` rows, locks `eden:source:<source>`, `eden:heavy-write` | due check, schedule, skip, fetch, normalize, mark, complete, fail | nothing fetched is forgotten; one run per idempotency key |
| Ingestion `ingestion/service.py` | `ingestion_run`, `raw_record`, `source_state` | create, start, finalize, pipeline retry, recovery of abandoned runs | status transitions, failure counters and checkpoints agree |
| Leadership `scheduler/runtime.py`, `scheduler/locks.py` | leader lock, heartbeat, job executors | elect, verify, shut down | one leader schedules; an old leader's jobs do no harm |
| Dead letters `normalization/dead_letters.py` | `dead_letter` rows | claim, retry, resolve, quarantine, release | bounded attempts, no letter lost or worked on twice |
| Observation retention `ingestion/retention.py` | raw records, facts | delete old rows in batches | nothing a published snapshot or an open letter needs is deleted |
| Alert enrichment `llm/alerts.py` | translation columns and attempt counters | claim, translate, store, give up | one stored result per revision, bounded attempts |
| Capacity gate `scheduler/capacity.py`, `observability/capacity.py` | samples, cached decision | sample, decide | fails closed on stale or bad samples |
| Source HTTP client `sources/http.py` | budgets of one run | fetch, retry, redirect | budgets are never exceeded, retries are bounded |
| Normalizers `normalization/` | places, relations, forecast and observation rows | translate, merge, replace, replay | newer rows never give way to older ones, totals are of whole runs |
| Read repository `readmodels/repository.py` | payload cache shared by request threads | read head, look up, decode, store | served data is what the head names; the cache's account is true |
| Forecast product and view `products/forecast.py`, `readmodels/` | `source_state` of the holiday source, forecast rows, product | collect, build, answer | "no holiday" is said only on evidence |
| Rotation of sources `scheduler/runtime.py` (`_runtime_scope`), `sources/plans.py` | cursor in the source's registry row | ask, save cursor, seed | nobody is starved |
| Migrations `src/api/migrations/versions` | schema, ledger of owned objects, snapshot rows | upgrade, downgrade, run again | nothing is dropped that was there before; readers notice nothing |
| API, explorer, middleware, dashboard | none | request | responses have their documented shape |
| Observability, soak and pilot reports, CLI, settings, deployment | samples, files | report | reports agree with samples |

What is hard here: publication is six transactions and any of them may be the
last; keys share payloads but not locks; retention works from a candidate list
that ages; a job's locks are on another connection than its work, so they can
vanish under it; claims are taken over after 30 minutes; a former leader's
threads run on after it lost the leader lock; every job may crash between two
commits. `PROJECT.json` lists these hazards line by line.

## 2. Modules

| Module | Models |
|---|---|
| `PublishedReads` | abstract: what the store promises its readers |
| `SnapshotStore` | `products/snapshots.py`: publish, restore, retain |
| `ProductRefresh` | refresh requests, `run_product_refresh`, the end of a source job |
| `SourcePipeline` | `run_source_if_due`, `ingestion/service.py`, `normalize_run` |
| `SchedulerLeadership` | `scheduler/__main__.py`, leader lock and heartbeat of `scheduler/runtime.py` |
| `CollectionRotation` | the cursors of `_runtime_scope` |
| `DeadLetters` | `normalization/dead_letters.py` beside `normalize_run` |
| `ObservationRetention` | `ingestion/retention.py`, over `DeadLetters` |
| `AlertRevisions` | `normalization/alerts.py`, `llm/alerts.py`, retention of revisions |
| `CapacityGate` | `scheduler/capacity.py`, `observability/capacity.py` |
| `SourceFetch` | `sources/http.py` and the run of `sources/public_data.py` |
| `FestivalSchedule` | festival and single-valued rows of `normalization/forecast.py` |
| `PlaceCatalog` | `normalization/places.py`, `place_crosswalk.py` |
| `ObservationRows` | how the other normalizers write and replay rows |
| `ReadCache` | the payload cache of `readmodels/repository.py` |
| `ReferenceCoverage` | the holiday source from its collection to the forecast view |
| `OwnedMigrations` | revisions 0004, 0005 and 0008 |
| `SnapshotBackfill` | revisions 0006 and 0007 |
| `MCSnapshotStore`, `MCSourcePipeline`, `MCRefreshAndSchema`, `MCScheduling`, `MCUpkeep` | values of the constants for TLC; the last three put components side by side |
| `SnapshotStoreProofs`, `ProductRefreshProofs`, `SourcePipelineProofs`, `ObservationRetentionProofs` | theorems about the module they are named after (the last also about `DeadLetters`) |
| `NormalizationProofs` | theorems about `FestivalSchedule`, `PlaceCatalog`, `ObservationRows`, `AlertRevisions` |
| `MigrationProofs` | theorems about `OwnedMigrations`, `SnapshotBackfill` and `MCRefreshAndSchema` |
| `UpkeepProofs` | theorems about `SourceFetch`, `ReferenceCoverage`, `ReadCache`, `CapacityGate` and `MCUpkeep` |
| `SchedulingProofs` | the theorem about `MCScheduling`: leadership, rotations and refresh side by side |

Side by side: components that share no state are checked in one run. A variable
`focus` is chosen in the initial state and names the one component that moves;
the others keep their initial state. The reachable states are the union of what each
component reaches alone, so nothing is lost and nothing interferes.
`ObservationRetention` is different: it extends `DeadLetters`, shares its rows and
its lock, and every step of both interleaves.

### SnapshotStore

One action per database transaction; each process (publisher, restore command,
retention job) is a program counter and its local variables in `job`.

| Action | Code |
|---|---|
| `BeginPublish`, `StagePayload`, `StageSnapshot`, `StageSnapshotFails`, `InsertProvenance`, `MarkReady`, `SwitchHead` | `SnapshotPublisher.publish` and the methods it calls |
| `RestoreChoose`, `RestoreSwitch` | `_restore_previous_with_lock` |
| `RetainList`, `RetainTake`, `RetainSkip`, `RetainErase`, `RetainDrop`, `RetainEnd` | `_retention_candidate_ids`, `retain_snapshots` |
| `Stop` | an error, a lost connection, retention's deadline or pause, a crash |
| `Tick` | the wall clock |

Abstractions. A version is a snapshot id, the hash of all a reader sees; hence
its key, payload and raw inputs are functions of it (`KeyOf`, `PayloadOf`,
`EvidenceOf`). Payload encoding, size limits and validation are left out.
`lock` has one entry per key although the code hashes the lookup key only, so
two endpoints with equal lookup keys also exclude each other: the model allows
more. The wait for a lock is the time between the candidate's `at`
and the moment `BeginPublish` is enabled; `SnapshotPublishBusy` and "already the
head" change nothing. The lock and the work are on one connection here, so
losing the connection is `Stop`. A deletion of a payload that races an insert
referring to it ends in a foreign-key error, `StageSnapshotFails` or `Stop`. A
row in `_insert_provenance` stands for a batch.

### ProductRefresh

One action per transaction again. A fact of a source is a number, so that "at
least as new" is an order; `shown` holds the facts behind each part's published
snapshot, and `marked` the facts a request was last marked with
(`request_watermark`).

| Action | Code |
|---|---|
| `BeginRun`, `Normalize`, `MarkDirty`, `StopRun` | `run_source_if_due` from the heavy-write lock on, `mark_products_dirty` |
| `LockFamily`, `LockHeavy`, `Claim`, `Complete`, `Defer`, `StopWork` | `run_product_refresh`, `claim_`, `complete_`, `defer_product_refresh` |
| `ListParts`, `ReadPart`, `PublishPart`, `RetryBuild` | `refresh_product_family`, `build_regional_snapshots`, `run_with_disconnect_retry` |
| `LoseLocks` | the death of the detached lock connection |
| `Ripen` | `next_attempt_at` is reached, or a claim turns 30 minutes old |

Abstractions. The builders open a first session that lists what there is and
the newest period of it, then one session per part; rows read later belong to
the listed periods but show later corrections, so a part's facts lie anywhere
between the listing and the moment of the read (`Readable`). The publication
of a part is one step: `SnapshotStore` shows it to be one for readers. Deadlines are
abstract, so every relation between backoff, lease and work is covered,
and `attempt_count` appears only as "ripe or not". A worker uses
its newest claim token only, so its name stands for the token.

### SourcePipeline

One source: what `ProductRefresh` takes as its `Normalize` step is here the whole
job, from the due check to the end of the run. One action per transaction.

| Action | Code |
|---|---|
| `CheckDue`, `FindRun`, `Schedule`, `LockJob`, `LockHeavy`, `HeavyBusy`, `SkipRead`, `SkipWrite` | the planning half of `run_source_if_due`, `pending_pipeline_run`, `create_scheduled_run`, `skip_scheduled_run` |
| `Inspect`, `Start`, `Fetch`, `FetchFails`, `Persist`, `PersistFails`, `Finalize` | `start_run`, the runner's fetch, raw batches and `_finalize_run`; `_record_run_failure` |
| `Work`, `NormalizeBegin`, `Normalize`, `Check`, `Mark`, `Complete`, `Release` | `_pipeline_work`, `normalize_run`, `mark_products_dirty`, `complete_pipeline` |
| `Error`, `Fail` | the `except` of `run_source_if_due`, `fail_pipeline` |
| `Recover`, `Quarantine` | `recover_abandoned_runs`; the end of a dead letter |
| `Stop`, `LoseLock`, `Tick` | a crash or an unrecorded error; a lost connection; the next time bucket |

Abstractions. A run's idempotency key is the time bucket it was planned in. A raw
record is its content, since that is what deduplication compares, and a batch
holds one. `reason` and a run's `stage` keep of their texts only the prefix that
the code tests. Due times and backoff are abstract: a source may be due at any
moment. `pending_pipeline_run` takes the run started last; the model
takes any candidate. The heavy-write lock is shared with jobs outside the model,
so it is found free or busy at random. `Recover` applies to runs no process
works on, as a job ends well within the two hours the code waits. The dead-letter
job appears as `Quarantine` only; its retries are in `DeadLetters`. Left out: the capacity pause, and waiting for place
dependencies, which both end the job before it schedules anything. `credited` and `dropped` are
history variables that no guard reads.

### SchedulerLeadership

| Action | Code |
|---|---|
| `TryLead`, `StartJobs` | `start_scheduler`, retried by `run` every 30 seconds |
| `Heartbeat` | `verify_scheduler_leadership` |
| `BeginSample`, `EndSample` | `refresh_scheduler_capacity`, which occupies the only thread that the heartbeat can use |
| `BeginJob`, `EndJob` | any job of the other executors |
| `Shutdown`, `ExitProcess` | `SchedulerRuntime.shutdown` without waiting, the end of the process with its last job |
| `LoseLink`, `ServerNotices`, `DieScheduler`, `AskToStop` | a lost connection on either side first, death, a signal |

The advisory lock belongs to the server's session; what the process believes
(`held`), the state of its connection (`link`) and the server's view (`owner`) are three
variables. What former leaders' jobs may do is the subject of `ProductRefresh` and
`SourcePipeline`, where two processes are at work at a time.

### CollectionRotation

`CatalogRun`, `DetailRun` and `ShopRun` are runs of the Korean catalog (provinces in
the order of how many places they have, or missing overviews) and of the shops
(a batch of the selected places); `SaveCursor` is the registry update after the
fetch and may be lost; `Reseed` is the deployment's seeding of the registry, `Deselect` a place that closes.
A cursor is a position in a list that each run reorders.

### DeadLetters and ObservationRetention

One action per transaction of the dead-letter job (`LettersBegin` to
`RecordOutcome`, `RecordFailure`), of the normalization of a run by a source job
(`RunBegin`, `RunStore`, `RunSettle`, `RunRaises`), of a retention pass (`RetainBegin`,
`RetainProtect`, `RetainFacts`, `RetainLetters`, `RetainRaws`, `RetainStop`), and the
publication and deletion of snapshots. All hold `eden:heavy-write`, so what they
see of each other is what a crashed or paused one left behind. Times are kept as
the comparisons the code makes. A record has one letter, as if there were one error
code; one policy stands for all tables of `retention.py`, and one pass deletes a
batch of each kind.

### AlertRevisions

One document: `NormalizeAlert` (also a replay of an older run), the steps of a batch
(`ListRevision`, `Reserve`, `CallModel`, `StoreTranslation`), its death, time and
`RetainAlert`. Workers do not exclude each other: the enrichment lock is on a
connection of its own. The model is external: its answer is usable or not.

### CapacityGate

`RefreshCapacity` samples, compares with a reference, stores and decides;
`RefreshFails` is any failure on the way; `CapacityTick` is time, during which memory
use changes and samples may be missing. `SourceOpen`, `ProductOpen`, `ExpansionOpen`
and `Ready` are what the jobs and the readiness report compute from the state.

### SourceFetch

A run of the public-data adapter: operations, pages, page windows,
redirects, retries, waits and chunks, each charged to the budgets of requests, bytes, seconds and
records the code shares between them. A page is one unit of bytes and of records. The
server's number of pages is fixed during a run and may be undeclared. `FetchStatus`
and `Complete` are what the run reports.

### FestivalSchedule, PlaceCatalog, ObservationRows

Which row a record ends in and when it may replace what is there. A record is
its source time and what the row shows of it; titles, addresses and distances are
relations between model values (`NameOf`, `Near`, `Within`). Records come, and are
replayed, in any order of their times. `FestivalRow` cuts a record to the window of
`WindowDays` (90 in the code) from today on, passes over one that has no day in it, and includes the
removal of the event from all other days of its area; `HubRow`, `RelatedRow`, `TourRow` and `DetailRow`
include the rows, texts, source maps, relations and evidence that the code writes for one row.
`remembered` is the map of identities that a normalizer's session keeps in `session.info`: a row that
is refused after its places were written (`RefusedRow`) is rolled back, but not out of
this map, and `Standing` believes it before the source map. `told` is the time of the
detail an overview comes from. The
crosswalk reads in one transaction and writes later (`CrosswalkScan`,
`CrosswalkCommit`). `ObservationRows` has the five ways in which the remaining normalizers
write (`discipline`).

### ReadCache

Threads of the API between the two sections under the cache's lock: head, look-up,
decoding outside the lock, storing with eviction. Payloads may be larger than the
cache or damaged. `Evicted` is how many entries the loop of `_store_payload` takes out: the
first number after which the new entry fits, or all.

### ReferenceCoverage

`Plan`, `FetchMonths`, `NormalizeMonths`, `CompletePipeline`, `FailPipeline`, `JobDies`:
the job of the holiday source with deduplicated pages, the state row and the backoff
that `_is_due` computes from it; `BuildForecast`: the product with the dates the last
success vouches for; `ViewAvailability`, `Denies`: the endpoint's answer for every
request. It is the one module that follows data from the source to the response.

### OwnedMigrations and SnapshotBackfill

A revision is a list of statements; each DDL statement commits what was written before it
(`ledger` against `view`); a command may die between any two statements, be refused
by a foreign key, and is then given again. Objects are
those of the three revisions; an object that is dropped takes with it
what belongs to it. `SnapshotBackfill` has the rows: payloads and heads are filled row by
row, columns are dropped and, on the way back, restored. The scans of 0006 and 0007 remember
the row they came to (`progress.at`); nothing else writes the rows while a scan runs, so the next row of the
order is the next one of the code's batch, whatever its offset.
`LegacyAnswer` is the reader before the switch, which the repository no longer holds and
which is external.

## 3. Runs

| Run | Instance | Shows |
|---|---|---|
| `snapshot_safety` | two keys that share a payload, four versions, one publisher and one retention process, both able to restore; `RetiredKept` 1 (the code: 2), one tick | `TypeOK`, `PayloadKept`, `HeadServed`, `LockedWorkUndisturbed`, `NoDanglingEvidence`, `LockOwned`, `RetiredWasServed`, `SafePointKept` and the refinement `ReadsSpec` |
| `snapshot_evidence` | one key, four versions, the code's own `RetiredKept` 2 | a violation of `SafePointEvidence`, see section 5 |
| `refresh_and_schema` | two workers and a source job whose lock connections may die, one family of two parts, three facts, three faults; beside it the migrations of every database of interest with one crash; and the backfill of three snapshots of two keys with one crash | `RefreshAndSchemaTypeOK`, `CompletionIsFresh`, `CleanIsShown`, `NeverOlder`, `FreshMarkNotDelayed`, `PreexistingKept`, `CommandsFinish`, `ReadersUndisturbed` |
| `scheduling` | two scheduler processes with two mishaps; four provinces, two a run, one loss; one leader's product job, two families, two sources, one of them shared, three faults | `SchedulingTypeOK`, `LeaderComesBack`, `AllAreAsked`, `DirtyBecomesClean` |
| `upkeep` | nine small components one at a time, see the bounds | `UpkeepTypeOK` and, of `DeadLetters` `AttemptsBounded`, `ResolvedIsMarked`, of `ObservationRetention` `Traceable`, of `AlertRevisions` `CallsBounded`, `CurrentHasText`, of `CapacityGate` `GateFailsClosed`, of `SourceFetch` `OmissionsAreTold`, of `FestivalSchedule` `NewestDatesListed`, of `PlaceCatalog` `RelationsAreRead`, `NothingGoesBack`, of `ObservationRows` `TotalsAreOfOneRun`, of `ReadCache` `AccountIsTrue`, of `ReferenceCoverage` `SilenceIsExplained` |
| `pipeline_handover` | a leader and a former leader still at work, a source with national scores, two records, two buckets, one fault | `TypeOK`, `CompletedIsShown` |
| `pipeline_fair` | one process that loses its lock, fails or crashes twice; one good record and one the normalizer rejects | `NothingStranded`, `FailedStageEligible`, `RawsProcessed` |
| `pipeline_cohort`, `pipeline_refetch`, `pipeline_retry` | one process | violations of `CohortIsNational`, `FailedRawsResumable`, `RetryIsBounded`, see section 5 |
| `alerts_current`, `coverage_silence` | three texts of a notice; a calendar with one holiday and no failure at all | violations of `OneCurrent`, `SilenceIsProven`, see section 5 |

Bounds. Two processes are enough for a race between any two operations: the
actions of a process depend on others only through rows and one lock per key.
Three versions of a key with `RetiredKept` 1 are the
fewest with a version that retention may delete; the fourth shares its payload
across keys. One tick separates "older than the retention age" from "not".
Three facts allow a mark before, during and after a build; three faults allow two
lost connections and a failure in one behaviour. Two buckets allow a run to be overtaken by the
next one, and two records a run that stores some of what another stored before;
with two faults a retry can fail, too. `MaxTime`, `MaxFact`, `MaxBucket` and
`MaxFaults` bound counters and limit no other guard.

Bounds of `scheduling`: two mishaps allow a lost connection and then the death of the
process that took over. Four provinces with two a run are the fewest whose order
changes under the cursor without each run asking for all of them; a loss stands for a
crash before the cursor is saved, or a closed place.

Bounds of `upkeep`. The model values `v1` and `v2` are the two records, the two batches and the
two readers; since only one component moves, one exchange of them is a symmetry of all. Both
records belong to one run and fill one row, so that a replay of one letter concerns
the other, with a batch size of one; the run is one of a catalog that is replayed whole. Two
attempts are the fewest for which a retry is not the last; two numbers of a revision
allow a text to be replaced and to come back. The capacity gate has disk and
size values below, at and above each limit, and a clock of seven ticks, longer than
every age it compares. The fetch has two operations of one or three pages with a
page limit of two, and budgets that each can be the first to run out. Two
events, an area and its province, three days, a window of two and two record times put two events in one row,
move one of them, cut it, and pass over a record that lies beyond; `ForecastBound` keeps festivals and
single values, which share no row, to behaviours of their own. `CatalogBound` lets one thing vary at a time:
languages and details; or times; or how many TourAPI places a TATS row may name. With the last, both TATS sources bring rows
only where there are no details and the session remembers no more than the source maps say.
`RetentionBound` tries crashes of the dead-letter job and snapshots apart; what holds with both is left to the
proofs, which know none of these bounds. The run has 1.9 million distinct states. Three
runs with equal and unequal source times cover the orders two runs and a replay
between them can have. The cache holds two entries and five bytes, with payloads that fit
together, displace each other, are too large, or damaged. The calendar of `ReferenceCoverage` is
scaled down: a page is two days instead of a month, two months ahead are asked for instead of
three, four days reach instead of 90, a horizon of two instead of 30, freshness of two
instead of 60, one day between collections instead of 30, a cap of one instead of seven,
one retry instead of three. What the scale keeps is the order
`FreshDays + Horizon <= Reach`, an assumption of the module that the code's constants meet
(60 + 30 <= 90): without it a reader could be told of a date nobody vouches for.
`MaxTrouble` is two failures, crashes or midnights in a job; `OneArea` builds one area's product
in a behaviour, because the view of an area reads no other area's product.

Bounds of the migrations: databases with none of the objects, all of the first revisions, a single odd one, or
all but one, each closed under what its objects need. One crash may fall between any two statements, and each
command is given again. Three legacy rows with any of two keys, times and contents include two
published rows of one key and an unpublished one; a fresh row is a publication after the switch.

Deadlock is checked in every run but `upkeep`, `alerts_current` and `coverage_silence`:
there a bounded clock, number or run ends ("done", the last day), which is no fault of the code.

Fairness (`SourcePipeline!FairSpec` and `SchedulingSpec`; every other run uses none). A job
that runs goes on (`WF` of `Step` and `Collect`): its statements have timeouts. The
clock moves (`WF` of `Ripen`). Each family has its own interval job and all
pass through one FIFO pool, so while a family's lock is free again and again its
job starts (`SF` of `LockFamily`). Nothing forces new facts or
forbids faults, but both are bounded: a heavy-write lock that is taken for ever
is outside this run. In `SourcePipeline` likewise: `Step` is weakly fair
(the job is polled, its statements have timeouts), the lock attempt succeeds again and again
(`SF` of `LockHeavy`: the lock is contended, not held for ever) and the dead-letter job
comes round (`WF` of `Quarantine`). This assumes that the
capacity pause does not stay on for ever. In `SchedulerLeadership` jobs and samples end,
systemd restarts what ended, and the server drops a dead session at last (`WF`); the
heartbeat waits behind at most one sample in its executor's queue, so it runs if it can run again and
again (`SF`). In `CollectionRotation` both sources keep their jobs: the catalog
always has something to do (`WF` of `CatalogRun \/ DetailRun`), the shops
whenever there are candidates again and again (`SF` of `ShopRun`).

What is not claimed. `NothingStranded` and `RawsProcessed` except `dropped` runs, those a
crash, an unrecorded error or a failed refetch cut off: their raw records remain, and
deduplication hides them from later runs. They hold for one process; with two leaders a
`SkipWrite` that read the row earlier, or a retry that looks for `reason` earlier, can
overwrite the other's record of a failed stage. `CompletedIsShown` holds for two
processes as long as each keeps its job lock while it works.

The properties stop where the code does. `AttemptsBounded` allows one attempt more for each crash: a claim does
not test the count. `AllAreAsked` assumes that the overviews arrive at last: while one
stays missing, `DetailRun` alone runs and no province is asked. `NewestDatesListed`
speaks of days from today on and of events that stay in their area: an event that moves stays listed in the
old area, and a date that passes before a correction stays (`forecast.py:59-63`). It speaks of what was written when
the newest record was normalized: a record that starts 90 days ahead or later is passed over, so the dates of an older
one stay; one that ends later is written to day 89 and shown as ending there, until it is read again
(`forecast.py:380-383`). `NothingGoesBack` speaks of what a
place shows and of the titles and addresses of TourAPI places: the text of a minted place can be lost with a
rolled-back row, and an overview gives way to that of an older detail that is normalized again, as
`_apply_tour_details` compares no times (`places.py:457-463`). `RelationsAreRead`
allows a relation to be listed twice, and excepts `strayed` identities: `attach_place_alias` notes the TourAPI place of a
row in `session.info` (`place_crosswalk.py:215`), where it stays when the row is refused and rolled back; the next row of
that code in the session, although its title may name no TourAPI place, is written to that place, and the minted
place is not retired, so that nobody reads the relations it had. (`api/KNOWN_GAPS.md:7` has rows without a
certain twin not mapped. Without the exception TLC finds hub row, refused row, hub row.)
`Match` reads the titles as they are, where the code keeps an index for each province and session
(`place_crosswalk.py:76-111`). `TotalsAreOfOneRun` does not say that a total is the total: rows that
were not stored as they had not changed (`ingestion/service.py:590`), or that the normalizer refused, are missing from it,
and it is stored with a completeness of one all the same (`public_data.py:450-512`);
`pipeline_cohort` shows how such a run comes about. It says nothing of "plain" and "grouped"
rows, which have no newest-first guard, so a replay of an older run replaces them; a shop
compares source times only. The crosswalk looks at the first `Limit` candidates only
(`place_crosswalk.py:236-263`): candidates that can never be attached may fill that window for ever.
A record that returns to an earlier content is deduplicated and not normalized again.
`SilenceIsExplained` names its exceptions, which finding `coverage_silence` is about. The
status "processing" that `retention.py` spares is set nowhere, so an old letter under retry may be
deleted; `Traceable` holds all the same. `CommandsFinish`
excepts the foreign key of `canonical_place_id` after a crash (`0004:188-201` adds column and key or
neither) and the column `next_attempt_at` that 0004 leaves on a request table it found; after a downgrade
below 0006 heads are gone and readers are the old ones. The rows of `read_model_snapshot` are not part
of `OwnedMigrations`: a crash between the new column `state` and the `UPDATE` that fills it (`0005:206-211`) leaves
them "staging", as the repeated command finds the column. MariaDB may refuse to drop an index that a
foreign key needs; that refusal is not modelled.

Every property of a passing run has a mutant in `PROJECT.json`, a plausible bug
of the code (a missing second check, a lock not taken, a claim not invalidated)
that the run detects. The mutated operators stand beside the originals.

## 4. Proofs

TLAPS proves, for any values of the constants that meet the named assumptions (any sets of keys, versions,
families, processes, records, batches; any limits and ages):

| Theorem | Establishes |
|---|---|
| `SnapshotStoreProofs!TypeCorrect` | `TypeOK` |
| `!PayloadsKept` | `PayloadKept`, with `TypeOK` inductive: a payload is deleted in the transaction that sees no other row using it |
| `!LocksOwned` | `LockOwned`: the lock table and the program counters say the same |
| `!HeadsServed` | `HeadServed`; the invariant adds that no retention or publication in progress works on a head's row in a way that can change it, which needs `LocksOwned` |
| `!LockedWorkStaysUndisturbed`, `!EvidenceNeverDangles` | `LockedWorkUndisturbed`, `NoDanglingEvidence` |
| `!SafePointsKept` | `SafePointKept` |
| `!OnlyServedRetired` | `RetiredWasServed`: what is the head has been served, and only heads retire |
| `!ImplementsReads` | `Spec => Reads!Spec`: each step is `Serve` of one version or leaves `Visible` unchanged |
| `ProductRefreshProofs!TypeCorrect` | `TypeOK` |
| `!CompletionsAreFresh` | `CompletionIsFresh` |
| `!CleanFamiliesAreShown` | `CleanIsShown` |
| `!ReadersNeverGoBack` | `NeverOlder` |
| `!FreshMarksNotDelayed` | `FreshMarkNotDelayed`: only the holder of the current claim can defer, and a pending row has none |
| `SourcePipelineProofs!TypeCorrect` | `TypeOK` |
| `!CompletionsAreShown` | `CompletedIsShown`, assuming `Fragile = {}` |
| `!FailedStagesEligible` | `FailedStageEligible`, assuming `AtMostOne` process |
| `!NothingIsStranded` | `NothingStranded`, assuming `AtMostOne` process |
| `ObservationRetentionProofs!TypeCorrect` | `RetentionTypeOK`, which contains the types of `DeadLetters` |
| `!AttemptsStayBounded` | `AttemptsBounded` |
| `!AlwaysTraceable` | `Traceable` |
| `!ResolvedWereMarked` | `ResolvedIsMarked` |
| `NormalizationProofs!NewestDatesStayListed`, `!ForecastTypes` | `NewestDatesListed`, `ForecastTypeOK` |
| `!RelationsStayRead`, `!NothingEverGoesBack`, `!CatalogTypes` | `RelationsAreRead`, the action property `NothingGoesBack`, `CatalogTypeOK` |
| `!TotalsStayOfOneRun`, `!ObservationTypes` | `TotalsAreOfOneRun`, `ObservationTypeOK` |
| `!CallsStayBounded`, `!CurrentKeepsText`, `!AlertTypes` | `CallsBounded`, `CurrentHasText`, `AlertTypeOK` |
| `MigrationProofs!PreexistingAlwaysKept` | `PreexistingKept` |
| `!CommandsAlwaysFinish`, `!MigrationTypes` | `CommandsFinish`, `MigrationTypeOK` |
| `!ReadersStayUndisturbed`, `!BackfillTypes` | `ReadersUndisturbed`, `BackfillTypeOK` |
| `!RefreshAndSchemaTypes`, `!RefreshAndSchemaSafe` | `RefreshAndSchemaTypeOK`, and all that run `refresh_and_schema` checks, of its composed specification |
| `UpkeepProofs!OmissionsStayTold`, `!FetchTypes` | `OmissionsAreTold`, `FetchTypeOK` |
| `!SilenceAlwaysExplained`, `!CoverageTypes` | `SilenceIsExplained`, `CoverageTypeOK` |
| `!AccountStaysTrue`, `!CacheTypes` | `AccountIsTrue`, `CacheTypeOK` |
| `!GateStaysClosed`, `!CapacityTypes` | `GateFailsClosed`, `CapacityTypeOK` |
| `!UpkeepTypes`, `!UpkeepIsSafe` | `UpkeepTypeOK`, and all that run `upkeep` checks, of its composed specification |
| `SchedulingProofs!SchedulingTypes` | `SchedulingTypeOK` |

With these, every invariant and every action property that a passing run checks, and the refinement, is a
theorem. An invariant of a component is a theorem about the component's own specification. A step of
a composition is a step of one component and a stutter of the others, so its specification implies each
component's (`UpkeepComponents`, `RefreshOrSchemaComponents`), and what the parts promise holds side by
side (`UpkeepIsSafe`, `RefreshAndSchemaSafe`).

The argument of `CompletionsAreFresh`: `CompletionIsFresh` speaks about the end of a
build only. The inductive invariant `IInv` says of every build in progress whose claim
still matches that its listing, the part at hand and all parts done are at least as new as
every mark (`ClaimFresh`), and that no mark runs ahead of committed facts
(`MarksKnown`). A mark takes the claim away from whoever builds, so newer
marks only concern builds that no longer match; a claim
begins with nothing read. Locks do not occur in the argument, which is why it
survives their loss.

`CompletionsAreShown` is the opposite: the job lock carries it. `Collected` says that every
job between its lock attempt and its release holds the lock (`LocksKept`), that the run of a job at work is not
credited yet, and how far its records are: none raw from `Check` on, none raw or
unannounced at `Complete` (`Progress`). Records change only under the lock, so
no step of another job disturbs this. The exception is `Fail`, which runs after the lock is
given back, and only withdraws a completion. Without `Fragile = {}` the theorem is
false: a second job can then start the same run and complete it while the first
is still storing its records.

Assumptions: `StoreAssumption`, `RefreshAssumption`, `PipelineAssumption`, `LettersAssumption`,
`RetentionAssumption`, `ForecastAssumption`, `CatalogAssumption`, `ObservationAssumption`, `AlertAssumption`,
`CapacityAssumption`, `FetchAssumption`, `CacheAssumption`, `CoverageAssumption`, `MigrationAssumption`,
`BackfillAssumption`, `LeadershipAssumption`, `RotationAssumption`; each stands in its module, and TLC evaluates it in the
runs. They say what kind of thing a constant is (limits are positive numbers, identifiers are distinct), and that
a table the code has before a migration has a last row and a last time. The one inequality is that of `CoverageAssumption`, see
the bounds. `OwnedMigrations` starts from the databases it lists; `PreexistingAlwaysKept` uses of them only `Whole`: an
object has its table and what it refers to.

The other arguments, each the reason why a property that is not inductive by itself holds:

- `WorkSafe` proves `LockedWorkUndisturbed` and `NoDanglingEvidence` together. Key locks keep works on
  different keys apart, and a step changes rows of its own key only; provenance is erased by the holder of
  the lock before the row goes, and inserted by it while the row is there.
- `Erasing` says that what retention is erasing is no safe point. The list of candidates may be old, but the
  second check is made under the key's lock, and the rank of a version changes only under that lock.
- `InTurn` carries `NeverOlder` and `CleanIsShown`. Nothing is shown that is not committed; and while no lock
  is lost, who holds a family's lock has published what its parts show, or what they show is no newer than what
  it may still read. `CleanIsShown` adds `CompletionIsFresh` at the step that turns a family clean.
- `Retries` carries `FailedStageEligible`: at most one run can be resumed, and while there is one the source's
  reason names a stage; hence the next job finds it and no other run is planned. What a job has read before (its
  `Plan`) stays true only because no second job writes in between: with two processes the property is false.
- `Carried` adds to it how far the records of a run are when its job lets go of it. A step touches the records of
  its own run only; a job ends with its run pending, cut off, or done.
- `RetentionSafe` starts from the heavy-write lock: who works holds it (`Exclusive`), so between two steps of one
  nobody else changes its rows, and a claimed group stays the job's own (`GroupHeld`). A letter that may still
  be claimed has an attempt left or a crash to its account (`AttemptLeft`); what a pass deletes facts by is still
  all that snapshots refer to (`Protected`), because nobody publishes while it holds the lock.
- `CallsCounted` bounds the calls made *and* those that live batches may still make by the tries of the row, which
  is counted before the call in the transaction that reserves it.
- `CoverageSafe` follows a holiday from its page to its row: once the page is stored it has a row, never will have
  one, or the page is in the hands of the job or of a run that will be retried (`Accounted`, `Waiting`). A success is
  counted when no page is in anybody's hands (`Settled`), so a product built since has the holidays it is
  vouched for (`Shown`); `FreshDays + Horizon <= Reach` does the rest.
- `ScheduleSafe` adds to `NewestDatesListed` that no row with a day written for the newest record of an event is older than that
  record. So what clears or replaces an item comes from a record that is at least as new, hence from
  the newest, which writes every day of the window in the same step.
- `Sound` says of the place tables that an identity leads to its own place or to a served one, that a relation
  names a place that was written, and that this place is retired in favour of a served one once the identity leads away because a row or the
  crosswalk named that one (`Named`). What the session remembers is the minted place or a served one, too, which
  refused rows do not change. It holds between any
  two rows of one session, so the steps of `Upsert` are followed one by one. What a crosswalk has scanned stays good
  although it writes later, because served places stay served (`Onward`); `NothingEverGoesBack` is the rest of `Onward`.
- `RowsSafe` is `TotalsAreOfOneRun` with two facts more: runs to come have no parts yet, and while no run is accepted the row of
  the visitors is empty, so that the first run accepted, if only by a replay, writes it.
- `FetchProgress` says that, while nothing has gone wrong, each operation before the current one has all its pages or those of
  the window that a notice names, and the current one all up to its page. Budgets do not occur: running
  out of one is an error, and an error is told.
- `AccountIsTrue` is inductive with the types. The work is in the sums: `Sums` is a recursive function, of which
  the proof derives the equation (`Adds`) by induction over positions, and then that taking an entry out lowers the total by
  its size, that evicting a prefix leaves the rest, and that the loop of `_store_payload` ends with a new entry that
  fits (`Evicted` exists by a least counterexample).
- `BeforeSwitch` and `AfterSwitch` cut the migration of snapshots at 0006. Before, the old reader's row is the last
  in the order of the scan; what the scan has passed leaves each head at or behind every row passed (`Unread`), so at its end
  a head is the old reader's row, and only then are the others retired. A death starts the
  scan anew over rows that are already linked. Afterwards heads answer; the columns that come back are filled from
  the payloads up to the row the restore came to.
- `CommandsFinish` rests on three parts: the types with the place of a command in its lists (`MigrationTyped`); that an applied
  revision, the steps an upgrade has passed and the objects of the step at hand exist (`AllServed`), at any number of crashes; and,
  while there is none, that each object not there before is noted in the ledger with its statement of a downgrade still to come
  (`ObjectsNoted`), that the ledger has no rows of later revisions (`RowsPlaced`), and that the committed
  ledger follows what the command sees (`LedgerFollows`). A downgrade that ends has dropped what
  the ledger notes, and that is all.
- `Keeping` says that rows of the ledger, committed or not, are of objects that were not there before (`OursOnly`),
  and that a step which has begun to create found its first object missing (`Working`). A row
  may outlive its object or come before it; it is never of an object that is not the migration's.

Induction. The theorems of the library that take an operator are beyond the provers here; where a proof goes by induction, it
does so with sets: a least element of the set of counterexamples (`LeastNumber`, `UpTo`), from the
well-foundedness of `<` on the naturals (`WFMin`, `NatLessThanWellFounded`).

Only model-checked, without a theorem: liveness, which is beyond the prover (`DirtyBecomesClean`, `RawsProcessed`,
`LeaderComesBack`, `AllAreAsked`), and the six violations of section 5, which are counterexamples.
The proofs are about the specifications without fairness, which those of the fair runs imply; `SchedulingTypes`
is about `SchedulingSpec` itself.

## 5. Findings

`src/api/README.md:168` says cleanup keeps "the current snapshot and two recent
retired versions, preserving their referenced facts and source evidence".
`retain_snapshots` deletes a superseded version's provenance in transactions of
its own before it deletes the version. If it stops in between (its deadline,
the pause on active runs, a crash), the version stays, stripped. Should a *newer*
retired version then become the head again, by restore or by republication, the
stripped one is among the two recent retired versions, kept and restorable
without evidence. Run `snapshot_evidence` shows it. What the code does guarantee
is `SafePointKept`: nothing is taken from a version while it is a safe point.

`_skip_incomplete_national_cohort` (`normalization/public_data.py:736`) promises: "Never
replace national relative scores with a truncated region population." It looks at
the run's fetch errors; the scores are computed over the run's own raw records,
and a record stays with the run that stored it first (`ingestion/service.py:591`). After an
incomplete collection, the next complete one owns only the regions
that were missing and scores them among themselves. Run `pipeline_cohort` shows it.

`src/api/tests/unit/test_ingestion_batching.py:68` calls a run that failed while storing raw batches
resumable ("pipeline:raw"). Resuming it fetches again; a fetch that fails then is
recorded at stage "fetch" and the records stored before are never normalized. Run
`pipeline_refetch`.

`fail_pipeline` (`ingestion/service.py:439`) makes a failed stage "eligible for bounded retry". It
is also reached after a fetch that was unavailable, by an error in the few statements behind it.
The run then has nothing to normalize and a fetch status that sets it failed on each retry;
as a pending pipeline run comes before a new fetch, the source stays with it. Run `pipeline_retry`.

`src/api/tests/unit/test_upstage_alert_enrichment.py:234` promises enrichment of "only active current
revisions". The normalizer numbers a new text `current_revision + 1`, and sets `current_revision` back when
an earlier text returns (`normalization/alerts.py:311`). The next new text gets a number that a superseded revision
has: both are joined as current, readers list the notice twice and the superseded text is paid for. Run `alerts_current`.

`products/forecast.py:18-20` argues: "A fresh successful run therefore proves that dates
without rows inside that window have no event." The rows of a month's page are written by the run that first stored the
page, bounded to 90 days from *that* day; later runs find the page stored and normalize nothing of it, yet their success
vouches for 90 days from *their* day. A holiday in the second half of the last month asked for is
denied. Run `coverage_silence`: no failure is needed.

## 6. Not modelled

- The translation of source records field by field (`normalization/public_data.py`,
  `inbound_sources.py`, `places.py`), the parsing of each source's responses and the adapters beside
  `public_data.py`: each is a function from one record to one row without state, and a model of it
  would be its transcript. Modelled is what happens to the rows.
- The arithmetic of the product builders (trend, inbound, crowding) and of the
  soak and pilot reports: floating-point or decimal aggregates, which TLC does not have.
- Response shapes of the API, explorer queries, middleware, dashboard: read-only, no state beside the
  payload cache.
- Host validation, TLS and the encoding of requests in `sources/http.py`.
- Revisions 0001 to 0003 and those after 0008: plain lists of statements without a ledger or moved data.
- Settings, constant tables, systemd units.
- The language model and MariaDB itself, which appear only through how the code uses them.

## 7. Plan

Done: `SnapshotStore` with `PublishedReads`, `ProductRefresh` and `SourcePipeline`; leadership,
rotation, dead letters, retention, alerts, capacity, fetching, the row disciplines of the normalizers,
the cache, the holiday coverage and the migrations. Proved is every safety property
that a passing run checks, under the conditions of the table in section 4, which the runs of `SourcePipeline` meet.

Left: an abstract specification that every committed raw record is normalized or reported,
as a refinement of `SourcePipeline`; social posts; watermarks of `source_state`; contention for the heavy-write lock
between families and sources (the runs assume it is free again and again).

Proofs to come: `NothingStranded` for two processes, with the exception that `SkipWrite` makes; one leader at a
time for `SchedulerLeadership`, as long as the server's session lives; bounds on what `CollectionRotation` may pass over.
