# Verification of template-fastapi

TLA+ models of the stateful parts of this repository, TLC configurations that
check them on small instances, and TLAPS proofs that hold for every instance.
`PROJECT.json` maps every definition to the lines it models, lists the runs, the
hazards each property is aimed at, the mutants that show each property can
fail, the findings and the theorems.

    tlc -workers 2 -config StatsCache_canary.cfg MCStatsCache
    tlapm StatsCacheProofs.tla

Paths below are relative to the repository root.

## 1. Inventory

The repository is a template: a FastAPI application (`src/app`) and the
automation that a project made from it inherits (`.github`). The CRUD engine
(`craftainer_crud`), PyJWT, `limits`, Redis, the event broker, GitHub Actions
and `gh` are external and are modelled from how the code here uses them.

| Component | State | Operations | Where it is hard | What makes it correct |
|---|---|---|---|---|
| Stats cache, `cache.py` | Redis entries keyed by resource, app version, query | `get`, `set`, `invalidate`, `run_invalidation` | fills race writes; transient subscriptions; partial SCAN/UNLINK; swallowed Redis errors; two app versions in one Redis | no entry is forgotten; staleness is bounded whatever fails; no version serves another's shape |
| Writes and events, `crud_1/analytics_events.py`, `maintenance.py` | the table, published events | create/update/delete, purge | commit and publication are separate; the purge publishes nothing | (the cache's properties) |
| Bearer tokens, `oidc.py` | lru_cache of the JWKS client, its set cache and key cache | prefetch, discover, resolve key, verify, role check | outage in part, rotation, two threads discovering at once, warm check then use | only genuine tokens reach a handler; an outage leaves no wedge behind |
| Lifespan, `main.py` | what is open, the invalidation task | startup steps, cancel, nested releases | cancellation meeting an error; one release failing before others | everything is released, after the task ended; shutdown ends |
| Rate limiting, `rate_limit.py` | a counter per client and route in Redis | hit | window edges, several processes, Redis outage | bounds per window and per span; no self-inflicted lock-out |
| Health checks, `health_checks.py` | lazily built registry | build, check, close | built or not at shutdown; not at all in mock mode | (in Lifespan) |
| Configuration, `config.py` (with `db.py`, `well_known.py`) | none: one environment | ten validators, fallbacks between variables | the address that is checked is not the one that is used | a started process does nothing its mode forbids |
| Migrations, `alembic/` | revision, tables, columns, rows | six upgrades and downgrades, one transaction per command | replicas and an operator migrating at once, stale plans, deadlock, a failed statement half way | schema and revision agree; nobody serves on an old one; no hero is lost |
| Hero resource, `crud_1/heroes`, `views/` | rows of `heroes` | create, save a draft, update in v1 and v2, convert | two API versions over one row | a client changes only what it sends; v1 reads are valid |
| Headers, problems, audit, mock controllers, analytics consent | none, or constant | pure functions of a request | – | – |
| Issue moderation, `.github/workflows/moderate-*.yml`, `moderate_*.sh` | issue labels, branch, pull request, concurrency group | triage, confirm, build, apply, cleanup, reset | displaced runs, crashes between push and label, foreign pushes, close/reopen at any time | an open issue ends in a label backed by work; a closed one is clean; nobody's work is lost |
| Release, `.github/workflows/release.yml`, `verify_release_tag.sh` | runs, tags, drafts, releases, manifest lists, packages | version, build, check, release, publish, re-run | two runs with one version; failure after publication; re-runs | one commit per version; packages match; nothing orphaned |
| Version arithmetic, `compute_next_version.py` | none | next tag | gaps, pre-release series, deleted tags | the next version is new and advances |
| Asset assembly, `assemble_dist.py` | claimed paths, stage, `dist/` | claim, extract, rename | one remembered arch per shared directory | no clash kept, no false refusal, never a partial `dist/` |
| Template sync, `template_sync.py`, `template-sync.yml` | state file, sync branches, pull requests, the instance's files | select a tag, replace tier, merge tier, check the outcome, push, open the pull request | overlapping runs, late merges, a run that stops half way, an exit status with two meanings, edits, deletions and links of the instance | the state file tells the truth; no edit is lost; conflicts are announced; never backwards |

How they interact: a write (through the library) publishes an event that every
replica's `run_invalidation` turns into `cache.invalidate`; the lifespan starts
and cancels that task and closes the cache's client. The release workflow calls
the version script first and the assembly script between build and check. Triage
and build of one issue share labels, a branch and one concurrency group; nothing
else connects the automation with the application. The environment decides what
a process does before it does anything; its startup migrates a database that the
other replicas, the operator's `alembic` and, through them, the clients of both
hero versions share: that is the composition `Rollout`.

## 2. Modules

| Module | Models | Extended by |
|---|---|---|
| `BoundedCache` | what a cache of computed bodies promises (abstract) | – |
| `StatsCache` | cache, requests, writes, invalidation task; implements `BoundedCache` | `MCStatsCache`, `StatsCacheProofs` |
| `Oidc` | token validation of one process | `MCOidc`, `OidcProofs` |
| `Settings` | validators and fallbacks (operators only) | `Lifespan`, `Baselines` |
| `Baselines` | environments to start from (data) | `MCLifespan`, `MCRollout` |
| `Lifespan` | startup, shutdown, the task's control flow | `MCLifespan`, `Rollout`, `RolloutProofs` |
| `Migrations` | the alembic chain and how commands run it | `Heroes` |
| `Heroes` | the hero's shapes and converters (operators only) | `Rollout` |
| `Rollout` | `Lifespan`, `Migrations` and `Heroes` composed | `MCRollout`, `RolloutProofs` |
| `RateLimit` | the limiter and its fixed window | `MCRateLimit`, `RateLimitProofs` |
| `Moderation` | one issue's pipeline | `MCModeration`, `ModerationProofs` |
| `Versions` | tag arithmetic (operators only) | `Release` |
| `Release` | concurrent release runs | `MCRelease`, `ReleaseProofs` |
| `AssembleDist` | merge of the build legs | `MCAssembleDist`, `AssembleDistProofs` |
| `TemplateSync` | sync runs and their pull requests | `MCTemplateSync`, `TemplateSyncProofs` |

Definitions whose comment begins with `Mutant:` are deliberately wrong variants
of the definition that follows; no specification uses them.

### StatsCache

A body is the table version it was computed from and the app version that built
it. `Hit`, `Miss`, `Set`, `SetFails` are a `/stats` request: `get`, the
computation by the library's router, `set` with `ex=ttl`. `Commit`/`Publish` and
`PublishFirst`/`CommitLast`/`Rollback` are a write: the library owns the
transaction, nothing in this repository fixes the order of commit and
publication, so both are allowed. `PurgeArchived` is
`python -m app.maintenance`. `Subscribe`, `HandleEvent`, `Scan`, `Unlink`,
`InvalidateDone`, `InvalidateFails`, `StreamFails`, `Retry` are
`run_invalidation`; SCAN visits slots in any order and returns a key only if it
is there then, and UNLINK works on gathered batches, so a fill can slip between
the two. `LinkDrop` and `Restart` are a lost broker session and a replaced
process. Time is relative: `Tick` is one second.

`raced` and `failed` are history: whether a fill overlapped a write, and whether a
replica with a session lost its last chance to invalidate (an event the broker
never accepted, a Redis error, the purge); without a session, the next one
starts with an invalidation.

`BoundedCache` knows nothing of events, Redis or replicas: a body enters by a
fill that read the table at most `Grace` seconds ago, may be forgotten at any
time, never changes or comes back, and is gone `Limit` seconds after a write made
it stale. `KeepsContract` is the refinement: the slots are the pairs of a key and
a version's namespace, `Grace` is the longest fill and `Limit` the TTL plus that.

### Oidc

The provider's discovery document and JWK set fail and recover independently
(`ProviderChanges`), and its keys rotate. `Arrive` is
`decode_bearer_token_async` with `_jwks_is_warm`; `Discover` is
`_get_jwks_client` under `lru_cache` (a failure is not cached, a thread that was
overtaken keeps its own client: `own`); `KeyCached`, `KeyMissing`, `Fetch`,
`FetchFails` are PyJWT's `get_signing_key_from_jwt` with `cache_keys=True`;
`Verify` and `RequireRoles` are `jwt.decode` and the role dependency.

### Lifespan

`pc` is the lifespan coroutine, `task` the invalidation task. Each step may raise
where `Failures` says; the nested `finally` blocks are the two targets of
`Step`. A cancel is delivered at the task's next await; inside the stream it
first unwinds `aclosing`, which may itself raise (`UnwindRaises`); `swallowed`
is history, whether it ever did.

`Init` takes an environment that `Settings!Starts` accepts; `lapses`, `mock`,
`migrates` and `cache` are what follows from it. `Tolerated` is the one lapse that no
validator prevents, the connection of the process's own startup migrations; `lapses`
holds all others, and `KeepsToItsMode` says there are none.

### Settings

An environment is a record of what the variables hold, reduced to what the
validators and the clients tell apart (a URL is its scheme, a secret is there or
not; `policy` stands for the policy and canonical URLs of security.txt, `oneLine`
for its four values being printable lines). Each validator is an operator of its own; the fallbacks (`ExpectedIssuer`,
`DiscoveryUrl`, `ResourceUrl`) are separate from them, because the code that uses
an address does not ask the validator which variable it looked at. `Lapses` is
stated over what is used: the engine of the requests, with `POSTGRES_SSLMODE`, and
separately the engine that `alembic/env.py` makes for a startup's migrations, without
it. "Set" means not `None`: an empty string is not told apart from a value. A
malformed database or Redis URL, which fails where it is used, is not an environment.

### Migrations, Heroes and Rollout

A migration is the sequence of its statements over a database with a revision,
tables, nullable or non-nullable columns and rows. `ds | s` is what Postgres makes
of each database of `ds` by the statement `s`, and leaves out those on which it
cannot be executed: a migration is a pipeline `ds | s1 | s2 ...`, and no outcome
means that its transaction is aborted. `PlanUpgrade` reads the revision before any lock is taken, as
alembic does, so a plan may be stale when `TakeTable` gets the table;
`Migrated` then fails on the version row or on a statement. 4733a4dd6da9 begins
with a DELETE, which does not lock others out, so two plans that begin there
deadlock (`Deadlock`) and Postgres fails one.

`Heroes` has the payload shapes as functions from the fields that were sent, so
that "not sent" and "null" are different, and the three converters. Which fields
clients write besides name and powers is a constant, `MoreFields`: `power_level`, the
flags and times of the lifecycle columns, or some of them. `"set"` is any value a client
chose, which `Inserted`'s defaults (`"flag"`, NULL) are not. `PatchV2` also covers
publish, archive and restore, whose routes are `craftainer_crud`'s: to this table they
are updates of one field. Where that library refuses an update (of a locked
hero, or of another's), the model has it too, so it has more behaviours than the code.

`Rollout` extends both with `Lifespan`: the process `self` with its whole life,
the other replicas reduced to migrating, serving and being replaced, the
operator's `alembic` (`cli`: upgrade or downgrade by one), and clients that
write while somebody serves and no migration holds the table. `Lifespan.Migrate`
takes its outcome from the transaction. `heroes` is history: the fields clients wrote
of each hero. A downgrade of the operator takes from it what the revision it leads to
has no column for (`Kept`), so `HeroesSurvive` says at every revision from `owner_id`
on which fields are still there, with which values, and which are gone for good.
`Consistent` is what the repository takes for granted of a database and what the
runs and proofs show it never loses: the schema of its revision, written out
(`Columns`, `TablesOf`) and not computed from the statements, and rows that satisfy it.
All replicas are of one release.

### RateLimit

`Hit` is one atomic increment-and-expire of the library and the wrapper's
decision; `count` is capped one above the limit, where it no longer changes
anything. `within` is history: how many requests were admitted in the last 0, 1,
… seconds and the current one.

### Moderation

`group` is GitHub's concurrency group with `cancel-in-progress: false`: one run,
one pending run, a newer pending run displacing the older. Every phase of a job
that touches shared state is a step of its own: strip labels, close the pull
request, delete the branch, read the remote tip, push with the lease, open the
pull request, set the label. What Claude produces is any of the outcomes the
apply scripts distinguish. Bug and feature pipelines are the same scripts with
other names, so one kind is modelled, and the other kind's triage workflow
appears as the run `other`, which takes a place in the group and does nothing.
`lost` is history: tasks whose latest run was displaced or died.

### Release and Versions

A run carries the job a re-run would start with, since "re-run failed jobs"
keeps the outputs of the jobs that had ended. `Enqueue`/`StartWaiting` are the
group `release-<tag>`; `Existing`, `VerifyTag`, `LookupFails`, `Finalize`,
`CreateDraft`, `PublishRelease`, `CloseRelease` are the release job;
`DeleteTag`/`RestoreTag` are a maintainer's hand. A run refused because its tag belongs
to another commit is not re-run: the script's error says to dispatch a new one.
The per-arch image push is left out because the manifest list names the digests
in the run's own `dist/`, not the pushed tags.

### AssembleDist

`Claimable`, `DirsAfter` and the leaf record are `_claim`, with its
`setdefault` and its `leaves.get(path) or dirs.get(path)`. A tarball is any
sequence of files and directories. The pre-flight checks, the rename and the
`finally` are the steps of `assemble`; `before` is what `dist/` was when it began
(absent, empty or something else). `Clean` removes the stage or, because its `rmtree`
ignores errors, does not, and no property claims that it does. `AllOrNothing` has one
exception, `Vanished`: between `rmdir` and `rename` there is no `dist/`, and if the
rename fails an empty one stays away. A path that a link of the same leg stands for
under two names is not tracked; `data_filter` keeps links inside `dist/`.

### TemplateSync

A file's text is the set of its lines, so a three-way merge is set arithmetic;
whether two changes also collide is git's choice (`MayCollide`), and a collision
leaves a line of its own in the text, `Marker`. A run is check
out, select, apply, push, open; `Apply` is the apply step together with
`check-apply` and `write-state`, `Failed` every way it may stop (exit 2, a crash
with 1 and no summary), with the replace tier written or not: the workspace is
thrown away with the run. The pull requests are merged, closed, resolved and
their branches deleted by people; `Edit` is a commit to main that adds a line,
deletes a file or makes it a link, which it then remains. Tags that no run may ever select (no version,
or another channel's) are there from the start, the bootstrap runs only while
there is no state file, and nobody deletes a branch while a run is about to open
its pull request.

`is_symlink` looks at the last name of a path. If the instance makes a directory of a
path a link (`Linked`), apply follows it and reads, writes and unlinks what lies
behind: `Behind[p]` is that path, one of the instance's own that the template does
not know, and `Where` leads from either to the other. So a sync then changes `Behind[p]`
by the tiers of `p`, and moves the state file on without `p`; `StaysInItsTiers` and
`ConflictsAnnounced` say what is changed and listed in that case, `ReplaceInSync` and
`MergeInSync` except it (`Astride`). A link to no directory makes `mkdir` raise, which
is one of the outcomes in `Failed`; a link out of the checkout changes what is not in
the tree. Replacing a directory that has files by a link is not modelled (`Room`), nor
is a link to another path of the template. `Obstructed` says when apply cannot succeed,
because a file stands where a directory has to be or the reverse.

Three history variables say what the instance may have of its own: `touched` the
paths it changed since a sync last overwrote them, `own` the files that hold its
line, `astray` the paths it deleted or linked, or the template dropped, until a
sync brings the file back. They change with `Edit`, and with a merge that moves
main to another tag. A deleted file of the merge tier comes back with the next sync, as
the template has it (`template_sync.py` lines 324-328), a link or a file that the template
dropped does not: until then `MergeInSync` says nothing of an astray path. `NeverBackwards` compares versions within the
channel only, because that is all `latest_tag_for_channel` looks at: an instance
created from a tag of another channel goes to the newest of its own channel, be
that older or newer.

## 3. What the runs check

Every property has a mutant in `PROJECT.json`: a plausible bug in the mapped
code under which TLC finds it violated.

| Run | Checks | Bounds, and why they are enough |
|---|---|---|
| `cache_canary` | `StaleIsPending`, `OwnShape`, `StalenessBound`, `KeepsContract`, `TypeOK` | two replicas of two versions, one key, one request, one writer and one write: the race needs one fill, one write and one partial invalidation; two versions make two slots, so with `ScanCount` 1 a round has two batches. TTL 1 and a longest fill of 1 second: a body can be stored as old as a fill may be and then live its whole TTL |
| `cache_ttl_claim` | finding 1: `TTLBoundsStaleness` fails | one fill, one write |
| `oidc_keys` | `OnlyGenuine`, `HealthyMeansAccepted`, `TypeOK` | two requests (two threads at once), two keys (a rotation), three changes (break, rotate, recover); any initial provider. Requests and keys are interchangeable: symmetry |
| `oidc_outage` | finding 3: `OutageAnswers503` fails | one change |
| `rollout` | `TaskEndsFirst`, `AllReleased`, `ShutdownEnds`, `KeepsToItsMode`, `SchemaMatchesRevision`, `ServesAtHead`, `HeroesSurvive`, `V1ReadsValid`, `RolloutCompletes`, `RolloutTypeOK` | every step of the lifespan that calls out may raise; every environment with up to two groups of variables changed from the production settings of `tests/unit/test_config.py` or from the defaults (a check that looks at the wrong variable needs two); `self`, one other replica and the operator: three runners, so a plan can be stale, deadlocked and overtaken; an owned hero at revision 4, so that one upgrade adds all the lifecycle columns and `power_level`, further revisions by downgrade (the empty database is `UpgradesAlwaysWork`'s, a proof); one hero id, one name, one power, one list of two; `power_level` as the field clients write besides (with the lifecycle fields the state space is beyond five minutes; the proof covers all of them); two deaths, replacements or downgrades |
| `lifespan_cancel` | finding 4: `CancellationPropagates` fails | the same lifespan alone |
| `rate_window` | `AdmissionBound`, `NotLockedOut`, `TypeOK` | limit 2, window 3 s, two clients: two windows fit in one span, and a limit above one tells `<` from `<=` |
| `moderation` | `OpenIssueSettles`, `ClosedIssueIsClean`, `KeepsForeignWork`, `ConfirmConsumed`, `TypeOK` | five actions of people or other pushers and four commits: confirm, push, close, reopen, confirm again fits; crashes are unbounded |
| `moderation_reopen` | finding 2: `ReopeningRestartsTriage` fails | three actions, no faults |
| `release_runs` | `OneCommitPerVersion`, `PackagesMatchRelease`, `NoOrphanRelease`, `VersionAdvances` | three runs (one releasing, one waiting, one that displaces it), two commits, a full and a pre-release request, one job failure or deleted tag at any step, unlimited re-runs; the history has a gap and a pre-release beyond a full release. Runs are numbered in dispatch order, which loses nothing |
| `template_sync` | `ReplaceInSync`, `MergeInSync`, `ConflictsAnnounced`, `StaysInItsTiers`, `RerunIsQuiet`, `NeverBackwards`, `TypeOK` | two overlapping runs (interchangeable: symmetry), v1 and then the tags of the instance's channel in any order: v9 and v10 (`v10` sorts before `v9` as text), or v9rc; the other channel's tags and one that is no version are there from the start, since no run may ever select them; ten paths, one for each case of the tiers: an executable, a dropped file, a text both sides change, a binary, one that two tiers match, a directory that comes with v9 with one file of each tier in it, the two paths behind these and the directory's own name, which the instance may make a file or a link; one edit. A file that the template itself makes a directory is left to the proof |
| `assemble_legs` | `NoClash`, `RefusalsAreClashes`, `AllOrNothing` | three legs over a path, one below it and one below that, over an absent, an empty or a filled `dist/`: the shortest case in which a file meets a directory shared by two other legs. Legs are interchangeable: symmetry |

`MaxFill` is an assumption about the environment: nothing in the code bounds a
query (`db_command_timeout` defaults to none), so the bound of `StalenessBound`
is only as good as the longest fill a deployment allows. `MaxInbox` caps a
broker queue at one event, since every event has the same effect.

Fairness:

- `Moderation.FairSpec`: a step of the automation that can be taken is taken;
  every job has a time limit and GitHub starts pending runs.
- `Lifespan.FairSpec` (`lifespan_cancel`): the event loop runs the coroutine and
  the task when they are ready. Nothing forces a shutdown to be asked for.
- `Rollout.RolloutFairness`: the same for `self`; Postgres executes what is not
  blocked, so a replica's or the operator's transaction that can go on does (a
  deadlock ends because `deadlock_timeout` is always on, and either victim is
  possible without fairness: whoever is left advances); a replica that failed to
  start is started again, which any orchestrator does. The operator need not
  start anything, and nobody need die.
- `RateLimit.FairSpec`: time passes.
- `StatsCache`, `Release`, `Oidc` and `TemplateSync` state safety only: the cache's
  promise is a bound on time and not an eventuality, re-runs and merges are a
  human's choice, and answers of a request are covered by what they may be.

Deadlock is checked except for `Moderation`, `Release` and `TemplateSync`, which
come to rest when their bounded events are used up; `Lifespan` (and with it
`Rollout`) and `AssembleDist` have an explicit final state.

## 4. What is proved

Eight modules hold proofs. Each proves an inductive invariant `Inv` (`RolloutInv`
for a deployment) with `Init => Inv`, `Inv /\ [Next]_vars => Inv'`, and draws its
theorems from it; `RolloutProofs` has both, `Inv` for the process alone.

**StatsCacheProofs** (assumption `TimeAssumption`: TTL, `ScanCount` and
`MaxInbox` positive, the other bounds natural). `TypeCorrect`,
`NoForgottenEntry` (`StaleIsPending`), `VersionIsolation` (`OwnShape`) and
`BoundedStaleness` (`StalenessBound`), for any replicas, versions, keys,
requests and writers, and `ImplementsContract` (`KeepsContract`): every step of
the cache is a `Fill`, `Forget`, `Write` or `Tick` of `BoundedCache`, or a stutter. The bound is not inductive: an entry about to expire and
one just stored look alike. `AgeBudget` adds the two clocks, the seconds stale
and the seconds left, to at most `TTL + MaxFill`; `FillAge` gives it at `set`
(a body is no staler than its fill is old), `CurrentIsNew` gives `FillAge` at
the read. `OwnShape` needs `KeyedByShape`: an entry's namespace is the version
that built it. `StaleIsPending` is inductive together with the type invariant.

**OidcProofs** (`OidcAssumption`: a natural bound, and the marker for an
unparsable header is no key). `TypeCorrect`, `HandlersAreAuthorized`
(`OnlyGenuine`) and `NoWedge` (`HealthyMeansAccepted`), for any requests, keys
and number of provider changes. `CachesPublished` says the caches hold only keys
the provider has published, `StageOK` what a request at each stage has
established, `CalmOK` that a calm request's provider is still healthy and has
not been blamed.

**AssembleDistProofs** (`AssembleAssumption`: at least one arch, `None` is not
one, the parents of a path are paths). `LegsDoNotClash` (`NoClash`),
`RefusalsAreJust` (`RefusalsAreClashes`) and `DistIsWhole` (`AllOrNothing`, with its
exception), for any legs, any paths and tarballs of any length. The argument is why one
remembered arch per directory is enough: `FilesOnRecord` and `DirsOnRecord` tie
the records to what was extracted, `InTurn` says the legs come one after the
other, and `FirstClaimant` that a directory recorded for the current arch has no
other claimant, because `setdefault` keeps the first.

**RolloutProofs** (`EnvironmentsAssumption`: the environments are environments;
`RunnersAssumption`: the process, the others and the operator
are different; `BeginAssumption`: a deployment finds a consistent database;
`PayloadsAssumption`: the lists clients send are non-empty lists of powers;
`FieldsAssumption`: the other fields they write are `power_level` and lifecycle
columns; `NullAssumption`: NULL is none of the tokens; `FaultsAssumption`).

Of the process alone: `TypeCorrect`, `ModeIsKept` (`KeepsToItsMode`), `TaskFirst`
(`TaskEndsFirst`) and `NothingLeftOpen` (`AllReleased`), for any set of
environments and any set of steps that raise. `ValidatorsSuffice` is the pure part:
whatever `Settings` accepts has no lapse but `Tolerated`, for every environment and not only for
those within two changes of a baseline. `TaskInPlace` says where there is a task
and where there is none, `ReleasedSoFar` which releases have been tried at each
step: together they make `AllReleased` inductive.

Of the process in a deployment: `RolloutIsLifespan`, the composition implements
`Lifespan` (each of its steps is a step of the process or leaves it alone), so `ReplicaIsSafe` carries the three properties over to a
replica among any number of others.

Of the database, for any replicas, hero ids, names, powers and payloads, and any
consistent databases to begin with: `RolloutTypeCorrect` (`RolloutTypeOK`),
`SchemaKept` (`SchemaMatchesRevision`), `ServesOnlyAtHead` (`ServesAtHead`),
`HeroesKept` (`HeroesSurvive`), `V1StaysValid` (`V1ReadsValid`) and
`UpgradesAlwaysWork`: from the empty database on, no upgrade of a consistent
database can fail, so the only failures are races, deaths and stale plans. The argument has four
layers. Each kind of statement leads from one shape of databases (nullable
columns, required columns, tables) to another, and can be executed where it
should (`Added`, `Dropped`, `Altered`, `Updated`, …). Each migration, as a chain
of statements, leads from the shape of one revision to that of the next or back
(`AddHeroesLeads` … `DropPowerLevelLeads`), and from `owner_id` on leaves of every
hero all fields that both revisions have a column for (`MigrationsShow`,
`UpgradeCarries`, `DowngradeCarries`). A transaction keeps `Migrating`: what is
committed is sound and carries what clients wrote, as far as downgrades have left it
(`Committed`), the one transaction that holds the table works on a sound database that
carries what will be left when it commits (`Uncommitted`, `Promised`), and a plan is the upgrades still missing, or one downgrade that
the operator asked for (`Plans`). And a write, insert or update, keeps it because
the table is usable only at the head (`UsableAtHead`), where the columns are the
model's. None of the properties is inductive alone: what a commit makes of the
database was decided when its plan was read and when the table was taken, which is
what `Plans` and `Uncommitted` remember. `MigratedFirst` ties the lifespan to it:
past its migrations, a process that migrates has had its plan done.

**RateLimitProofs** (`RateAssumption`: limit and window are positive).
`TypeCorrect` and `Bounded` (`AdmissionBound`), for any limit, window, clients,
routes and number of requests at once. The bound is not inductive: two spans with
as many admissions may differ in how soon the next window opens. `OpenWindow` says
that an open window has admitted what it counted since it was created, and that
everything older in the span belongs to one former window that has already lost
its first hit (`within[b][Window - 1] < within[b][AgeOf(b)] + Limit`); `NoWindow`
that between two windows less than the limit is left in the span.

**ReleaseProofs** (`ReleaseAssumption`: natural bounds). `OneCommit`
(`OneCommitPerVersion`), `PackagesMatch` (`PackagesMatchRelease`) and `NoOrphan`
(`NoOrphanRelease`), for any number of runs, heads and faults. `Exclusive` is the
concurrency group: one run of a tag releases at a time. Under it, what
`AboutToRelease` says of a run (no release of its tag, no foreign draft, its own
manifest list) cannot be spoilt between the check and the publish. `InOrder` and
`Completes` tie the job that a re-run starts with to what is already released.
The tag that `Version` computes plays no part: the argument holds for any tag.

**ModerationProofs** (`ModerationAssumption`: natural bounds). `TypeCorrect`,
`ClosedClean` (`ClosedIssueIsClean`), `OpenSettles` (`OpenIssueSettles`) and
`ForeignWorkKept` (`KeepsForeignWork`), for any number of events, commits and
faults. None of the three holds of a state alone: `ClosedStage` says where the
cleanup of a closed issue is (waiting, going on, or over, with nothing behind it
that could push again, because a build finds no branch at its gate), `OpenStage`
the same of the triage of an open issue and of the labels a run meets, `Places`
that a run pends only behind another. `LeaseOnAncestor` says that the tip named
by a push's lease continues the base it was built on, or that there was none.

**TemplateSyncProofs** (`TemplateAssumption`: the template's files hold neither the
instance's line nor conflict markers; `TagsAssumption`: finitely many tags, the
origin among them, and no two tags of a channel spell one version, which
`TAG_RE` would allow only with leading zeros; `EditsAssumption`: the instance edits
its paths, a natural number of times; `MarkerAssumption`: its line is no marker;
`BehindAssumption`: a path in a directory has one other path behind it, and nothing of
the template is there).
`SyncTypeCorrect` (`TypeOK`), `StateFileTellsTheTruth` (`ReplaceInSync`),
`NoLineIsLost` (`MergeInSync`), `NothingIsHidden` (`ConflictsAnnounced`),
`SyncStaysInItsTiers` (`StaysInItsTiers`), `SyncIsIdempotent` (`RerunIsQuiet`) and
`NeverAnOlderTag` (`NeverBackwards`), for any template, manifest, tags, runs, paths
and number of edits. The argument has four layers:

1. One path: what `apply_replace`, `apply_merge` and git's merge make of a file
   (`ReplaceFile`, `MergeFile`, `MergeText`, `GitFile`), and that a second
   application changes nothing (`MergeAgain`).
2. A tree: `Made` says what apply made of a copy of main, path by path and markers
   apart (`SyncOf`), and which conflicts it listed. `MadeStays`, `MadeAnnounces` and
   `MadeIsQuiet` draw three of the properties from it; resolving conflicts on the
   branch keeps it (`ResolveStep`), and so do closing and opening.
3. The order: `Ahead` is the order in which main visits tags. The tags are finitely
   many, so the newest exists (`NewestExists`), what a run selects is ahead of what
   it checked out (`NewestIsAhead`), and main never returns to a tag it left
   (`NeverReturns`). That is what keeps late pull requests harmless: one that main
   has passed cannot be merged, for its state file conflicts.
4. The copies: `ReplaceInSync` and `MergeInSync` are not inductive, for a branch
   carries an old copy of main's files into a later main. `CopiesInv`, `ReplaceInv`
   and `MergeInv` say of every copy that a run or a pull request still has (`Taken`)
   what they say of main, if it is of the tag main is at now; an older copy may be
   anything. A merge then either moves main (`ReplaceMoves`, `MergeMoves`), with base
   and main at the same tag, or finds it at the new tag already (`ReplaceStays`,
   `MergeStays`).

The history variable `astray` is what `MergeInv` needs of a missing file: a text that was
deleted and comes back with a later tag is whole again, one that the template
dropped and takes up again need not be.

Only model-checked: every liveness property (out of the prover's reach), and
`VersionAdvances` (the latest tag is a `CHOOSE` over an order).

## 5. Findings

1. **The TTL is not the staleness bound** (`cache_ttl_claim`). `set` starts the
   TTL when the body is stored, not when it was computed. ADR-0023 and
   `src/app/README.md` name the TTL alone; the bound that holds, and is proved,
   is the TTL plus one fill.
2. **Reopening does not always restart triage** (`moderation_reopen`). Both kinds'
   triage workflows start on a reopened issue; if a run of the group is under
   way, the relevant one can be queued and then displaced by the other kind's,
   which skips its jobs. Stale labels stay although the branch is gone.
3. **A partial outage is answered 401** (`oidc_outage`). Once the client exists, a
   failing JWK set endpoint raises a `PyJWTError`, so a valid token gets
   `invalid_token` rather than the 503 the docstring speaks of.
4. **A cancel can be lost** (`lifespan_cancel`). If closing the event stream
   raises while the cancel unwinds it, that exception replaces the
   `CancelledError`, `except Exception` retries, and shutdown waits for ever.
   `ShutdownEnds` shows it ends in every other case.

Observations met while modelling, of which no run speaks:

- `_jwks_is_warm` can be true when asked and false when the token is verified
  (the set expires in between): the fetch then blocks the event loop.
- `cache_keys=True` keeps a key that the provider has withdrawn; `OnlyGenuine`
  therefore speaks of keys ever published.
- A build works on the branch as it is when the run starts, not as it was when
  the confirm label was set; a run queued behind another one sees later pushes.
- A commit pushed on top of the base between the build's gate and the apply
  script's reading of the tip is overwritten: the lease names the tip that was
  read. `KeepsForeignWork` states exactly what is kept.
- "Report a missing moderation result" of a second queued build can add
  needs-human to an issue that is done; a confirm label on a closed issue can
  displace the pending cleanup.
- With `MODE=mock` a rate-limited route answers 500 without Redis, although
  NFR-0022 asks the mode to work without it.
- `bump=none` with a pre-release channel right after a full release yields a
  pre-release that sorts below it; `Advances` is stated accordingly.
- If the final rename fails after an empty `dist/` was removed, `dist/` is
  absent. `assemble_dist.py` (lines 12-15, 140-144) and `.github/scripts/README.md`
  (lines 58-59) say that a failure leaves it untouched; `AllOrNothing` states the
  exception. The stage may also stay behind: its removal ignores errors.
- Deleting a published release together with its tag lets another commit use the
  version again. Deleting releases and hand-pushed tags are not modelled.
- The migrations connect with an engine of their own, built by `alembic/env.py`
  from `database_url` alone: `postgres_sslmode` and the timeouts of `db.py` do not
  reach it, so a production process may migrate in the clear (`KeepsToItsMode` excepts
  this, in `Tolerated`), although `alembic/README.md` says it runs "over the app's own asyncpg
  engine" and the settings insist on an encrypting mode under MODE=production.
- Two replicas that start on a database below the head race: the loser's startup
  fails and it must be started again (`RolloutCompletes` assumes that it is).
  `docs/architecture.md` advises against migrating at startup in that case.
- A downgrade below 8e0846bd353a is refused while a hero has no name or no powers,
  and leaves everything as it was. One that goes through forgets which heroes were
  drafts: the upgrade makes all of them drafts again (`server_default` true).
- A downgrade below 49e3e2487a13 drops every `power_level`, one below 8e0846bd353a the
  lifecycle fields; the next upgrade brings the columns back without what clients wrote.
- A downgrade below 4733a4dd6da9 and the upgrade that any replica's next start
  makes of it delete every hero; `HeroesSurvive` speaks of owned heroes only. A
  release older than the database cannot start at all if it migrates.
- A v1 PATCH with `superpower: null` passes HeroV1Update and becomes `powers:
  [null]`, which HeroV2Update rejects inside the converter, after the request was
  validated. A v1 client that writes back a draft as it was shown stores the
  placeholder "(draft)".
- `security_txt_expires` is checked when the process starts and served for as long
  as it lives.
- Template sync writes through a directory that the instance made a link
  (`template_sync.py` lines 240-244 and 322-326 test the last name only), although the
  comments there say "writing would follow the link": the content goes to another path
  of the checkout, which the pull request then shows, or out of it, where nobody sees it,
  and the state file names a tag whose path is not in the tree. If the link leads to no
  directory, apply exits 2 in every run.
- Template sync: a path that is a file on one side and a directory on the other
  makes `apply` exit 2 in every run from then on; a path that the manifest drops
  together with its file is never removed; the merge tier never takes a change of
  the executable bit alone (`template_sync.py` lines 333-334), which
  `.github/scripts/README.md` says of both tiers; two open pull requests conflict
  in the state file, which is what keeps them in order; a run that dies between
  the push and `gh pr create` leaves a branch on which every later run for that
  tag fails until somebody deletes it; the workflow has no `concurrency:`. `NeverBackwards` rests on the template never
  withdrawing a tag: `template-sync.yml` line 132 asks only whether the newest tag is
  the synced one, so after a deletion it would open a pull request to an older tag.

## 6. Not modelled

Simplifications inside the modelled parts:

- `Oidc` is the validation against a provider; the `MODE=mock` branches (`oidc.py`
  lines 103-104, 155 and 168), which decode a token without verifying or fetching
  anything, are left out.
- `Release`: of the pairs of bump and channel the run dispatches a patch release and an
  alpha; `compute_next_version.py`'s refusal (lines 98-100) is never met. `refused` is
  final, as the script means it; a re-run would be refused again. `PublishPackages` is
  the documented contract of a project that opts in (`docs/TEMPLATE.md` lines 455-457);
  this repository's own targets (`Makefile` lines 179-187) fail when a `*_PUBLISH`
  variable is set.
- `Moderation`: any failure of `git ls-remote` in `moderate_cleanup.sh` (line 28) counts
  there as "no branch" and the run ends green, which the model has only as a crash; its
  search for other pull requests that name the issue (lines 15-18), the needs-human
  label after a failed label read (`moderate_apply_result.sh` lines 63-65) and an invalid
  meta.json (lines 50-58) are a crash or no difference here.
- `TemplateSync`: an edit of the instance adds a line, and does not remove one of the
  template's; a change of the executable bit alone is announced nowhere and
  `ConflictsAnnounced` does not ask for it.

Header and problem-detail formatting, mock controllers and audit logging are pure
functions of a request: they keep no state that an order of steps could break.
The owner scope and the revision log of heroes, and the conditions under which an
archive, a publication or a locked hero is refused, are `craftainer_crud`'s, whose
source is not here. The moderation sandbox and its
path policy are data of one step; their outcomes are choices of `Triage`, `Build`
and `ApplyFails`. Images, dev container, documentation and performance tests have
no protocol of their own. `InMemoryStatsCache` differs from the Redis cache in
expiring lazily; it is listed as partly modelled. `Rollout` has replicas of one
release only: two releases on one database, and an expand/contract change between
them, are not modelled. In `TemplateSync` the channel does not change, and a
bootstrap over an existing state file does not happen.

## 7. Plan

Done first, because most depends on it: the cache with its invalidation, the
moderation and release protocols, token validation, lifespan; then template
sync, the abstract cache and its refinement, settings, migrations, heroes and
their composition with the lifespan; then the proofs of `Release` and `Moderation`,
of `RateLimit`, of the database of `Rollout` and of `TemplateSync`.

1. `VersionAdvances`: the order of `Versions` and its maximum, as `TemplateSync`
   has them (`NewestExists`).
2. `InMemoryStatsCache` as a second implementation of `BoundedCache`.
3. Two releases on one database during a canary.
