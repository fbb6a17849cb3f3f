# A TLA+ model of the repository analyzer

The analyzer extracts repositories from GitHub and Azure DevOps into
PostgreSQL. APScheduler jobs and an HTTP API put extraction requests on a
Celery queue; worker processes run a workflow per request, which walks the
platform's scopes and their repositories, stores what the platform APIs return
and keeps account of itself in `extraction_runs` and `extraction_metrics`.
Dashboards, an admin UI and the scan digest (`scan_summary`) read that account.

This directory models the part where processes meet (the queue, the workers,
the account and the digest, the content stores, the migration runners, the
radar's publications), the extractors on a platform that changes under them,
and the computations over what is stored (packages and their readers, service
and team metrics).

## Inventory

| Component | State it keeps | Operations | What makes it correct |
|---|---|---|---|
| Scheduler (`src/scheduler/main.py`, `celery_app.py`) | APScheduler jobs | enqueue a platform's task on cron or interval | a request runs at most once; requests may overlap |
| Celery tasks (`src/scheduler/tasks.py`) | none | run a workflow; on any exception record a task-level failure | every failure is visible and no task hangs |
| Workflows (`src/workflows/github_analysis.py`, `azure_devops_analysis.py`, `scope_handling.py`) | locals of a worker: scope, run, listing, position, metric | scopes, runs, repositories, content steps | a run counts exactly what it processed, ends, and stays ended |
| Storage: runs and metrics (`src/database/storage.py`, `models/extraction_metric.py`) | `extraction_runs`, `extraction_metrics`, `repositories.last_analyzed_at` | start, progress, complete, fail, skip | rows agree with their status; one writer per run |
| Storage: content (`storage.py`) | commits, branches, PRs, contributors, READMEs, dependencies | get-or-create, batch inserts | no duplicates; what an extraction claims to have stored is there; rows refer to rows |
| Scan digest (`storage.py`, migration 022) | `scan_summary` | written when a run completes; backfilled by the migration | counts what the run recorded; stable afterwards |
| Rescan API (`src/api/rescan.py`) | none | trigger a platform, force a repository | a forced repository is extracted next |
| Radar (`src/workflows/radar_publication.py`, `src/analyzers/radar_categorization.py`) | publications, blips, history | publish, read, export | one latest publication; the history leads to it; its readers agree |
| Extractor cache (`src/extractors/cache.py`) | in-memory dict per extractor, optional files | lookup, clear | never answers for another repository or an earlier scan |
| Extractors (`src/extractors/base.py`, `github/`, `azure_devops/`) | none but the cache | listings in pages, retries, file trees, READMEs, pull requests | nothing is left out unless a call fails; every run ends |
| Dependency and technology analysis (`src/analyzers`) | packages, dependencies, vulnerabilities | parse, deduplicate, look up, flag | the shared package rows and the flags of each repository tell one story |
| Contributor, service and team analytics (`contributor_analyzer.py`, `service_analytics.py`, `team_analytics.py`) | contributor and service metrics, membership | compute, store | nothing counted twice; numbers of one row fit together |
| Migrations (`docker/scripts/run_migrations.sh`) | schema, `schema_migrations` | detect, create, backfill, apply | each migration applied once, in order |
| Health checks, configuration, dashboards, admin UI | none that others write | read | - |

Components interact through two things only: the RabbitMQ queue (scheduler and
API to workers) and the database (workers with each other, with the API and
with the readers). Inside a worker everything is sequential Python; every
database access is a `session_scope`, a transaction of its own, and no
transaction spans two steps of a workflow. The hard behaviours follow: two
workers on the same repository between the transactions of each; an API call
between them; an error in any of the transactions and the handler that catches
it; a worker killed by the hard time limit; and the digest, which compares runs
that ended in whatever order.

## Modules

* **`Extraction`**: the pipeline. `Workers` are the Celery processes; one
  action is one transaction with the Python up to the next, and its
  alternatives are success and the exception path to the handler that catches
  it. `pc[w]` names the transaction a worker is about to make. The tables are
  `runs`, `metrics`, `summaries`, `stored` and `lastAnalyzed`; the locals of
  the workflow are `platform`, `scopes`, `run`, `listing`, `index` and `step`.
  `forced` is a history variable for properties only.
* **`ScanSummary`**: the digest's SQL, the live statement and the backfill of
  migration 022, as operators over the three tables they read.
* **`RunLifecycle`**: the abstract specification, what a reader of
  `extraction_runs` is promised. `Extraction` implements it under the
  refinement mapping `RunRows` (`ImplementsLifecycle`).
* **`Migrations`**: the migration runner. It shares nothing with the pipeline
  but the order of start: the services wait for a runner's success.
* **`ContentStore`**: what the content steps of one extraction store. A store
  function of `storage.py` is a sequence of calls on its SQLAlchemy session
  (`lookup`, `add`, `set`, `replace`, `link`, `raise`), and the actions execute
  those calls, flush, commit or lose the batch, as `autoflush=False` and
  PostgreSQL's unique keys have it. Where `Extraction` has the outcome of a
  content step, this module has its inside.
* **`DependencyRules`**: the functions of the dependency analysis
  (deduplication, versions as text, end of life, what is affected).
* **`Portfolio`**: the rows those functions produce for all repositories,
  `packages` and `repository_dependencies`, and the endpoints that read them.
* **`Radar`**: extends `Portfolio` with the publications: each statement of
  the publication workflow is an action, between which packages and other publications
  change.
* **`RepositoryFiles`**: the functions on a file tree (READMEs and the scope
  and parent of each, manifests, languages, technologies) and on pull requests.
* **`Extractors`**: extends it with a run against a platform: listings page by
  page, calls answered by cache, file cache or platform, refusals and retries.
* **`Analytics`**: metrics of contributors, services and teams, statement by
  statement.
* **`MCExtraction`**, **`MCMigrations`**, **`MCContentStore`**, **`MCRadar`**,
  **`MCExtractors`**, **`MCAnalytics`**: constants and symmetry for TLC.
* **`Extraction_proofs`**, **`Extraction_history_proofs`**,
  **`Migrations_proofs`**, **`ContentStore_proofs`**, **`Radar_proofs`** (with
  the theorems about `Portfolio`), **`Extractors_proofs`** (with the lemmas about
  `RepositoryFiles`), **`Analytics_proofs`**: the theorems, and
  **`Fold_lemmas`**, what they need of sums, flattened sequences and maxima.

How the state of `Extraction` corresponds to the code:

| Variable | Code |
|---|---|
| `queue` | messages of `tasks.run_github_extraction` and `tasks.run_azure_devops_extraction_task` |
| `runs[id]` | a row of `extraction_runs`; `ended` orders the `completed_at` values, 0 is NULL |
| `metrics[id][r]` | the row of `extraction_metrics` of run `id` and repository `r`; `at` is `extraction_started_at` |
| `summaries[id]` | a row of `scan_summary`, its counts kept as the sets that are counted: repositories scanned, new and retired, libraries new, and those of them with a vulnerability |
| `dependencies[<<r, l>>]` | a row of `repository_dependencies`: `seen` is `first_seen_at` on the scale of `completed_at`, `exposed` the flag |
| `since[w]` | the earliest moment the content step under way can have read the clock at: its transaction stays open while other runs end |
| `stored`, `lastAnalyzed` | rows of `repositories`, `last_analyzed_at` |
| `scopes[w]` | the rest of the loop over organizations (GitHub) or projects (Azure DevOps), the current one first |
| `listing[w]`, `index[w]` | `repos` and `index` of `_process_repositories` |

and the actions:

| Action | Code |
|---|---|
| `Request`, `Tick` | `_enqueue_task`, the `/api/rescan/*` endpoints; time in hours |
| `ForceRescan` | `force_rescan_repository` |
| `Backfill` | migration 022 is executed, for the first time or once more |
| `Kill` | the hard time limit, or a crash: Celery acknowledges a message before it runs the task, so nothing is redelivered |
| `StartTask`, `StoreScope`, `ListRepositories` | `run`, `_process_organization`, `list_repositories_or_skip` |
| `StartRun`, `BeginRepo`, `EndRepo`, `CompleteRun`, `FailRun` | `_process_repositories`, its try, except and else |
| `CheckInterval` ... `FailMetric` | `_process_repository`, in the order of its transactions |
| `FinishTask`, `RecordTaskFailure` | `_get_summary`, `_record_task_failure` |

In `Migrations` an action is one `psql` call, or one statement of `schema.sql`,
which is not a transaction. `statements`, `tracking`, `recorded` and `effect`
are the database; `existing`, `untracked`, `files` and `next` are the script's
`PRE_EXISTING_TABLES`, `TRACKING_TABLE_EXISTED` and loops. `Detect`,
`CreateSchema`, `Probe`, `Track`, `Backfill`, `Check`, `Execute`, `FinishFile`
and `RecordFile` are the script in order. A failed read is taken for an answer,
as `|| echo "0"` has it; any other failure is `exit 1`. An old database has the
schema and any number of the first migrations, but no tracking table. `Release`
adds a file between starts, whether the database is tracked or not. `origin`,
`backfilled`, `covered` (how many files there were when the tracking table was
made) and `misread` are history variables.

In `ContentStore`, `db` is the committed rows by their unique key, `session[w]`
the open session of a worker (its added rows, what it has flushed, what is left
of the plan) and `scan[w]` the extraction around it:

| Action | Code |
|---|---|
| `BeginScan`, `Fetch`, `CallFails` | `_process_repository`, and each `_process_*` step until it opens its `session_scope` |
| `Lookup`, `AddRow`, `SetRow`, `ReplaceVulnerabilities`, `LinkReadme`, `RaiseError` | the calls of the `store_*` and `get_or_create_*` functions on their session |
| `InsertRow`, `Conflict`, `Deadlocked`, `Commit` | a flush and the commit, as the database answers them |
| `FinishScan` | the stamp and `complete_repository_extraction` with its counts |
| `SoftLimit`, `Kill` | `SoftTimeLimitExceeded` wherever it is raised, and the hard limit |

In `Portfolio` and `Radar`, `dependencies` and `packages` are the rows of
`repository_dependencies` and `packages`, `publications` those of
`radar_publications` with their blips, `history` those of `radar_blip_history`,
and `publisher[x]` a transaction of the publication workflow (`run`):

| Action | Code |
|---|---|
| `ProcessDependencies` | `_process_dependencies` from the manifests to the commit |
| `PublishAdvisory`, `WithdrawAdvisory`, `NextDay` | OSV.dev comes to know a vulnerability, says something else of one, or withdraws it; time |
| `LoadPrior`, `CountUsers`, `CategorizePackages`, `BeginClear`, `Clear`, `Publish`, `Abort` | the statements of a publication in their order, and its rollback |
| `SearchPackages` ... `PackagesHealth`, `GetRadar`, `RadarHistory`, `ExportRadar` | the endpoints under `/api/packages` and `/api/radar`; a history is the positions of the rows of a package, in the order of the table |

In `Extractors`, `org`, `revision` and `commits` are the platform, `run`, `page` and `scan`
the locals of the workflow and of the listing under way, `cache` and `disk` the
two caches:

| Action | Code |
|---|---|
| `Push`, `ForcePush`, `CreateRepository` | the platform changes; a history is rewritten between two pages of its listing |
| `BeginRun`, `LookUp`, `NextPage`, `Limited`, `ListingFails`, `ListingReturns` | `get_repositories`, `get_commits` and `_safe_paginated_list` |
| `ChooseNext`, `AskCache`, `AskPlatform`, `AskInVain`, `AskFails`, `FinishStep`, `FetchPulls`, `FailScan`, `Finish`, `Abort` | the scan of a repository, call by call, through the `cached` wrapper |

In `Analytics`, `counting[w]` is a computation of contributor metrics, `task`
the Celery task of the service metrics, `membership` `team_contributors`:

| Action | Code |
|---|---|
| `BeginCount`, `FinishCount`, `FailCount` | `calculate_contributor_metrics` with the scores of messages, and its upsert |
| `StartTask`, `StartService`, `RunStatement`, `FinishTask`, `FailTask` | `compute_service_metrics_task` and the statements of `service_analytics.py` |
| `AddContributorToTeam`, `RemoveContributorFromTeam` | `add_contributor_to_team`, which leaves the row of one who has left as it is, and `remove_contributor_from_team`; `ComputeTeamMetrics` reads |
| `StoreActivity`, `StoreDependencies` | what extractions commit meanwhile |

### What is abstracted

* In `Extraction` the content steps of a repository are one step each. A step
  logs any exception away and the repository goes on, so that its outcome makes
  no difference to the account; what it stores is `ContentStore`.
* `get_repository_metadata`, the extractor's caches and the health check after
  a completed run change none of this state and swallow their own errors.
* A listing has no duplicates (the platform APIs list by id), so that a metric
  is identified by run and repository.
* `completed_at` is taken when the row is written, and its order is the order
  in which runs commit. The code takes it before the commit, so that two runs
  ending at the same moment may commit in the other order; that window is not
  modelled, for the live digest and for the backfill alike. `first_seen_at` has
  no such shortcut: it is any moment since the content step before it ended.
* The forced rescan of a row is one step: its read and its commit have nothing
  between them that another process can see.
* `MaxTasks`, `MaxClock` and the size of `RunIds` are bounds. `RunIds` has one
  identifier for each scope of each task and one for the task's failure row, so
  that no behaviour is cut off for lack of an identifier. `Disturbances` names
  which of these may happen: API errors (`"api"`), database errors (`"close"`
  for the transactions that complete or fail a run, `"db"` for all the others),
  kills (`"kill"`), forced rescans (`"force"`) and executions of migration 022
  (`"backfill"`).
* `ContentStore` keeps the columns a lookup or a foreign key depends on.
  Lookups see what has been committed by then (READ COMMITTED). `Faults` names
  the disturbances and `MaxFaults` bounds them.
* A version is a number whose text is its digits, so that "10" comes before
  "9" where the code compares text; a CVSS score is a number or unreadable. The
  transaction that stores an analysis is one step in `Portfolio`. Names of
  packages differ in more than case: deduplication compares them in lower case
  (`dependency_analyzer.py:236`), the row's key does not, so that a package
  spelt in two ways in one repository has one row and in two repositories two.
* A vulnerability has a set of fixes, of which the package row keeps any one
  (`FirstFixes`: the list is made from a set). A record of OSV.dev may have a
  CVE number or not (`NoCve`). The records the code reads carry no `cve_id`, so
  that in practice the column is NULL; the model allows both.
* An answer of a platform is the revision of the repository it was given at and
  whether the call succeeded; commits are numbers, the newest first. A
  repository has a commit: of an empty one the platforms refuse the listing of
  commits, which is the case of a call that fails. A force push is modelled
  where it matters, between two pages of a listing; at any other time the next
  listing finds one history, as after a push. One pull request stands for the
  list. PyGithub's `PaginatedList` is modelled from its use: a generator that
  has raised is at its end. Waiting between retries has no duration.
* A month has `MonthDays` days; a message is known by the features its score
  looks at, in half points. A message of blanks only counts as the empty one:
  the code asks `if commit.message` (`contributor_analyzer.py:535`), so that it
  gives the blank one a score, 0, and never takes it again. The period of service
  metrics is the default one, the current month; a caller may pass others.
  Members of teams come and go with the date of the day.

## Runs

`CHECK_DEADLOCK FALSE` throughout, because the bounded environment stops making
requests, scans, publications or changes, or starting runners, and the system
comes to rest.

| Run | Instance | Shows |
|---|---|---|
| `overlap` | `Extraction`: 2 workers, 2 tasks, 1 repository, 1 library, all disturbances and the backfill at any time, interval 0 | the invariant `RunInvariant` that the proofs use, with the types; `RunsHaveOneWriter`; `StampHasExtraction`; `SkipsAreBacked`; `PendingRescanHonoured`; `DigestsCountTheirRuns`; `BackfillLosesNothing`; `EndedRunsAreFinal` |
| `requests` | `Extraction`: 1 worker, 2 tasks, 2 platforms with one scope each, clock to 2 with interval 1, API errors and kills | what holds without overlap, database errors and a second organization: `ScansRespectInterval`, `EveryListedRepoIsRecorded`, `RetiredWithinScope` |
| `liveness` | `Extraction`: 2 workers, 1 task, 2 scopes with up to two repositories and one, API and database errors, fair | `CompletedRunsAreWhole`; `ImplementsLifecycle`; `TasksEnd`; `RunsEnd` |
| `migrations` | `Migrations`: 2 runners, 4 starts, 2 files and a third released at any time, a schema of 2 statements, new databases and old ones with 0, 1 or 2 of the files done, kills, failed calls and failed reads | `MigrationInvariant`; `SuccessIsRecorded`; `MigrationsRunInOrder`; `TrackedReleasesAreExecuted` |
| `content` | `ContentStore`: 2 workers, 2 scans of a GitHub and an Azure DevOps repository, the same or not, that share contributors, packages, a team and a commit and list them in opposite orders; 1 fault | `NoCommitCountedTwice`; `ReferencesHold`; `ListedIsStored` |
| `radar` | `Radar`: 2 repositories with manifests that change, 2 packages, 3 advisories, one of them with two fixes and without a CVE number, a revision or withdrawal, 2 analyses, an outage, 2 days, 2 publications by one publisher, any of which may fail | `StoredIsBestDeclaration`; `ExposureHasCause`; `ReadersAgree`; `OneLatest`; `ExportAgrees`; `TimelineLeadsToRadar`; `FlagsMatchMovements` |
| `extractors` | `Extractors`: either platform and kind of account, 2 repositories and a third to come, the first with 2 commits and 2 revisions, pages of 1 item and 3 items at most, 1 retry, 2 changes, 1 failure, with and without the file cache, fair | `ExtractorsTypeOK`; `AnswersAreFresh`; `QuietScanIsComplete`; `NoCommitIsLeftOut`; `ParentsAreAbove`; `PullsAddUp`; `EveryRunEnds` |
| `analytics` | `Analytics`: 2 workers, 2 repositories of a service, 2 contributors and a deleted author, 2 months of 2 days, 3 computations or changes of the team | `NoActivityCountedTwice`; `SnapshotsAddUp`; `TeamMonthsWithinPeriod` |

Why these bounds: an interference needs two workers on the same repository, so
one repository and two tasks are enough for `overlap`; an error path leaves a
repository, a run or a scope, so two of each show what happens to the next; an
interval of one hour with a clock that reaches two has ages below, at and above
the threshold. Listings may be empty, and a later one may lack a repository of
an earlier one. One library is enough for the digest's columns: they count each
library by itself. Four starts let a runner fail, another find what it left, and
two more run at once; two files and a third give an old database a migration it
has, one it lacks, and one that comes later.

Two scans let two sessions meet on every shared row, in opposite orders so that
they can deadlock, and the second find everything the first has stored; one
fault is a call, a soft limit or a kill at any point. The packages of `radar`
have versions 9 and 10, which compare differently as text, a development and a
production declaration, and advisories with a readable score and one without,
with one fix or with fixes below and above a version in use, with a CVE number
and without; one revision (`MaxRevisions`) makes a flag outlive its reason. Its
second publication has a prior one to compare with, and the exclusions may
differ between the two, so that packages appear, move and leave. With pages of
one item every item ends a page; two commits make a listing that a push between
its two pages shifts, and three items (`MaxItems`) let it go on to the first
commit. The trees of `extractors` have READMEs at three levels, two in the root,
an empty one, and a README and a manifest that are not UTF-8 beside others that
are. The activity of `analytics` lies on the first and last days of its months.

The types of `ContentStore`, of `Radar` and of `Extraction` (outside `overlap`)
are not listed as properties of runs, being part of `RunInvariant` or implied by
what is.

Runs that TLC must find violated show where the code and its documentation
part:

| Run | The documentation | The code |
|---|---|---|
| `bug_migrated` | `run_migrations.sh:113` the backfilled migrations are those the schema "already reflects" | every file of the checkout is recorded, and nothing in the schema is looked at: of an old deployment that skipped a release, or whose first runner died between the schema and the tracking table, the pending migrations are recorded and never executed, and the runner reports success |
| `bug_retired` | plan 029, line 121, retired is "disappeared" | the previous run may be of another organization |
| `bug_eol` | `requirements.md:476` enrichment of technologies is "wired into workflow" | the entries are read after the session that stored them is committed and closed: the read raises, the error is logged, and no technology is enriched |
| `bug_pages` | `scope_handling.py:48` "Returning ``None`` rather than ``[]``" tells an inaccessible scope from an empty one | a refused page is retried by `next()` on a generator that has raised and is at its end: the listing ends there without an error |

### Observed divergences without a run

These came out of the modelling too. Each is visible in the definition named; none
has a run of its own.

| The documentation | The code | Where |
|---|---|---|
| `config/scheduler.yaml:58` "Minimum hours between scans of the same repository" | the interval is checked against a stamp that is written at the end of an extraction: overlapping requests extract twice | `CheckInterval`; `IntervalIsRespected` needs one worker |
| `rescan.py:115` a forced rescan "allows immediate re-extraction" | an extraction under way stamps the repository afterwards and undoes it | `ForceRescan`, `StampAnalyzed` |
| `views.sql:1164` "Active extraction runs" | an error in `complete_extraction_run` leaves a run running for good | `CompleteRun` |
| `system-architecture.md:152` "Failed items are marked for retry" | a metric that fails after the stamp leaves its repository fresh | `FailMetric` |
| `schema.sql:115` "metrics must record progress before repo is stored" | the repository is stored first; if that fails there is no metric | `StoreRepo`; `ListedIsRecorded` needs a database that does not fail |
| `run_migrations.sh:123` "this is a pre-existing deployment that predates migration tracking" | a failed read is taken for the answer zero: a tracked database looks untracked, and its pending migrations are recorded unexecuted | `misread` in `TrackedReleasesAreExecuted`; `Probe`, `Backfill` |
| plan 022, line 392, "only one `is_latest=true` at a time" | two publications at once clear the flag they see and insert their own: both are the latest. The endpoint does not exclude it | `BeginClear`, `Clear`; `OneRowIsLatest` needs one publisher |
| `storage.py:1298` "Replaces all vulnerability rows for this package on each call (OSV returns the full current list)" | where OSV.dev does not answer the list is empty: the vulnerabilities of the package are deleted for all repositories, and their flags stay | `blinded` in `ExposureHasCause` |
| migration 022, line 4, "Re-runnable safely" | run again, the backfill counts the new vulnerabilities of every past digest by the flags of today, which later scans have overwritten in place; and it adds libraries whose transaction was open when the run ended | `BackfillLosesNothing` says what is left; `BackfillRow`, `ExtractContent` |
| migration 022, line 3, "One row per completed extraction_runs.run_id" | every run with a `completed_at` gets a row, failed ones too: that of a failed task has no repository, and retires all those of the platform's run before it; the next run finds them all new | `BackfilledRuns`; `PreviousRun` has the same in the live digest |
| `storage.py:1368` the flag is computed "by comparing the repo's pinned version against fixed_in_version", and `models/dependency.py:28` "below the fixed_in_version of an active CVE" | the flag looks at all fixes of a vulnerability, `fixed_in_version` is one of them, whichever comes first of a set: a repository may be flagged and not be below it | `FirstFixes`, `PackageRow`; `Shown` in `ExposureHasCause` |
| `models/dependency.py:28` "an active CVE" | a flag is written by the repository's own analysis only: after a withdrawal it stays, while another repository's analysis has replaced the package's vulnerabilities | `withdrawn` in `ExposureHasCause` |
| `rescan.py:462` the packages with vulnerabilities and their CVEs | of vulnerabilities without a CVE number the list is empty, although the package's page shows them | `VulnerablePackages` |
| `base.py:546` "Find and extract README files" | on GitHub a file that is not UTF-8 raises `UnicodeDecodeError`, which `github/extractor.py:670` does not catch: no README of the repository is stored, or no dependency if it is a manifest | `Raises`, `AskFails`; `QuietScanIsComplete` says what is found |
| `base.py:690` the parent README is "in a parent directory" | on Azure DevOps two READMEs of the root are each under the other: the root's text is empty, and so is that of its parent | `FindParentReadme`; `ParentsAreAbove` |
| `github/extractor.py:370` the commits of a repository | a force push between two pages may make the listing miss commits, without an error | `ForcePush`; `NoCommitIsLeftOut` excepts it |
| `github/extractor.py:435` the pull requests of a repository | a refused listing is retried on a generator that is at its end, as in `bug_pages`: it comes out with the pull requests of the pages read by then, or with none | `Refused`, `FetchPulls` |
| `service_analytics.py:132` "the most recently computed metrics" | ordered by `period_start` only, while rows are inserted and never replaced: of several computations of a period any may be read | `FinishTask` |
| `service_analytics.py:157` "one broken service does not abort the entire batch" | a failed statement aborts the transaction, and every later one fails as well | `FailTask` |

### Fairness

`Fairness` says of each worker that it goes on with its task, and that an idle
one takes a waiting message. A worker is a process running sequential Python
against clients with timeouts and a database whose locks are those of the
transactions of single steps, so nothing in the code can hold it forever. No
fairness is assumed of requests, time, forced rescans or kills. `RunsEnd` is
checked under every API and database error except one in the transaction that
ends a run (the disturbance `"close"`), and without kills: after either a run
stays running.

`Extractors` assumes `WF_vars(Extract)` for `EveryRunEnds`: a run is sequential
Python, every call has a timeout, and the waits between retries are finite.
`Push`, `ForcePush`, `CreateRepository` and the errors that end a scan or a run
(`FailScan`, `Abort`) are not in `Extract`: nothing is assumed of them. That
retries run out is the code's doing (`attempts < MaxRetries`), not the
fairness's.

## Proofs

`Extraction_proofs` proves, for any constants that satisfy
`ConstantsAssumption` (a finite set of run identifiers; `None` and the
task-level name different from everything else) and with no bound on workers,
scopes or repositories:

* `Invariance`: `Spec => []RunInvariant`
* `TypeCorrectness`, `OneWriter`, `WholeRuns`: its parts `TypeOK`,
  `RunsHaveOneWriter` and `CompletedRunsAreWhole`
* `EndedRunsStandStill`: `Spec => EndedRunsAreFinal`

`CompletedRunsAreWhole` is not inductive: that `processed` has reached `total`
when a run completes follows from the worker's position, and that no metric is
open from the worker having closed each before it went on. `OwnRun` ties the row
to the position of the worker that holds it, `OpenMetricIsCurrent` says where a
metric may be open, `RunsHaveOneWriter` that no one else moves either, and
`RowIsConsistent` that an unused identifier has no rows to inherit. The proof
has one lemma per action; the actions share four: `MoveOn` (a worker moves
without writing), `MetricWrite` and `RowWrite` (the owner writes and goes on),
`RowEnds` (the owner ends the run).

Its last part proves `Refinement`: `Spec => ImplementsLifecycle`. The
invariant gains one conjunct, that a worker about to start a run holds a listing
its scope may have (`HoldsListing`); every write to `extraction_runs` then maps
to a step of `RunLifecycle`, and every other step to a stutter. What the life
cycle promises then holds of the pipeline: `ProgressIsSteady` is proved of
`LifecycleSpec` alone and carried over. The total of a run stays once it has
started, its count of processed repositories never falls and never passes the
total, and it is completed only at the total.

`Extraction_history_proofs` proves, under the same assumptions with
`ListingsAssumption` (a listing names a repository once) and `NoneAssumption`
(`None` is no digest), and under every disturbance:

* `DigestOfCompletedRuns`: `Spec => []DigestsCountTheirRuns`
* `StampsAreExtractions`, `SkipsHaveExtractions`: `StampHasExtraction`,
  `SkipsAreBacked`
* `ForcedRescansStay`: `Spec => []PendingRescanHonoured`
* `BackfillKeepsCounts`: `Spec => []BackfillLosesNothing`

`Place` says where in its listing a worker is: what is ahead of it has no metric
of its run, and what it extracts has an open one. With it every step does one of
three things to a metric (`Advances`), and the times of metrics and stamps stay
below the clock (`History`). For the backfill, every `completed_at` is below the
next (`StampsBelow`), so that a run that ends later changes no peer of an
earlier one, and the window of migration 022 and the statement of the
application pick the same previous run. Libraries are only ever added, with a
`seen` that stays, so that what a digest counted is still between the same two
runs (`DigestsCurrent`). Flags change, so nothing is said of the vulnerabilities
a rerun finds, only that those counted before are still among the new
libraries.

Its second part proves what holds only while something does not happen; each
condition is an ASSUME of its theorem:

* `ListedIsRecorded`: `EveryListedRepoIsRecorded` without database errors
  (`"db" \notin Disturbances`), for any number of workers, kills and API
  errors. `Recorded` says that the metrics of a run are those of the
  repositories its worker has left behind.
* `IntervalIsRespected`: `ScansRespectInterval` with one worker and without
  forced rescans. `StampsCover` says that a completed extraction has left its
  stamp or a later one has, `Distance` what a worker knows of it between the
  check and the stamp.
* `RetiredWereListed`: `RetiredWithinScope` where each platform has one scope at
  most (`OneScope`). `InItsScope` and `MembersInScope` tie runs and metrics to
  the only scope there is. `bug_retired` is the case with two.

`Migrations_proofs` proves, for any number of runners, starts, files and
statements and under every disturbance, `Spec => []MigrationInvariant`
(`MigrationsInvariance`), its part `SuccessIsRecorded` (`Success`) and
`Spec => MigrationsRunInOrder` (`Order`). That the versions have no gap is not
inductive by itself: `Position` says of each runner that the files before its
position are recorded, which holds however many runners record at once because
versions are never removed. `LaterReleasesAreExecuted`, `Spec =>
[]TrackedReleasesAreExecuted`, needs to know that as long as no runner has
misread the database, only a runner that has seen it without the tracking table
backfills, and only files of a release no later than the one that made the table
(`covered`): while a runner is at work nobody pulls a release. Every other
recorded file was executed to its end. What is said of the release that makes
the table would be false: `bug_migrated`.

`Radar_proofs` proves, for any repositories, packages, advisories and rules:
`FlagsAgree`, `Spec => []FlagsMatchMovements`, for any number of publishers;
and with at most one publisher (`AtMostOnePublisher`) `OneRowIsLatest`
(`OneLatest`) and `ReadersSeeOneRadar` (`ExportAgrees`), from `LatestInvariant`:
the flag marks the row inserted last, no row is of a later day, and whoever is
clearing holds the row that is the latest. With two publishers neither holds.

* `TimelineLeads`, with one publisher: `TimelineLeadsToRadar`. The movements of
  a publication are the difference to its prior, and `TimelineInvariant` says
  that the prior of a publisher is the latest, that a package has at most one
  row of each publication, and that following the rows (`RingAfter`) ends where
  the latest publication has the package.
* `BestDeclarationIsStored`: `StoredIsBestDeclaration`. Deduplication is a fold
  over the declarations; "supersedes" is not an order by itself, but `AsGood`
  is, and what the fold keeps is as good as all it has seen.
* `ExposureIsCaused`: `ExposureHasCause`. A row is exposed by an advisory that
  OSV.dev knew when it was written (`AdvisoryExposes`). It knows it still, or has
  withdrawn or revised it; so the row of the package, which any repository may
  have replaced since, shows it as well, with some fix of it, unless the
  replacement came from an outage (`CauseIsStored`).
* `EndpointsAgree`: `ReadersAgree`, from `PortfolioTypes` alone: each endpoint
  counts and selects the rows in its own way, with or without a version and a
  CVE number.
* `LatestIsShownLast`: if versions have one or two digits, none of the fixes
  listed with a package comes, as text, after the latest version that its row
  shows. A row is always made from one answer (`FromOneAnswer`), and the order
  of texts is that of a number (`Rank`), so that a last one exists.

They rest on `AnswersAssumption`: what the parsers return are declarations, and
no list of advisories is the value that stands for an outage.

`ContentStore_proofs` proves, for any workers, repositories, listings and
faults:

* `ContentHolds`: `Spec => []ContentInvariant`, the inductive invariant
* `RowsReferToRows`: `ReferencesHold`
* `AllListedIsStored`: `ListedIsStored`
* `CommitsAddUp`: `NoCommitCountedTwice`
* `RowsLast`: no step removes a committed row, but for the vulnerabilities of a
  package, which each scan replaces. An extraction relies on it between its
  transactions.
* `EnrichmentStoresNothing`: no technology is ever stored by the enrichment,
  for any listings: a plan of the enrichment that has a call left has its
  exception left. This is `bug_eol` for every instance.

A plan is a sequence of calls of unbounded length which the actions take from
the front, so that the invariant has to say of the rest of a plan what it will
do. It does so by triples in the manner of Hoare: `Yields` says that a plan,
begun with certain rows, keeps to the references and ends with others, and
`Reaches` says which rows it will have seen; there is one lemma for each
`store_*` function, and plans compose. `ContentInvariant` ties them to the
rows: what a session has flushed or found is committed or its own (`Kept`,
`Known`), its rest fits (`OpenFits`), the scan around it accounts for the
batches before (`ScanFits`), two sessions insert under different keys (`Apart`),
and the counts are those of committed commits (`Counts`). `ListingAssumption`
says what a listing is made of.

`Extractors_proofs` proves, for any repositories, file trees, pull requests,
page sizes, limits, pushes and failures:

* `ExtractorsHold`: `Spec => []ExtractorsInvariant`, the inductive invariant
* `ExtractorsTypes`: `ExtractorsTypeOK`
* `Freshness`: `AnswersAreFresh`
* `CommitsAreListed`: `NoCommitIsLeftOut`
* `ReadmesAreUnderParents`: `ParentsAreAbove`
* `PullRequestsAddUp`: `PullsAddUp`
* `QuietScans`: `QuietScanIsComplete`
* `OnlyRetriesLoseLists`: the claim that `bug_pages` refutes holds without
  retries, and on Azure DevOps in a scope that is not empty; a refused list is
  lost only where the iterator of GitHub is called again.

The cache has answers about the repository of the scan only, and without the
cache on disk none from before it (`CacheFits`): that holds because it is empty
outside a scan. `Covers` says of a list of commits under way that it has no gap
from its last commit to the newest of when it began, and that the pages read so
far reach no further down than that last commit, which pushes only lift; so the
next page joins without a gap. A force push ends that for the listing under way,
which is marked `rewritten` (`ForcePushFits`). `Reading` says of a quiet scan
that each file with text is readable or still to be asked for, that one which
will raise is still to be asked for, and that the tree is the actual one;
`QuietFits` says what the steps come out with: all READMEs and manifests with
text (`AllReadmes`, `AllManifests`), or on GitHub none where one of them cannot
be decoded (`LostReadmes`, `LostManifests`), as the call that meets it raises.

`ParentsAreAbove` is a fact about any file tree (`ParentIsAbove`): the READMEs
are sorted by depth (`ByDepthIs`), and two directories have the same text only
if they are the same, but for the root of Azure DevOps (`JoinedSame`), whose
READMEs find each other. What the platforms answer is assumed:
`TreesAssumption` (a path has segments and none is empty) and `PullsAssumption`
(a completed pull request has been closed, and was in the queue before that).

`Analytics_proofs` proves, for any activity, calendar, membership and number of
computations:

* `CommitsCountOnce`: `NoActivityCountedTwice`, from `CountInvariant`
* `StatementsFit`: `SnapshotsAddUp`, from `TaskInvariant`: activity only grows,
  so that each number is bounded by what a later statement reads. A commit
  without an author is counted by one statement and belongs to no contributor
  of the next; that the property must except it came out of the proof, and the
  instance has such a commit.
* `TeamMonthsAddUp`: `TeamMonthsWithinPeriod`, from `TeamInvariant`
* `AnalyticsTypes`: `AnalyticsTypeOK`

`Fold_lemmas` has what is needed of the community modules' folds: sums over
finite sets (equal, monotone, split over disjoint parts), membership in
flattened sequences, the last position of a set. The induction theorems of the
library take an operator as a parameter, which the provers cannot instantiate;
the lemmas state the induction on the set of numbers for which a formula fails,
which has a least element.

Model-checked only: the liveness properties (`TasksEnd`, `RunsEnd`,
`EveryRunEnds`), which are outside this prover's reach. The properties of the
runs that find a violation are false and have no proof; what holds in their
place is proved: `LaterReleasesAreExecuted` after the release that made the
tracking table, `RetiredWereListed` where each platform has one scope,
`OnlyRetriesLoseLists` without retries, and `EnrichmentStoresNothing` always.
TLC evaluates the assumptions of the theorems on every run.

## What is left

In this order:

1. Technologies, quadrants and versions on the radar.
2. The nested loop over organizations and projects of Azure DevOps, shown to
   give `Extraction` its sequence of scopes.
3. What a migration does when it is executed again (011 after 014).

## What is not modelled

* The parsers of the manifest formats, `readme_analyzer.py` and the patterns of
  the technology detector: text processing without state. What they return is
  an input of the models.
* Dashboards, views and the admin UI read only, as do the summaries of scans
  and the stack endpoints of the API; what they rely on is promised by
  `RunLifecycle`, `Extraction`, `Portfolio` and `Radar`. Configuration is read
  at start; its values are constants.
* The health check after a completed run, which reads, logs and swallows its
  errors; the metrics it exports.
* Enablement checks and dry runs of the workflows; authentication and user
  lookups of the extractors; the fields of records that are only copied.
* Technologies and frameworks on the radar, quadrants, versions of blips.
* Quality metrics: nothing writes their table. The contributor metrics are
  modelled although the workflows do not call them at present.
* The cleanup and backup tasks, which are stubs; cron parsing and the
  persistence of APScheduler's jobs.
* The TimescaleDB extension and the views created by the migration runner, the
  failure of which it ignores.

`PROJECT.json` lists each component with its status.
