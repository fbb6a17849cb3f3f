----------------------------- MODULE Extraction -----------------------------
(***************************************************************************)
(* The extraction pipeline: requests for a platform extraction (scheduler  *)
(* jobs and the rescan endpoints) wait in the Celery queue, each worker    *)
(* process takes one and runs the workflow over the platform's scopes (an  *)
(* organization on GitHub, a project of an organization on Azure DevOps),  *)
(* and every scope it can list gets a row of extraction_runs and, for each *)
(* repository, a row of extraction_metrics.                                *)
(*                                                                         *)
(* One action is one database transaction (session_scope) together with    *)
(* the Python up to the next one: workers share nothing but the database   *)
(* and the queue, so these are the points where they can interleave.  An   *)
(* action's failing disjunct is the exception path of that transaction or  *)
(* API call, followed to the handler that catches it.                      *)
(***************************************************************************)
EXTENDS Naturals, Sequences, FiniteSets, ScanSummary

CONSTANTS
  Workers,      \* Celery worker processes (docker-compose: --concurrency)
  Platforms,    \* "github", "azure_devops"
  Scopes,       \* what gets a run of its own
  ScopesOf,     \* platform -> sequence of its scopes, in API order
  Repos,
  Libraries,    \* what a repository may depend on
  Listings,     \* scope -> the sequences its repository listing may return
  RunIds,       \* run identifiers, uuid4
  ContentSteps, \* the _process_* steps of a repository, in order
  MinInterval,  \* min_scan_interval_hours
  Disturbances, \* which of these may happen: "api" and "db" errors, "close"
                \* (a database error in the transaction that ends a run),
                \* "kill", "force" and "backfill"
  MaxClock,     \* bound: hours the clock runs
  MaxTasks,     \* bound: extraction requests ever made
  TaskLevel,    \* the organization_name of a task-level failure row
  None          \* Python's None, SQL's NULL

ASSUME ConstantsAssumption ==
  /\ ScopesOf \in [Platforms -> Seq(Scopes)]
  /\ Listings \in [Scopes -> SUBSET Seq(Repos)]
  /\ ContentSteps \in Seq(STRING)
  /\ MinInterval \in Nat /\ MaxClock \in Nat /\ MaxTasks \in Nat
  /\ IsFiniteSet(RunIds)
  /\ TaskLevel \notin Scopes
  /\ None \notin Nat \cup RunIds \cup Repos \cup Platforms \cup Scopes

\* A platform names a repository once in a listing.
ASSUME ListingsAssumption ==
  \A s \in Scopes : \A l \in Listings[s] :
    \A i, j \in DOMAIN l : l[i] = l[j] => i = j

VARIABLES
  queue,        \* platform -> requests waiting in RabbitMQ
  requested,    \* number of requests ever made (for the bound MaxTasks)
  clock,        \* now, in hours
  runs,         \* extraction_runs
  metrics,      \* extraction_metrics, by run and repository
  summaries,    \* scan_summary, by run
  stored,       \* repo_ids with a row in repositories
  lastAnalyzed, \* repositories.last_analyzed_at
  dependencies, \* repository_dependencies, by repository and library
  pc,           \* where each worker process is
  platform,     \* its task's platform
  scopes,       \* its task's scopes not yet left, the current one first
  run,          \* run_id of the current scope
  listing,      \* repos of the current scope
  index,        \* position of the current repository
  step,         \* next content step
  since,        \* when that step began, on the scale of completed_at
  forced        \* history: the state of the last forced rescan of a repo

tables  == <<runs, metrics, summaries, stored, lastAnalyzed, dependencies>>
locals  == <<platform, scopes, run, listing, index, step, since>>
vars    == <<queue, requested, clock, tables, pc, locals, forced>>

-----------------------------------------------------------------------------
NoRow == [status |-> "absent", platform |-> None, scope |-> None, total |-> 0,
          processed |-> 0, current |-> None, ended |-> 0]

NoMetric == [status |-> "absent", at |-> 0]

NoLibrary == [seen |-> 0, exposed |-> FALSE]

CurrentRepo(w) == listing[w][index[w]]

\* completed_at of a row that ends now: later than that of every other row.
EndStamp == 1 + Cardinality({id \in RunIds : runs[id].ended > 0})

Goto(w, label) == pc' = [pc EXCEPT ![w] = label]

May(d) == d \in Disturbances

\* Locals as a worker process has them between tasks.
ClearLocals(w) ==
  /\ platform' = [platform EXCEPT ![w] = None]
  /\ scopes' = [scopes EXCEPT ![w] = <<>>]
  /\ run' = [run EXCEPT ![w] = None]
  /\ listing' = [listing EXCEPT ![w] = <<>>]
  /\ index' = [index EXCEPT ![w] = 1]
  /\ step' = [step EXCEPT ![w] = 1]
  /\ since' = [since EXCEPT ![w] = 0]

\* The next iteration of the loop over scopes, or its end.
LeaveScope(w) ==
  /\ scopes' = [scopes EXCEPT ![w] = Tail(@)]
  /\ run' = [run EXCEPT ![w] = None]
  /\ listing' = [listing EXCEPT ![w] = <<>>]
  /\ index' = [index EXCEPT ![w] = 1]
  /\ Goto(w, IF Len(scopes[w]) = 1 THEN "summary" ELSE "scope")
  /\ UNCHANGED <<platform, step, since>>

Init ==
  /\ queue = [p \in Platforms |-> 0]
  /\ requested = 0
  /\ clock = 0
  /\ runs = [id \in RunIds |-> NoRow]
  /\ metrics = [id \in RunIds |-> [r \in Repos |-> NoMetric]]
  /\ summaries = [id \in RunIds |-> None]
  /\ stored = {}
  /\ lastAnalyzed = [r \in Repos |-> None]
  /\ dependencies = [k \in Repos \X Libraries |-> NoLibrary]
  /\ pc = [w \in Workers |-> "idle"]
  /\ platform = [w \in Workers |-> None]
  /\ scopes = [w \in Workers |-> <<>>]
  /\ run = [w \in Workers |-> None]
  /\ listing = [w \in Workers |-> <<>>]
  /\ index = [w \in Workers |-> 1]
  /\ step = [w \in Workers |-> 1]
  /\ since = [w \in Workers |-> 0]
  /\ forced = [r \in Repos |-> "no"]

-----------------------------------------------------------------------------
(* The environment: scheduler, API, time, operators.                        *)

\* An APScheduler job or a rescan endpoint sends the platform's task.
Request(p) ==
  /\ requested < MaxTasks
  /\ requested' = requested + 1
  /\ queue' = [queue EXCEPT ![p] = @ + 1]
  /\ UNCHANGED <<clock, tables, pc, locals, forced>>

Tick ==
  /\ clock < MaxClock
  /\ clock' = clock + 1
  /\ UNCHANGED <<queue, requested, tables, pc, locals, forced>>

\* Some worker is between the metric of r and its last_analyzed_at.
BeingExtracted(r) ==
  \E w \in Workers : pc[w] \in {"content", "stamp"} /\ CurrentRepo(w) = r

\* POST /api/rescan/repository/<repo_id>.
ForceRescan(r) ==
  /\ May("force")
  /\ r \in stored
  /\ lastAnalyzed' = [lastAnalyzed EXCEPT ![r] = None]
  /\ forced' = [forced EXCEPT ![r] =
                  IF BeingExtracted(r) THEN "raced" ELSE "pending"]
  /\ UNCHANGED <<queue, requested, clock, runs, metrics, summaries, stored,
                 dependencies, pc, locals>>

\* Migration 022 is executed, for the first time or once more, over the runs
\* there are: it writes digests for failed ones as well.
Backfill ==
  /\ May("backfill")
  /\ summaries' = [id \in RunIds |->
       IF id \in BackfilledRuns(runs)
       THEN BackfillRow(runs, metrics, dependencies, id) ELSE summaries[id]]
  /\ UNCHANGED <<queue, requested, clock, runs, metrics, stored, lastAnalyzed,
                 dependencies, pc, locals, forced>>

\* The hard time limit (SIGKILL) or a crash takes the process; the message
\* was acknowledged when the task started, so it is not delivered again.
Kill(w) ==
  /\ May("kill")
  /\ pc[w] # "idle"
  /\ Goto(w, "idle")
  /\ ClearLocals(w)
  /\ UNCHANGED <<queue, requested, clock, tables, forced>>

-----------------------------------------------------------------------------
(* The task and its scopes.                                                *)

\* A worker takes a message and fetches the organizations.
StartTask(w, p) ==
  /\ pc[w] = "idle"
  /\ queue[p] > 0
  /\ queue' = [queue EXCEPT ![p] = @ - 1]
  /\ platform' = [platform EXCEPT ![w] = p]
  /\ \/ /\ scopes' = [scopes EXCEPT ![w] = ScopesOf[p]]
        /\ Goto(w, IF ScopesOf[p] = <<>> THEN "summary" ELSE "scope")
     \/ /\ May("api")
        /\ scopes' = scopes
        /\ Goto(w, "record")
  /\ UNCHANGED <<requested, clock, tables, run, listing, index, step, since,
                 forced>>

\* store_organization and store_project of the scope.
StoreScope(w) ==
  /\ pc[w] = "scope"
  /\ \/ Goto(w, "list")
     \/ (May("db") \/ May("api")) /\ Goto(w, "record")
  /\ UNCHANGED <<queue, requested, clock, tables, locals, forced>>

\* list_repositories_or_skip: a permission error skips the scope, any other
\* error leaves the workflow.
ListRepositories(w) ==
  /\ pc[w] = "list"
  /\ \/ /\ \E l \in Listings[Head(scopes[w])] :
             listing' = [listing EXCEPT ![w] = l]
        /\ Goto(w, "start_run")
        /\ UNCHANGED <<platform, scopes, run, index, step, since>>
     \/ May("api") /\ LeaveScope(w)
     \/ May("api") /\ Goto(w, "record") /\ UNCHANGED locals
  /\ UNCHANGED <<queue, requested, clock, tables, forced>>

\* Mutant of StartRun: a run still marked running is taken over.
StartRunResuming(w) ==
  /\ pc[w] = "start_run"
  /\ \E id \in RunIds :
       /\ runs[id].status \in {"absent", "running"}
       /\ runs' = [runs EXCEPT ![id] =
            [NoRow EXCEPT !.status = "running",
                          !.platform = platform[w],
                          !.scope = Head(scopes[w]),
                          !.total = Len(listing[w])]]
       /\ run' = [run EXCEPT ![w] = id]
  /\ index' = [index EXCEPT ![w] = 1]
  /\ Goto(w, "next_repo")
  /\ UNCHANGED <<queue, requested, clock, metrics, summaries, stored,
                 lastAnalyzed, dependencies, platform, scopes, listing, step,
                 since, forced>>

StartRun(w) ==
  /\ pc[w] = "start_run"
  /\ \/ \E id \in RunIds :
          /\ runs[id].status = "absent"
          /\ runs' = [runs EXCEPT ![id] =
               [NoRow EXCEPT !.status = "running",
                             !.platform = platform[w],
                             !.scope = Head(scopes[w]),
                             !.total = Len(listing[w])]]
          /\ run' = [run EXCEPT ![w] = id]
          /\ index' = [index EXCEPT ![w] = 1]
          /\ Goto(w, "next_repo")
     \/ /\ May("db")
        /\ Goto(w, "record")
        /\ UNCHANGED <<runs, run, index>>
  /\ UNCHANGED <<queue, requested, clock, metrics, summaries, stored,
                 lastAnalyzed, dependencies, platform, scopes, listing, step,
                 since, forced>>

-----------------------------------------------------------------------------
(* One repository of the run.                                              *)

SetProgress(id, n, r) ==
  runs' = [runs EXCEPT ![id].processed = n, ![id].current = r]

SetMetric(id, r, status) ==
  metrics' = [metrics EXCEPT ![id][r].status = status]

NewMetric(id, r, status) ==
  metrics' = [metrics EXCEPT ![id][r] = [status |-> status, at |-> clock]]

BeginRepo(w) ==
  /\ pc[w] = "next_repo"
  /\ index[w] <= Len(listing[w])
  /\ \/ /\ SetProgress(run[w], index[w] - 1, CurrentRepo(w))
        /\ Goto(w, "check")
     \/ May("db") /\ Goto(w, "fail_run") /\ UNCHANGED runs
  /\ UNCHANGED <<queue, requested, clock, metrics, summaries, stored,
                 lastAnalyzed, dependencies, locals, forced>>

\* Mutant of ShouldScan: a repository stored but never analyzed is fresh.
ShouldScanNeverAnalyzed(r) ==
  r \in stored => lastAnalyzed[r] # None /\ lastAnalyzed[r] + MinInterval < clock

\* Mutant of ShouldScan: the comparison with the threshold is not strict.
ShouldScanAtThreshold(r) ==
  r \in stored /\ lastAnalyzed[r] # None => lastAnalyzed[r] + MinInterval <= clock

\* should_scan_repository
ShouldScan(r) ==
  r \in stored /\ lastAnalyzed[r] # None => lastAnalyzed[r] + MinInterval < clock

\* Mutant of CheckInterval: a skip leaves no row in extraction_metrics.
CheckIntervalSilently(w) ==
  /\ pc[w] = "check"
  /\ \/ ShouldScan(CurrentRepo(w)) /\ Goto(w, "store")
     \/ ~ShouldScan(CurrentRepo(w)) /\ Goto(w, "end_repo")
  /\ UNCHANGED <<queue, requested, clock, tables, locals, forced>>

\* The check and the metric row of a skip are one transaction, outside the
\* try block of _process_repository: an error there fails the run.
CheckInterval(w) ==
  /\ pc[w] = "check"
  /\ \/ /\ ShouldScan(CurrentRepo(w))
        /\ Goto(w, "store")
        /\ UNCHANGED metrics
     \/ /\ ~ShouldScan(CurrentRepo(w))
        /\ NewMetric(run[w], CurrentRepo(w), "skipped")
        /\ Goto(w, "end_repo")
     \/ May("db") /\ Goto(w, "fail_run") /\ UNCHANGED metrics
  /\ UNCHANGED <<queue, requested, clock, runs, summaries, stored, lastAnalyzed,
                 dependencies, locals, forced>>

\* Mutant of StoreRepo: store_repository stamps last_analyzed_at itself.
StoreRepoStamping(w) ==
  /\ pc[w] = "store"
  /\ stored' = stored \cup {CurrentRepo(w)}
  /\ lastAnalyzed' = [lastAnalyzed EXCEPT ![CurrentRepo(w)] = clock]
  /\ Goto(w, "start_metric")
  /\ UNCHANGED <<queue, requested, clock, runs, metrics, summaries,
                 dependencies, locals, forced>>

\* An error before there is a metric_id ends the repository, without a trace
\* in extraction_metrics.
StoreRepo(w) ==
  /\ pc[w] = "store"
  /\ \/ stored' = stored \cup {CurrentRepo(w)} /\ Goto(w, "start_metric")
     \/ May("db") /\ Goto(w, "end_repo") /\ UNCHANGED stored
  /\ UNCHANGED <<queue, requested, clock, runs, metrics, summaries,
                 lastAnalyzed, dependencies, locals, forced>>

StartMetric(w) ==
  /\ pc[w] = "start_metric"
  /\ \/ /\ NewMetric(run[w], CurrentRepo(w), "started")
        /\ step' = [step EXCEPT ![w] = 1]
        /\ since' = [since EXCEPT ![w] = EndStamp]
        /\ forced' = [forced EXCEPT ![CurrentRepo(w)] = "no"]
        /\ Goto(w, "content")
     \/ /\ May("db")
        /\ Goto(w, "end_repo")
        /\ UNCHANGED <<metrics, step, since, forced>>
  /\ UNCHANGED <<queue, requested, clock, runs, summaries, stored, lastAnalyzed,
                 dependencies, platform, scopes, run, listing, index>>

\* Mutant of StoreRepoDependencies: first_seen_at is written every time.
StoreRepoDependenciesAnew(w, used, exposed, now) ==
  dependencies' = [k \in DOMAIN dependencies |->
     IF k[1] = CurrentRepo(w) /\ k[2] \in used
     THEN [seen |-> now, exposed |-> k[2] \in exposed]
     ELSE dependencies[k]]

\* store_repo_dependencies, and store_dependencies if nothing was enriched: the
\* rows of the libraries in use are added or updated; first_seen_at stays.
StoreRepoDependencies(w, used, exposed, now) ==
  dependencies' = [k \in DOMAIN dependencies |->
     IF k[1] = CurrentRepo(w) /\ k[2] \in used
     THEN [seen    |-> IF dependencies[k].seen = 0 THEN now ELSE dependencies[k].seen,
           exposed |-> k[2] \in exposed]
     ELSE dependencies[k]]

\* _process_branches ... _process_dependencies: each fetches and stores in a
\* transaction of its own and logs any exception away, so that the repository
\* goes on whatever the outcome.  The clock is read before the rows are
\* written: other runs may end in between.
ExtractContent(w) ==
  /\ pc[w] = "content"
  /\ \/ /\ step[w] > Len(ContentSteps)
        /\ Goto(w, "stamp")
        /\ since' = [since EXCEPT ![w] = 0]
        /\ UNCHANGED <<step, dependencies>>
     \/ /\ step[w] <= Len(ContentSteps)
        /\ step' = [step EXCEPT ![w] = @ + 1]
        /\ since' = [since EXCEPT ![w] = EndStamp]
        /\ \/ UNCHANGED dependencies
           \/ /\ ContentSteps[step[w]] = "dependencies"
              /\ \E used \in SUBSET Libraries, now \in since[w]..EndStamp :
                   \E exposed \in SUBSET used :
                     StoreRepoDependencies(w, used, exposed, now)
        /\ UNCHANGED pc
  /\ UNCHANGED <<queue, requested, clock, runs, metrics, summaries, stored,
                 lastAnalyzed, platform, scopes, run, listing, index, forced>>

\* update_repository_analyzed_timestamp
StampAnalyzed(w) ==
  /\ pc[w] = "stamp"
  /\ \/ /\ lastAnalyzed' = [lastAnalyzed EXCEPT ![CurrentRepo(w)] = clock]
        /\ Goto(w, "complete_metric")
     \/ May("db") /\ Goto(w, "fail_metric") /\ UNCHANGED lastAnalyzed
  /\ UNCHANGED <<queue, requested, clock, runs, metrics, summaries, stored,
                 dependencies, locals, forced>>

\* Mutant of CompleteMetric: it refreshes last_analyzed_at once more.
CompleteMetricStamping(w) ==
  /\ pc[w] = "complete_metric"
  /\ SetMetric(run[w], CurrentRepo(w), "completed")
  /\ lastAnalyzed' = [lastAnalyzed EXCEPT ![CurrentRepo(w)] = clock]
  /\ Goto(w, "end_repo")
  /\ UNCHANGED <<queue, requested, clock, runs, summaries, stored, dependencies,
                 locals, forced>>

CompleteMetric(w) ==
  /\ pc[w] = "complete_metric"
  /\ \/ /\ SetMetric(run[w], CurrentRepo(w), "completed")
        /\ Goto(w, "end_repo")
     \/ May("db") /\ Goto(w, "fail_metric") /\ UNCHANGED metrics
  /\ UNCHANGED <<queue, requested, clock, runs, summaries, stored, lastAnalyzed,
                 dependencies, locals, forced>>

\* Mutant of FailMetric: an error of the handler is swallowed too.
FailMetricSwallowing(w) ==
  /\ pc[w] = "fail_metric"
  /\ \/ SetMetric(run[w], CurrentRepo(w), "failed")
     \/ May("db") /\ UNCHANGED metrics
  /\ Goto(w, "end_repo")
  /\ UNCHANGED <<queue, requested, clock, runs, summaries, stored, lastAnalyzed,
                 dependencies, locals, forced>>

\* The handler's own transaction: an error in it leaves _process_repository.
FailMetric(w) ==
  /\ pc[w] = "fail_metric"
  /\ \/ /\ SetMetric(run[w], CurrentRepo(w), "failed")
        /\ Goto(w, "end_repo")
     \/ May("db") /\ Goto(w, "fail_run") /\ UNCHANGED metrics
  /\ UNCHANGED <<queue, requested, clock, runs, summaries, stored, lastAnalyzed,
                 dependencies, locals, forced>>

\* Mutant of EndRepo: the repository is not counted.
EndRepoUncounted(w) ==
  /\ pc[w] = "end_repo"
  /\ SetProgress(run[w], index[w] - 1, None)
  /\ index' = [index EXCEPT ![w] = @ + 1]
  /\ Goto(w, "next_repo")
  /\ UNCHANGED <<queue, requested, clock, metrics, summaries, stored,
                 lastAnalyzed, dependencies, platform, scopes, run, listing,
                 step, since, forced>>

\* Mutant of EndRepo: the loop does not advance.
EndRepoStuck(w) ==
  /\ pc[w] = "end_repo"
  /\ SetProgress(run[w], index[w], None)
  /\ Goto(w, "next_repo")
  /\ UNCHANGED <<queue, requested, clock, metrics, summaries, stored,
                 lastAnalyzed, dependencies, locals, forced>>

EndRepo(w) ==
  /\ pc[w] = "end_repo"
  /\ \/ /\ SetProgress(run[w], index[w], None)
        /\ index' = [index EXCEPT ![w] = @ + 1]
        /\ Goto(w, "next_repo")
     \/ /\ May("db")
        /\ Goto(w, "fail_run")
        /\ UNCHANGED <<runs, index>>
  /\ UNCHANGED <<queue, requested, clock, metrics, summaries, stored,
                 lastAnalyzed, dependencies, platform, scopes, run, listing,
                 step, since, forced>>

-----------------------------------------------------------------------------
(* The end of the run and of the task.                                     *)

\* Mutant of Ended: completed_at is not set.
EndedWithoutTime(row, status) ==
  [row EXCEPT !.status = status, !.current = None]

\* The row as complete_extraction_run or fail_extraction_run leaves it.
Ended(row, status) ==
  [row EXCEPT !.status = status, !.current = None, !.ended = EndStamp]

\* complete_extraction_run writes the digest in the same transaction.  It
\* stands in the else branch of the try: an error in it reaches neither
\* fail_extraction_run nor the next scope, only the task.
CompleteRun(w) ==
  /\ pc[w] = "next_repo"
  /\ index[w] > Len(listing[w])
  /\ \/ LET ended == [runs EXCEPT ![run[w]] = Ended(@, "completed")] IN
           /\ runs' = ended
           /\ summaries' = [summaries EXCEPT ![run[w]] =
                              SummaryRow(ended, metrics, dependencies, run[w])]
           /\ LeaveScope(w)
     \/ /\ May("close")
        /\ Goto(w, "record")
        /\ UNCHANGED <<runs, summaries, locals>>
  /\ UNCHANGED <<queue, requested, clock, metrics, stored, lastAnalyzed,
                 dependencies, forced>>

\* Mutant of FailRun: the workflow goes on with the failed run.
FailRunContinuing(w) ==
  /\ pc[w] = "fail_run"
  /\ runs' = [runs EXCEPT ![run[w]] = Ended(@, "failed")]
  /\ Goto(w, "next_repo")
  /\ UNCHANGED <<queue, requested, clock, metrics, summaries, stored,
                 lastAnalyzed, dependencies, locals, forced>>

\* fail_extraction_run; the exception is re-raised either way.
FailRun(w) ==
  /\ pc[w] = "fail_run"
  /\ \/ runs' = [runs EXCEPT ![run[w]] = Ended(@, "failed")]
     \/ May("close") /\ UNCHANGED runs
  /\ Goto(w, "record")
  /\ UNCHANGED <<queue, requested, clock, metrics, summaries, stored,
                 lastAnalyzed, dependencies, locals, forced>>

\* get_extraction_summary, after the last scope.
FinishTask(w) ==
  /\ pc[w] = "summary"
  /\ \/ Goto(w, "idle") /\ ClearLocals(w)
     \/ May("db") /\ Goto(w, "record") /\ UNCHANGED locals
  /\ UNCHANGED <<queue, requested, clock, tables, forced>>

\* _record_task_failure: start_extraction_run and fail_extraction_run in one
\* transaction; an error in it is swallowed.
RecordTaskFailure(w) ==
  /\ pc[w] = "record"
  /\ \/ \E id \in RunIds :
          /\ runs[id].status = "absent"
          /\ runs' = [runs EXCEPT ![id] =
               Ended([NoRow EXCEPT !.platform = platform[w],
                                   !.scope = TaskLevel], "failed")]
     \/ May("db") /\ UNCHANGED runs
  /\ Goto(w, "idle")
  /\ ClearLocals(w)
  /\ UNCHANGED <<queue, requested, clock, metrics, summaries, stored,
                 lastAnalyzed, dependencies, forced>>

-----------------------------------------------------------------------------
WorkerStep(w) ==
  \/ StoreScope(w) \/ ListRepositories(w) \/ StartRun(w)
  \/ BeginRepo(w) \/ CheckInterval(w) \/ StoreRepo(w) \/ StartMetric(w)
  \/ ExtractContent(w) \/ StampAnalyzed(w) \/ CompleteMetric(w)
  \/ FailMetric(w) \/ EndRepo(w)
  \/ CompleteRun(w) \/ FailRun(w) \/ FinishTask(w) \/ RecordTaskFailure(w)

Next ==
  \/ \E p \in Platforms : Request(p)
  \/ Tick
  \/ \E r \in Repos : ForceRescan(r)
  \/ Backfill
  \/ \E w \in Workers : Kill(w)
  \/ \E w \in Workers, p \in Platforms : StartTask(w, p)
  \/ \E w \in Workers : WorkerStep(w)

Spec == Init /\ [][Next]_vars

\* A worker process that has something to do goes on with it: an idle one
\* takes a waiting message, a busy one runs sequential Python, whose API
\* clients time out and whose locks are only those of its own transactions.
Fairness ==
  \A w \in Workers : /\ WF_vars(WorkerStep(w))
                     /\ WF_vars(\E p \in Platforms : StartTask(w, p))

FairSpec == Spec /\ Fairness
-----------------------------------------------------------------------------
(* Properties.                                                             *)

RunStatus    == {"absent", "running", "completed", "failed"}
MetricStatus == {"absent", "skipped", "started", "completed", "failed"}

\* Where a worker holds a run it has started and not yet ended.
InRun   == {"next_repo", "check", "store", "start_metric", "content", "stamp",
            "complete_metric", "fail_metric", "end_repo", "fail_run"}
Labels  == InRun \cup {"idle", "scope", "list", "start_run", "summary",
                       "record"}
InScope == InRun \cup {"scope", "list", "start_run"}
AtRepo  == InRun \ {"next_repo", "fail_run"}
InMetric == {"content", "stamp", "complete_metric", "fail_metric"}

RunRow == [status : RunStatus, platform : Platforms \cup {None},
           scope : Scopes \cup {TaskLevel, None}, total : Nat,
           processed : Nat, current : Repos \cup {None}, ended : Nat]

Digest == [scanned : SUBSET Repos, new : SUBSET Repos, retired : SUBSET Repos,
           libraries : SUBSET (Repos \X Libraries),
           vulnerabilities : SUBSET (Repos \X Libraries)]

\* NULL is no digest.
ASSUME NoneAssumption == None \notin Digest

\* The types of the tables, of the workers' locals and of the history.
TypeOK ==
  /\ queue \in [Platforms -> Nat]
  /\ requested \in Nat
  /\ clock \in Nat
  /\ runs \in [RunIds -> RunRow]
  /\ metrics \in [RunIds -> [Repos -> [status : MetricStatus, at : Nat]]]
  /\ summaries \in [RunIds -> Digest \cup {None}]
  /\ stored \in SUBSET Repos
  /\ lastAnalyzed \in [Repos -> Nat \cup {None}]
  /\ dependencies \in [Repos \X Libraries -> [seen : Nat, exposed : BOOLEAN]]
  /\ pc \in [Workers -> Labels]
  /\ platform \in [Workers -> Platforms \cup {None}]
  /\ scopes \in [Workers -> Seq(Scopes)]
  /\ run \in [Workers -> RunIds \cup {None}]
  /\ listing \in [Workers -> Seq(Repos)]
  /\ index \in [Workers -> Nat \ {0}]
  /\ step \in [Workers -> Nat \ {0}]
  /\ since \in [Workers -> Nat]
  /\ forced \in [Repos -> {"no", "pending", "raced"}]

\* A worker with a scope to work on has its scope at the head of scopes.
HasScope(w) == pc[w] \in InScope => scopes[w] # <<>>

\* A worker's run is its own and running, and the row counts exactly the
\* repositories the worker has left behind.
OwnRun(w) ==
  pc[w] \in InRun =>
    /\ run[w] \in RunIds
    /\ runs[run[w]].status = "running"
    /\ runs[run[w]].total = Len(listing[w])
    /\ runs[run[w]].processed = index[w] - 1
    /\ index[w] <= Len(listing[w]) + 1
    /\ pc[w] \in AtRepo => index[w] <= Len(listing[w])

\* No two workers ever write the same run: requests overlap freely, and only
\* the run_id keeps their rows apart.
RunsHaveOneWriter ==
  \A v, w \in Workers :
    v # w /\ pc[v] \in InRun /\ pc[w] \in InRun => run[v] # run[w]

\* A metric is left "started" only where its worker still is, or where the
\* worker is about to fail the run.
OpenMetricIsCurrent(w) ==
  pc[w] \in InRun \ {"fail_run"} =>
    \A r \in Repos : metrics[run[w]][r].status = "started" =>
                      pc[w] \in InMetric /\ CurrentRepo(w) = r

\* What a row says agrees with its status, and a row that does not exist yet
\* has no metrics.
RowIsConsistent(id) ==
  /\ runs[id].status = "absent" =>
       runs[id] = NoRow /\ \A r \in Repos : metrics[id][r].status = "absent"
  /\ runs[id].processed <= runs[id].total
  /\ runs[id].status = "completed" => runs[id].processed = runs[id].total
  /\ runs[id].ended > 0 <=> runs[id].status \in {"completed", "failed"}
  /\ runs[id].ended > 0 => runs[id].current = None

\* A completed run is whole: all its repositories were processed, and none of
\* its metrics is still open, whatever failed on the way and whoever else was
\* extracting the same repositories.
CompletedRunsAreWhole ==
  \A id \in RunIds : runs[id].status = "completed" =>
    /\ runs[id].processed = runs[id].total
    /\ runs[id].current = None
    /\ \A r \in Repos : metrics[id][r].status # "started"

\* The inductive invariant behind the theorems on runs.
RunInvariant ==
  /\ TypeOK
  /\ \A w \in Workers : HasScope(w) /\ OwnRun(w)
  /\ RunsHaveOneWriter
  /\ \A w \in Workers : OpenMetricIsCurrent(w)
  /\ \A id \in RunIds : RowIsConsistent(id)
  /\ CompletedRunsAreWhole

\* A run that has ended keeps its row and its metrics, and a digest changes only
\* in the step that completes its run, or by the backfill.
StandsStill(id) ==
  /\ runs[id].ended > 0 => UNCHANGED <<runs[id], metrics[id]>>
  /\ summaries'[id] # summaries[id] =>
       \/ runs[id].status = "running" /\ runs'[id].status = "completed"
       \/ Backfill

\* Nothing is written to a run or to its metrics once the run has ended: later
\* digests compare against a history that stands still.  Only the step that
\* completes a run and the backfill write its digest.
EndedRunsAreFinal == [][\A id \in RunIds : StandsStill(id)]_vars

\* A repository counts as analyzed only because some run opened a metric for
\* it, no later than last_analyzed_at.
StampHasExtraction ==
  \A r \in Repos : lastAnalyzed[r] # None =>
    \E id \in RunIds :
      /\ metrics[id][r].status \in {"started", "completed", "failed"}
      /\ metrics[id][r].at <= lastAnalyzed[r]

\* A skip is backed by an extraction of the repository that some other run
\* began before it: skipping never keeps a repository out for good.
SkipsAreBacked ==
  \A id \in RunIds, r \in Repos : metrics[id][r].status = "skipped" =>
    \E other \in RunIds :
      /\ metrics[other][r].status \in {"started", "completed", "failed"}
      /\ metrics[other][r].at <= metrics[id][r].at

\* A completed run has a digest, a run that has not ended has none, and the
\* repositories a digest counts are those that have a metric row of the run,
\* then and later.
DigestsCountTheirRuns ==
  \A id \in RunIds :
    /\ runs[id].status = "completed" => summaries[id] # None
    /\ summaries[id] # None =>
         /\ runs[id].ended > 0
         /\ summaries[id].scanned =
              {r \in Repos : metrics[id][r].status # "absent"}

\* What running migration 022 again over a live history ("Re-runnable safely")
\* leaves of a digest: its window over all the runs finds for each of them the
\* repositories that were counted before, whatever has ended since, and of the
\* new libraries none is lost.  It may find more of these, of a transaction
\* that was open when the run ended, and it counts vulnerabilities anew, by
\* the flags of today.
BackfillLosesNothing ==
  \A id \in BackfilledRuns(runs) : summaries[id] # None =>
    LET row == BackfillRow(runs, metrics, dependencies, id)
    IN  /\ row.scanned = summaries[id].scanned
        /\ row.new = summaries[id].new
        /\ row.retired = summaries[id].retired
        /\ summaries[id].libraries \subseteq row.libraries
        /\ summaries[id].vulnerabilities \subseteq row.libraries

\* A forced rescan that no extraction of the repository overlaps stays in
\* force until a worker extracts the repository: no skip in between.
PendingRescanHonoured ==
  \A r \in Repos : forced[r] = "pending" =>
    /\ lastAnalyzed[r] = None
    /\ ~BeingExtracted(r)

\* Two extractions of a repository that both complete begin more than
\* min_scan_interval_hours apart (scheduler.yaml: "Minimum hours between scans
\* of the same repository").
ScansRespectInterval ==
  \A a, b \in RunIds, r \in Repos :
    /\ a # b
    /\ metrics[a][r].status = "completed"
    /\ metrics[b][r].status = "completed"
    => \/ metrics[a][r].at + MinInterval < metrics[b][r].at
       \/ metrics[b][r].at + MinInterval < metrics[a][r].at

\* Every repository that was listed has a metric row in the completed run.
EveryListedRepoIsRecorded ==
  \A id \in RunIds : runs[id].status = "completed" =>
    Cardinality(Membership(metrics, id)) = runs[id].total

\* What the readers of extraction_runs are promised.
RunRows == [id \in RunIds |-> [status    |-> runs[id].status,
                              total     |-> runs[id].total,
                              processed |-> runs[id].processed]]

ListingLengths == {Len(l) : l \in UNION {Listings[s] : s \in Scopes}}

Lifecycle == INSTANCE RunLifecycle WITH rows <- RunRows,
                                        Totals <- ListingLengths

\* The runs implement the life cycle of RunLifecycle: counted up one by one,
\* completed only at the total, final afterwards.
ImplementsLifecycle == Lifecycle!LifecycleSpec

\* A task that a worker has begun leaves the worker again, through whatever
\* errors.
TasksEnd == \A w \in Workers : pc[w] # "idle" ~> pc[w] = "idle"

\* Every run that starts ends, whatever fails before the transaction that
\* ends it, as long as that one does not and the worker is not killed.
RunsEnd ==
  \A id \in RunIds : runs[id].status = "running" ~> runs[id].ended > 0

-----------------------------------------------------------------------------
(* What the documentation says and the code does not do.                   *)

\* Plan 029: a retired repository is one that "disappeared"; a run can tell
\* only of the repositories of its own scope.
RetiredWithinScope ==
  \A id \in RunIds : runs[id].status = "completed" =>
    summaries[id].retired \subseteq
      UNION {{l[i] : i \in DOMAIN l} : l \in Listings[runs[id].scope]}
=============================================================================
