----------------------------- MODULE ContentStore -----------------------------
(***************************************************************************)
(* What the extraction of a repository stores, and how: every content step *)
(* of _process_repository fetches a list from the platform and stores it   *)
(* in one transaction (session_scope), item by item, through the store_*   *)
(* functions of database/storage.py.                                       *)
(*                                                                         *)
(* A store function is written here as the sequence of the calls it makes  *)
(* on its SQLAlchemy session.  The session is opened with autoflush=False  *)
(* (database/connection.py), and that shapes everything: a lookup sees the *)
(* committed rows and the rows this session has flushed, and not the rows  *)
(* it has only added.  A flush inserts the added rows one at a time; a row *)
(* whose unique key another transaction has inserted and not committed     *)
(* waits for that transaction, as PostgreSQL has it, and of two            *)
(* transactions that wait for each other the database aborts one.          *)
(*                                                                         *)
(* Workers (celery processes) run extractions at the same time, of         *)
(* different repositories or, when requests overlap, of the same one.      *)
(***************************************************************************)
EXTENDS Integers, Sequences, FiniteSets, TLC, SequencesExt

CONSTANTS
    Workers,        \* celery worker processes
    Repos,          \* repositories
    AzureRepos,     \* those of them that the Azure DevOps workflow extracts
    Listing,        \* Listing[r][s]: the lists step s may fetch for r
    Normal,         \* Normal[e]: the address e stripped and lower-cased
    Blank,          \* the empty address of a deleted user
    MaxBranches,    \* ExtractionLimits.max_branches
    MaxPullRequests,\* ExtractionLimits.max_pull_requests
    MaxComments,    \* comments stored of a pull request
    Faults,         \* which faults may happen
    MaxScans,       \* bound: extractions started
    MaxFaults       \* bound: faults that happen

ASSUME ContentAssumption ==
    /\ IsFiniteSet(Workers)
    /\ AzureRepos \subseteq Repos
    /\ Blank \in DOMAIN Normal
    /\ Normal[Blank] = Blank
    /\ {MaxBranches, MaxPullRequests, MaxComments, MaxScans, MaxFaults} \subseteq Nat
    /\ Faults \subseteq {"call", "soft", "kill"}

VARIABLES
    db,         \* the committed rows, a function from key to value
    session,    \* session[w]: the open session of worker w
    scan,       \* scan[w]: the extraction that worker w runs
    extracted,  \* the sum of commits_extracted over extraction_metrics
    promised,   \* history: keys listed by extractions that lost no batch
    started,    \* bounded: extractions started so far
    faults      \* bounded: faults so far

vars == <<db, session, scan, extracted, promised, started, faults>>

-----------------------------------------------------------------------------
(* Rows.  A key names the table and what its unique constraint is on.      *)

Shared == "shared"      \* the owner of a row that is not a repository's own

OrganizationKey(o) == <<"organizations", Shared, o>>
ProjectKey(p)     == <<"projects", Shared, p>>
ContributorKey(e) == <<"contributors", Shared, e>>
TeamKey(t)        == <<"teams", Shared, t>>
ServiceKey(s)     == <<"services", Shared, s>>
RepositoryKey(r)  == <<"repositories", Shared, r>>
LinkKey(r, s)     == <<"repository_services", r, s>>
BranchKey(r, b)   == <<"branches", r, b>>
StackKey(r, c, n) == <<"repository_stack", r, <<c, n>>>>
TechnologyKey(n)  == <<"technologies", Shared, n>>
ReadmeKey(r, p)   == <<"readme_files", r, p>>
CommitKey(c)      == <<"commits", Shared, c>>
PullRequestKey(r, n) == <<"pull_requests", r, n>>
PackageKey(p)     == <<"packages", Shared, p>>
DependencyKey(r, p)  == <<"repository_dependencies", r, p>>

\* Tables without a unique constraint but their serial number.
ReviewKey(r, n, i)  == <<"pr_reviews", r, <<n, i>>>>
CommentKey(r, n, i) == <<"pr_comments", r, <<n, i>>>>
VulnerabilityKey(p, v, w) == <<"vulnerabilities", p, <<v, w>>>>
Unconstrained == {"pr_reviews", "pr_comments", "vulnerabilities"}

RowsOf(table) == {k \in DOMAIN db : k[1] = table}

\* The vulnerabilities of package p, whoever inserted them.
VulnerabilityRows(p) == {k \in RowsOf("vulnerabilities") : k[2] = p}

-----------------------------------------------------------------------------
(* Calls on a session.  A store function is a sequence of them.            *)

\* look the key up and go on with one sequence or with the other
Either(k, found, missing) ==
    [call |-> "lookup", key |-> k, found |-> found, missing |-> missing]

\* add a row; flush at once, or leave that to a later flush
Add(k, v)      == [call |-> "add", key |-> k, value |-> v, flush |-> FALSE, counted |-> FALSE]
AddFlush(k, v) == [Add(k, v) EXCEPT !.flush = TRUE]

\* set the attributes of a row that is stored
Set(k, v) == [call |-> "set", key |-> k, value |-> v]

\* the same call, with the new row counted in stored_count
Counted(c) == [c EXCEPT !.counted = TRUE]

\* replace the vulnerabilities of a package that is stored, or add them all
Replace(p, cves) == [call |-> "replace", package |-> p, cves |-> cves]

\* store a README, linked to the one above it if that one is found
Link(r, f) == [call |-> "link", repo |-> r, readme |-> f]

\* an exception of the code itself
Raise == [call |-> "raise"]

GetOrCreate(k, v) == <<Either(k, <<>>, <<AddFlush(k, v)>>)>>
Upsert(k, v)      == <<Either(k, <<Set(k, v)>>, <<Add(k, v)>>)>>

\* The calls of F for each item in turn.
ForEach(F(_), items) == FlattenSeq([i \in DOMAIN items |-> F(items[i])])

\* items[:n]
Slice(items, n) == SubSeq(items, 1, IF Len(items) < n THEN Len(items) ELSE n)

Stored == [of |-> {}]               \* the value of a row that refers to none
Of(keys) == [of |-> keys]           \* ... of a row that refers to these rows

-----------------------------------------------------------------------------
(* The store functions of database/storage.py.                             *)

GetOrCreateContributor(e) == GetOrCreate(ContributorKey(Normal[e]), Stored)
GetOrCreateTeam(t)        == GetOrCreate(TeamKey(t), Stored)
GetOrCreateService(s)     == GetOrCreate(ServiceKey(s), Stored)

StoreOrganization(o) == GetOrCreate(OrganizationKey(o), Stored)
StoreProject(o, p)   == GetOrCreate(ProjectKey(p), Of({OrganizationKey(o)}))

\* The repository is looked up before its team and its service are made.
\* A repository that is stored gets its attributes set, whichever team it
\* had; links to services are only ever added.
StoreRepository(r, m) ==
    LET owners == (IF m.team = {} THEN <<>> ELSE GetOrCreateTeam(CHOOSE t \in m.team : TRUE))
                  \o ForEach(GetOrCreateService, SetToSeq(m.service))
        row == Of({ProjectKey(m.project)} \cup {TeamKey(t) : t \in m.team})
        link(s) == GetOrCreate(LinkKey(r, s), Of({RepositoryKey(r), ServiceKey(s)}))
    IN  <<Either(RepositoryKey(r), owners \o <<Set(RepositoryKey(r), row)>>,
                                   owners \o <<AddFlush(RepositoryKey(r), row)>>)>>
        \o ForEach(link, SetToSeq(m.service))

StoreBranch(r, b) == Upsert(BranchKey(r, b), Of({RepositoryKey(r)}))

StoreLanguages(r, languages) ==
    LET store(l) == Upsert(StackKey(r, "language", l), Of({RepositoryKey(r)}))
    IN  ForEach(store, languages)

StoreDetections(r, names) ==
    LET store(n) == Upsert(StackKey(r, "framework", n), Of({RepositoryKey(r)}))
    IN  ForEach(store, names)

StoreTechnologyEol(n) == Upsert(TechnologyKey(n), Stored)

\* A commit that is stored, for whichever repository, is left alone.
StoreCommit(r, c) ==
    <<Either(CommitKey(c.sha), <<>>,
             GetOrCreateContributor(c.author)
             \o <<Counted(Add(CommitKey(c.sha),
                      Of({RepositoryKey(r), ContributorKey(Normal[c.author])})))>>)>>

\* A mistake: the reviewer's contributor is taken to exist.
StorePrReviewUnresolved(r, p, i) ==
    <<Add(ReviewKey(r, p.number, i),
          Of({PullRequestKey(r, p.number), ContributorKey(Normal[p.reviewers[i]])}))>>

StorePrReview(r, p, i) ==
    LET e == p.reviewers[i]
    IN  GetOrCreateContributor(e)
        \o <<Add(ReviewKey(r, p.number, i),
                 Of({PullRequestKey(r, p.number), ContributorKey(Normal[e])}))>>

StorePrComment(r, p, i) ==
    LET e == p.commenters[i]
    IN  GetOrCreateContributor(e)
        \o <<Add(CommentKey(r, p.number, i),
                 Of({PullRequestKey(r, p.number), ContributorKey(Normal[e])}))>>

\* A pull request that is stored is left as it was first seen.  A deleted
\* author gets no contributor; deleted reviewers and commenters do.
StorePullRequest(r, p) ==
    LET author == IF p.author = Blank THEN {} ELSE {p.author}
        review(i)  == StorePrReview(r, p, i)
        comment(i) == StorePrComment(r, p, i)
    IN  <<Either(PullRequestKey(r, p.number), <<>>,
                 ForEach(GetOrCreateContributor, SetToSeq(author))
                 \o <<Counted(AddFlush(PullRequestKey(r, p.number),
                          Of({RepositoryKey(r)} \cup {ContributorKey(Normal[e]) : e \in author})))>>
                 \o ForEach(review, [i \in DOMAIN p.reviewers |-> i])
                 \o ForEach(comment, Slice([i \in DOMAIN p.commenters |-> i], MaxComments)))>>

StoreReadme(r, f) == <<Either(RepositoryKey(r), <<Link(r, f)>>, <<Raise>>)>>

\* What the lookup of a package comes back with: OSV.dev's answer, the empty
\* list when it cannot be reached, or nothing at all when reading the answer
\* raised.
Metadata(d) == [found |-> d.reply # "raised",
                cves  |-> IF d.reply = "answered" THEN d.cves ELSE {}]

StorePackageMetadata(d) ==
    IF Metadata(d).found
    THEN <<Either(PackageKey(d.package), <<>>, <<AddFlush(PackageKey(d.package), Stored)>>),
           Replace(d.package, Metadata(d).cves)>>
    ELSE <<>>

StoreRepoDependencies(r, dependencies) ==
    LET store(d) == Upsert(DependencyKey(r, d.package), Of({RepositoryKey(r)}))
    IN  ForEach(store, dependencies)

-----------------------------------------------------------------------------
(* The steps of _process_repository: what each stores of the list it       *)
(* fetched.                                                                *)

\* The organization and, on GitHub, its one project, in one transaction.
ProcessOrganization(o) == StoreOrganization(o.name) \o StoreProject(o.name, o.project)

\* On Azure DevOps the projects follow, each in a transaction of its own.
AzureProcessOrganization(o) == StoreOrganization(o.name)
AzureProcessProject(o) ==
    <<Either(OrganizationKey(o.name), StoreProject(o.name, o.project), <<Raise>>)>>

\* The repository's project is looked up by name.
ProcessRepository(r, m) ==
    <<Either(ProjectKey(m.project), StoreRepository(r, m), <<Raise>>)>>

\* A mistake: the limit is off by one.
ProcessBranchesOffByOne(r, branches) ==
    LET store(b) == StoreBranch(r, b) IN ForEach(store, Slice(branches, MaxBranches - 1))

ProcessBranches(r, branches) ==
    LET store(b) == StoreBranch(r, b) IN ForEach(store, Slice(branches, MaxBranches))

ProcessLanguages(r, languages) == StoreLanguages(r, languages)

ProcessDetections(r, names) == StoreDetections(r, names)

\* The rows of ProcessDetections are read after the session that stored them
\* has committed and closed.  A commit expires them, and an expired row of a
\* closed session cannot be read.
ProcessEnrichment(entries) ==
    IF entries = <<>> THEN <<>> ELSE <<Raise>> \o ForEach(StoreTechnologyEol, entries)

ProcessReadmeFiles(r, files) ==
    LET store(f) == StoreReadme(r, f) IN ForEach(store, files)

ProcessCommits(r, commits) ==
    LET store(c) == StoreCommit(r, c) IN ForEach(store, commits)

ProcessPullRequests(r, prs) ==
    LET store(p) == StorePullRequest(r, p) IN ForEach(store, Slice(prs, MaxPullRequests))

\* Packages first, then the repository's use of them.
ProcessDependencies(r, dependencies) ==
    ForEach(StorePackageMetadata, dependencies) \o StoreRepoDependencies(r, dependencies)

GitHubSteps == <<"organization", "repository", "branches", "languages", "detections",
                 "enrichment", "readmes", "commits", "pull_requests", "dependencies">>

\* The Azure DevOps workflow goes through organizations and projects, and its
\* step for detections and enrichment is _process_technologies.
AzureSteps == <<"organization", "project", "repository", "branches", "languages", "technologies",
                "enrichment", "readmes", "commits", "pull_requests", "dependencies">>

StepsOf(r) == IF r \in AzureRepos THEN AzureSteps ELSE GitHubSteps

\* The steps that store what others belong to: without them nothing follows.
Scaffold == {"organization", "project", "repository"}

IsList(items) == items \in Seq(ToSet(items))

\* What the platform answers is a list, but for the first steps' one record;
\* a repository has at most one team.
ASSUME ListingAssumption ==
    \A r \in Repos :
      /\ \A step \in ToSet(StepsOf(r)) \ (Scaffold \cup {"enrichment"}) :
            \A items \in Listing[r][step] : IsList(items)
      /\ \A m \in Listing[r]["repository"] :
            IsFiniteSet(m.service) /\ \A t, u \in m.team : t = u
      /\ \A prs \in Listing[r]["pull_requests"] :
            \A p \in ToSet(prs) : IsList(p.reviewers) /\ IsList(p.commenters)
      /\ \A dependencies \in Listing[r]["dependencies"] :
            \A d \in ToSet(dependencies) : IsFiniteSet(d.cves)

GitHubPlan(r, step, items, entries) ==
    CASE step = "organization"  -> ProcessOrganization(items)
      [] step = "repository"    -> ProcessRepository(r, items)
      [] step = "branches"      -> ProcessBranches(r, items)
      [] step = "languages"     -> ProcessLanguages(r, items)
      [] step = "detections"    -> ProcessDetections(r, items)
      [] step = "enrichment"    -> ProcessEnrichment(entries)
      [] step = "readmes"       -> ProcessReadmeFiles(r, items)
      [] step = "commits"       -> ProcessCommits(r, items)
      [] step = "pull_requests" -> ProcessPullRequests(r, items)
      [] step = "dependencies"  -> ProcessDependencies(r, items)

AzurePlan(r, step, items, entries) ==
    CASE step = "organization" -> AzureProcessOrganization(items)
      [] step = "project"      -> AzureProcessProject(items)
      [] step = "technologies" -> ProcessDetections(r, items)
      [] OTHER                 -> GitHubPlan(r, step, items, entries)

Plan(r, step, items, entries) ==
    IF r \in AzureRepos THEN AzurePlan(r, step, items, entries)
                        ELSE GitHubPlan(r, step, items, entries)

\* The keys a list asks to be stored, as the limits have it.
Asked(r, step, items) ==
    CASE step = "organization"  -> {OrganizationKey(items.name)}
      [] step = "project"       -> {ProjectKey(items.project)}
      [] step = "repository"    -> {RepositoryKey(r)}
      [] step = "branches"      -> {BranchKey(r, b) : b \in ToSet(Slice(items, MaxBranches))}
      [] step = "languages"     -> {StackKey(r, "language", l) : l \in ToSet(items)}
      [] step \in {"detections", "technologies"} ->
                                   {StackKey(r, "framework", n) : n \in ToSet(items)}
      [] step = "commits"       -> {CommitKey(c.sha) : c \in ToSet(items)}
      [] step = "pull_requests" -> {PullRequestKey(r, p.number) :
                                       p \in ToSet(Slice(items, MaxPullRequests))}
      [] step = "dependencies"  -> {DependencyKey(r, d.package) : d \in ToSet(items)}
      [] OTHER                  -> {}

-----------------------------------------------------------------------------
(* Sessions and extractions.                                               *)

NoRows == <<>>      \* the function with no key

\* The rows with row k, inserted or replaced.
With(rows, k, v) == [x \in DOMAIN rows \cup {k} |-> IF x = k THEN v ELSE rows[x]]

Session(plan) ==
    [plan |-> plan, pending |-> <<>>, flushing |-> FALSE, rows |-> NoRows,
     inserted |-> {}, deleted |-> {}, count |-> 0]

Closed == Session(<<>>)

Idle == [at |-> "idle", repo |-> "none", step |-> 0, commits |-> 0, entries |-> <<>>,
         lost |-> 0, asked |-> {}, soft |-> FALSE]

Steps(w)  == StepsOf(scan[w].repo)
Step(w)   == Steps(w)[scan[w].step]

Init ==
    /\ db = NoRows
    /\ session = [w \in Workers |-> Closed]
    /\ scan = [w \in Workers |-> Idle]
    /\ extracted = 0
    /\ promised = {}
    /\ started = 0
    /\ faults = 0

\* The position after the current step.
Advanced(w) == IF scan[w].step = Len(Steps(w))
               THEN [scan[w] EXCEPT !.at = "finish"]
               ELSE [scan[w] EXCEPT !.at = "fetch", !.step = @ + 1]

Fault(kind) ==
    /\ kind \in Faults
    /\ faults < MaxFaults
    /\ faults' = faults + 1

\* The step's except clause: its transaction is rolled back, the error is
\* logged and the next step follows, with nothing counted.  A repository
\* that cannot be stored is given up, an organization or project fails the
\* task; the enrichment has nothing to lose.
AfterLoss(w, position) ==
    IF Step(w) \in Scaffold THEN Idle
    ELSE [position EXCEPT !.lost = IF Step(w) = "enrichment" THEN @ ELSE @ + 1,
                          !.entries = IF Step(w) \in {"detections", "technologies"}
                                      THEN <<>> ELSE @]

\* A mistake: what the step had counted is kept.
LoseBatchCounting(w) ==
    /\ session' = [session EXCEPT ![w] = Closed]
    /\ scan' = [scan EXCEPT ![w] = AfterLoss(w, [Advanced(w) EXCEPT !.commits = session[w].count])]
    /\ UNCHANGED <<db, extracted, promised, started>>

LoseBatch(w) ==
    /\ session' = [session EXCEPT ![w] = Closed]
    /\ scan' = [scan EXCEPT ![w] = AfterLoss(w, Advanced(w))]
    /\ UNCHANGED <<db, extracted, promised, started>>

-----------------------------------------------------------------------------
(* Steps of an extraction.                                                 *)

\* A worker starts on a repository.
BeginScan(w, r) ==
    /\ scan[w].at = "idle"
    /\ started < MaxScans
    /\ started' = started + 1
    /\ scan' = [scan EXCEPT ![w] = [Idle EXCEPT !.at = "fetch", !.repo = r, !.step = 1]]
    /\ UNCHANGED <<db, session, extracted, promised, faults>>

\* The platform answers and the step opens its transaction.  The enrichment
\* asks the platform nothing.
Fetch(w) ==
    /\ scan[w].at = "fetch"
    /\ \E items \in IF Step(w) = "enrichment" THEN {<<>>} ELSE Listing[scan[w].repo][Step(w)] :
         /\ session' = [session EXCEPT ![w] =
                          Session(Plan(scan[w].repo, Step(w), items, scan[w].entries))]
         /\ scan' = [scan EXCEPT ![w].at = "open",
                                 ![w].asked = @ \cup Asked(scan[w].repo, Step(w), items),
                                 ![w].entries = IF Step(w) \in {"detections", "technologies"}
                                                THEN items ELSE @]
    /\ UNCHANGED <<db, extracted, promised, started, faults>>

\* A failed call.  The step before the first stores what is known of the
\* repository, whose own metadata may be missing (its empty answer).
CallFails(w) ==
    /\ scan[w].at = "fetch"
    /\ Step(w) \notin Scaffold \cup {"enrichment"}
    /\ Fault("call")
    /\ LoseBatch(w)

\* The next call of the plan of worker w's session, when no flush is due.
Calls(w, name) ==
    /\ scan[w].at = "open"
    /\ ~session[w].flushing
    /\ session[w].plan # <<>>
    /\ Head(session[w].plan).call = name

Sees(w, k) == k \in DOMAIN db \cup session[w].inserted

\* Rows that others refer to are inserted before those that refer to them.
Queued(pending, row) ==
    IF row[1][1] \in {"contributors", "packages"} THEN <<row>> \o pending
                                                  ELSE Append(pending, row)

Lookup(w) ==
    /\ Calls(w, "lookup")
    /\ LET c == Head(session[w].plan)
       IN  session' = [session EXCEPT ![w].plan =
                         (IF Sees(w, c.key) THEN c.found ELSE c.missing) \o Tail(@)]
    /\ UNCHANGED <<db, scan, extracted, promised, started, faults>>

AddRow(w) ==
    /\ Calls(w, "add")
    /\ LET c == Head(session[w].plan)
       IN  session' = [session EXCEPT ![w].plan = Tail(@),
                                      ![w].pending = Queued(@, <<c.key, c.value>>),
                                      ![w].flushing = c.flush,
                                      ![w].count = IF c.counted THEN @ + 1 ELSE @]
    /\ UNCHANGED <<db, scan, extracted, promised, started, faults>>

SetRow(w) ==
    /\ Calls(w, "set")
    /\ LET c == Head(session[w].plan)
       IN  session' = [session EXCEPT ![w].plan = Tail(@),
                                      ![w].rows = With(@, c.key, c.value)]
    /\ UNCHANGED <<db, scan, extracted, promised, started, faults>>

\* The rows to delete are those the session reads now.
ReplaceVulnerabilities(w) ==
    /\ Calls(w, "replace")
    /\ LET c == Head(session[w].plan)
           fresh == [v \in 1..Cardinality(c.cves) |->
                       <<VulnerabilityKey(c.package, SetToSeq(c.cves)[v], w),
                         Of({PackageKey(c.package)})>>]
       IN  session' = [session EXCEPT ![w].plan = Tail(@),
                                      ![w].deleted = @ \cup VulnerabilityRows(c.package),
                                      ![w].pending = @ \o fresh]
    /\ UNCHANGED <<db, scan, extracted, promised, started, faults>>

\* The branch of a README is NULL, as the workflows ask for no branch, and a
\* unique constraint does not hold NULLs to be equal: each inserting worker
\* may have a row for the same path.  The row above is found if it is
\* stored, not if it was only added.
LinkReadme(w) ==
    /\ Calls(w, "link")
    /\ LET c == Head(session[w].plan)
           rows(path) == {k \in DOMAIN db \cup session[w].inserted :
                            k[1] = "readme_files" /\ k[2] = c.repo /\ k[3][1] = path}
           above == IF rows(c.readme.parent) = {} THEN {}
                    ELSE {CHOOSE k \in rows(c.readme.parent) : TRUE}
           row == Of({RepositoryKey(c.repo)} \cup above)
           old == rows(c.readme.path)
       IN  session' = [session EXCEPT
              ![w].plan = Tail(@),
              ![w].rows = IF old = {} THEN @ ELSE With(@, CHOOSE k \in old : TRUE, row),
              ![w].pending = IF old # {} THEN @
                             ELSE Append(@, <<ReadmeKey(c.repo, <<c.readme.path, w>>), row>>)]
    /\ UNCHANGED <<db, scan, extracted, promised, started, faults>>

RaiseError(w) ==
    /\ Calls(w, "raise")
    /\ LoseBatch(w)
    /\ UNCHANGED faults

-----------------------------------------------------------------------------
(* Flush and commit.                                                       *)

\* Worker w is about to insert row k: a flush is due, or all calls are made.
Inserts(w, k) ==
    /\ scan[w].at = "open"
    /\ session[w].flushing \/ session[w].plan = <<>>
    /\ session[w].pending # <<>>
    /\ k = Head(session[w].pending)[1]

WaitsFor(w, v) ==
    /\ w # v
    /\ \E k \in session[v].inserted : Inserts(w, k) /\ k[1] \notin Unconstrained

InsertRow(w) ==
    /\ \E k \in {Head(session[v].pending)[1] : v \in {u \in {w} : session[u].pending # <<>>}} :
         /\ Inserts(w, k)
         /\ k[1] \in Unconstrained \/ ~Sees(w, k)
         /\ session' = [session EXCEPT
                          ![w].rows = With(@, k, Head(session[w].pending)[2]),
                          ![w].inserted = @ \cup {k},
                          ![w].pending = Tail(@),
                          ![w].flushing = @ /\ Len(session[w].pending) > 1]
    /\ \A v \in Workers : ~WaitsFor(w, v)
    /\ UNCHANGED <<db, scan, extracted, promised, started, faults>>

\* The unique constraint: the row has been committed by another since it was
\* looked up, or is added twice by this session.
Conflict(w) ==
    /\ session[w].pending # <<>>
    /\ LET k == Head(session[w].pending)[1]
       IN  Inserts(w, k) /\ k[1] \notin Unconstrained /\ Sees(w, k)
    /\ LoseBatch(w)
    /\ UNCHANGED faults

\* The database aborts one of the transactions that wait for each other.
Deadlocked(w) ==
    /\ \E ring \in SUBSET Workers :
         /\ w \in ring
         /\ \A v \in ring : \E u \in ring : WaitsFor(v, u)
         /\ \A v \in ring : \E u \in ring : WaitsFor(u, v)
    /\ LoseBatch(w)
    /\ UNCHANGED faults

\* The transaction commits.  Only the commits step adds to the count that
\* ends up in commits_extracted.
Commit(w) ==
    /\ scan[w].at = "open"
    /\ session[w].plan = <<>>
    /\ session[w].pending = <<>>
    /\ LET s == session[w]
       IN  /\ db' = [k \in (DOMAIN db \ s.deleted) \cup DOMAIN s.rows |->
                       IF k \in DOMAIN s.rows THEN s.rows[k] ELSE db[k]]
           /\ scan' = [scan EXCEPT ![w] =
                         [Advanced(w) EXCEPT !.commits = IF Step(w) = "commits" THEN s.count ELSE @]]
    /\ session' = [session EXCEPT ![w] = Closed]
    /\ UNCHANGED <<extracted, promised, started, faults>>

\* last_analyzed_at is stamped and the metric completed with the counts.
FinishScan(w) ==
    /\ scan[w].at = "finish"
    /\ extracted' = extracted + scan[w].commits
    /\ promised' = IF scan[w].lost = 0 THEN promised \cup scan[w].asked ELSE promised
    /\ scan' = [scan EXCEPT ![w] = Idle]
    /\ UNCHANGED <<db, session, started, faults>>

-----------------------------------------------------------------------------
(* Disturbances.                                                           *)

\* The soft time limit of a task is an Exception raised wherever the worker
\* is.  The except clause of a content step takes it for a failed step, and
\* the extraction goes on; that of _process_repository gives it up.  (Before
\* the repository is being stored it is the run's: see Extraction.)
SoftLimit(w) ==
    /\ scan[w].at # "idle"
    /\ scan[w].at = "fetch" => Step(w) # "repository"
    /\ ~scan[w].soft
    /\ Fault("soft")
    /\ session' = [session EXCEPT ![w] = Closed]
    /\ scan' = [scan EXCEPT ![w] =
                  IF @.at = "finish" THEN Idle
                  ELSE AfterLoss(w, [Advanced(w) EXCEPT !.soft = TRUE])]
    /\ UNCHANGED <<db, extracted, promised, started>>

\* The hard limit or the end of the container: the worker is killed and its
\* connection gone.
Kill(w) ==
    /\ scan[w].at # "idle"
    /\ Fault("kill")
    /\ session' = [session EXCEPT ![w] = Closed]
    /\ scan' = [scan EXCEPT ![w] = Idle]
    /\ UNCHANGED <<db, extracted, promised, started>>

WorkerStep(w) ==
    \/ Fetch(w) \/ Lookup(w) \/ AddRow(w) \/ SetRow(w) \/ ReplaceVulnerabilities(w)
    \/ LinkReadme(w) \/ RaiseError(w) \/ InsertRow(w) \/ Conflict(w) \/ Deadlocked(w)
    \/ Commit(w) \/ FinishScan(w)

Next ==
    \E w \in Workers :
        \/ \E r \in Repos : BeginScan(w, r)
        \/ WorkerStep(w)
        \/ CallFails(w)
        \/ SoftLimit(w)
        \/ Kill(w)

Spec == Init /\ [][Next]_vars

-----------------------------------------------------------------------------
(* Properties.                                                             *)

\* commits_extracted adds up to no more than the commits there are: however
\* the extractions of two workers interleave and whichever of their batches
\* fail, no commit is counted by two extractions, and none that was rolled
\* back.  The digest of a run is the sum of these numbers.
NoCommitCountedTwice ==
    extracted + SumFunction([w \in Workers |-> scan[w].commits])
        <= Cardinality(RowsOf("commits"))

\* Every row refers to committed rows only, although the rows of a batch are
\* inserted in several flushes and a batch may be lost between any two.
ReferencesHold == \A k \in DOMAIN db : db[k].of \subseteq DOMAIN db

\* An extraction that lost no batch has stored all that the platform listed,
\* also when another worker extracted the same at the same time: what it
\* skipped as stored, or left to be found, is there.
ListedIsStored == promised \subseteq DOMAIN db

\* The technologies detected in a repository are enriched in that extraction
\* (unless one of its batches was lost).
DetectedAreEnriched ==
    \A w \in Workers :
        scan[w].at = "finish" /\ scan[w].lost = 0 =>
            \A n \in ToSet(scan[w].entries) : TechnologyKey(n) \in DOMAIN db

=============================================================================
