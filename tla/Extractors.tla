------------------------------- MODULE Extractors -------------------------------
(***************************************************************************)
(* The extractors at work: a run lists the repositories of a scope         *)
(* (get_repositories, through list_repositories_or_skip) and scans them    *)
(* one after the other, step by step, while the platform goes on changing. *)
(* Answers to cached methods (extractors/cache.py) are kept in the         *)
(* extractor until the scan of the repository ends, and on disk if         *)
(* EXTRACTOR_FILE_CACHE_ENABLED is set.                                    *)
(*                                                                         *)
(* An answer is known by the revision of the repository it was given at    *)
(* and by whether the call succeeded.  What PyGithub's PaginatedList does  *)
(* is modelled from its use here: it is a generator, and a generator that  *)
(* has raised is at its end.                                               *)
(***************************************************************************)
EXTENDS RepositoryFiles

CONSTANTS
    Platforms,      \* the platforms to consider
    Accounts,       \* what a scope may be on GitHub: organization, self, other
    Orgs,           \* the repositories a scope may hold at first, latest first
    Repos,          \* all repositories
    Private,        \* those that only their owners see
    Segments,       \* names of files and directories
    Trees,          \* Trees[r]: the file trees of r, one for each revision
    FirstCommits,   \* FirstCommits[r]: how many commits r has at first
    Pulls,          \* Pulls[p]: the pull requests on platform p
    PageSize, MaxItems, MaxRetries,     \* the configuration of the extractor
    MaxChanges,     \* bound: pushes and new repositories
    MaxFailures,    \* bound: calls that fail for good
    MaxRuns         \* bound: runs

NoRepo == ""

ASSUME ExtractorsAssumption ==
    /\ {PageSize, MaxItems} \subseteq Nat \ {0}
    /\ {MaxRetries, MaxChanges, MaxFailures, MaxRuns} \subseteq Nat
    /\ Platforms \subseteq {"github", "azure_devops"}
    /\ Private \subseteq Repos /\ NoRepo \notin Repos
    /\ \A repos \in Orgs : repos \in Seq(Repos)
    /\ FirstCommits \in [Repos -> Nat \ {0}]

\* A path has segments, none of them empty.
Path == Seq(Segments) \ {<<>>}

ASSUME TreesAssumption ==
    /\ NoName \notin Segments
    /\ \A r \in Repos : Trees[r] \in Seq(Seq(Path)) /\ Trees[r] # <<>>

\* What the platforms answer of a pull request: "merged" is a status of the
\* extractor's own; one that is completed has been closed, and was in the
\* queue before that.
ASSUME PullsAssumption ==
    /\ \A pr \in ToSet(Pulls["github"]) : pr.state # "merged"
    /\ \A pr \in ToSet(Pulls["azure_devops"]) :
         /\ {pr.created, pr.queued, pr.closed} \subseteq Nat \cup {NoDate}
         /\ pr.status # "merged" /\ (pr.status = "completed" => pr.closed # NoDate)
         /\ pr.closed # NoDate => pr.queued <= pr.closed

VARIABLES
    platform, account,  \* where the scope is
    org,            \* its repositories, latest first
    revision,       \* revision[r]: how often r has been pushed to
    commits,        \* commits[r]: how many commits its default branch has
    run,            \* the run: where it is, its repositories
    page,           \* the listing under way
    scan,           \* the scan under way
    attempts,       \* retries of the call under way
    cache,          \* the answers kept in the extractor
    disk,           \* the answers kept on disk
    changes, failures, runs     \* bounded: how many so far

platformVars == <<platform, account, org, revision, commits, changes>>
vars == <<platformVars, run, page, scan, attempts, cache, disk, failures, runs>>

Nothing == [at |-> "idle", filing |-> FALSE, public |-> FALSE, items |-> <<>>, index |-> 0, refused |-> FALSE]
FirstPage == [items |-> <<>>, number |-> 0, ended |-> FALSE, refused |-> FALSE, rewritten |-> FALSE,
              head |-> 0]
NothingFound == [languages |-> {}, technologies |-> {}, readmes |-> <<>>, commits |-> FirstPage,
                 pulls |-> <<>>, manifests |-> {}]
NoScan == [repo |-> NoRepo, from |-> 0, step |-> 1, todo |-> <<>>, tree |-> <<>>, readable |-> {},
           found |-> NothingFound]

Init ==
    /\ platform \in Platforms
    /\ account \in IF platform = "github" THEN Accounts ELSE {"organization"}
    /\ org \in Orgs
    /\ revision = [r \in Repos |-> 0]
    /\ commits = FirstCommits
    /\ run = Nothing
    /\ page = FirstPage
    /\ scan = NoScan
    /\ attempts = 0
    /\ cache = <<>>
    /\ disk = <<>>
    /\ changes = 0 /\ failures = 0 /\ runs = 0

At(place) == run.at = place

-----------------------------------------------------------------------------
(* The platform.                                                           *)

Push(r) ==
    /\ changes < MaxChanges
    /\ revision[r] + 1 < Len(Trees[r])
    /\ revision' = [revision EXCEPT ![r] = @ + 1]
    /\ commits' = [commits EXCEPT ![r] = @ + 1]
    /\ changes' = changes + 1
    /\ UNCHANGED <<platform, account, org, run, page, scan, attempts, cache, disk, failures, runs>>

\* Only a listing sees that a repository is new, this run's or the next one's.
CreateRepository(r) ==
    /\ changes < MaxChanges
    /\ run.at \in {"idle", "lookup", "listing"}
    /\ r \notin ToSet(org)
    /\ org' = <<r>> \o org
    /\ changes' = changes + 1
    /\ UNCHANGED <<platform, account, revision, commits, run, page, scan, attempts, cache, disk, failures, runs>>

\* The commits of a repository, each known by its place in the history, the
\* latest first.
History(r) == [i \in 1..commits[r] |-> commits[r] - i]

\* A call fails with an error, or because it is throttled once too often
\* (Limited says how often it is made again before that).
Fails == failures < MaxFailures /\ failures' = failures + 1

-----------------------------------------------------------------------------
(* The cache.                                                              *)

RepoKey == <<"_get_repo", scan.repo>>
LanguagesKey == <<"get_languages", scan.repo>>
\* The branch is left out, None, or the default branch: three different keys.
TreeKey(branch) == <<"get_file_tree", scan.repo, branch>>
ContentKey(path, branch) == <<"get_file_content", scan.repo, branch, path>>

Known(key) == key \in DOMAIN cache \/ (run.filing /\ key \in DOMAIN disk)
Stored(store, key, answer) == [k \in DOMAIN store \cup {key} |-> IF k = key THEN answer ELSE store[k]]

\* Mutant of ClearCache: the answers are kept for the next scan.
ClearCacheNever == cache

ClearCache == <<>>

\* The object of PyGithub cannot be written as JSON.
Writable(key) == key[1] # "_get_repo"

-----------------------------------------------------------------------------
(* The steps of a scan and the cached methods each of them calls first.    *)

Steps == <<"metadata", "branches", "languages", "detections", "readmes", "commits", "pulls", "dependencies",
           "stamp">>
Step == Steps[scan.step]

Opening(repo, step) ==
    CASE step = "metadata"     -> << <<"get_file_content", repo, "None", PathOn("github", <<"repository.json">>)>> >>
      [] step = "branches"     -> << <<"get_branches", repo>> >>
      [] step = "languages"    -> << <<"get_languages", repo>> >>
      [] step = "detections"   -> << <<"get_file_tree", repo, "left out">> >>
      [] step = "readmes"      -> << <<"get_file_tree", repo, "None">> >>
      [] step = "dependencies" -> << <<"get_file_tree", repo, "default">> >>
      [] step = "stamp"        -> <<>>
      [] OTHER                 -> IF platform = "github" THEN << <<"_get_repo", repo>> >> ELSE <<>>

\* Mutant of Wanted: no more than two files are read.
WantedFirstTwo(tree) ==
    LET wanted == Among(tree, {p \in ToSet(tree) : IF Step = "readmes" THEN IsReadme(p) ELSE IsManifest(p)})
    IN  IF Step \notin {"readmes", "dependencies"} THEN <<>> ELSE SubSeq(wanted, 1, Min({2, Len(wanted)}))

\* The files whose content is asked for once the tree is there.
Wanted(tree) ==
    CASE Step = "readmes"      -> Among(tree, {p \in ToSet(tree) : IsReadme(p)})
      [] Step = "dependencies" -> Among(tree, {p \in ToSet(tree) : IsManifest(p)})
      [] OTHER                 -> <<>>

TreeIn(answer) == IF answer.ok THEN TreeOn(platform, Trees[scan.repo][answer.rev + 1]) ELSE <<>>

\* On Azure DevOps a path may be given without the leading "/".
IsThere(path, answer) ==
    \E p \in ToSet(TreeOn(platform, Trees[scan.repo][answer.rev + 1])) : p = path \/ p = PathOn(platform, path)

HasText(path, answer) ==
    answer.ok /\ IsThere(path, answer) /\ FileName(path) \notin Blank \cup Undecodable

\* The scan with the answer to its next call.
Received(key, answer) ==
    CASE key[1] = "get_file_tree" ->
           [scan EXCEPT !.tree = TreeIn(answer), !.readable = {},
              !.todo = Tail(@) \o [i \in DOMAIN Wanted(TreeIn(answer)) |->
                                     ContentKey(Wanted(TreeIn(answer))[i], key[3])]]
      [] key[1] = "get_languages" ->
           [scan EXCEPT !.todo = Tail(@),
              !.found.languages = IF platform = "github" THEN {} ELSE CountLanguages(TreeIn(answer))]
      [] key[1] = "get_file_content" ->
           [scan EXCEPT !.todo = Tail(@), !.readable = @ \cup {p \in {key[4]} : HasText(p, answer)}]
      [] OTHER -> [scan EXCEPT !.todo = Tail(@)]

\* The call that is made next: GitHub's methods first get the repository,
\* those of Azure DevOps for languages the tree.
Pending ==
    LET key == Head(scan.todo)
    IN  IF Known(key) THEN key
        ELSE IF platform = "github" /\ ~Known(RepoKey) THEN RepoKey
        ELSE IF platform # "github" /\ key = LanguagesKey /\ ~Known(TreeKey("left out"))
             THEN TreeKey("left out")
        ELSE key

Asking == At("scanning") /\ scan.todo # <<>>

TakeAnswer(key, answer) ==
    /\ cache' = Stored(cache, key, answer)
    /\ scan' = IF key = Head(scan.todo) THEN Received(key, answer) ELSE scan
    /\ attempts' = 0

\* A hit, in the extractor or on disk.
AskCache ==
    /\ Asking /\ Known(Pending)
    /\ TakeAnswer(Pending, IF Pending \in DOMAIN cache THEN cache[Pending] ELSE disk[Pending])
    /\ UNCHANGED <<platformVars, run, page, disk, failures, runs>>

\* GitHub: a file that is not UTF-8 raises, and not an error of the API.
Raises(key) ==
    platform = "github" /\ key[1] = "get_file_content" /\ FileName(key[4]) \in Undecodable

\* A miss: the platform answers, and the answer is kept; a write to disk may fail.
AskPlatform ==
    /\ Asking /\ ~Known(Pending) /\ ~Raises(Pending)
    /\ \E answer \in
            {IF platform # "github" /\ Pending = LanguagesKey
             THEN IF TreeKey("left out") \in DOMAIN cache THEN cache[TreeKey("left out")]
                                                          ELSE disk[TreeKey("left out")]
             ELSE [rev |-> revision[scan.repo], ok |-> TRUE]} :
           /\ TakeAnswer(Pending, answer)
           /\ \/ disk' = (IF run.filing /\ Writable(Pending) THEN Stored(disk, Pending, answer) ELSE disk)
                 /\ UNCHANGED failures
              \/ run.filing /\ disk' = disk /\ Fails
    /\ UNCHANGED <<platformVars, run, page, runs>>

\* The call fails, and the method returns [] or None, which is kept as well.
AskInVain ==
    /\ Asking /\ ~Known(Pending)
    /\ Pending[1] \in {"get_file_tree", "get_file_content"} \cup IF platform = "github" THEN {"get_languages"} ELSE {}
    /\ Fails
    /\ LET answer == [rev |-> revision[scan.repo], ok |-> FALSE]
       IN  /\ TakeAnswer(Pending, answer)
           /\ disk' = IF run.filing THEN Stored(disk, Pending, answer) ELSE disk
    /\ UNCHANGED <<platformVars, run, page, runs>>

-----------------------------------------------------------------------------
(* The end of a step, and of a scan.                                       *)

Starting(repo, step, from, found) ==
    [NoScan EXCEPT !.repo = repo, !.from = from, !.step = step, !.found = found,
                   !.todo = Opening(repo, Steps[step])]

\* Goes on, keeping what the step has found; after the last one the cache is cleared.
GoOn(found) ==
    /\ attempts' = 0
    /\ page' = FirstPage
    /\ IF scan.step < Len(Steps)
       THEN /\ scan' = Starting(scan.repo, scan.step + 1, scan.from, found)
            /\ UNCHANGED <<run, cache>>
       ELSE /\ scan' = NoScan
            /\ run' = [run EXCEPT !.at = "choosing"]
            /\ cache' = ClearCache

\* The call raises: the step is logged and left.
AskFails ==
    /\ Asking /\ ~Known(Pending)
    /\ \/ Raises(Pending) /\ UNCHANGED failures
       \/ Pending[1] \in {"_get_repo", "get_branches"} /\ Fails
    /\ GoOn(NothingFound)
    /\ UNCHANGED <<platformVars, disk, runs>>

\* What has been collected is sorted, and then the scopes are set.
FinishStep ==
    /\ At("scanning") /\ scan.todo = <<>>
    /\ \/ /\ Step = "readmes"
          /\ \E readmes \in {SortedReadmes(scan.tree, scan.readable)} :
               GoOn([NothingFound EXCEPT !.readmes = WithScopes(readmes, scan.tree)])
       \/ /\ Step \notin {"readmes", "commits", "pulls"}
          /\ GoOn(CASE Step = "languages" -> scan.found
                    [] Step = "detections" -> [NothingFound EXCEPT !.technologies = Detect(scan.tree)]
                    [] Step = "dependencies" ->
                         [NothingFound EXCEPT !.manifests = ExtractManifests(scan.tree, scan.readable)]
                    [] OTHER -> NothingFound)
    /\ UNCHANGED <<platformVars, disk, failures, runs>>

Fetching == At("scanning") /\ scan.todo = <<>> /\ Step = "pulls"

\* One pull request stands for all: its calls may fail one by one.
FetchPull ==
    /\ \E i \in DOMAIN Pulls[platform] :
         LET pr == Pulls[platform][i]
         IN  \/ /\ platform # "github"
                /\ \E failed \in SUBSET {"threads", "reviewers", "changes"} :
                     /\ failures' = failures + Cardinality(failed)
                     /\ GoOn([NothingFound EXCEPT !.pulls = <<AzurePullRequest(pr, failed)>>])
             \/ /\ platform = "github"
                /\ \E n \in 0..Len(pr.reviewers), m \in 0..Len(pr.threads) :
                     /\ failures' = failures + Cardinality({x \in {1} : n < Len(pr.reviewers)})
                                            + Cardinality({x \in {1} : m < Len(pr.threads)})
                     /\ GoOn([NothingFound EXCEPT !.pulls = <<GitHubPullRequest(pr, n, m)>>])
    /\ failures' <= MaxFailures

\* The list of the pull requests may fail before that, and on GitHub one that
\* was refused (see Refused) has nothing more to give.
FetchPulls ==
    /\ Fetching
    /\ \/ ~page.ended /\ FetchPull
       \/ ~page.ended /\ Fails /\ GoOn(NothingFound)
       \/ page.ended /\ UNCHANGED failures /\ GoOn(NothingFound)
    /\ UNCHANGED <<platformVars, disk, runs>>

\* The database fails a step that must not fail.
FailScan ==
    /\ At("scanning") /\ scan.step > 1
    /\ Fails
    /\ cache' = ClearCache
    /\ run' = [run EXCEPT !.at = "choosing"]
    /\ scan' = NoScan
    /\ page' = FirstPage
    /\ attempts' = 0
    /\ UNCHANGED <<platformVars, disk, runs>>

-----------------------------------------------------------------------------
(* Listings: of the repositories of the scope and of the commits of one.   *)

Listing == At("listing") \/ (At("scanning") /\ Step = "commits" /\ scan.todo = <<>>)

Source ==
    CASE At("listing") /\ run.public  -> Among(org, Repos \ Private)
      [] At("listing") /\ ~run.public -> org
      [] OTHER                        -> History(scan.repo)

\* Azure DevOps answers in one page, and lists all repositories.
SizeOfPage == IF platform = "github" THEN PageSize ELSE Len(Source) + 1
Limit == IF platform # "github" /\ At("listing") THEN Len(Source) + 1 ELSE MaxItems

UpTo(n, s) == SubSeq(s, 1, Min({n, Len(s)}))

\* Mutant of NextPage: how many there are is asked once, with the first page.
NextPageOfFirst ==
    /\ Listing /\ ~page.ended /\ Len(page.items) < Limit
    /\ LET first == page.number * SizeOfPage + 1
           last  == Min({(page.number + 1) * SizeOfPage, Len(Source)})
           head  == IF page.number = 0 THEN Len(Source) ELSE page.head
       IN  page' = [page EXCEPT !.items = UpTo(Limit, @ \o SubSeq(Source, first, last)),
                      !.number = @ + 1, !.ended = (page.number + 1) * SizeOfPage >= head, !.head = head]
    /\ attempts' = IF platform = "github" THEN attempts ELSE 0
    /\ UNCHANGED <<platformVars, run, scan, cache, disk, failures, runs>>

\* The items of the page as they are now, after those of earlier pages.
NextPage ==
    /\ Listing /\ ~page.ended /\ Len(page.items) < Limit
    /\ LET first == page.number * SizeOfPage + 1
           last  == Min({(page.number + 1) * SizeOfPage, Len(Source)})
       IN  page' = [page EXCEPT !.items = UpTo(Limit, @ \o SubSeq(Source, first, last)),
                      !.number = @ + 1, !.ended = (page.number + 1) * SizeOfPage >= Len(Source),
                      !.head = IF page.number = 0 THEN Len(Source) ELSE @]
    /\ attempts' = IF platform = "github" THEN attempts ELSE 0
    /\ UNCHANGED <<platformVars, run, scan, cache, disk, failures, runs>>

BetweenPages == Listing /\ page.number > 0 /\ ~page.ended

\* A history is rewritten from some place on.  Between two pages of it, that
\* is: at another time the next listing finds one history, as after a push.
ForcePush(r) ==
    /\ BetweenPages /\ scan.repo = r
    /\ changes < MaxChanges
    /\ revision[r] + 1 < Len(Trees[r])
    /\ revision' = [revision EXCEPT ![r] = @ + 1]
    /\ \E n \in 1..(commits[r] + 1) : commits' = [commits EXCEPT ![r] = n]
    /\ page' = [page EXCEPT !.rewritten = TRUE]
    /\ changes' = changes + 1
    /\ UNCHANGED <<platform, account, org, run, scan, attempts, cache, disk, failures, runs>>

\* The run is over, and the extractor with it.
EndRun ==
    /\ run' = Nothing
    /\ page' = FirstPage
    /\ scan' = NoScan
    /\ cache' = <<>>
    /\ attempts' = 0

\* The call raises: a scope is skipped or the run fails, commits are given up.
GiveUp == IF At("listing") THEN EndRun ELSE GoOn(NothingFound)

\* GitHub says 403, Azure DevOps 429: after a pause the call is made again.
\* The iterator of GitHub has nothing more to give then.
Refused ==
    /\ \/ Listing /\ ~page.ended /\ Len(page.items) < Limit
       \/ Fetching /\ ~page.ended
       \/ platform # "github" /\ Asking /\ ~Known(Pending) /\ Pending # LanguagesKey
    /\ page' = IF Listing \/ Fetching THEN [page EXCEPT !.refused = TRUE, !.ended = platform = "github"] ELSE page
    /\ UNCHANGED <<run, scan, cache, disk, platformVars, failures, runs>>

\* Mutant of Limited: the count begins anew when it is used up.
LimitedForever == Refused /\ attempts' = (attempts + 1) % (MaxRetries + 1)

\* Mutant of Limited: one retry too many.
LimitedOnceMore == Refused /\ attempts <= MaxRetries /\ attempts' = attempts + 1

\* Retries are counted per call.
Limited == Refused /\ attempts < MaxRetries /\ attempts' = attempts + 1

ListingFails ==
    /\ Listing /\ ~page.ended /\ Len(page.items) < Limit
    /\ Fails
    /\ GiveUp
    /\ UNCHANGED <<platformVars, disk, runs>>

ListingReturns ==
    /\ Listing
    /\ page.ended \/ Len(page.items) = Limit
    /\ IF At("listing")
       THEN /\ run' = [run EXCEPT !.at = "choosing", !.items = page.items, !.refused = page.refused]
            /\ page' = FirstPage
            /\ attempts' = 0
            /\ UNCHANGED <<scan, cache>>
       ELSE GoOn([NothingFound EXCEPT !.commits = page])
    /\ UNCHANGED <<platformVars, disk, failures, runs>>

-----------------------------------------------------------------------------
(* The run.                                                                *)

BeginRun ==
    /\ At("idle")
    /\ runs < MaxRuns
    /\ runs' = runs + 1
    /\ \E filing \in BOOLEAN :
         run' = [Nothing EXCEPT !.at = IF platform = "github" THEN "lookup" ELSE "listing", !.filing = filing]
    /\ UNCHANGED <<platformVars, page, scan, attempts, cache, disk, failures>>

\* The scope is taken for an organization first; if that fails, whatever the
\* reason, for a user, of whom all is listed only if it is oneself.
LookUp ==
    /\ At("lookup")
    /\ \/ /\ account = "organization"
          /\ run' = [run EXCEPT !.at = "listing"]
          /\ UNCHANGED failures
       \/ /\ account # "organization"
          /\ run' = [run EXCEPT !.at = "listing", !.public = account # "self"]
          /\ UNCHANGED failures
       \/ /\ account = "organization" /\ Fails
          /\ run' = [run EXCEPT !.at = "listing", !.public = TRUE]
    /\ UNCHANGED <<platformVars, page, scan, attempts, cache, disk, runs>>

\* A repository that was scanned lately is skipped.
ChooseNext ==
    /\ At("choosing") /\ run.index < Len(run.items)
    /\ LET r == run.items[run.index + 1]
       IN  \/ /\ run' = [run EXCEPT !.index = @ + 1]
              /\ UNCHANGED scan
           \/ /\ run' = [run EXCEPT !.index = @ + 1, !.at = "scanning"]
              /\ scan' = Starting(r, 1, revision[r], NothingFound)
    /\ UNCHANGED <<platformVars, page, attempts, cache, disk, failures, runs>>

Finish ==
    /\ At("choosing") /\ run.index = Len(run.items)
    /\ EndRun
    /\ UNCHANGED <<platformVars, disk, failures, runs>>

\* An error nothing catches, or the end of the process.
Abort ==
    /\ ~At("idle")
    /\ Fails
    /\ EndRun
    /\ UNCHANGED <<platformVars, disk, runs>>

Extract ==
    \/ LookUp \/ ChooseNext \/ AskCache \/ AskPlatform \/ AskInVain \/ AskFails
    \/ FinishStep \/ FetchPulls \/ NextPage \/ Limited \/ ListingFails \/ ListingReturns \/ Finish

Next ==
    \/ \E r \in Repos : Push(r) \/ ForcePush(r) \/ CreateRepository(r)
    \/ BeginRun \/ FailScan \/ Abort
    \/ Extract

\* A worker that has begun a run goes on with it; every call comes back.
Spec == Init /\ [][Next]_vars /\ WF_vars(Extract)

-----------------------------------------------------------------------------
(* Properties.                                                             *)

ExtractorsTypeOK ==
    /\ run.at \in {"idle", "lookup", "listing", "choosing", "scanning"}
    /\ run.index \in 0..Len(run.items) /\ ToSet(run.items) \subseteq Repos
    /\ attempts \in 0..MaxRetries
    /\ \A key \in DOMAIN cache \cup DOMAIN disk : key[2] \in Repos
    /\ scan.step \in DOMAIN Steps
    /\ Len(page.items) <= Limit

\* What a scan is told was true when it began or has become so since: no
\* answer of an earlier scan is used again, although one extractor scans
\* many repositories, the same one twice if the listing has it twice.  Only
\* the cache on disk may answer with what was.
AnswersAreFresh ==
    At("scanning") /\ ~run.filing =>
        \A key \in DOMAIN cache : key[2] = scan.repo => cache[key].rev >= scan.from

\* A scan that nothing disturbs, neither a push nor a failure nor the cache
\* on disk, comes out of its steps with what is there: on Azure DevOps the
\* languages, the technologies, every README and every manifest that has text.
\* On GitHub one file that is not UTF-8 raises what nothing catches before the
\* step does, and all READMEs, or all manifests, are lost with it.
QuietScanIsComplete ==
    LET quiet == /\ At("scanning") /\ ~run.filing
                 /\ revision[scan.repo] = scan.from /\ failures = 0
                 /\ \A key \in DOMAIN cache : cache[key].ok
        tree  == TreeOn(platform, Trees[scan.repo][scan.from + 1])
        texts == {p \in ToSet(tree) : FileName(p) \notin Blank \cup Undecodable}
        lost(Reads(_)) == platform = "github" /\ \E p \in ToSet(tree) : Reads(p) /\ FileName(p) \in Undecodable
    IN  quiet =>
          /\ Step = "detections" /\ platform = "azure_devops" => scan.found.languages = CountLanguages(tree)
          /\ Step = "readmes" => scan.found.technologies = Detect(tree)
          /\ Step = "commits" =>
               scan.found.readmes = IF lost(IsReadme) THEN <<>> ELSE ReadmeFiles(tree, texts)
          /\ Step = "stamp" =>
               scan.found.manifests = IF lost(IsManifest) THEN {} ELSE ExtractManifests(tree, texts)

\* Pushes while the commits are listed repeat some, and leave out none: from
\* the latest of when the listing began down to the last that is listed,
\* and to the first commit unless the listing was cut off.  Only a force push
\* between two pages may make it miss commits.
NoCommitIsLeftOut ==
    LET listed == scan.found.commits
        shas   == ToSet(listed.items)
    IN  At("scanning") /\ listed.items # <<>> /\ ~listed.rewritten =>
          /\ Min(shas)..(listed.head - 1) \subseteq shas
          /\ Min(shas) = 0 \/ Len(listed.items) = MaxItems \/ listed.refused

\* A README in a directory is placed under a README of the nearest directory
\* above that has one, which comes before it, or under none if there is none.
\* A README of the root is under none on GitHub; on Azure DevOps, where paths
\* begin with "/", it is under another README of the root if there is one.
ParentsAreAbove ==
    \A i \in DOMAIN scan.found.readmes :
        LET readmes  == scan.found.readmes
            path     == readmes[i].path
            parent   == readmes[i].parent
            above(p) == Len(p) < Len(path) /\ IsPrefix(Directory(p), Directory(path))
            beside   == {p \in {readmes[j].path : j \in DOMAIN readmes} \ {path} : Directory(p) = Directory(path)}
        IN  IF Joined(Directory(path)) = <<>>
            THEN IF platform = "github" \/ beside = {} THEN parent = NoPath ELSE parent \in beside
            ELSE \/ parent = NoPath /\ ~\E j \in DOMAIN readmes : above(readmes[j].path)
                 \/ \E j \in 1..(i - 1) :
                      /\ readmes[j].path = parent /\ above(parent)
                      /\ \A k \in DOMAIN readmes :
                           above(readmes[k].path) => Len(readmes[k].path) <= Len(parent)

\* What is said of a pull request adds up, whatever calls failed for it: it is
\* merged if it has a date of merging, a review counts the comments of its
\* reviewer that are listed, and no review of a pull request that is over is
\* dated after its end.  On GitHub the dates of reviews are the platform's.
PullsAddUp ==
    \A pull \in ToSet(scan.found.pulls) :
        /\ pull.status = "merged" <=> pull.merged # NoDate
        /\ platform = "azure_devops" =>
             \A review \in ToSet(pull.reviews) :
                /\ review.comment_count = CommentCount(pull.comments, review.reviewer)
                /\ pull.closed # NoDate => review.date <= pull.closed

\* Every run comes to its end, however often its calls are refused for the
\* time being: retries are counted, per call, and a listing that is refused
\* ends.
EveryRunEnds == ~At("idle") ~> At("idle")

\* scope_handling.py: the list of a scope that is inaccessible is None, never
\* an empty one, so that what could not be listed is told from what is empty.
RefusedIsSkipped == run.refused => run.items # <<>>

=============================================================================
