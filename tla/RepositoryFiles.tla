---------------------------- MODULE RepositoryFiles ----------------------------
(***************************************************************************)
(* What the extractors make of the answers of the platform: the READMEs of *)
(* a file tree with their scopes (extractors/base.py), its manifests,      *)
(* languages and technologies, and the pull requests with their reviews    *)
(* and comments (extractors/github/, extractors/azure_devops/).            *)
(*                                                                         *)
(* A path is the sequence of its segments.  The paths of Azure DevOps      *)
(* begin with "/", that is with an empty segment; those of GitHub do not.  *)
(* What the code tells from the text of a name (README or manifest, the    *)
(* language of a suffix, an indicator inside it) is a set or a function of *)
(* names here.                                                             *)
(***************************************************************************)
EXTENDS Integers, Sequences, FiniteSets, SequencesExt, FiniteSetsExt

CONSTANTS
    ReadmeNames, Ecosystem, \* names of READMEs; of manifests, and their ecosystems
    ProjectFile, Extension, \* languages of project files, and of other files by suffix
    Reveals,                \* technologies whose pattern a segment matches
    PackageNames, ModuleNames, ComponentNames,  \* segments with such an indicator
    Undecodable, Blank      \* names of files that are not UTF-8, that are empty

NoName == ""
NoPath == <<>>
Root   == <<"/">>

FileName(path) == Last(path)
Directory(path) == Front(path)

\* The text of a directory: the segments joined, so that the root of Azure
\* DevOps, an empty segment, is the same as no segment.
Joined(directory) == IF directory = <<NoName>> THEN <<>> ELSE directory

PathOn(platform, path) == IF platform = "azure_devops" THEN <<NoName>> \o path ELSE path
TreeOn(platform, files) == [i \in DOMAIN files |-> PathOn(platform, files[i])]

\* The elements of a sequence that are in a set, in their order (by a function
\* of the set, which TLC evaluates once).
Among(s, set) ==
    LET from[kept \in {set}] == FlattenSeq([i \in DOMAIN s |-> IF s[i] \in kept THEN <<s[i]>> ELSE <<>>])
    IN  from[set]

-----------------------------------------------------------------------------
(* READMEs.                                                                *)

Directories(tree) ==
    UNION {{SubSeq(p, 1, n) : n \in 1..(Len(p) - 1)} : p \in ToSet(tree)} \ {<<NoName>>}

ByDepth(paths) ==
    LET depths == {Len(p) : p \in ToSet(paths)}
    IN  FlattenSeq([n \in 1..(IF depths = {} THEN 0 ELSE Max(depths)) |->
                      Among(paths, {p \in ToSet(paths) : Len(p) = n})])

ScopePath(path) == IF Len(path) = 1 THEN Root ELSE Directory(path)

ClassifyScopeType(scope) ==
    LET has(names) == ToSet(scope) \cap names # {}
        byDepth == IF Len(scope) >= 3 THEN "component"
                   ELSE IF Len(scope) = 2 THEN "module" ELSE "repository"
    IN  IF has(PackageNames) THEN "package"
        ELSE IF has(ModuleNames) THEN "module"
        ELSE IF has(ComponentNames) THEN "component" ELSE byDepth

\* Mutant of FindParentReadme: the search begins in the directory itself.
FindParentReadmeHere(path, readmes) ==
    LET dir    == Directory(path)
        at(n)  == {p \in ToSet(readmes) : p # path /\ Joined(Directory(p)) = Joined(SubSeq(dir, 1, n))}
        levels == {n \in 0..Len(dir) : at(n) # {}}
    IN  IF levels = {} THEN NoPath ELSE Among(readmes, at(Max(levels)))[1]

\* The first README of the nearest directory above that has one.
FindParentReadme(path, readmes) ==
    LET dir    == Directory(path)
        at(n)  == {p \in ToSet(readmes) : p # path /\ Joined(Directory(p)) = Joined(SubSeq(dir, 1, n))}
        levels == {n \in 0..(Len(dir) - 1) : at(n) # {}}
    IN  IF levels = {} THEN NoPath ELSE Among(readmes, at(Max(levels)))[1]

CalculateAffectedPaths(scope, type, directories) ==
    IF type = "repository" THEN {Root}
    ELSE {scope} \cup {d \in directories : IsStrictPrefix(scope, d)}

DetermineReadmeScope(path, readmes, directories) ==
    LET type == IF Len(path) = 1 THEN "repository" ELSE ClassifyScopeType(ScopePath(path))
    IN  [path |-> path, scope |-> ScopePath(path), type |-> type,
         parent |-> FindParentReadme(path, readmes),
         affects |-> CalculateAffectedPaths(ScopePath(path), type, directories)]

IsReadme(path) == FileName(path) \in ReadmeNames

\* readable: the paths whose content came back, and was not empty.
SortedReadmes(tree, readable) == ByDepth(Among(tree, {p \in readable : IsReadme(p)}))

WithScopes(readmes, tree) ==
    [i \in DOMAIN readmes |-> DetermineReadmeScope(readmes[i], readmes, Directories(tree))]

ReadmeFiles(tree, readable) == WithScopes(SortedReadmes(tree, readable), tree)

-----------------------------------------------------------------------------
(* Manifests, languages and technologies.                                  *)

IsManifest(path) == FileName(path) \in DOMAIN Ecosystem

ExtractManifests(tree, readable) ==
    {[path |-> p, ecosystem |-> Ecosystem[FileName(p)]] : p \in {q \in ToSet(tree) : IsManifest(q)} \cap readable}

\* Azure DevOps: a project file counts for ten others.
CountLanguages(tree) ==
    LET weight(p, l) == IF FileName(p) \in DOMAIN ProjectFile
                        THEN IF ProjectFile[FileName(p)] = l THEN 10 ELSE 0
                        ELSE IF FileName(p) \in DOMAIN Extension /\ Extension[FileName(p)] = l THEN 1 ELSE 0
        count(l) == FoldLeft(LAMBDA n, p : n + weight(p, l), 0, tree)
    IN  {[language |-> l, count |-> count(l)] :
           l \in {k \in Range(ProjectFile) \cup Range(Extension) : count(k) > 0}}

\* The languages by file name and the technologies by any part of the path.
Detect(tree) ==
    LET names == {FileName(p) : p \in ToSet(tree)}
        of(f) == {f[n] : n \in names \cap DOMAIN f}
    IN  of(ProjectFile) \cup of(Extension)
          \cup UNION {Reveals[s] : s \in UNION {ToSet(p) : p \in ToSet(tree)} \cap DOMAIN Reveals}

-----------------------------------------------------------------------------
(* Pull requests.  A date is a number, NoDate no date; an author or a      *)
(* reviewer who is gone has the email NoEmail.                             *)

NoDate  == -1
NoEmail == ""

MapPrStatus(status) ==
    CASE status = "active"    -> "open"
      [] status = "completed" -> "merged"
      [] status = "abandoned" -> "closed"
      [] OTHER                -> status

MapVoteToState(vote) ==
    CASE vote = 10         -> "approved"
      [] vote \in {-5, -10} -> "changes_requested"
      [] OTHER             -> "commented"

MapReviewState(state) ==
    CASE state = "APPROVED"          -> "approved"
      [] state = "CHANGES_REQUESTED" -> "changes_requested"
      [] state = "DISMISSED"         -> "dismissed"
      [] OTHER                       -> "commented"

\* The comments of the threads, but for those of the system.
CommentsOf(threads) == SelectSeq(threads, LAMBDA c : c.kind # "system")

CommentCount(comments, email) ==
    IF email = NoEmail THEN 0 ELSE Len(SelectSeq(comments, LAMBDA c : c.author = email))

\* Mutant of BuildReviews: every comment counts for every reviewer.
BuildReviewsCountingAll(reviewers, comments, date) ==
    LET votes == SelectSeq(reviewers, LAMBDA r : r.vote # 0)
    IN  [i \in DOMAIN votes |->
           [reviewer |-> votes[i].email, date |-> date,
            state |-> MapVoteToState(votes[i].vote), comment_count |-> Len(comments)]]

\* Azure DevOps: the reviewers that have voted; the votes have no dates.
BuildReviews(reviewers, comments, date) ==
    LET votes == SelectSeq(reviewers, LAMBDA r : r.vote # 0)
    IN  [i \in DOMAIN votes |->
           [reviewer |-> votes[i].email, date |-> date, state |-> MapVoteToState(votes[i].vote),
            comment_count |-> CommentCount(comments, votes[i].email)]]

\* failed: the calls for one pull request that failed.
AzurePullRequest(pr, failed) ==
    LET status   == MapPrStatus(pr.status)
        comments == IF "threads" \in failed THEN <<>> ELSE CommentsOf(pr.threads)
        merged   == IF status # "merged" THEN NoDate ELSE IF pr.queued # NoDate THEN pr.queued ELSE pr.closed
        closed   == IF status \in {"merged", "closed"} THEN pr.closed ELSE NoDate
        date     == IF merged # NoDate THEN merged ELSE IF closed # NoDate THEN closed ELSE pr.created
    IN  [status |-> status, created |-> pr.created, merged |-> merged, closed |-> closed,
         files |-> IF "changes" \in failed THEN 0 ELSE pr.changes, comments |-> comments,
         reviews |-> IF "reviewers" \in failed THEN <<>> ELSE BuildReviews(pr.reviewers, comments, date)]

\* GitHub: as many reviews and comments as had come before the call failed.
GitHubPullRequest(pr, reviews, comments) ==
    [status |-> IF pr.merged # NoDate THEN "merged" ELSE pr.state,
     created |-> pr.created, merged |-> pr.merged, closed |-> pr.closed, files |-> pr.changes,
     comments |-> SubSeq(pr.threads, 1, comments),
     reviews |-> [i \in 1..reviews |->
        [reviewer |-> pr.reviewers[i].email, date |-> pr.reviewers[i].date,
         state |-> MapReviewState(pr.reviewers[i].state), comment_count |-> 0]]]

=============================================================================
