--------------------------- MODULE Extractors_proofs ---------------------------
(***************************************************************************)
(* The inductive invariant of Extractors, for any platform, repositories,  *)
(* file trees, page sizes and failures: what the caches hold, how far a    *)
(* scan has come and what it has found.                                    *)
(***************************************************************************)
EXTENDS Extractors, Fold_lemmas, SequenceTheorems, TLAPS

Places == {"idle", "lookup", "listing", "choosing", "scanning"}
Branches == {"None", "left out", "default"}

Names == Segments \cup {NoName, "repository.json"}

PathsOn(p) == {PathOn(p, path) : path \in Path}

\* The keys of the cached methods for a repository.
Keys(r) ==
  {<<"_get_repo", r>>, <<"get_branches", r>>, <<"get_languages", r>>}
    \cup {<<"get_file_tree", r, b>> : b \in Branches}
    \cup {<<"get_file_content", r, b, path>> : b \in Branches, path \in Seq(Names)}

AllKeys == UNION {Keys(r) : r \in Repos}

Answer == [rev : Nat, ok : BOOLEAN]

\* An answer was given at a revision the repository has had.
Fits(key, answer) == answer \in Answer /\ answer.rev < Len(Trees[key[2]])

\* An answer that was given during the scan.
IsFresh(key, answer) ==
  /\ answer.rev \in scan.from..revision[scan.repo]
  /\ answer.ok => ~Raises(key)

IsStore(store) ==
  /\ store = [key \in DOMAIN store |-> store[key]]
  /\ \A key \in DOMAIN store : key \in AllKeys /\ Fits(key, store[key])

PlatformFits ==
  /\ platform \in Platforms
  /\ org \in Seq(Repos)
  /\ revision \in [Repos -> Nat] /\ commits \in [Repos -> Nat \ {0}]
  /\ \A r \in Repos : revision[r] < Len(Trees[r])
  /\ failures \in Nat
  /\ attempts \in 0..MaxRetries

RunFits ==
  /\ run \in [at : Places, filing : BOOLEAN, public : BOOLEAN, items : Seq(Repos),
              index : Nat, refused : BOOLEAN]
  /\ run.index <= Len(run.items)
  /\ platform = "azure_devops" => ~run.public /\ ~At("lookup")
  /\ At("lookup") \/ At("listing") => run.index = 0

\* Outside a scan the cache is empty; in one it has answers about its
\* repository only.  Without the cache on disk they are no older, and what
\* raises has not been answered.
CacheFits ==
  /\ IsStore(cache) /\ IsStore(disk)
  /\ ~At("scanning") => cache = <<>>
  /\ \A key \in DOMAIN cache : key \in Keys(scan.repo)
  /\ ~run.filing => \A key \in DOMAIN cache : IsFresh(key, cache[key])

\* m is the first commit that is listed, and all from there to the latest when
\* the listing began are; n is how many there are now.
Covers(p, n, m) ==
  /\ \A sha \in ToSet(p.items) : m <= sha
  /\ m..(p.head - 1) \subseteq ToSet(p.items)
  /\ Len(p.items) < MaxItems /\ ~p.ended => p.number * PageSize <= n /\ m <= n - p.number * PageSize
  /\ Len(p.items) < MaxItems /\ p.ended /\ ~p.refused => m = 0

CommitsListed(p, n) ==
  /\ p.items \in Seq(Nat)
  /\ p.number = 0 <=> p.items = <<>>
  /\ p.items # <<>> /\ ~p.rewritten => \E m \in ToSet(p.items) : Covers(p, n, m)

IsPage(p) ==
  /\ p = [items |-> p.items, number |-> p.number, ended |-> p.ended, refused |-> p.refused,
          rewritten |-> p.rewritten, head |-> p.head]
  /\ p.number \in Nat /\ p.head \in Nat
  /\ p.ended \in BOOLEAN /\ p.refused \in BOOLEAN /\ p.rewritten \in BOOLEAN

PageFits ==
  /\ IsPage(page)
  /\ Listing \/ (Fetching /\ page.items = <<>> /\ page.number = 0) \/ page = FirstPage
  /\ Len(page.items) <= Limit
  /\ At("listing") => page.items \in Seq(Repos)
  /\ At("scanning") => CommitsListed(page, commits[scan.repo])
  /\ platform = "azure_devops" => page.number = 0 \/ page.ended

\* What has been found, taken by itself.
CommitsFit(listed) ==
  LET shas == ToSet(listed.items)
  IN  listed.items # <<>> /\ ~listed.rewritten =>
        /\ Min(shas)..(listed.head - 1) \subseteq shas
        /\ Min(shas) = 0 \/ Len(listed.items) = MaxItems \/ listed.refused

ReadmesFit(pl, readmes) ==
  \A i \in DOMAIN readmes :
    LET path == readmes[i].path
        parent == readmes[i].parent
        above(p) == Len(p) < Len(path) /\ IsPrefix(Directory(p), Directory(path))
        beside == {p \in {readmes[j].path : j \in DOMAIN readmes} \ {path} : Directory(p) = Directory(path)}
    IN  IF Joined(Directory(path)) = <<>>
        THEN IF pl = "github" \/ beside = {} THEN parent = NoPath ELSE parent \in beside
        ELSE \/ parent = NoPath /\ ~\E j \in DOMAIN readmes : above(readmes[j].path)
             \/ \E j \in 1..(i - 1) :
                  /\ readmes[j].path = parent /\ above(parent)
                  /\ \A k \in DOMAIN readmes :
                       above(readmes[k].path) => Len(readmes[k].path) <= Len(parent)

PullsFit(pl, pulls) ==
  \A pull \in ToSet(pulls) :
    /\ pull.status = "merged" <=> pull.merged # NoDate
    /\ pl = "azure_devops" =>
         \A review \in ToSet(pull.reviews) :
            /\ review.comment_count = CommentCount(pull.comments, review.reviewer)
            /\ pull.closed # NoDate => review.date <= pull.closed

FoundFits(pl, found) ==
  /\ found = [languages |-> found.languages, technologies |-> found.technologies, readmes |-> found.readmes,
              commits |-> found.commits, pulls |-> found.pulls, manifests |-> found.manifests]
  /\ CommitsFit(found.commits) /\ ReadmesFit(pl, found.readmes) /\ PullsFit(pl, found.pulls)

ScanFits ==
  /\ scan = [repo |-> scan.repo, from |-> scan.from, step |-> scan.step, todo |-> scan.todo,
             tree |-> scan.tree, readable |-> scan.readable, found |-> scan.found]
  /\ scan.step \in DOMAIN Steps
  /\ FoundFits(platform, scan.found)
  /\ ~At("scanning") => scan = NoScan
  /\ At("scanning") =>
       /\ scan.repo \in Repos
       /\ scan.from \in Nat /\ scan.from <= revision[scan.repo]
       /\ scan.todo \in Seq(Keys(scan.repo))
       /\ scan.tree \in Seq(PathsOn(platform))
       /\ Step \notin {"readmes", "dependencies"} => scan.todo \in {Opening(scan.repo, Step), <<>>}

\* Nothing has disturbed the scan so far.
Quiet ==
  /\ At("scanning") /\ ~run.filing
  /\ revision[scan.repo] = scan.from /\ failures = 0
  /\ \A key \in DOMAIN cache : cache[key].ok

Actual == TreeOn(platform, Trees[scan.repo][scan.from + 1])
Full == {p \in ToSet(Actual) : FileName(p) \notin Blank \cup Undecodable}
Files == {p \in ToSet(Actual) : IF Step = "readmes" THEN IsReadme(p) ELSE IsManifest(p)}

\* On GitHub a file of those wanted that is not UTF-8 loses them all.
LostReadmes == platform = "github" /\ \E p \in ToSet(Actual) : IsReadme(p) /\ FileName(p) \in Undecodable
LostManifests == platform = "github" /\ \E p \in ToSet(Actual) : IsManifest(p) /\ FileName(p) \in Undecodable

AllReadmes == IF LostReadmes THEN <<>> ELSE ReadmeFiles(Actual, Full)
AllManifests == IF LostManifests THEN {} ELSE ExtractManifests(Actual, Full)

\* Of the files that are wanted, those with text are readable or still to be
\* asked for, and those that will raise are still to be asked for.
ReadingIn(s) ==
  /\ s.tree = Actual
  /\ s.readable \subseteq Full
  /\ \A i \in DOMAIN s.todo : s.todo[i][1] = "get_file_content" /\ s.todo[i][4] \in Files
  /\ \A p \in Files :
       \/ p \in s.readable \/ \E i \in DOMAIN s.todo : s.todo[i][4] = p
       \/ p \notin Full /\ ~(platform = "github" /\ FileName(p) \in Undecodable)

Reading == ReadingIn(scan)

QuietFits ==
  Quiet =>
    /\ platform = "azure_devops" /\ (Step = "detections" \/ (Step = "languages" /\ scan.todo = <<>>)) =>
         scan.found.languages = CountLanguages(Actual)
    /\ Step = "detections" /\ scan.todo = <<>> => scan.tree = Actual
    /\ Step = "readmes" => scan.found.technologies = Detect(Actual)
    /\ Step \in {"readmes", "dependencies"} => scan.todo = Opening(scan.repo, Step) \/ Reading
    /\ Step = "commits" => scan.found.readmes = AllReadmes
    /\ Step = "stamp" => scan.found.manifests = AllManifests

ExtractorsInvariant ==
  PlatformFits /\ RunFits /\ CacheFits /\ PageFits /\ ScanFits /\ QuietFits

-----------------------------------------------------------------------------
(* Sequences of paths.                                                     *)

LEMMA AmongDef ==
  ASSUME NEW s, NEW set
  PROVE  Among(s, set) = FlattenSeq([i \in DOMAIN s |-> IF s[i] \in set THEN <<s[i]>> ELSE <<>>])
BY Zenon DEF Among

\* What Among keeps.
LEMMA AmongIs ==
  ASSUME NEW S, NEW s \in Seq(S), NEW set
  PROVE  Among(s, set) \in Seq(S) /\ ToSet(Among(s, set)) = ToSet(s) \cap set
<1> DEFINE lists == [i \in DOMAIN s |-> IF s[i] \in set THEN <<s[i]>> ELSE <<>>]
<1>1. lists \in Seq(Seq(S)) /\ DOMAIN lists = DOMAIN s
  <2>1. Len(s) \in Nat /\ DOMAIN s = 1..Len(s)
    OBVIOUS
  <2>2. \A i \in 1..Len(s) : lists[i] \in Seq(S)
    OBVIOUS
  <2> HIDE DEF lists
  <2>3. QED
    <3>1. lists \in [1..Len(s) -> Seq(S)]
      BY <2>1, <2>2 DEF lists
    <3>2. QED
      BY <2>1, <3>1
<1>2. \A i \in DOMAIN s : ToSet(lists[i]) = IF s[i] \in set THEN {s[i]} ELSE {}
  BY DEF ToSet
<1>3. Among(s, set) = FlattenSeq(lists)
  BY AmongDef
<1> HIDE DEF lists
<1>4. Among(s, set) \in Seq(S)
  BY <1>1, <1>3, FlattenedIsList
<1>5. ToSet(Among(s, set)) = UNION {ToSet(lists[i]) : i \in DOMAIN lists}
  BY <1>1, <1>3, FlattenedElements
<1> DEFINE all == UNION {ToSet(lists[i]) : i \in DOMAIN lists}
<1>6. \A x : x \in all <=> \E i \in DOMAIN s : x = s[i] /\ s[i] \in set
  BY <1>1, <1>2
<1>7. all = ToSet(s) \cap set
  <2> HIDE DEF all
  <2>1. QED
    BY <1>6 DEF ToSet
<1>8. QED
  BY <1>4, <1>5, <1>7

\* Only what is in the sequence counts.
LEMMA AmongSame ==
  ASSUME NEW s, NEW A, NEW B, ToSet(s) \cap A = ToSet(s) \cap B
  PROVE  Among(s, A) = Among(s, B)
<1>1. \A i \in DOMAIN s : s[i] \in A <=> s[i] \in B
  BY DEF ToSet
<1>2. [i \in DOMAIN s |-> IF s[i] \in A THEN <<s[i]>> ELSE <<>>]
        = [i \in DOMAIN s |-> IF s[i] \in B THEN <<s[i]>> ELSE <<>>]
  BY <1>1
<1>3. QED
  BY <1>2, AmongDef

LEMMA FirstOf ==
  ASSUME NEW S, NEW s \in Seq(S), s # <<>>
  PROVE  s[1] \in ToSet(s)
<1>1. 1 \in DOMAIN s
  OBVIOUS
<1>2. QED
  BY <1>1 DEF ToSet

\* A path has a segment; on Azure DevOps the first is empty, and only that.
LEMMA PathShape ==
  ASSUME NEW pl \in {"github", "azure_devops"}, NEW p \in PathsOn(pl)
  PROVE  /\ p \in Seq(Names) /\ Len(p) \in Nat /\ Len(p) >= 1
         /\ pl = "azure_devops" => Len(p) >= 2 /\ p[1] = NoName
         /\ pl = "github" => \A i \in DOMAIN p : p[i] # NoName
<1>1. PICK path \in Path : p = PathOn(pl, path)
  BY DEF PathsOn
<1>2. /\ path \in Seq(Segments) /\ Len(path) \in Nat /\ Len(path) >= 1
      /\ DOMAIN path = 1..Len(path)
      /\ \A i \in 1..Len(path) : path[i] \in Segments
  BY DEF Path
<1>3. \A i \in 1..Len(path) : path[i] # NoName
  BY <1>2, TreesAssumption
<1>4. path \in Seq(Names)
  BY <1>2, SeqMonotonic DEF Names
<1>5. CASE pl = "github"
  <2>1. p = path
    BY <1>1, <1>5 DEF PathOn
  <2>2. QED
    BY <1>2, <1>3, <1>4, <1>5, <2>1
<1>6. CASE pl = "azure_devops"
  <2>1. p = <<NoName>> \o path
    BY <1>1, <1>6 DEF PathOn
  <2>2. NoName \in Names
    BY DEF Names
  <2>3. <<NoName>> \in Seq(Names) /\ Len(<<NoName>>) = 1 /\ <<NoName>>[1] = NoName
    BY <2>2
  <2>4. /\ p \in Seq(Names) /\ Len(p) = 1 + Len(path)
        /\ \A i \in 1..(1 + Len(path)) : p[i] = IF i <= 1 THEN <<NoName>>[i] ELSE path[i - 1]
    <3> DEFINE first == <<NoName>>
    <3> HIDE DEF first
    <3>1. first \in Seq(Names) /\ Len(first) = 1 /\ p = first \o path
      BY <2>1, <2>3 DEF first
    <3>2. QED
      BY <1>4, <3>1, ConcatProperties DEF first
  <2>5. p[1] = NoName
    BY <1>2, <2>3, <2>4
  <2>6. QED
    BY <1>2, <1>6, <2>4, <2>5
<1>7. QED
  BY <1>5, <1>6

\* Sorted by depth: the same paths, the shorter ones first.
LEMMA ByDepthIs ==
  ASSUME NEW S, S \subseteq Seq(Names) \ {<<>>}, NEW paths \in Seq(S)
  PROVE  /\ ByDepth(paths) \in Seq(S)
         /\ ToSet(ByDepth(paths)) = ToSet(paths)
         /\ \A i, j \in DOMAIN ByDepth(paths) : i < j => Len(ByDepth(paths)[i]) <= Len(ByDepth(paths)[j])
<1> DEFINE depths == {Len(p) : p \in ToSet(paths)}
           last == IF depths = {} THEN 0 ELSE Max(depths)
           of(n) == {p \in ToSet(paths) : Len(p) = n}
           lists == [n \in 1..last |-> Among(paths, of(n))]
           rank == [p \in S |-> Len(p)]
<1>1. /\ ToSet(paths) \subseteq S /\ \A p \in S : Len(p) \in Nat /\ Len(p) >= 1
      /\ DOMAIN paths = 1..Len(paths) /\ Len(paths) \in Nat
  BY DEF ToSet
<1>2. depths \subseteq Nat /\ IsFiniteSet(depths)
  <2> DEFINE g == [i \in 1..Len(paths) |-> Len(paths[i])]
  <2>1. IsFiniteSet(DOMAIN g)
    <3>1. 1 \in Int /\ Len(paths) \in Int
      BY <1>1
    <3>2. QED
      BY <3>1, FS_Interval
  <2>2. depths = {g[i] : i \in DOMAIN g}
    BY <1>1 DEF ToSet
  <2>3. IsFiniteSet({g[i] : i \in DOMAIN g})
    <3> HIDE DEF g
    <3>1. QED
      BY <2>1, FiniteImage
  <2>4. QED
    BY <1>1, <2>2, <2>3
<1> HIDE DEF last
<1>3. last \in Nat /\ \A p \in ToSet(paths) : Len(p) \in 1..last
  <2>1. CASE depths = {}
    <3>1. ToSet(paths) = {} /\ last = 0
      BY <2>1 DEF last
    <3>2. QED
      BY <3>1
  <2>2. CASE depths # {}
    <3> HIDE DEF depths
    <3>1. Max(depths) \in depths /\ \A n \in depths : n <= Max(depths)
      BY <1>2, <2>2, MaxIsGreatest
    <3>2. \A p \in ToSet(paths) : Len(p) \in depths
      BY DEF depths
    <3>3. last = Max(depths)
      BY <2>2 DEF last
    <3>4. last \in Nat
      BY <1>2, <3>1, <3>3
    <3>5. \A p \in ToSet(paths) : Len(p) \in Nat /\ Len(p) >= 1 /\ Len(p) <= last
      BY <1>1, <3>1, <3>2, <3>3
    <3>6. QED
      BY <3>4, <3>5
  <2>3. QED
    BY <2>1, <2>2
<1> HIDE DEF depths, last
<1>4. \A n \in 1..last : Among(paths, of(n)) \in Seq(S) /\ ToSet(Among(paths, of(n))) = of(n)
  <2>1. \A n \in 1..last : ToSet(paths) \cap of(n) = of(n)
    OBVIOUS
  <2> HIDE DEF of
  <2>2. QED
    BY <2>1, AmongIs
<1>5. lists \in Seq(Seq(S)) /\ DOMAIN lists = 1..last /\ \A n \in 1..last : lists[n] = Among(paths, of(n))
  <2> HIDE DEF of
  <2>1. lists \in [1..last -> Seq(S)]
    BY <1>4
  <2> HIDE DEF lists
  <2>2. lists \in Seq(Seq(S))
    BY <1>3, <2>1
  <2>3. QED
    BY <2>2 DEF lists
<1>6. ByDepth(paths) = FlattenSeq(lists)
  BY DEF ByDepth, depths, last
<1> HIDE DEF lists
<1>7. ByDepth(paths) \in Seq(S)
  BY <1>5, <1>6, FlattenedIsList
<1>8. ToSet(ByDepth(paths)) = UNION {ToSet(lists[n]) : n \in DOMAIN lists}
  BY <1>5, <1>6, FlattenedElements
<1>9. ToSet(ByDepth(paths)) = UNION {of(n) : n \in 1..last}
  <2> HIDE DEF of
  <2>1. QED
    BY <1>4, <1>5, <1>8
<1>10. ToSet(ByDepth(paths)) = ToSet(paths)
  BY <1>3, <1>9
<1>11. ASSUME NEW n \in DOMAIN lists, NEW p \in ToSet(lists[n]) PROVE rank[p] = n
  <2>1. p \in of(n)
    <3> HIDE DEF of
    <3>1. QED
      BY <1>4, <1>5, <1>11
  <2>2. QED
    BY <1>1, <2>1
<1>12. Rises(ByDepth(paths), rank)
  <2> HIDE DEF rank
  <2>1. QED
    BY <1>5, <1>6, <1>11, FlattenedRises
<1>13. \A i \in DOMAIN ByDepth(paths) : ByDepth(paths)[i] \in S
  BY <1>7
<1>14. QED
  BY <1>7, <1>10, <1>12, <1>13 DEF Rises

\* All segments but the last.
LEMMA DirectoryIs ==
  ASSUME NEW S, NEW p \in Seq(S), Len(p) >= 1
  PROVE  /\ Directory(p) \in Seq(S) /\ Len(Directory(p)) = Len(p) - 1
         /\ \A i \in 1..(Len(p) - 1) : Directory(p)[i] = p[i]
<1>1. Len(p) \in Nat /\ 1 \in Int /\ Len(p) - 1 \in Int /\ \A i \in 1..(Len(p) - 1) : p[i] \in S
  OBVIOUS
<1>2. Directory(p) = SubSeq(p, 1, Len(p) - 1)
  BY DEF Directory, Front
<1> DEFINE m == Len(p) - 1
           t == SubSeq(p, 1, m)
<1>3. m \in Nat /\ 1 \in Int /\ m \in Int /\ \A i \in 1..m : p[i] \in S
  BY <1>1
<1> HIDE DEF m
<1>4. /\ t \in Seq(S) /\ Len(t) = (IF 1 <= m THEN m - 1 + 1 ELSE 0)
      /\ \A i \in 1..(m - 1 + 1) : t[i] = p[1 + i - 1]
  BY <1>3, SubSeqProperties
<1>5. Len(t) = m /\ \A i \in 1..m : t[i] = p[i]
  BY <1>3, <1>4
<1>6. QED
  BY <1>2, <1>4, <1>5 DEF m

LEMMA OneSegment ==
  ASSUME NEW S, NEW s \in Seq(S), Len(s) = 1, NEW a, s[1] = a
  PROVE  s = <<a>>
OBVIOUS

\* Which directories have the same text.
LEMMA JoinedSame ==
  ASSUME NEW pl \in {"github", "azure_devops"}, NEW p \in PathsOn(pl), NEW q \in PathsOn(pl),
         NEW n \in 0..(Len(Directory(q)) - 1),
         Joined(Directory(p)) = Joined(SubSeq(Directory(q), 1, n))
  PROVE  IF pl = "azure_devops" /\ n = 0 THEN Directory(p) = <<NoName>>
                                         ELSE Directory(p) = SubSeq(Directory(q), 1, n)
<1> DEFINE d == Directory(p)  e == Directory(q)  s == SubSeq(e, 1, n)
<1>1. /\ p \in Seq(Names) /\ q \in Seq(Names)
      /\ Len(p) \in Nat /\ Len(p) >= 1 /\ Len(q) \in Nat /\ Len(q) >= 1
      /\ pl = "azure_devops" => Len(p) >= 2 /\ p[1] = NoName /\ Len(q) >= 2 /\ q[1] = NoName
      /\ pl = "github" => (\A i \in DOMAIN p : p[i] # NoName) /\ (\A i \in DOMAIN q : q[i] # NoName)
  BY PathShape
<1>2. /\ d \in Seq(Names) /\ Len(d) = Len(p) - 1 /\ \A i \in 1..Len(d) : d[i] = p[i]
      /\ e \in Seq(Names) /\ Len(e) = Len(q) - 1 /\ \A i \in 1..Len(e) : e[i] = q[i]
  BY <1>1, DirectoryIs
<1> HIDE DEF d, e
<1>3. s \in Seq(Names) /\ Len(s) = n /\ \A i \in 1..n : s[i] = q[i]
  <2>1. n \in 0..(Len(q) - 2)
    BY <1>1, <1>2 DEF e
  <2>2. QED
    BY <1>1, <1>2, <2>1
<1>4. CASE pl = "github"
  <2>1. d # <<NoName>> /\ s # <<NoName>>
    <3>1. DOMAIN p = 1..Len(p) /\ DOMAIN q = 1..Len(q) /\ n <= Len(q) - 1
      BY <1>1, <1>2 DEF e
    <3>2. ASSUME NEW i \in 1..Len(d) PROVE d[i] # NoName
      <4>1. i \in DOMAIN p /\ d[i] = p[i]
        BY <1>1, <1>2, <3>1
      <4>2. QED
        BY <1>1, <1>4, <4>1
    <3>3. \A i \in 1..Len(s) : s[i] # NoName
      BY <1>1, <1>3, <1>4, <3>1
    <3>4. Len(<<NoName>>) = 1 /\ <<NoName>>[1] = NoName
      OBVIOUS
    <3> HIDE DEF d, s
    <3>5. 1 \in 1..1
      OBVIOUS
    <3>6. QED
      BY <3>2, <3>3, <3>4, <3>5
  <2>2. QED
    BY <1>4, <2>1 DEF Joined, d, e
<1>5. CASE pl = "azure_devops"
  <2>1. d # <<>>
    BY <1>1, <1>2, <1>5
  <2>2. CASE n = 0
    <3>1. s = <<>>
      BY <1>3, <2>2
    <3>2. Joined(s) = <<>>
      BY <3>1 DEF Joined
    <3>3. QED
      BY <1>5, <2>1, <2>2, <3>2 DEF Joined, d, e
  <2>3. CASE n # 0
    <3>1. s # <<>>
      BY <1>3, <2>3
    <3>2. QED
      BY <2>1, <2>3, <3>1 DEF Joined, d, e
  <2>4. QED
    BY <2>2, <2>3
<1>6. QED
  BY <1>4, <1>5

\* A README finds the nearest one above it; in the root, it finds none on
\* GitHub, and on Azure DevOps another one of the root.
LEMMA ParentIsAbove ==
  ASSUME NEW pl \in {"github", "azure_devops"}, NEW R \in Seq(PathsOn(pl)), NEW i \in DOMAIN R,
         \A a, b \in DOMAIN R : a < b => Len(R[a]) <= Len(R[b])
  PROVE  LET path == R[i]
             parent == FindParentReadme(path, R)
             above(p) == Len(p) < Len(path) /\ IsPrefix(Directory(p), Directory(path))
             beside == {p \in ToSet(R) \ {path} : Directory(p) = Directory(path)}
         IN  IF Joined(Directory(path)) = <<>>
             THEN IF pl = "github" \/ beside = {} THEN parent = NoPath ELSE parent \in beside
             ELSE \/ parent = NoPath /\ ~\E j \in DOMAIN R : above(R[j])
                  \/ \E j \in 1..(i - 1) :
                       /\ R[j] = parent /\ above(parent)
                       /\ \A k \in DOMAIN R : above(R[k]) => Len(R[k]) <= Len(parent)
<1> DEFINE path == R[i]
           dir == Directory(path)
           same(n) == {p \in ToSet(R) : p # path /\ Joined(Directory(p)) = Joined(SubSeq(dir, 1, n))}
           levels == {n \in 0..(Len(dir) - 1) : same(n) # {}}
           above(p) == Len(p) < Len(path) /\ IsPrefix(Directory(p), dir)
           parent == FindParentReadme(path, R)
           beside == {p \in ToSet(R) \ {path} : Directory(p) = dir}
           nearest == \/ parent = NoPath /\ ~\E j \in DOMAIN R : above(R[j])
                      \/ \E j \in 1..(i - 1) :
                           /\ R[j] = parent /\ above(parent)
                           /\ \A k \in DOMAIN R : above(R[k]) => Len(R[k]) <= Len(parent)
<1>1. parent = IF levels = {} THEN NoPath ELSE Among(R, same(Max(levels)))[1]
  BY DEF FindParentReadme
<1>2. /\ DOMAIN R = 1..Len(R) /\ Len(R) \in Nat
      /\ \A p \in ToSet(R) : p \in PathsOn(pl)
      /\ \A p \in PathsOn(pl) : p \in Seq(Names) /\ Len(p) \in Nat /\ Len(p) >= 1
      /\ path \in ToSet(R)
  BY PathShape DEF ToSet
<1>3. \A p \in PathsOn(pl) : Directory(p) \in Seq(Names) /\ Len(Directory(p)) = Len(p) - 1
  BY <1>2, DirectoryIs
<1>4. ASSUME NEW n, same(n) # {} PROVE Among(R, same(n))[1] \in same(n)
  <2>1. ToSet(R) \cap same(n) = same(n)
    OBVIOUS
  <2> HIDE DEF same
  <2>2. Among(R, same(n)) \in Seq(PathsOn(pl)) /\ ToSet(Among(R, same(n))) = same(n)
    BY <2>1, AmongIs
  <2>3. ToSet(<<>>) = {}
    BY DEF ToSet
  <2>4. Among(R, same(n)) # <<>>
    BY <1>4, <2>2, <2>3
  <2>5. QED
    BY <2>2, <2>4, FirstOf
<1>5. ASSUME NEW p \in ToSet(R), above(p)
      PROVE  Len(p) - 1 \in levels
  <2>1. p \in PathsOn(pl) /\ path \in PathsOn(pl) /\ Len(p) - 1 \in 0..(Len(dir) - 1)
    BY <1>2, <1>3, <1>5
  <2>2. Directory(p) = SubSeq(dir, 1, Len(p) - 1)
    <3>1. SubSeq(Directory(p), 1, Len(Directory(p))) = Directory(p)
      BY <1>3, <2>1, SubSeqFull
    <3>2. QED
      BY <1>3, <1>5, <2>1, <3>1 DEF IsPrefix
  <2>3. p \in same(Len(p) - 1)
    <3>1. p # path
      BY <1>2, <1>5
    <3>2. QED
      BY <2>2, <3>1
  <2>4. QED
    BY <2>1, <2>3
<1>6. ASSUME levels = {} PROVE nearest
  <2>1. parent = NoPath
    BY <1>1, <1>6
  <2>2. \A j \in DOMAIN R : R[j] \in ToSet(R)
    BY DEF ToSet
  <2> HIDE DEF above, levels, parent
  <2>3. ~\E j \in DOMAIN R : above(R[j])
    BY <1>5, <1>6, <2>2
  <2>4. QED
    BY <2>1, <2>3 DEF above, parent
<1>7. ASSUME levels # {} PROVE parent \in same(Max(levels)) /\ (nearest \/ dir = <<NoName>>)
  <2> DEFINE n == Max(levels)
  <2>1. n \in levels /\ \A m \in levels : m <= n
    <3>1. levels \subseteq 0..(Len(dir) - 1) /\ Len(dir) \in Nat
      BY <1>2, <1>3
    <3>2. levels \subseteq Nat
      BY <3>1
    <3>3. IsFiniteSet(levels)
      <4>1. IsFiniteSet(0..(Len(dir) - 1))
        <5>1. 0 \in Int /\ Len(dir) - 1 \in Int
          BY <3>1
        <5>2. QED
          BY <5>1, FS_Interval
      <4>2. QED
        BY <3>1, <4>1, FS_Subset
    <3> HIDE DEF levels
    <3>4. QED
      BY <1>7, <3>2, <3>3, MaxIsGreatest
  <2>2. parent \in same(n)
    <3>1. parent = Among(R, same(n))[1]
      BY <1>1, <1>7
    <3>2. same(n) # {}
      BY <2>1
    <3> HIDE DEF same, n, parent
    <3>3. QED
      BY <1>4, <3>1, <3>2
  <2>3. /\ parent \in ToSet(R) /\ parent # path /\ parent \in PathsOn(pl) /\ path \in PathsOn(pl)
        /\ Joined(Directory(parent)) = Joined(SubSeq(dir, 1, n))
        /\ n \in 0..(Len(dir) - 1) /\ Len(dir) \in Nat
    BY <1>2, <1>3, <2>1, <2>2
  <2>4. IF pl = "azure_devops" /\ n = 0 THEN Directory(parent) = <<NoName>>
                                        ELSE Directory(parent) = SubSeq(dir, 1, n)
    <3> HIDE DEF n, parent
    <3>1. QED
      BY <2>3, JoinedSame
  <2>5. dir \in Seq(Names) /\ Len(dir) = Len(path) - 1 /\ Len(path) \in Nat
    BY <1>2, <1>3
  <2>a. parent \in same(Max(levels))
    BY <2>2
  <2> HIDE DEF n, parent, levels
  <2>6. CASE pl = "azure_devops" /\ n = 0
    <3>1. Len(path) >= 2 /\ path[1] = NoName /\ path \in Seq(Names) /\ Len(path) \in Nat
      BY <2>3, <2>6, PathShape
    <3>2. dir \in Seq(Names) /\ Len(dir) = Len(path) - 1 /\ dir[1] = NoName
      <4>1. Len(path) >= 1 /\ 1 \in 1..(Len(path) - 1)
        BY <3>1
      <4>2. QED
        BY <3>1, <4>1, DirectoryIs
    <3>3. Len(dir) = 1
      <4>1. SUFFICES ASSUME Len(dir) # 1 PROVE FALSE
        OBVIOUS
      <4>2. 1 \in 0..(Len(dir) - 1)
        BY <3>1, <3>2, <4>1
      <4>3. SubSeq(dir, 1, 1) = <<NoName>> /\ SubSeq(dir, 1, 0) = <<>>
        <5> HIDE DEF dir
        <5>1. Len(dir) \in Nat /\ Len(dir) >= 1
          BY <3>1, <3>2
        <5>2. /\ SubSeq(dir, 1, 1) \in Seq(Names) /\ Len(SubSeq(dir, 1, 1)) = 1
              /\ SubSeq(dir, 1, 1)[1] = NoName
          BY <3>2, <5>1
        <5>3. SubSeq(dir, 1, 0) = <<>>
          BY <3>2
        <5>4. QED
          BY <5>2, <5>3, OneSegment
      <4>4. Joined(SubSeq(dir, 1, 1)) = Joined(SubSeq(dir, 1, 0))
        BY <4>3 DEF Joined
      <4>5. parent \in same(1)
        BY <2>2, <2>6, <4>4
      <4>6. 1 \in levels
        BY <4>2, <4>5 DEF levels
      <4>7. QED
        BY <2>1, <2>6, <4>6
    <3>4. dir = <<NoName>>
      BY <3>2, <3>3
    <3>5. QED
      BY <2>a, <3>4 DEF parent, levels
  <2>7. CASE ~(pl = "azure_devops" /\ n = 0)
    <3>1. Directory(parent) = SubSeq(dir, 1, n) /\ Len(Directory(parent)) = n /\ Len(parent) = n + 1
      <4>1. Directory(parent) = SubSeq(dir, 1, n)
        BY <2>4, <2>7
      <4>2. Len(SubSeq(dir, 1, n)) = n
        BY <1>3, <2>3
      <4>3. Len(Directory(parent)) = Len(parent) - 1 /\ Len(parent) \in Nat
        BY <1>2, <1>3, <2>3
      <4>4. Len(Directory(parent)) = n
        BY <4>1, <4>2
      <4>5. Len(parent) = n + 1
        BY <2>3, <4>3, <4>4
      <4>6. QED
        BY <4>1, <4>4, <4>5
    <3>2. above(parent)
      <4>1. SubSeq(Directory(parent), 1, n) = Directory(parent)
        BY <1>3, <2>3, <3>1, SubSeqFull
      <4>2. Len(path) \in Nat /\ Len(dir) = Len(path) - 1
        BY <1>2, <1>3
      <4>3. QED
        BY <2>3, <3>1, <4>1, <4>2 DEF IsPrefix
    <3>3. PICK j \in DOMAIN R : R[j] = parent
      BY <2>3 DEF ToSet
    <3>4. j \in 1..(i - 1)
      <4>1. Len(R[j]) < Len(R[i])
        BY <3>2, <3>3
      <4>2. j # i /\ ~(i < j)
        BY <1>2, <2>3, <3>3, <4>1
      <4>3. QED
        BY <1>2, <4>2
    <3>5. ASSUME NEW k \in DOMAIN R, above(R[k]) PROVE Len(R[k]) <= Len(parent)
      <4>1. R[k] \in ToSet(R) /\ Len(R[k]) \in Nat
        BY <1>2 DEF ToSet
      <4>2. Len(R[k]) - 1 \in levels
        BY <1>5, <3>5, <4>1
      <4>3. QED
        BY <2>1, <2>3, <3>1, <4>1, <4>2
    <3>6. nearest
      <4> HIDE DEF above, parent
      <4>1. QED
        BY <3>2, <3>3, <3>4, <3>5 DEF above, parent
    <3>7. QED
      BY <2>a, <3>6 DEF parent, levels
  <2>8. QED
    BY <2>6, <2>7
<1>8. path \in PathsOn(pl) /\ dir \in Seq(Names) /\ Len(dir) = Len(path) - 1 /\ Len(path) \in Nat
  BY <1>2, <1>3
<1>9. CASE pl = "github" /\ Joined(dir) = <<>>
  <2>1. dir = <<>>
    <3>1. path \in Seq(Names) /\ \A k \in DOMAIN path : path[k] # NoName
      BY <1>8, <1>9, PathShape
    <3>2. ASSUME dir = <<NoName>> PROVE FALSE
      <4>1. Len(dir) = 1 /\ dir[1] = NoName
        BY <3>2
      <4>2. Len(path) >= 1 /\ 1 \in DOMAIN path /\ 1 \in 1..(Len(path) - 1)
        BY <1>8, <3>1, <4>1
      <4>3. dir[1] = path[1]
        BY <3>1, <4>2, DirectoryIs
      <4>4. QED
        BY <3>1, <4>1, <4>2, <4>3
    <3> HIDE DEF dir
    <3>3. QED
      BY <1>9, <3>2 DEF Joined
  <2>2. levels = {}
    <3>1. Len(dir) = 0
      BY <2>1
    <3> HIDE DEF dir, same
    <3>2. QED
      BY <3>1
  <2>3. QED
    BY <1>1, <1>9, <2>2
<1>10. CASE pl = "azure_devops" /\ Joined(dir) = <<>>
  <2>1. ASSUME NEW p \in PathsOn(pl)
        PROVE  Joined(Directory(p)) = <<>> <=> Directory(p) = <<NoName>>
    <3>1. Len(p) >= 2 /\ Len(p) \in Nat
      BY <1>10, <2>1, PathShape
    <3>2. Directory(p) \in Seq(Names) /\ Len(Directory(p)) >= 1
      BY <1>3, <2>1, <3>1
    <3>3. Directory(p) # <<>>
      BY <3>2
    <3>4. QED
      BY <3>3 DEF Joined
  <2>2. dir = <<NoName>>
    BY <1>8, <1>10, <2>1
  <2>3. same(0) = beside
    <3>1. Joined(SubSeq(dir, 1, 0)) = <<>>
      <4>1. SubSeq(dir, 1, 0) = <<>>
        BY <1>8
      <4>2. QED
        BY <4>1 DEF Joined
    <3>2. \A p \in ToSet(R) : Joined(Directory(p)) = <<>> <=> Directory(p) = dir
      BY <1>2, <2>1, <2>2
    <3> HIDE DEF dir, path
    <3>3. QED
      BY <3>1, <3>2
  <2>4. levels = IF same(0) = {} THEN {} ELSE {0}
    <3>1. Len(dir) = 1
      BY <2>2
    <3>2. 0..(Len(dir) - 1) = {0}
      BY <3>1
    <3> HIDE DEF dir, same
    <3>3. QED
      BY <3>2
  <2>5. ASSUME same(0) # {} PROVE parent \in same(0)
    <3>1. levels = {0}
      BY <2>4, <2>5
    <3>2. Max({0}) = 0
      BY DEF Max
    <3>3. Max(levels) = 0
      BY <3>1, <3>2
    <3> HIDE DEF same, levels, parent
    <3>4. parent \in same(Max(levels))
      BY <1>7, <3>1
    <3>5. QED
      BY <3>3, <3>4
  <2>6. same(0) = {} => parent = NoPath
    BY <1>1, <2>4
  <2> HIDE DEF same, parent
  <2>7. IF beside = {} THEN parent = NoPath ELSE parent \in beside
    BY <2>3, <2>5, <2>6
  <2> HIDE DEF beside, dir
  <2>8. QED
    BY <1>10, <2>7 DEF parent, beside, dir
<1>11. ASSUME Joined(dir) # <<>> PROVE nearest
  <2>1. dir # <<NoName>>
    BY <1>11 DEF Joined
  <2> HIDE DEF nearest, dir, same
  <2>2. QED
    BY <1>6, <1>7, <2>1
<1>12. CASE Joined(dir) # <<>>
  <2> HIDE DEF beside
  <2>1. QED
    BY <1>11, <1>12
<1>13. QED
  BY <1>9, <1>10, <1>12

\* So every README of a tree has its place.
LEMMA ReadmesArePlaced ==
  ASSUME NEW pl \in {"github", "azure_devops"}, NEW tree \in Seq(PathsOn(pl)), NEW readable
  PROVE  ReadmesFit(pl, ReadmeFiles(tree, readable))
<1> DEFINE kept == Among(tree, {p \in readable : IsReadme(p)})
           R == ByDepth(kept)
           dirs == Directories(tree)
           files == [i \in DOMAIN R |-> DetermineReadmeScope(R[i], R, dirs)]
<1>1. kept \in Seq(PathsOn(pl))
  BY AmongIs
<1>2. PathsOn(pl) \subseteq Seq(Names) \ {<<>>}
  <2>1. \A p \in PathsOn(pl) : p \in Seq(Names) /\ Len(p) >= 1
    BY PathShape
  <2>2. Len(<<>>) = 0
    OBVIOUS
  <2>3. QED
    BY <2>1, <2>2
<1> HIDE DEF kept
<1>3. R \in Seq(PathsOn(pl)) /\ \A a, b \in DOMAIN R : a < b => Len(R[a]) <= Len(R[b])
  BY <1>1, <1>2, ByDepthIs
<1>4. ReadmeFiles(tree, readable) = files /\ DOMAIN files = DOMAIN R
  BY DEF ReadmeFiles, SortedReadmes, WithScopes, kept
<1>5. \A i \in DOMAIN R : files[i].path = R[i] /\ files[i].parent = FindParentReadme(R[i], R)
  BY DEF DetermineReadmeScope
<1> HIDE DEF R, files
<1>6. {files[j].path : j \in DOMAIN files} = ToSet(R)
  BY <1>4, <1>5 DEF ToSet
<1>7. ASSUME NEW i \in DOMAIN files
      PROVE LET path == files[i].path
                parent == files[i].parent
                above(p) == Len(p) < Len(path) /\ IsPrefix(Directory(p), Directory(path))
                beside == {p \in {files[j].path : j \in DOMAIN files} \ {path} : Directory(p) = Directory(path)}
            IN  IF Joined(Directory(path)) = <<>>
                THEN IF pl = "github" \/ beside = {} THEN parent = NoPath ELSE parent \in beside
                ELSE \/ parent = NoPath /\ ~\E j \in DOMAIN files : above(files[j].path)
                     \/ \E j \in 1..(i - 1) :
                          /\ files[j].path = parent /\ above(parent)
                          /\ \A k \in DOMAIN files :
                               above(files[k].path) => Len(files[k].path) <= Len(parent)
  <2>1. i \in DOMAIN R /\ files[i].path = R[i] /\ files[i].parent = FindParentReadme(R[i], R)
    BY <1>4, <1>5
  <2>2. i \in 1..Len(R) /\ Len(R) \in Nat /\ DOMAIN R = 1..Len(R)
    BY <1>3, <2>1
  <2>3. \A j \in 1..(i - 1) : j \in DOMAIN R
    BY <2>2
  <2>4. LET path == R[i]
            parent == FindParentReadme(path, R)
            above(p) == Len(p) < Len(path) /\ IsPrefix(Directory(p), Directory(path))
            beside == {p \in ToSet(R) \ {path} : Directory(p) = Directory(path)}
        IN  IF Joined(Directory(path)) = <<>>
            THEN IF pl = "github" \/ beside = {} THEN parent = NoPath ELSE parent \in beside
            ELSE \/ parent = NoPath /\ ~\E j \in DOMAIN R : above(R[j])
                 \/ \E j \in 1..(i - 1) :
                      /\ R[j] = parent /\ above(parent)
                      /\ \A k \in DOMAIN R : above(R[k]) => Len(R[k]) <= Len(parent)
    BY <1>3, <2>1, ParentIsAbove
  <2>5. QED
    BY <1>4, <1>5, <1>6, <2>1, <2>3, <2>4
<1>8. QED
  BY <1>4, <1>7 DEF ReadmesFit

-----------------------------------------------------------------------------
(* Steps, keys and pages.                                                  *)

USE ExtractorsAssumption, TreesAssumption

LEMMA StepsAre ==
  /\ DOMAIN Steps = 1..9 /\ Len(Steps) = 9
  /\ Steps[1] = "metadata" /\ Steps[2] = "branches" /\ Steps[3] = "languages" /\ Steps[4] = "detections"
  /\ Steps[5] = "readmes" /\ Steps[6] = "commits" /\ Steps[7] = "pulls" /\ Steps[8] = "dependencies"
  /\ Steps[9] = "stamp"
BY DEF Steps

\* What a key is.
LEMMA KeysAre ==
  ASSUME NEW r, NEW key \in Keys(r)
  PROVE  /\ key[2] = r
         /\ key[1] \in {"_get_repo", "get_branches", "get_languages", "get_file_tree", "get_file_content"}
         /\ key[1] = "get_file_tree" => key[3] \in Branches
         /\ key[1] = "get_file_content" => key[4] \in Seq(Names)
BY DEF Keys

LEMMA KeysOf ==
  ASSUME NEW r
  PROVE  /\ <<"_get_repo", r>> \in Keys(r) /\ <<"get_branches", r>> \in Keys(r)
         /\ <<"get_languages", r>> \in Keys(r)
         /\ \A b \in Branches : <<"get_file_tree", r, b>> \in Keys(r)
         /\ \A b \in Branches : \A path \in Seq(Names) : <<"get_file_content", r, b, path>> \in Keys(r)
BY DEF Keys

\* The calls a step begins with.
LEMMA OpeningFits ==
  ASSUME NEW r, NEW step
  PROVE  Opening(r, step) \in Seq(Keys(r))
<1>1. <<"repository.json">> \in Seq(Names)
  <2>1. "repository.json" \in Names
    BY DEF Names
  <2>2. QED
    BY <2>1
<1>2. PathOn("github", <<"repository.json">>) = <<"repository.json">>
  BY DEF PathOn
<1>3. {"None", "left out", "default"} = Branches
  BY DEF Branches
<1>4. /\ <<"get_file_content", r, "None", PathOn("github", <<"repository.json">>)>> \in Keys(r)
      /\ <<"get_file_tree", r, "left out">> \in Keys(r)
      /\ <<"get_file_tree", r, "None">> \in Keys(r)
      /\ <<"get_file_tree", r, "default">> \in Keys(r)
  BY <1>1, <1>2, <1>3, KeysOf
<1>5. \A key \in Keys(r) : <<key>> \in Seq(Keys(r))
  OBVIOUS
<1>6. <<>> \in Seq(Keys(r))
  OBVIOUS
<1>7. QED
  BY <1>4, <1>5, <1>6, KeysOf, Zenon DEF Opening

LEMMA OpeningIs ==
  ASSUME NEW r
  PROVE  /\ Opening(r, "languages") = << <<"get_languages", r>> >>
         /\ Opening(r, "detections") = << <<"get_file_tree", r, "left out">> >>
         /\ Opening(r, "readmes") = << <<"get_file_tree", r, "None">> >>
         /\ Opening(r, "dependencies") = << <<"get_file_tree", r, "default">> >>
BY DEF Opening

\* A page that has not been asked for is in order.
LEMMA FirstPageFits ==
  /\ IsPage(FirstPage) /\ FirstPage.items = <<>> /\ Len(FirstPage.items) = 0
  /\ FirstPage.number = 0 /\ ~FirstPage.ended /\ ~FirstPage.refused /\ ~FirstPage.rewritten
  /\ \A n : CommitsListed(FirstPage, n)
  /\ CommitsFit(FirstPage)
BY DEF FirstPage, IsPage, CommitsListed, CommitsFit

LEMMA NothingFits == \A pl : FoundFits(pl, NothingFound)
<1>1. ToSet(<<>>) = {}
  BY DEF ToSet
<1>2. QED
  BY <1>1, FirstPageFits DEF FoundFits, NothingFound, ReadmesFit, PullsFit

LEMMA LimitType ==
  ASSUME PlatformFits, RunFits
  PROVE  Limit \in Nat /\ (At("listing") => Source \in Seq(Repos))
<1>1. Among(org, Repos \ Private) \in Seq(Repos)
  BY AmongIs DEF PlatformFits
<1>2. At("listing") => Source \in Seq(Repos)
  BY <1>1 DEF Source, PlatformFits
<1>3. At("listing") => Len(Source) \in Nat
  BY <1>2
<1>4. QED
  BY <1>2, <1>3 DEF Limit

-----------------------------------------------------------------------------
(* Outside a scan.                                                         *)

\* Where nothing is under way there is little to say.
LEMMA NothingUnderWay ==
  ASSUME PlatformFits, RunFits, ~At("scanning"), page = FirstPage, scan = NoScan, cache = <<>>, IsStore(disk)
  PROVE  CacheFits /\ PageFits /\ ScanFits /\ QuietFits
<1>1. DOMAIN cache = {} /\ cache = [key \in DOMAIN cache |-> cache[key]]
  OBVIOUS
<1>2. CacheFits
  BY <1>1 DEF CacheFits, IsStore
<1>3. PageFits
  BY LimitType, FirstPageFits DEF PageFits, At
<1>4. ScanFits
  BY StepsAre, NothingFits DEF ScanFits, NoScan
<1>5. QuietFits
  BY DEF QuietFits, Quiet
<1>6. QED
  BY <1>2, <1>3, <1>4, <1>5

LEMMA NothingUnderWayNext ==
  ASSUME PlatformFits', RunFits', ~At("scanning")', page' = FirstPage, scan' = NoScan, cache' = <<>>,
         IsStore(disk)'
  PROVE  CacheFits' /\ PageFits' /\ ScanFits' /\ QuietFits'
<1>1. DOMAIN cache' = {} /\ cache' = [key \in DOMAIN cache' |-> cache'[key]]
  OBVIOUS
<1>2. CacheFits'
  BY <1>1 DEF CacheFits, IsStore
<1>3. PageFits'
  <2>1. Limit' \in Nat
    <3>1. (PlatformFits /\ RunFits => Limit \in Nat)'
      BY LimitType, PTL
    <3>2. QED
      BY <3>1
  <2>2. QED
    BY <2>1, FirstPageFits DEF PageFits, At
<1>4. ScanFits'
  BY StepsAre, NothingFits DEF ScanFits, NoScan
<1>5. QuietFits'
  BY DEF QuietFits, Quiet
<1>6. QED
  BY <1>2, <1>3, <1>4, <1>5

LEMMA Initial == Init => ExtractorsInvariant
<1> SUFFICES ASSUME Init PROVE ExtractorsInvariant
  OBVIOUS
<1>1. PlatformFits
  <2>1. \A r \in Repos : Len(Trees[r]) \in Nat /\ Len(Trees[r]) > 0
    OBVIOUS
  <2>2. QED
    BY <2>1 DEF Init, PlatformFits
<1>2. RunFits
  BY DEF Init, RunFits, Nothing, Places, At
<1>3. IsStore(disk)
  <2>1. DOMAIN disk = {} /\ disk = [key \in DOMAIN disk |-> disk[key]]
    BY DEF Init
  <2>2. QED
    BY <2>1 DEF IsStore
<1>4. ~At("scanning") /\ page = FirstPage /\ scan = NoScan /\ cache = <<>>
  BY DEF Init, Nothing, At
<1>5. QED
  BY <1>1, <1>2, <1>3, <1>4, NothingUnderWay DEF ExtractorsInvariant

-----------------------------------------------------------------------------
(* From one step of a scan to the next.                                    *)

LEMMA StartingIs ==
  ASSUME NEW r, NEW step, NEW from, NEW found
  PROVE  Starting(r, step, from, found)
           = [repo |-> r, from |-> from, step |-> step, todo |-> Opening(r, Steps[step]), tree |-> <<>>,
              readable |-> {}, found |-> found]
<1> DEFINE todo == Opening(r, Steps[step])
<1> HIDE DEF todo
<1>1. NoScan \in [repo : {NoRepo}, from : {0}, step : {1}, todo : {<<>>}, tree : {<<>>}, readable : {{}},
                  found : {NothingFound}]
  BY DEF NoScan
<1> DEFINE s == [NoScan EXCEPT !.repo = r, !.from = from, !.step = step, !.found = found, !.todo = todo]
<1>2. s \in [repo : {r}, from : {from}, step : {step}, todo : {todo}, tree : {<<>>}, readable : {{}},
             found : {found}]
  BY <1>1
<1>3. Starting(r, step, from, found) = s
  BY DEF Starting, todo
<1> HIDE DEF s
<1>4. QED
  BY <1>2, <1>3 DEF todo

\* In a scan that is quiet, what the last step has found: the technologies of
\* the tree, on Azure DevOps its languages, the READMEs and the manifests.
Concludes(found) ==
  /\ Quiet /\ Step = "languages" /\ platform = "azure_devops" => found.languages = CountLanguages(Actual)
  /\ Quiet /\ Step = "detections" => found.technologies = Detect(Actual)
  /\ Quiet /\ Step = "readmes" => found.readmes = AllReadmes
  /\ Quiet /\ Step = "dependencies" => found.manifests = AllManifests

\* More has failed, or nothing has.
MoreFailed == failures' \in Nat /\ failures' >= failures

LEMMA GoOnFits ==
  ASSUME ExtractorsInvariant, At("scanning"), UNCHANGED <<platformVars, disk>>, MoreFailed,
         NEW found, failures' = 0 => Concludes(found), FoundFits(platform, found), GoOn(found)
  PROVE  ExtractorsInvariant'
<1>1. PlatformFits'
  BY DEF ExtractorsInvariant, PlatformFits, platformVars, MoreFailed, GoOn
<1>2. IsStore(disk)' /\ IsStore(cache)
  BY DEF ExtractorsInvariant, CacheFits, IsStore
<1>3. CASE scan.step < Len(Steps)
  <2>1. /\ scan.step \in 1..8 /\ run' = run /\ cache' = cache /\ page' = FirstPage
        /\ scan' = Starting(scan.repo, scan.step + 1, scan.from, found)
    BY <1>3, StepsAre DEF GoOn, ExtractorsInvariant, ScanFits
  <2>2. /\ scan' = [repo |-> scan.repo, from |-> scan.from, step |-> scan.step + 1,
                    todo |-> Opening(scan.repo, Steps[scan.step + 1]), tree |-> <<>>, readable |-> {},
                    found |-> found]
    BY <2>1, StartingIs
  <2>3. /\ scan'.repo = scan.repo /\ scan'.from = scan.from /\ scan'.step = scan.step + 1
        /\ scan'.todo = Opening(scan.repo, Steps[scan.step + 1]) /\ scan'.tree = <<>>
        /\ scan'.found = found /\ Step' = Steps[scan.step + 1]
    BY <2>2 DEF Step
  <2>4. RunFits'
    BY <2>1 DEF ExtractorsInvariant, RunFits, platformVars, At
  <2>5. CacheFits'
    BY <1>2, <2>1, <2>3 DEF ExtractorsInvariant, CacheFits, IsStore, IsFresh, Raises, At, platformVars
  <2>6. PageFits'
    <3>1. Limit' \in Nat
      BY <2>1 DEF Limit, At
    <3>2. ~At("listing")'
      BY <2>1 DEF At
    <3>3. \A n : CommitsListed(page', n)
      BY <2>1, FirstPageFits
    <3>4. IsPage(page') /\ Len(page'.items) = 0 /\ page'.number = 0
      BY <2>1, FirstPageFits
    <3>5. QED
      BY <2>1, <3>1, <3>2, <3>3, <3>4 DEF PageFits
  <2>7. ScanFits'
    <3>1. scan' = [repo |-> scan'.repo, from |-> scan'.from, step |-> scan'.step, todo |-> scan'.todo,
                   tree |-> scan'.tree, readable |-> scan'.readable, found |-> scan'.found]
      BY <2>2
    <3>2. scan'.step \in DOMAIN Steps
      BY <2>1, <2>3, StepsAre
    <3>3. FoundFits(platform', scan'.found)
      BY <2>3 DEF platformVars
    <3>4. At("scanning")'
      BY <2>1 DEF At
    <3>5. scan'.repo \in Repos /\ scan'.from \in Nat /\ scan'.from <= revision'[scan'.repo]
      BY <2>3 DEF ExtractorsInvariant, ScanFits, platformVars
    <3>6. scan'.todo \in Seq(Keys(scan'.repo))
      BY <2>3, OpeningFits
    <3>7. scan'.tree \in Seq(PathsOn(platform'))
      BY <2>3
    <3>8. scan'.todo = Opening(scan'.repo, Step')
      BY <2>3
    <3>9. (scan.todo \in {Opening(scan.repo, Step), <<>>})'
      BY <2>3 DEF Opening, platformVars
    <3>10. QED
      BY <3>1, <3>2, <3>3, <3>4, <3>5, <3>6, <3>7, <3>9 DEF ScanFits
  <2>8. QuietFits'
    <3> SUFFICES ASSUME Quiet' PROVE QuietFits'
      BY DEF QuietFits
    <3>1. failures' = 0 /\ failures = 0
      BY DEF Quiet, MoreFailed, ExtractorsInvariant, PlatformFits
    <3>2. Quiet
      BY <2>1, <2>3, <3>1 DEF Quiet, At, platformVars
    <3>3. Concludes(found)
      BY <3>1
    <3>4. /\ Actual' = Actual /\ platform' = platform
          /\ AllReadmes' = AllReadmes /\ AllManifests' = AllManifests
      <4>1. Actual' = Actual /\ platform' = platform
        BY <2>3 DEF Actual, platformVars
      <4>2. QED
        BY <4>1 DEF AllReadmes, AllManifests, LostReadmes, LostManifests, Full
    <3>5. Step' = "detections" => Step = "languages"
      BY <2>1, <2>3, StepsAre DEF Step
    <3>6. Step' = "readmes" => Step = "detections"
      BY <2>1, <2>3, StepsAre DEF Step
    <3>7. Step' \in {"languages", "detections", "readmes", "dependencies"} => scan'.todo # <<>>
      <4>1. \A x : <<x>> # <<>>
        OBVIOUS
      <4>2. scan'.todo = Opening(scan.repo, Step')
        BY <2>3
      <4>3. \A step \in {"languages", "detections", "readmes", "dependencies"} : Opening(scan.repo, step) # <<>>
        BY <4>1, OpeningIs
      <4>4. QED
        BY <4>2, <4>3
    <3>8. Step' \in {"readmes", "dependencies"} => (scan.todo = Opening(scan.repo, Step))'
      BY <2>3 DEF Opening, platformVars
    <3>9. (Step' = "commits" => Step = "readmes") /\ (Step' = "stamp" => Step = "dependencies")
      BY <2>1, <2>3, StepsAre DEF Step
    <3>10. QED
      BY <2>3, <3>2, <3>3, <3>4, <3>5, <3>6, <3>7, <3>8, <3>9 DEF QuietFits, Concludes
  <2>9. QED
    BY <1>1, <2>4, <2>5, <2>6, <2>7, <2>8 DEF ExtractorsInvariant
<1>4. CASE ~(scan.step < Len(Steps))
  <2>1. /\ run' = [run EXCEPT !.at = "choosing"] /\ scan' = NoScan /\ page' = FirstPage /\ cache' = <<>>
    BY <1>4 DEF GoOn, ClearCache
  <2>2. RunFits' /\ ~At("scanning")'
    BY <2>1 DEF ExtractorsInvariant, RunFits, platformVars, At, Places
  <2>3. QED
    BY <1>1, <1>2, <2>1, <2>2, NothingUnderWayNext DEF ExtractorsInvariant
<1>5. QED
  BY <1>3, <1>4

-----------------------------------------------------------------------------
(* The platform, and the run.                                              *)

\* What is known of a scan that was quiet holds as long as it stays where it is.
LEMMA QuietAsBefore ==
  ASSUME QuietFits, Quiet, UNCHANGED <<scan, platform>>
  PROVE  QuietFits'
<1>1. Actual' = Actual /\ Step' = Step
  BY DEF Actual, Step
<1>2. Full' = Full /\ Files' = Files
  BY <1>1 DEF Full, Files
<1>3. Reading' = Reading /\ Opening(scan.repo, Step)' = Opening(scan.repo, Step)
  BY <1>1, <1>2 DEF Reading, ReadingIn, Opening
<1>4. AllReadmes' = AllReadmes /\ AllManifests' = AllManifests
  BY <1>1, <1>2 DEF AllReadmes, AllManifests, LostReadmes, LostManifests
<1>5. QED
  BY <1>1, <1>3, <1>4 DEF QuietFits

\* What was listed when there was less is in order when there is more.
LEMMA CommitsListedMore ==
  ASSUME NEW p, IsPage(p), NEW n \in Nat, NEW k \in Nat, n <= k, CommitsListed(p, n)
  PROVE  CommitsListed(p, k)
<1>1. \A m \in ToSet(p.items) : m \in Nat
  <2>1. p.items \in Seq(Nat)
    BY DEF CommitsListed
  <2> DEFINE items == p.items
  <2> HIDE DEF items
  <2>2. ToSet(items) \subseteq Nat
    BY <2>1 DEF ToSet, items
  <2>3. QED
    BY <2>2 DEF items
<1>2. p.number * PageSize \in Nat
  <2>1. p.number \in Nat /\ PageSize \in Nat
    BY ExtractorsAssumption DEF IsPage
  <2>2. QED
    BY <2>1
<1> DEFINE before == p.number * PageSize
<1> HIDE DEF before
<1>3. ASSUME NEW m \in ToSet(p.items), Covers(p, n, m)
      PROVE  Covers(p, k, m)
  <2>1. m \in Nat /\ before \in Nat
    BY <1>1, <1>2 DEF before
  <2>2. before <= n /\ m <= n - before => before <= k /\ m <= k - before
    BY <2>1
  <2>3. QED
    BY <1>3, <2>2 DEF Covers, before
<1>4. QED
  BY <1>3 DEF CommitsListed

\* A revision more changes nothing that has been found out, and what is kept
\* is still as old as that.
LEMMA RevisedFits ==
  ASSUME ExtractorsInvariant, NEW r \in Repos, revision' = [revision EXCEPT ![r] = @ + 1],
         revision[r] + 1 < Len(Trees[r]), commits' \in [Repos -> Nat \ {0}],
         UNCHANGED <<platform, account, org, run, scan, attempts, cache, disk, failures>>
  PROVE  /\ PlatformFits' /\ RunFits' /\ CacheFits' /\ ScanFits' /\ QuietFits'
         /\ Limit' = Limit /\ Listing' = Listing /\ Fetching' = Fetching
<1>1. revision \in [Repos -> Nat]
  BY DEF ExtractorsInvariant, PlatformFits
<1>2. \A q \in Repos : revision[q] \in Nat /\ revision'[q] \in Nat /\ revision[q] <= revision'[q]
  BY <1>1
<1>3. PlatformFits'
  <2>1. revision' \in [Repos -> Nat]
    BY <1>1
  <2>2. \A q \in Repos : revision'[q] < Len(Trees[q])
    BY <1>1 DEF ExtractorsInvariant, PlatformFits
  <2>3. QED
    BY <2>1, <2>2 DEF ExtractorsInvariant, PlatformFits
<1>4. RunFits'
  BY DEF ExtractorsInvariant, RunFits, At
<1>5. At("scanning") => scan.repo \in Repos /\ scan.from \in Nat /\ scan.from <= revision[scan.repo]
  BY DEF ExtractorsInvariant, ScanFits
<1>6. CacheFits'
  <2>1. IsStore(cache)' /\ IsStore(disk)'
    BY DEF ExtractorsInvariant, CacheFits, IsStore
  <2>2. (~run.filing => \A key \in DOMAIN cache : IsFresh(key, cache[key]))'
    <3> SUFFICES ASSUME ~run.filing, NEW key \in DOMAIN cache
                 PROVE  /\ cache[key].rev \in scan.from..revision'[scan.repo]
                        /\ cache[key].ok => ~Raises(key)
      BY DEF IsFresh, Raises
    <3>1. At("scanning")
      <4>1. DOMAIN <<>> = {}
        OBVIOUS
      <4>2. QED
        BY <4>1 DEF ExtractorsInvariant, CacheFits
    <3>2. cache[key].rev \in scan.from..revision[scan.repo] /\ (cache[key].ok => ~Raises(key))
      BY DEF ExtractorsInvariant, CacheFits, IsFresh
    <3>3. QED
      BY <1>2, <1>5, <3>1, <3>2
  <2>3. QED
    BY <2>1, <2>2 DEF ExtractorsInvariant, CacheFits, At
<1>7. Limit' = Limit /\ Listing' = Listing /\ Fetching' = Fetching
  BY DEF Limit, Source, Listing, Fetching, At, Step
<1>8. ScanFits'
  <2>1. At("scanning") => scan.from <= revision'[scan.repo]
    BY <1>2, <1>5
  <2>2. Opening(scan.repo, Step)' = Opening(scan.repo, Step)
    BY DEF Opening, Step
  <2>3. QED
    BY <2>1, <2>2 DEF ExtractorsInvariant, ScanFits, At, Step
<1>9. QuietFits'
  <2> SUFFICES ASSUME Quiet' PROVE QuietFits'
    BY DEF QuietFits
  <2>1. At("scanning")
    BY DEF Quiet, At
  <2>2. revision[scan.repo] = scan.from
    BY <1>2, <1>5, <2>1 DEF Quiet
  <2>3. Quiet
    BY <2>2 DEF Quiet, At
  <2>4. QED
    BY <2>3, QuietAsBefore DEF ExtractorsInvariant
<1>10. QED
  BY <1>3, <1>4, <1>6, <1>7, <1>8, <1>9

LEMMA PushFits ==
  ASSUME ExtractorsInvariant, NEW r \in Repos, Push(r)
  PROVE  ExtractorsInvariant'
<1>1. /\ commits \in [Repos -> Nat \ {0}] /\ commits' = [commits EXCEPT ![r] = @ + 1]
      /\ page' = page
  BY DEF ExtractorsInvariant, PlatformFits, Push
<1>2. commits' \in [Repos -> Nat \ {0}] /\ \A q \in Repos : commits[q] <= commits'[q]
  BY <1>1
<1>3. /\ PlatformFits' /\ RunFits' /\ CacheFits' /\ ScanFits' /\ QuietFits'
      /\ Limit' = Limit /\ Listing' = Listing /\ Fetching' = Fetching
  BY <1>2, RevisedFits DEF Push
<1>4. ASSUME At("scanning") PROVE CommitsListed(page, commits'[scan.repo])
  <2> DEFINE n == commits[scan.repo]  k == commits'[scan.repo]
  <2>1. scan.repo \in Repos
    BY <1>4 DEF ExtractorsInvariant, ScanFits
  <2>2. n \in Nat /\ k \in Nat /\ n <= k
    BY <1>1, <1>2, <2>1
  <2>3. CommitsListed(page, n) /\ IsPage(page)
    BY <1>4 DEF ExtractorsInvariant, PageFits
  <2> HIDE DEF n, k
  <2>4. CommitsListed(page, k)
    BY <2>2, <2>3, CommitsListedMore
  <2>5. QED
    BY <2>4 DEF k
<1>5. PageFits'
  BY <1>1, <1>3, <1>4 DEF ExtractorsInvariant, PageFits, At, Push
<1>6. QED
  BY <1>3, <1>5 DEF ExtractorsInvariant

\* Only the page says that what it has listed may be another history by now.
LEMMA ForcePushPage ==
  ASSUME ExtractorsInvariant, NEW r \in Repos, ForcePush(r)
  PROVE  /\ page' = [items |-> page.items, number |-> page.number, ended |-> page.ended,
                     refused |-> page.refused, rewritten |-> TRUE, head |-> page.head]
         /\ page'.items = page.items /\ page'.number = page.number /\ page'.ended = page.ended
         /\ page'.refused = page.refused /\ page'.rewritten /\ page'.head = page.head
<1>1. page \in [items : {page.items}, number : {page.number}, ended : {page.ended}, refused : {page.refused},
                rewritten : {page.rewritten}, head : {page.head}]
  BY DEF ExtractorsInvariant, PageFits, IsPage
<1> DEFINE new == [page EXCEPT !.rewritten = TRUE]
<1>2. new \in [items : {page.items}, number : {page.number}, ended : {page.ended}, refused : {page.refused},
               rewritten : {TRUE}, head : {page.head}]
  BY <1>1
<1>3. page' = new
  BY DEF ForcePush
<1> HIDE DEF new
<1>4. QED
  BY <1>2, <1>3

LEMMA ForcePushFits ==
  ASSUME ExtractorsInvariant, NEW r \in Repos, ForcePush(r)
  PROVE  ExtractorsInvariant'
<1>1. commits' \in [Repos -> Nat \ {0}]
  <2>1. PICK n \in 1..(commits[r] + 1) : commits' = [commits EXCEPT ![r] = n]
    BY DEF ForcePush
  <2>2. commits \in [Repos -> Nat \ {0}]
    BY DEF ExtractorsInvariant, PlatformFits
  <2>3. commits[r] \in Nat /\ n \in Nat \ {0}
    BY <2>2
  <2>4. QED
    BY <2>1, <2>2, <2>3
<1>2. /\ PlatformFits' /\ RunFits' /\ CacheFits' /\ ScanFits' /\ QuietFits'
      /\ Limit' = Limit /\ Listing' = Listing /\ Fetching' = Fetching
  BY <1>1, RevisedFits DEF ForcePush
<1>3. /\ page' = [items |-> page'.items, number |-> page'.number, ended |-> page'.ended,
                  refused |-> page'.refused, rewritten |-> page'.rewritten, head |-> page'.head]
      /\ page'.items = page.items /\ page'.number = page.number /\ page'.ended = page.ended
      /\ page'.refused = page.refused /\ page'.rewritten = TRUE /\ page'.head = page.head
  BY ForcePushPage
<1>4. At("scanning") => \A n : CommitsListed(page', n)
  BY <1>3 DEF ExtractorsInvariant, PageFits, CommitsListed
<1>5. PageFits'
  <2>1. Listing /\ UNCHANGED <<run, scan, platform>>
    BY DEF ForcePush, BetweenPages
  <2>2. IsPage(page')
    BY <1>3 DEF ExtractorsInvariant, PageFits, IsPage
  <2>3. QED
    BY <1>2, <1>3, <1>4, <2>1, <2>2 DEF ExtractorsInvariant, PageFits, At
<1>6. QED
  BY <1>2, <1>5 DEF ExtractorsInvariant

LEMMA CreateRepositoryFits ==
  ASSUME ExtractorsInvariant, NEW r \in Repos, CreateRepository(r)
  PROVE  ExtractorsInvariant'
<1>1. /\ org' = <<r>> \o org /\ ~At("scanning") /\ ~At("scanning")'
      /\ UNCHANGED <<platform, account, revision, commits, run, page, scan, attempts, cache, disk, failures>>
  BY DEF CreateRepository, At
<1>2. org \in Seq(Repos) /\ <<r>> \in Seq(Repos) /\ org' \in Seq(Repos) /\ Len(org') = 1 + Len(org)
  BY <1>1 DEF ExtractorsInvariant, PlatformFits
<1>3. PlatformFits'
  BY <1>1, <1>2 DEF ExtractorsInvariant, PlatformFits
<1>4. RunFits'
  BY <1>1 DEF ExtractorsInvariant, RunFits, At
<1>5. IsStore(disk)' /\ cache' = <<>> /\ scan' = NoScan
  BY <1>1 DEF ExtractorsInvariant, CacheFits, ScanFits, IsStore
<1>6. CASE ~At("listing")
  <2>1. page' = FirstPage
    BY <1>1, <1>6 DEF ExtractorsInvariant, PageFits, Listing, Fetching
  <2>2. QED
    BY <1>1, <1>3, <1>4, <1>5, <2>1, NothingUnderWayNext DEF ExtractorsInvariant
<1>7. CASE At("listing")
  <2>1. PageFits'
    <3>1. At("listing")' /\ Limit \in Nat /\ Len(page.items) <= Limit /\ page.items \in Seq(Repos)
      BY <1>1, <1>7, LimitType DEF ExtractorsInvariant, PageFits, At
    <3>2. Limit' \in Nat /\ Limit <= Limit'
      <4>1. CASE platform = "github"
        BY <1>1, <4>1 DEF Limit
      <4>2. CASE platform # "github"
        <5>1. Source = org /\ Source' = org'
          BY <1>1, <1>7, <4>2 DEF ExtractorsInvariant, RunFits, PlatformFits, Source, At
        <5>2. Limit = Len(org) + 1 /\ Limit' = Len(org') + 1
          BY <1>1, <1>7, <4>2, <5>1 DEF Limit, At
        <5>3. QED
          BY <1>2, <5>2
      <4>3. QED
        BY <4>1, <4>2
    <3>3. Len(page.items) \in Nat
      BY <3>1
    <3>4. Len(page'.items) <= Limit'
      BY <1>1, <3>1, <3>2, <3>3
    <3>5. QED
      BY <1>1, <3>1, <3>4 DEF ExtractorsInvariant, PageFits, Listing, At
  <2>2. CacheFits'
    BY <1>1, <1>5 DEF ExtractorsInvariant, CacheFits, IsStore, At
  <2>3. ScanFits'
    BY <1>1 DEF ExtractorsInvariant, ScanFits, At
  <2>4. QuietFits'
    BY <1>1 DEF QuietFits, Quiet
  <2>5. QED
    BY <1>3, <1>4, <2>1, <2>2, <2>3, <2>4 DEF ExtractorsInvariant
<1>8. QED
  BY <1>6, <1>7

LEMMA EndRunFits ==
  ASSUME ExtractorsInvariant, EndRun, UNCHANGED <<platformVars, disk>>, failures' \in Nat
  PROVE  ExtractorsInvariant'
<1>1. PlatformFits'
  BY DEF ExtractorsInvariant, PlatformFits, platformVars, EndRun
<1>2. RunFits' /\ ~At("scanning")'
  BY DEF RunFits, EndRun, Nothing, Places, At
<1>3. IsStore(disk)'
  BY DEF ExtractorsInvariant, CacheFits, IsStore
<1>4. page' = FirstPage /\ scan' = NoScan /\ cache' = <<>>
  BY DEF EndRun
<1>5. QED
  BY <1>1, <1>2, <1>3, <1>4, NothingUnderWayNext DEF ExtractorsInvariant

\* Before and after a scan, and outside a listing.
Idle == ~At("scanning") /\ ~At("listing")

LEMMA IdleIs ==
  ASSUME ExtractorsInvariant, Idle
  PROVE  page = FirstPage /\ scan = NoScan /\ cache = <<>>
BY DEF ExtractorsInvariant, CacheFits, PageFits, ScanFits, Listing, Fetching, At, Idle

LEMMA FailsMore ==
  ASSUME ExtractorsInvariant, Fails
  PROVE  MoreFailed
BY DEF ExtractorsInvariant, PlatformFits, Fails, MoreFailed

LEMMA BeginRunFits ==
  ASSUME ExtractorsInvariant, BeginRun
  PROVE  ExtractorsInvariant'
<1>1. PICK filing \in BOOLEAN :
        run' = [Nothing EXCEPT !.at = IF platform = "github" THEN "lookup" ELSE "listing", !.filing = filing]
  BY DEF BeginRun
<1>2. UNCHANGED <<platformVars, page, scan, attempts, cache, disk, failures>> /\ Idle
  BY DEF BeginRun, Idle, At
<1>3. PlatformFits'
  BY <1>2 DEF ExtractorsInvariant, PlatformFits, platformVars
<1>4. RunFits' /\ ~At("scanning")'
  <2> DEFINE place == IF platform = "github" THEN "lookup" ELSE "listing"
  <2>1. place \in Places /\ place # "scanning"
    BY DEF Places
  <2>2. Nothing \in [at : {"idle"}, filing : {FALSE}, public : {FALSE}, items : {<<>>}, index : {0},
                    refused : {FALSE}]
    BY DEF Nothing
  <2> HIDE DEF place
  <2>3. run' \in [at : {place}, filing : {filing}, public : {FALSE}, items : {<<>>}, index : {0},
                  refused : {FALSE}]
    BY <1>1, <2>2 DEF place
  <2>4. run'.at = place /\ run'.public = FALSE /\ run'.items = <<>> /\ run'.index = 0
    BY <2>3
  <2>5. run' \in [at : Places, filing : BOOLEAN, public : BOOLEAN, items : Seq(Repos), index : Nat,
                  refused : BOOLEAN]
    <3>1. run' = [at |-> place, filing |-> filing, public |-> FALSE, items |-> <<>>, index |-> 0,
                  refused |-> FALSE]
      BY <2>3
    <3>2. QED
      BY <2>1, <3>1
  <2>6. platform = "azure_devops" => place = "listing"
    BY DEF place
  <2>7. QED
    BY <1>2, <2>1, <2>4, <2>5, <2>6 DEF RunFits, At, platformVars
<1>5. IsStore(disk)' /\ page' = FirstPage /\ scan' = NoScan /\ cache' = <<>>
  BY <1>2, IdleIs DEF ExtractorsInvariant, CacheFits, IsStore
<1>6. QED
  BY <1>3, <1>4, <1>5, NothingUnderWayNext DEF ExtractorsInvariant

LEMMA LookUpFits ==
  ASSUME ExtractorsInvariant, LookUp
  PROVE  ExtractorsInvariant'
<1>1. /\ UNCHANGED <<platformVars, page, scan, attempts, cache, disk>> /\ Idle /\ At("lookup")
      /\ failures' \in Nat
  BY DEF LookUp, Idle, At, Fails, ExtractorsInvariant, PlatformFits
<1>2. PICK public \in BOOLEAN :
        \/ run' = [run EXCEPT !.at = "listing"]
        \/ run' = [run EXCEPT !.at = "listing", !.public = public]
  BY DEF LookUp
<1>3. PlatformFits'
  BY <1>1 DEF ExtractorsInvariant, PlatformFits, platformVars
<1>4. RunFits' /\ ~At("scanning")'
  <2>1. platform # "azure_devops"
    BY <1>1 DEF ExtractorsInvariant, RunFits
  <2>2. QED
    BY <1>1, <1>2, <2>1 DEF ExtractorsInvariant, RunFits, At, platformVars, Places
<1>5. IsStore(disk)' /\ page' = FirstPage /\ scan' = NoScan /\ cache' = <<>>
  BY <1>1, IdleIs DEF ExtractorsInvariant, CacheFits, IsStore
<1>6. QED
  BY <1>3, <1>4, <1>5, NothingUnderWayNext DEF ExtractorsInvariant

LEMMA ChooseNextFits ==
  ASSUME ExtractorsInvariant, ChooseNext
  PROVE  ExtractorsInvariant'
<1> DEFINE r == run.items[run.index + 1]
<1>1. /\ UNCHANGED <<platformVars, page, attempts, cache, disk, failures>> /\ Idle
      /\ run.index \in Nat /\ run.index < Len(run.items) /\ run.items \in Seq(Repos)
  BY DEF ChooseNext, Idle, At, ExtractorsInvariant, RunFits
<1>2. r \in Repos
  BY <1>1
<1> HIDE DEF r
<1>3. PlatformFits'
  BY <1>1 DEF ExtractorsInvariant, PlatformFits, platformVars
<1>4. IsStore(disk)' /\ page' = FirstPage /\ cache' = <<>>
  BY <1>1, IdleIs DEF ExtractorsInvariant, CacheFits, IsStore
<1>5. CASE run' = [run EXCEPT !.index = @ + 1] /\ UNCHANGED scan
  <2>1. RunFits' /\ ~At("scanning")'
    <3>1. run \in [at : Places, filing : BOOLEAN, public : BOOLEAN, items : Seq(Repos), index : Nat,
                  refused : BOOLEAN]
      BY DEF ExtractorsInvariant, RunFits
    <3>2. run.index + 1 \in Nat
      BY <1>1
    <3>3. run' \in [at : Places, filing : BOOLEAN, public : BOOLEAN, items : Seq(Repos), index : Nat,
                   refused : BOOLEAN]
      BY <1>5, <3>1, <3>2
    <3>4. run'.index = run.index + 1
      BY <1>5, <3>1
    <3>5. run'.at = run.at /\ run'.items = run.items /\ run'.public = run.public
      BY <1>5, <3>1
    <3>6. run.at # "listing" /\ run.at # "lookup" /\ run.at # "scanning"
      BY DEF ChooseNext, At
    <3>7. QED
      BY <1>1, <3>3, <3>4, <3>5, <3>6 DEF ExtractorsInvariant, RunFits, At, platformVars
  <2>2. scan' = NoScan
    BY <1>1, <1>5, IdleIs
  <2>3. QED
    BY <1>3, <1>4, <2>1, <2>2, NothingUnderWayNext DEF ExtractorsInvariant
<1>6. CASE /\ run' = [run EXCEPT !.index = @ + 1, !.at = "scanning"]
           /\ scan' = Starting(r, 1, revision[r], NothingFound)
  <2>1. /\ RunFits' /\ At("scanning")'
    <3>1. run \in [at : Places, filing : BOOLEAN, public : BOOLEAN, items : Seq(Repos), index : Nat,
                  refused : BOOLEAN]
      BY DEF ExtractorsInvariant, RunFits
    <3>2. run.index + 1 \in Nat /\ "scanning" \in Places
      BY <1>1 DEF Places
    <3>3. run' \in [at : Places, filing : BOOLEAN, public : BOOLEAN, items : Seq(Repos), index : Nat,
                   refused : BOOLEAN]
      BY <1>6, <3>1, <3>2
    <3>4. run'.at = "scanning"
      BY <1>6, <3>1
    <3>5. run'.index = run.index + 1
      BY <1>6, <3>1
    <3>6. run'.items = run.items /\ run'.public = run.public
      BY <1>6, <3>1
    <3>7. /\ run'.at = "scanning" /\ run'.index = run.index + 1 /\ run'.items = run.items
          /\ run'.public = run.public
          /\ run' \in [at : Places, filing : BOOLEAN, public : BOOLEAN, items : Seq(Repos), index : Nat,
                       refused : BOOLEAN]
      BY <3>3, <3>4, <3>5, <3>6
    <3>8. run'.index <= Len(run'.items)
      BY <1>1, <3>7
    <3>9. QED
      BY <1>1, <3>7, <3>8 DEF ExtractorsInvariant, RunFits, At, platformVars
  <2>2. scan' = [repo |-> r, from |-> revision[r], step |-> 1, todo |-> Opening(r, Steps[1]), tree |-> <<>>,
                 readable |-> {}, found |-> NothingFound]
    BY <1>6, StartingIs
  <2>3. /\ scan'.repo = r /\ scan'.from = revision[r] /\ scan'.step = 1 /\ scan'.todo = Opening(r, Steps[1])
        /\ scan'.tree = <<>> /\ scan'.found = NothingFound /\ Step' = "metadata"
    BY <2>2, StepsAre DEF Step
  <2>4. revision[r] \in Nat /\ revision' = revision /\ platform' = platform
    BY <1>1, <1>2 DEF ExtractorsInvariant, PlatformFits, platformVars
  <2>5. CacheFits'
    <3>1. DOMAIN cache' = {} /\ cache' = [key \in DOMAIN cache' |-> cache'[key]]
      BY <1>4
    <3>2. QED
      BY <1>4, <3>1 DEF CacheFits, IsStore
  <2>6. PageFits'
    <3>1. Limit' \in Nat
      BY <2>1 DEF Limit, At
    <3>2. ~At("listing")'
      BY <2>1 DEF At
    <3>3. \A n : CommitsListed(page', n)
      BY <1>4, FirstPageFits
    <3>4. IsPage(page') /\ Len(page'.items) = 0 /\ page'.number = 0
      BY <1>4, FirstPageFits
    <3>5. QED
      BY <1>4, <3>1, <3>2, <3>3, <3>4 DEF PageFits
  <2>7. ScanFits'
    <3>1. scan' = [repo |-> scan'.repo, from |-> scan'.from, step |-> scan'.step, todo |-> scan'.todo,
                   tree |-> scan'.tree, readable |-> scan'.readable, found |-> scan'.found]
      BY <2>2
    <3>2. scan'.step \in DOMAIN Steps
      BY <2>3, StepsAre
    <3>3. FoundFits(platform', scan'.found)
      BY <2>3, NothingFits
    <3>4. scan'.repo \in Repos /\ scan'.from \in Nat /\ scan'.from <= revision'[scan'.repo]
      BY <1>2, <2>3, <2>4
    <3>5. scan'.todo \in Seq(Keys(scan'.repo))
      BY <2>3, OpeningFits
    <3>6. scan'.tree \in Seq(PathsOn(platform'))
      BY <2>3
    <3>7. (scan.todo \in {Opening(scan.repo, Step), <<>>})'
      BY <2>3, <2>4, StepsAre DEF Opening
    <3>8. QED
      BY <2>1, <3>1, <3>2, <3>3, <3>4, <3>5, <3>6, <3>7 DEF ScanFits
  <2>8. QuietFits'
    BY <2>3 DEF QuietFits
  <2>9. QED
    BY <1>3, <2>1, <2>5, <2>6, <2>7, <2>8 DEF ExtractorsInvariant
<1>7. QED
  BY <1>5, <1>6 DEF ChooseNext, r

LEMMA FailScanFits ==
  ASSUME ExtractorsInvariant, FailScan
  PROVE  ExtractorsInvariant'
<1>1. /\ UNCHANGED <<platformVars, disk>> /\ failures' \in Nat /\ attempts' = 0
      /\ run' = [run EXCEPT !.at = "choosing"] /\ scan' = NoScan /\ page' = FirstPage /\ cache' = <<>>
  BY DEF FailScan, Fails, ClearCache, ExtractorsInvariant, PlatformFits
<1>2. PlatformFits'
  BY <1>1 DEF ExtractorsInvariant, PlatformFits, platformVars
<1>3. RunFits' /\ ~At("scanning")'
  BY <1>1 DEF ExtractorsInvariant, RunFits, platformVars, At, Places
<1>4. IsStore(disk)'
  BY <1>1 DEF ExtractorsInvariant, CacheFits, IsStore
<1>5. QED
  BY <1>1, <1>2, <1>3, <1>4, NothingUnderWayNext DEF ExtractorsInvariant

LEMMA FinishFits ==
  ASSUME ExtractorsInvariant, Finish \/ Abort
  PROVE  ExtractorsInvariant'
<1>1. EndRun /\ UNCHANGED <<platformVars, disk>> /\ failures' \in Nat
  BY DEF Finish, Abort, Fails, ExtractorsInvariant, PlatformFits
<1>2. QED
  BY <1>1, EndRunFits

-----------------------------------------------------------------------------
(* Answers.                                                                *)

IsScan(s) ==
  s = [repo |-> s.repo, from |-> s.from, step |-> s.step, todo |-> s.todo, tree |-> s.tree,
       readable |-> s.readable, found |-> s.found]

IsFound(f) ==
  f = [languages |-> f.languages, technologies |-> f.technologies, readmes |-> f.readmes,
       commits |-> f.commits, pulls |-> f.pulls, manifests |-> f.manifests]

\* Nothing but what is still to be asked and what has come back is touched.
Same(s) ==
  /\ IsScan(s) /\ s.repo = scan.repo /\ s.from = scan.from /\ s.step = scan.step
  /\ IsFound(s.found)
  /\ s.found.technologies = scan.found.technologies /\ s.found.readmes = scan.found.readmes
  /\ s.found.commits = scan.found.commits /\ s.found.pulls = scan.found.pulls
  /\ s.found.manifests = scan.found.manifests

Contents(files, branch) == [i \in DOMAIN files |-> ContentKey(files[i], branch)]

LEMMA ReceivedIs ==
  ASSUME IsScan(scan), IsFound(scan.found), NEW key, NEW answer
  PROVE  LET s == Received(key, answer)
             tree == TreeIn(answer)
         IN  /\ Same(s)
             /\ s.tree = IF key[1] = "get_file_tree" THEN tree ELSE scan.tree
             /\ s.readable = CASE key[1] = "get_file_tree" -> {}
                               [] key[1] = "get_file_content" ->
                                    scan.readable \cup {p \in {key[4]} : HasText(p, answer)}
                               [] OTHER -> scan.readable
             /\ s.todo = IF key[1] = "get_file_tree" THEN Tail(scan.todo) \o Contents(Wanted(tree), key[3])
                                                    ELSE Tail(scan.todo)
             /\ s.found.languages = IF key[1] # "get_languages" THEN scan.found.languages
                                    ELSE IF platform = "github" THEN {} ELSE CountLanguages(tree)
<1> DEFINE tree == TreeIn(answer)
           todo == Tail(scan.todo) \o Contents(Wanted(tree), key[3])
           languages == IF platform = "github" THEN {} ELSE CountLanguages(tree)
           more == scan.readable \cup {p \in {key[4]} : HasText(p, answer)}
<1>1. scan \in [repo : {scan.repo}, from : {scan.from}, step : {scan.step}, todo : {scan.todo},
                tree : {scan.tree}, readable : {scan.readable}, found : {scan.found}]
  BY DEF IsScan
<1>2. scan.found \in [languages : {scan.found.languages}, technologies : {scan.found.technologies},
                      readmes : {scan.found.readmes}, commits : {scan.found.commits},
                      pulls : {scan.found.pulls}, manifests : {scan.found.manifests}]
  BY DEF IsFound
<1>3. CASE key[1] = "get_file_tree"
  <2>1. Received(key, answer) = [scan EXCEPT !.tree = tree, !.readable = {}, !.todo = todo]
    BY <1>3 DEF Received, Contents
  <2> HIDE DEF tree, todo
  <2> DEFINE s == [scan EXCEPT !.tree = tree, !.readable = {}, !.todo = todo]
  <2>2. s \in [repo : {scan.repo}, from : {scan.from}, step : {scan.step}, todo : {todo}, tree : {tree},
               readable : {{}}, found : {scan.found}]
    BY <1>1
  <2> HIDE DEF s
  <2>3. s = [repo |-> scan.repo, from |-> scan.from, step |-> scan.step, todo |-> todo, tree |-> tree,
             readable |-> {}, found |-> scan.found]
    BY <2>2
  <2>4. IsScan(s) /\ Same(s) /\ s.todo = todo /\ s.tree = tree /\ s.readable = {}
        /\ s.found.languages = scan.found.languages
    BY <2>3 DEF IsScan, Same
  <2>5. QED
    BY <1>3, <2>1, <2>4 DEF s, todo, tree
<1>4. CASE key[1] = "get_languages"
  <2>1. Received(key, answer) = [scan EXCEPT !.todo = Tail(@), !.found.languages = languages]
    BY <1>4 DEF Received
  <2> HIDE DEF languages
  <2> DEFINE found == [scan.found EXCEPT !.languages = languages]
             s == [scan EXCEPT !.todo = Tail(@), !.found.languages = languages]
  <2>2. found \in [languages : {languages}, technologies : {scan.found.technologies},
                   readmes : {scan.found.readmes}, commits : {scan.found.commits},
                   pulls : {scan.found.pulls}, manifests : {scan.found.manifests}]
    BY <1>2
  <2>3. s = [scan EXCEPT !.todo = Tail(@), !.found = found]
    OBVIOUS
  <2> HIDE DEF found
  <2>4. s \in [repo : {scan.repo}, from : {scan.from}, step : {scan.step}, todo : {Tail(scan.todo)},
               tree : {scan.tree}, readable : {scan.readable}, found : {found}]
    BY <1>1, <2>3
  <2> HIDE DEF s
  <2>5. s = [repo |-> scan.repo, from |-> scan.from, step |-> scan.step, todo |-> Tail(scan.todo),
             tree |-> scan.tree, readable |-> scan.readable, found |-> found]
    BY <2>4
  <2>6. found = [languages |-> languages, technologies |-> scan.found.technologies,
                 readmes |-> scan.found.readmes, commits |-> scan.found.commits, pulls |-> scan.found.pulls,
                 manifests |-> scan.found.manifests]
    BY <2>2
  <2>7. IsFound(found) /\ found.languages = languages /\ found.technologies = scan.found.technologies
        /\ found.readmes = scan.found.readmes /\ found.commits = scan.found.commits
        /\ found.pulls = scan.found.pulls /\ found.manifests = scan.found.manifests
    BY <2>6 DEF IsFound
  <2>8. IsScan(s) /\ s.repo = scan.repo /\ s.from = scan.from /\ s.step = scan.step
        /\ s.todo = Tail(scan.todo) /\ s.tree = scan.tree /\ s.readable = scan.readable /\ s.found = found
    BY <2>5 DEF IsScan
  <2>9. Same(s)
    BY <2>7, <2>8 DEF Same
  <2>10. QED
    BY <1>4, <2>1, <2>7, <2>8, <2>9 DEF s, languages
<1>5. CASE key[1] = "get_file_content"
  <2>1. Received(key, answer) = [scan EXCEPT !.todo = Tail(@), !.readable = more]
    BY <1>5 DEF Received
  <2> HIDE DEF more
  <2> DEFINE s == [scan EXCEPT !.todo = Tail(@), !.readable = more]
  <2>2. s \in [repo : {scan.repo}, from : {scan.from}, step : {scan.step}, todo : {Tail(scan.todo)},
               tree : {scan.tree}, readable : {more}, found : {scan.found}]
    BY <1>1
  <2> HIDE DEF s
  <2>3. s = [repo |-> scan.repo, from |-> scan.from, step |-> scan.step, todo |-> Tail(scan.todo),
             tree |-> scan.tree, readable |-> more, found |-> scan.found]
    BY <2>2
  <2>4. Same(s) /\ s.todo = Tail(scan.todo) /\ s.tree = scan.tree /\ s.readable = more
        /\ s.found.languages = scan.found.languages
    BY <2>3 DEF IsScan, Same
  <2>5. QED
    BY <1>5, <2>1, <2>4 DEF s, more
<1>6. CASE key[1] \notin {"get_file_tree", "get_languages", "get_file_content"}
  <2>1. Received(key, answer) = [scan EXCEPT !.todo = Tail(@)]
    BY <1>6 DEF Received
  <2> DEFINE s == [scan EXCEPT !.todo = Tail(@)]
  <2>2. s \in [repo : {scan.repo}, from : {scan.from}, step : {scan.step}, todo : {Tail(scan.todo)},
               tree : {scan.tree}, readable : {scan.readable}, found : {scan.found}]
    BY <1>1
  <2> HIDE DEF s
  <2>3. s = [repo |-> scan.repo, from |-> scan.from, step |-> scan.step, todo |-> Tail(scan.todo),
             tree |-> scan.tree, readable |-> scan.readable, found |-> scan.found]
    BY <2>2
  <2>4. Same(s) /\ s.todo = Tail(scan.todo) /\ s.tree = scan.tree /\ s.readable = scan.readable
        /\ s.found.languages = scan.found.languages
    BY <2>3 DEF IsScan, Same
  <2>5. QED
    BY <1>6, <2>1, <2>4 DEF s
<1>7. QED
  BY <1>3, <1>4, <1>5, <1>6

\* What new holds besides, or instead of, what store does.
Keeps(new, store, key, answer) ==
  /\ DOMAIN new = DOMAIN store \cup {key}
  /\ \A k \in DOMAIN store \cup {key} : new[k] = IF k = key THEN answer ELSE store[k]

\* An answer that is kept.
LEMMA StoredIs ==
  ASSUME NEW store, IsStore(store), NEW key \in AllKeys, NEW answer, Fits(key, answer)
  PROVE  /\ IsStore(Stored(store, key, answer))
         /\ Keeps(Stored(store, key, answer), store, key, answer)
<1> DEFINE new == Stored(store, key, answer)
<1>1. /\ DOMAIN new = DOMAIN store \cup {key} /\ new = [k \in DOMAIN new |-> new[k]]
      /\ \A k \in DOMAIN new : new[k] = IF k = key THEN answer ELSE store[k]
  BY DEF Stored
<1> HIDE DEF new
<1>2. IsStore(new)
  <2>1. \A k \in DOMAIN new : k \in AllKeys /\ Fits(k, new[k])
    BY <1>1 DEF IsStore
  <2>2. QED
    BY <1>1, <2>1 DEF IsStore
<1>3. QED
  BY <1>1, <1>2 DEF new, Keeps

\* The tree of an answer.
LEMMA TreeInIs ==
  ASSUME PlatformFits, scan.repo \in Repos, NEW answer \in Answer, answer.rev < Len(Trees[scan.repo])
  PROVE  /\ TreeIn(answer) \in Seq(PathsOn(platform))
         /\ answer.ok => TreeIn(answer) = TreeOn(platform, Trees[scan.repo][answer.rev + 1])
<1> DEFINE files == Trees[scan.repo][answer.rev + 1]
<1>1. files \in Seq(Path)
  <2> DEFINE trees == Trees[scan.repo]
             i == answer.rev
  <2>1. trees \in Seq(Seq(Path))
    OBVIOUS
  <2>2. i \in Nat /\ i < Len(trees)
    BY DEF Answer
  <2> HIDE DEF trees, i
  <2>3. i + 1 \in 1..Len(trees)
    BY <2>1, <2>2
  <2>4. trees[i + 1] \in Seq(Path)
    BY <2>1, <2>3
  <2>5. QED
    BY <2>4 DEF trees, i
<1> HIDE DEF files
<1>2. TreeOn(platform, files) \in Seq(PathsOn(platform))
  <2>1. Len(files) \in Nat /\ DOMAIN files = 1..Len(files) /\ \A i \in 1..Len(files) : files[i] \in Path
    BY <1>1
  <2>2. \A path \in Path : PathOn(platform, path) \in PathsOn(platform)
    BY DEF PathsOn
  <2> DEFINE tree == [i \in 1..Len(files) |-> PathOn(platform, files[i])]
  <2>3. tree \in [1..Len(files) -> PathsOn(platform)]
    BY <2>1, <2>2
  <2>4. TreeOn(platform, files) = tree
    BY <2>1 DEF TreeOn
  <2> HIDE DEF tree
  <2>5. tree \in Seq(PathsOn(platform))
    BY <2>1, <2>3
  <2>6. QED
    BY <2>4, <2>5
<1>3. <<>> \in Seq(PathsOn(platform))
  OBVIOUS
<1>4. QED
  BY <1>2, <1>3 DEF TreeIn, files

\* The files that are wanted of a tree.
LEMMA WantedIs ==
  ASSUME NEW S, NEW tree \in Seq(S)
  PROVE  /\ Wanted(tree) \in Seq(S) /\ ToSet(Wanted(tree)) \subseteq ToSet(tree)
         /\ Step \notin {"readmes", "dependencies"} => Wanted(tree) = <<>>
         /\ Step = "readmes" => ToSet(Wanted(tree)) = {p \in ToSet(tree) : IsReadme(p)}
         /\ Step = "dependencies" => ToSet(Wanted(tree)) = {p \in ToSet(tree) : IsManifest(p)}
<1> DEFINE readmes == {p \in ToSet(tree) : IsReadme(p)}
           manifests == {p \in ToSet(tree) : IsManifest(p)}
<1>1. /\ readmes \subseteq ToSet(tree) /\ manifests \subseteq ToSet(tree)
      /\ ToSet(tree) \cap readmes = readmes /\ ToSet(tree) \cap manifests = manifests
  OBVIOUS
<1>2. Wanted(tree) = CASE Step = "readmes" -> Among(tree, readmes)
                       [] Step = "dependencies" -> Among(tree, manifests)
                       [] OTHER -> <<>>
  BY DEF Wanted
<1>3. <<>> \in Seq(S) /\ ToSet(<<>>) = {}
  BY DEF ToSet
<1> HIDE DEF readmes, manifests
<1>4. /\ Among(tree, readmes) \in Seq(S) /\ ToSet(Among(tree, readmes)) = readmes
      /\ Among(tree, manifests) \in Seq(S) /\ ToSet(Among(tree, manifests)) = manifests
  BY <1>1, AmongIs
<1>5. CASE Step = "readmes"
  <2>1. Wanted(tree) = Among(tree, readmes)
    BY <1>2, <1>5
  <2>2. QED
    BY <1>1, <1>4, <1>5, <2>1 DEF readmes
<1>6. CASE Step = "dependencies"
  <2>1. Wanted(tree) = Among(tree, manifests)
    BY <1>2, <1>6
  <2>2. QED
    BY <1>1, <1>4, <1>6, <2>1 DEF manifests
<1>7. CASE Step \notin {"readmes", "dependencies"}
  <2>1. Wanted(tree) = <<>>
    BY <1>2, <1>7
  <2>2. QED
    BY <1>3, <1>7, <2>1
<1>8. QED
  BY <1>5, <1>6, <1>7

\* The keys of their contents.
LEMMA ContentsAre ==
  ASSUME platform \in {"github", "azure_devops"}, NEW files \in Seq(PathsOn(platform)), NEW branch \in Branches
  PROVE  /\ Contents(files, branch) \in Seq(Keys(scan.repo))
         /\ files = <<>> => Contents(files, branch) = <<>>
         /\ \A i \in DOMAIN Contents(files, branch) :
              /\ i \in DOMAIN files /\ Contents(files, branch)[i][1] = "get_file_content"
              /\ Contents(files, branch)[i][4] = files[i]
         /\ DOMAIN Contents(files, branch) = DOMAIN files
<1>1. Len(files) \in Nat /\ DOMAIN files = 1..Len(files)
      /\ \A i \in 1..Len(files) : files[i] \in PathsOn(platform)
  OBVIOUS
<1>2. \A i \in 1..Len(files) : files[i] \in Seq(Names)
  BY <1>1, PathShape
<1>3. \A i \in 1..Len(files) : ContentKey(files[i], branch) \in Keys(scan.repo)
  BY <1>2, KeysOf DEF ContentKey
<1> DEFINE keys == [i \in 1..Len(files) |-> ContentKey(files[i], branch)]
<1>4. keys \in [1..Len(files) -> Keys(scan.repo)]
  BY <1>3
<1>5. \A i \in 1..Len(files) : keys[i] = <<"get_file_content", scan.repo, branch, files[i]>>
  BY DEF ContentKey
<1>6. \A i \in 1..Len(files) : keys[i][1] = "get_file_content" /\ keys[i][4] = files[i]
  BY <1>5
<1>7. Contents(files, branch) = keys /\ DOMAIN keys = 1..Len(files)
  BY <1>1 DEF Contents
<1> HIDE DEF keys
<1>8. keys \in Seq(Keys(scan.repo)) /\ Len(keys) = Len(files)
  BY <1>1, <1>4, <1>7
<1>9. files = <<>> => keys = <<>>
  BY <1>8
<1>10. QED
  BY <1>1, <1>6, <1>7, <1>8, <1>9

\* What there is to ask.
LEMMA AskingIs ==
  ASSUME ExtractorsInvariant, Asking
  PROVE  /\ At("scanning") /\ page = FirstPage /\ scan.repo \in Repos /\ platform \in {"github", "azure_devops"}
         /\ IsScan(scan) /\ IsFound(scan.found)
         /\ scan.todo \in Seq(Keys(scan.repo)) /\ Head(scan.todo) \in Keys(scan.repo)
         /\ Tail(scan.todo) \in Seq(Keys(scan.repo))
         /\ Pending \in Keys(scan.repo) /\ Pending \in AllKeys
<1>1. At("scanning") /\ scan.todo # <<>> /\ platform \in {"github", "azure_devops"}
  BY DEF Asking, ExtractorsInvariant, PlatformFits
<1>2. scan.repo \in Repos /\ scan.todo \in Seq(Keys(scan.repo))
  BY <1>1 DEF ExtractorsInvariant, ScanFits
<1>3. Head(scan.todo) \in Keys(scan.repo) /\ Tail(scan.todo) \in Seq(Keys(scan.repo))
  <2>1. \A S : \A s \in Seq(S) : s # <<>> => Head(s) \in S /\ Tail(s) \in Seq(S)
    OBVIOUS
  <2>2. QED
    BY <1>1, <1>2, <2>1
<1>4. page = FirstPage
  BY <1>1 DEF ExtractorsInvariant, PageFits, Listing, Fetching, At
<1>5. IsScan(scan) /\ IsFound(scan.found)
  BY DEF ExtractorsInvariant, ScanFits, FoundFits, IsScan, IsFound
<1>6. Pending \in {Head(scan.todo), RepoKey, TreeKey("left out")}
  BY DEF Pending
<1>7. RepoKey \in Keys(scan.repo) /\ TreeKey("left out") \in Keys(scan.repo)
  BY KeysOf DEF RepoKey, TreeKey, Branches
<1>8. Pending \in Keys(scan.repo)
  BY <1>3, <1>6, <1>7
<1>9. QED
  BY <1>1, <1>2, <1>3, <1>4, <1>5, <1>8 DEF AllKeys

\* A step that does not read files makes one call at most.
LEMMA OneCall ==
  ASSUME ScanFits, At("scanning"), scan.todo # <<>>, Step \notin {"readmes", "dependencies"}
  PROVE  scan.todo = Opening(scan.repo, Step) /\ Tail(scan.todo) = <<>> /\ scan.todo = <<Head(scan.todo)>>
<1>1. scan.todo = Opening(scan.repo, Step)
  BY DEF ScanFits
<1>2. \E key : scan.todo = <<key>>
  <2>1. Opening(scan.repo, Step) = <<>> \/ \E key : Opening(scan.repo, Step) = <<key>>
    BY Zenon DEF Opening
  <2>2. QED
    BY <1>1, <2>1
<1>3. QED
  BY <1>1, <1>2

\* The scan after an answer is still in order.
LEMMA ReceivedFits ==
  ASSUME ExtractorsInvariant, Asking, NEW key \in Keys(scan.repo), NEW answer \in Answer,
         answer.rev < Len(Trees[scan.repo])
  PROVE  LET s == Received(key, answer)
         IN  /\ Same(s) /\ FoundFits(platform, s.found)
             /\ s.todo \in Seq(Keys(scan.repo)) /\ s.tree \in Seq(PathsOn(platform))
             /\ Step \notin {"readmes", "dependencies"} => s.todo = <<>>
<1> DEFINE s == Received(key, answer)
           tree == TreeIn(answer)
<1>1. /\ IsScan(scan) /\ IsFound(scan.found) /\ scan.repo \in Repos /\ At("scanning")
      /\ platform \in {"github", "azure_devops"}
      /\ Tail(scan.todo) \in Seq(Keys(scan.repo))
  BY AskingIs
<1>2. tree \in Seq(PathsOn(platform))
  BY <1>1, TreeInIs DEF ExtractorsInvariant
<1>3. /\ Same(s)
      /\ s.tree = IF key[1] = "get_file_tree" THEN tree ELSE scan.tree
      /\ s.todo = IF key[1] = "get_file_tree" THEN Tail(scan.todo) \o Contents(Wanted(tree), key[3])
                                             ELSE Tail(scan.todo)
  BY <1>1, ReceivedIs
<1> HIDE DEF s, tree
<1>4. FoundFits(platform, s.found)
  <2>1. FoundFits(platform, scan.found)
    BY DEF ExtractorsInvariant, ScanFits
  <2>2. IsFound(s.found) /\ s.found.readmes = scan.found.readmes
        /\ s.found.commits = scan.found.commits /\ s.found.pulls = scan.found.pulls
    BY <1>3 DEF Same
  <2>3. QED
    BY <2>1, <2>2 DEF FoundFits, IsFound
<1>5. scan.tree \in Seq(PathsOn(platform))
  BY <1>1 DEF ExtractorsInvariant, ScanFits
<1>6. s.tree \in Seq(PathsOn(platform))
  BY <1>2, <1>3, <1>5
<1>7. CASE key[1] = "get_file_tree"
  <2>1. key[3] \in Branches
    BY <1>7, KeysAre
  <2>2. Wanted(tree) \in Seq(PathsOn(platform)) /\ (Step \notin {"readmes", "dependencies"} => Wanted(tree) = <<>>)
    BY <1>2, WantedIs
  <2>3. /\ Contents(Wanted(tree), key[3]) \in Seq(Keys(scan.repo))
        /\ Wanted(tree) = <<>> => Contents(Wanted(tree), key[3]) = <<>>
    BY <1>1, <2>1, <2>2, ContentsAre
  <2> DEFINE contents == Contents(Wanted(tree), key[3])
  <2>4. s.todo = Tail(scan.todo) \o contents
    BY <1>3, <1>7
  <2>5. Step \notin {"readmes", "dependencies"} => contents = <<>> /\ Tail(scan.todo) = <<>>
    BY <1>1, <2>2, <2>3, OneCall DEF ExtractorsInvariant, Asking
  <2> HIDE DEF contents
  <2>6. s.todo \in Seq(Keys(scan.repo))
    <3>1. contents \in Seq(Keys(scan.repo))
      BY <2>3 DEF contents
    <3>2. QED
      BY <1>1, <2>4, <3>1
  <2>7. Step \notin {"readmes", "dependencies"} => s.todo = <<>>
    BY <2>4, <2>5
  <2>8. QED
    BY <1>3, <1>4, <1>6, <2>6, <2>7 DEF s
<1>8. CASE key[1] # "get_file_tree"
  <2>1. s.todo = Tail(scan.todo)
    BY <1>3, <1>8
  <2>2. Step \notin {"readmes", "dependencies"} => s.todo = <<>>
    BY <1>1, <2>1, OneCall DEF ExtractorsInvariant, Asking
  <2>3. QED
    BY <1>1, <1>3, <1>4, <1>6, <2>1, <2>2 DEF s
<1>9. QED
  BY <1>7, <1>8

\* In a scan that is quiet an answer says what there is.
LEMMA ReceivedIsComplete ==
  ASSUME ExtractorsInvariant, Asking, Quiet, NEW answer \in Answer, answer.ok, answer.rev = scan.from,
         answer.rev < Len(Trees[scan.repo]), ~Raises(Head(scan.todo))
  PROVE  LET s == Received(Head(scan.todo), answer)
         IN  /\ platform = "azure_devops" /\ Step \in {"languages", "detections"} =>
                  s.found.languages = CountLanguages(Actual)
             /\ Step = "detections" => s.tree = Actual
             /\ Step = "readmes" => s.found.technologies = Detect(Actual)
             /\ Step \in {"readmes", "dependencies"} => ReadingIn(s)
<1> DEFINE key == Head(scan.todo)
           s == Received(key, answer)
           tree == TreeIn(answer)
<1>1. /\ IsScan(scan) /\ IsFound(scan.found) /\ scan.repo \in Repos /\ At("scanning")
      /\ platform \in {"github", "azure_devops"} /\ key \in Keys(scan.repo) /\ scan.todo # <<>>
      /\ scan.todo \in Seq(Keys(scan.repo)) /\ Tail(scan.todo) \in Seq(Keys(scan.repo))
  BY AskingIs DEF Asking
<1>2. tree \in Seq(PathsOn(platform)) /\ tree = Actual
  <2>1. /\ tree \in Seq(PathsOn(platform))
        /\ answer.ok => tree = TreeOn(platform, Trees[scan.repo][answer.rev + 1])
    BY <1>1, TreeInIs DEF ExtractorsInvariant
  <2>2. QED
    BY <2>1 DEF Actual
<1>3. /\ Same(s)
      /\ s.tree = IF key[1] = "get_file_tree" THEN tree ELSE scan.tree
      /\ s.readable = CASE key[1] = "get_file_tree" -> {}
                        [] key[1] = "get_file_content" ->
                             scan.readable \cup {p \in {key[4]} : HasText(p, answer)}
                        [] OTHER -> scan.readable
      /\ s.todo = IF key[1] = "get_file_tree" THEN Tail(scan.todo) \o Contents(Wanted(tree), key[3])
                                             ELSE Tail(scan.todo)
      /\ s.found.languages = IF key[1] # "get_languages" THEN scan.found.languages
                             ELSE IF platform = "github" THEN {} ELSE CountLanguages(tree)
  BY <1>1, ReceivedIs
<1>4. /\ \A x : Head(<<x>>) = x /\ Tail(<<x>>) = <<>>
  OBVIOUS
<1>5. Step = "languages" => key[1] = "get_languages"
  <2> SUFFICES ASSUME Step = "languages" PROVE key[1] = "get_languages"
    OBVIOUS
  <2>1. scan.todo = << <<"get_languages", scan.repo>> >>
    BY <1>1, OneCall, OpeningIs DEF ExtractorsInvariant
  <2>2. key = <<"get_languages", scan.repo>>
    BY <1>4, <2>1
  <2>3. QED
    BY <2>2
<1>6. Step = "detections" => key[1] = "get_file_tree"
  <2> SUFFICES ASSUME Step = "detections" PROVE key[1] = "get_file_tree"
    OBVIOUS
  <2>1. scan.todo = << <<"get_file_tree", scan.repo, "left out">> >>
    BY <1>1, OneCall, OpeningIs DEF ExtractorsInvariant
  <2>2. key = <<"get_file_tree", scan.repo, "left out">>
    BY <1>4, <2>1
  <2> HIDE DEF key
  <2>3. QED
    BY <2>2
<1>7. /\ platform = "azure_devops" /\ Step = "detections" => scan.found.languages = CountLanguages(Actual)
      /\ Step = "readmes" => scan.found.technologies = Detect(Actual)
      /\ Step \in {"readmes", "dependencies"} => scan.todo = Opening(scan.repo, Step) \/ ReadingIn(scan)
  BY DEF ExtractorsInvariant, QuietFits, Reading
<1>8. ASSUME Step \in {"readmes", "dependencies"} PROVE ReadingIn(s)
  <2>1. CASE scan.todo = Opening(scan.repo, Step)
    <3>1. PICK b \in Branches : scan.todo = << <<"get_file_tree", scan.repo, b>> >>
      BY <1>8, <2>1, OpeningIs DEF Branches
    <3>2. key = <<"get_file_tree", scan.repo, b>> /\ Tail(scan.todo) = <<>>
      BY <1>4, <3>1
    <3>3. key[1] = "get_file_tree" /\ key[3] = b
      BY <3>2
    <3> DEFINE wanted == Wanted(tree)
               contents == Contents(wanted, b)
    <3>4. /\ wanted \in Seq(PathsOn(platform)) /\ ToSet(wanted) \subseteq ToSet(Actual)
          /\ ToSet(wanted) = Files
      <4>1. /\ wanted \in Seq(PathsOn(platform)) /\ ToSet(wanted) \subseteq ToSet(tree)
            /\ Step = "readmes" => ToSet(wanted) = {p \in ToSet(tree) : IsReadme(p)}
            /\ Step = "dependencies" => ToSet(wanted) = {p \in ToSet(tree) : IsManifest(p)}
        BY <1>2, WantedIs
      <4> HIDE DEF wanted
      <4>2. Step = "readmes" => ToSet(wanted) = Files
        BY <1>2, <4>1 DEF Files
      <4>3. Step = "dependencies" => ToSet(wanted) = Files
        BY <1>2, <4>1 DEF Files
      <4>4. QED
        BY <1>2, <1>8, <4>1, <4>2, <4>3
    <3> HIDE DEF wanted
    <3>5. /\ contents \in Seq(Keys(scan.repo)) /\ DOMAIN contents = DOMAIN wanted
          /\ \A i \in DOMAIN contents :
               i \in DOMAIN wanted /\ contents[i][1] = "get_file_content" /\ contents[i][4] = wanted[i]
      BY <1>1, <3>4, ContentsAre
    <3> HIDE DEF contents
    <3>6. s.todo = contents
      <4>1. s.todo = <<>> \o contents
        BY <1>3, <3>2, <3>3 DEF contents, wanted
      <4>2. <<>> \o contents = contents
        BY <3>5
      <4>3. QED
        BY <4>1, <4>2
    <3> HIDE DEF s
    <3>7. s.tree = Actual /\ s.readable = {}
      BY <1>2, <1>3, <3>3
    <3>8. \A i \in DOMAIN s.todo : s.todo[i][1] = "get_file_content" /\ s.todo[i][4] \in Files
      <4>1. \A i \in DOMAIN wanted : wanted[i] \in Files
        BY <3>4 DEF ToSet
      <4>2. QED
        BY <3>5, <3>6, <4>1
    <3>9. ASSUME NEW p \in Files PROVE \E i \in DOMAIN s.todo : s.todo[i][4] = p
      <4>1. PICK i \in DOMAIN wanted : wanted[i] = p
        BY <3>4 DEF ToSet
      <4>2. QED
        BY <3>5, <3>6, <4>1
    <3>10. QED
      BY <3>7, <3>8, <3>9 DEF ReadingIn
  <2>2. CASE ReadingIn(scan)
    <3> DEFINE todo == scan.todo  rest == Tail(todo)
    <3>1. /\ todo \in Seq(Keys(scan.repo)) /\ todo # <<>> /\ Len(todo) \in Nat /\ Len(todo) >= 1
          /\ DOMAIN todo = 1..Len(todo) /\ key = todo[1]
      <4>1. \A S : \A t \in Seq(S) : t # <<>> => Len(t) \in Nat /\ Len(t) >= 1 /\ DOMAIN t = 1..Len(t)
                                                 /\ Head(t) = t[1]
        OBVIOUS
      <4>2. QED
        BY <1>1, <4>1
    <3>2. /\ DOMAIN rest = 1..(Len(todo) - 1)
          /\ \A i \in 1..(Len(todo) - 1) : rest[i] = todo[i + 1]
      <4> HIDE DEF todo
      <4>1. QED
        BY <3>1
    <3>3. key[1] = "get_file_content" /\ key[4] \in Files /\ key[4] \in ToSet(Actual)
      BY <2>2, <3>1 DEF ReadingIn, Files
    <3>4. s.todo = rest /\ s.tree = scan.tree
      BY <1>3, <3>3
    <3>5. s.readable = scan.readable \cup {p \in {key[4]} : HasText(p, answer)}
      BY <1>3, <3>3, Zenon
    <3> HIDE DEF s, rest, todo
    <3>6. HasText(key[4], answer) <=> key[4] \in Full
      <4>1. \E p \in ToSet(Actual) : p = key[4] \/ p = PathOn(platform, key[4])
        BY <3>3
      <4>2. IsThere(key[4], answer)
        BY <4>1 DEF IsThere, Actual
      <4>3. QED
        BY <3>3, <4>2 DEF HasText, Full
    <3>7. s.tree = Actual /\ s.readable \subseteq Full
      BY <2>2, <3>4, <3>5, <3>6 DEF ReadingIn
    <3>8. \A i \in DOMAIN s.todo : s.todo[i][1] = "get_file_content" /\ s.todo[i][4] \in Files
      <4>1. \A i \in 1..(Len(todo) - 1) : i + 1 \in DOMAIN todo
        BY <3>1
      <4>2. QED
        BY <2>2, <3>2, <3>4, <4>1 DEF ReadingIn, todo
    <3>9. ASSUME NEW p \in Files, ~(p \notin Full /\ ~(platform = "github" /\ FileName(p) \in Undecodable))
          PROVE  p \in s.readable \/ \E i \in DOMAIN s.todo : s.todo[i][4] = p
      <4>1. CASE p \in scan.readable
        BY <3>5, <4>1
      <4>2. CASE \E i \in DOMAIN todo : todo[i][4] = p
        <5>1. PICK i \in DOMAIN todo : todo[i][4] = p
          BY <4>2
        <5>2. CASE i = 1
          <6>1. p = key[4]
            BY <3>1, <5>1, <5>2
          <6>2. ~(platform = "github" /\ FileName(p) \in Undecodable)
            BY <3>3, <6>1 DEF Raises
          <6>3. p \in Full
            BY <3>9, <6>2
          <6>4. QED
            BY <3>5, <3>6, <6>1, <6>3
        <5>3. CASE i # 1
          <6>1. i - 1 \in 1..(Len(todo) - 1) /\ (i - 1) + 1 = i
            BY <3>1, <5>3
          <6>2. rest[i - 1] = todo[i] /\ i - 1 \in DOMAIN rest
            BY <3>2, <6>1
          <6>3. QED
            BY <3>4, <5>1, <6>2
        <5>4. QED
          BY <5>2, <5>3
      <4>3. QED
        BY <2>2, <3>9, <4>1, <4>2 DEF ReadingIn, todo
    <3>10. QED
      BY <3>7, <3>8, <3>9 DEF ReadingIn
  <2>3. QED
    BY <1>7, <1>8, <2>1, <2>2
<1>9. platform = "azure_devops" /\ Step \in {"languages", "detections"} => s.found.languages = CountLanguages(Actual)
  BY <1>2, <1>3, <1>5, <1>6, <1>7
<1>10. Step = "detections" => s.tree = Actual
  BY <1>2, <1>3, <1>6
<1>11. Step = "readmes" => s.found.technologies = Detect(Actual)
  BY <1>3, <1>7 DEF Same
<1>12. QED
  BY <1>8, <1>9, <1>10, <1>11

\* A call is answered.
LEMMA TakeFits ==
  ASSUME ExtractorsInvariant, Asking, UNCHANGED <<platformVars, run, page>>, IsStore(disk)', MoreFailed,
         NEW answer, Fits(Pending, answer), TakeAnswer(Pending, answer),
         ~run.filing => IsFresh(Pending, answer),
         Pending \in DOMAIN cache => answer = cache[Pending]
  PROVE  ExtractorsInvariant'
<1>1. /\ At("scanning") /\ page = FirstPage /\ scan.repo \in Repos /\ platform \in {"github", "azure_devops"}
      /\ IsScan(scan) /\ IsFound(scan.found) /\ Head(scan.todo) \in Keys(scan.repo) /\ scan.todo # <<>>
      /\ Pending \in Keys(scan.repo) /\ Pending \in AllKeys
  BY AskingIs DEF Asking
<1>2. answer \in Answer /\ answer.rev < Len(Trees[scan.repo])
  <2>1. Pending[2] = scan.repo
    BY <1>1, KeysAre
  <2>2. QED
    BY <2>1 DEF Fits
<1>3. /\ UNCHANGED <<platform, org, revision, commits, run, page>> /\ attempts' = 0
      /\ cache' = Stored(cache, Pending, answer)
      /\ scan' = IF Pending = Head(scan.todo) THEN Received(Pending, answer) ELSE scan
  BY DEF TakeAnswer, platformVars
<1>4. /\ IsStore(cache') /\ DOMAIN cache' = DOMAIN cache \cup {Pending}
      /\ \A k \in DOMAIN cache' : cache'[k] = IF k = Pending THEN answer ELSE cache[k]
  <2>1. IsStore(cache)
    BY DEF ExtractorsInvariant, CacheFits
  <2> DEFINE new == Stored(cache, Pending, answer)
  <2>2. IsStore(new) /\ Keeps(new, cache, Pending, answer)
    BY <1>1, <2>1, StoredIs
  <2>3. cache' = new
    BY <1>3
  <2> HIDE DEF new
  <2>4. IsStore(cache') /\ Keeps(cache', cache, Pending, answer)
    BY <2>2, <2>3
  <2>5. QED
    BY <2>4 DEF Keeps
<1>5. /\ Same(scan') /\ FoundFits(platform, scan'.found)
      /\ scan'.todo \in Seq(Keys(scan.repo)) /\ scan'.tree \in Seq(PathsOn(platform))
      /\ Step \notin {"readmes", "dependencies"} => scan'.todo \in {Opening(scan.repo, Step), <<>>}
  <2>1. CASE Pending = Head(scan.todo)
    <3> DEFINE s == Received(Pending, answer)
    <3>1. /\ Same(s) /\ FoundFits(platform, s.found)
          /\ s.todo \in Seq(Keys(scan.repo)) /\ s.tree \in Seq(PathsOn(platform))
          /\ Step \notin {"readmes", "dependencies"} => s.todo = <<>>
      BY <1>1, <1>2, ReceivedFits
    <3>2. scan' = s
      BY <1>3, <2>1
    <3> HIDE DEF s
    <3>3. QED
      BY <3>1, <3>2
  <2>2. CASE Pending # Head(scan.todo)
    <3>1. scan' = scan
      BY <1>3, <2>2
    <3>2. QED
      BY <1>1, <3>1 DEF ExtractorsInvariant, ScanFits, Same
  <2>3. QED
    BY <2>1, <2>2
<1>6. /\ scan'.repo = scan.repo /\ scan'.from = scan.from /\ scan'.step = scan.step /\ IsScan(scan')
      /\ Step' = Step /\ At("scanning")' /\ ~At("listing")'
  BY <1>1, <1>3, <1>5 DEF Same, Step, At
<1>7. PlatformFits'
  BY <1>3 DEF ExtractorsInvariant, PlatformFits, MoreFailed
<1>8. RunFits'
  BY <1>3 DEF ExtractorsInvariant, RunFits, At
<1>9. CacheFits'
  <2>1. \A key \in DOMAIN cache' : key \in Keys(scan'.repo)
    BY <1>1, <1>4, <1>6 DEF ExtractorsInvariant, CacheFits
  <2>2. (~run.filing => \A key \in DOMAIN cache : IsFresh(key, cache[key]))'
    <3>1. ~run.filing => \A key \in DOMAIN cache' : IsFresh(key, cache'[key])
      BY <1>4 DEF ExtractorsInvariant, CacheFits
    <3>2. QED
      BY <1>3, <1>6, <3>1 DEF IsFresh, Raises
  <2>3. QED
    BY <1>4, <1>6, <2>1, <2>2 DEF CacheFits
<1>10. PageFits'
  <2>1. Limit' \in Nat
    BY <1>6 DEF Limit
  <2>2. \A n : CommitsListed(page', n)
    BY <1>1, <1>3, FirstPageFits
  <2>3. page' = FirstPage /\ IsPage(page') /\ Len(page'.items) = 0 /\ page'.number = 0
    BY <1>1, <1>3, FirstPageFits
  <2>4. QED
    BY <1>6, <2>1, <2>2, <2>3 DEF PageFits
<1>11. ScanFits'
  <2>1. scan.step \in DOMAIN Steps /\ scan.from \in Nat /\ scan.from <= revision[scan.repo]
    BY <1>1 DEF ExtractorsInvariant, ScanFits
  <2>2. Opening(scan.repo, Step)' = Opening(scan.repo, Step)
    BY <1>3, <1>6 DEF Opening
  <2>3. QED
    BY <1>1, <1>3, <1>5, <1>6, <2>1, <2>2 DEF ScanFits, IsScan
<1>12. QuietFits'
  <2> SUFFICES ASSUME Quiet' PROVE QuietFits'
    BY DEF QuietFits
  <2>1. failures = 0 /\ \A k \in DOMAIN cache' : cache'[k].ok
    BY DEF Quiet, MoreFailed, ExtractorsInvariant, PlatformFits
  <2>2. answer.ok
    BY <1>4, <2>1
  <2>3. \A k \in DOMAIN cache : cache[k].ok
    <3> SUFFICES ASSUME NEW k \in DOMAIN cache PROVE cache[k].ok
      OBVIOUS
    <3>1. cache'[k].ok /\ cache'[k] = IF k = Pending THEN answer ELSE cache[k]
      BY <1>4, <2>1
    <3>2. QED
      BY <3>1
  <2>4. Quiet
    BY <1>1, <1>3, <1>6, <2>1, <2>3 DEF Quiet
  <2>5. answer.rev = scan.from
    <3>1. scan.from \in Nat /\ revision[scan.repo] = scan.from /\ ~run.filing /\ answer.rev \in Nat
      BY <1>1, <1>2, <2>4 DEF ExtractorsInvariant, ScanFits, Quiet, Answer
    <3>2. QED
      BY <3>1 DEF IsFresh
  <2>6. /\ platform' = platform /\ Actual' = Actual /\ Full' = Full /\ Files' = Files
        /\ AllReadmes' = AllReadmes /\ AllManifests' = AllManifests
    <3>1. platform' = platform /\ Actual' = Actual
      BY <1>3, <1>6 DEF Actual
    <3>2. Full' = Full /\ Files' = Files
      BY <1>6, <3>1 DEF Full, Files
    <3>3. QED
      BY <3>1, <3>2 DEF AllReadmes, AllManifests, LostReadmes, LostManifests
  <2>7. CASE Pending = Head(scan.todo)
    <3> DEFINE s == Received(Pending, answer)
    <3>1. /\ platform = "azure_devops" /\ Step \in {"languages", "detections"} =>
               s.found.languages = CountLanguages(Actual)
          /\ Step = "detections" => s.tree = Actual
          /\ Step = "readmes" => s.found.technologies = Detect(Actual)
          /\ Step \in {"readmes", "dependencies"} => ReadingIn(s)
      <4>1. ~Raises(Head(scan.todo))
        BY <2>2, <2>4, <2>7 DEF IsFresh, Quiet
      <4>2. QED
        BY <1>2, <2>2, <2>4, <2>5, <2>7, <4>1, ReceivedIsComplete
    <3>2. scan' = s
      BY <1>3, <2>7
    <3> HIDE DEF s
    <3>3. Step \in {"readmes", "dependencies"} => Reading'
      BY <2>6, <3>1, <3>2 DEF Reading, ReadingIn
    <3>4. (Step = "commits" => scan'.found.readmes = AllReadmes)
          /\ (Step = "stamp" => scan'.found.manifests = AllManifests)
      BY <1>5, <2>4 DEF ExtractorsInvariant, QuietFits, Same
    <3>5. QED
      BY <1>3, <1>6, <2>6, <3>1, <3>2, <3>3, <3>4 DEF QuietFits
  <2>8. CASE Pending # Head(scan.todo)
    <3>1. UNCHANGED <<scan, platform>>
      BY <1>3, <2>8
    <3>2. QED
      BY <2>4, <3>1, QuietAsBefore DEF ExtractorsInvariant
  <2>9. QED
    BY <2>7, <2>8
<1>13. QED
  BY <1>7, <1>8, <1>9, <1>10, <1>11, <1>12 DEF ExtractorsInvariant

LEMMA AskCacheFits ==
  ASSUME ExtractorsInvariant, AskCache
  PROVE  ExtractorsInvariant'
<1> DEFINE answer == IF Pending \in DOMAIN cache THEN cache[Pending] ELSE disk[Pending]
<1>1. /\ Asking /\ Known(Pending) /\ TakeAnswer(Pending, answer)
      /\ UNCHANGED <<platformVars, run, page, disk, failures>>
  BY DEF AskCache
<1>2. Fits(Pending, answer)
  BY <1>1 DEF Known, ExtractorsInvariant, CacheFits, IsStore
<1>3. ~run.filing => IsFresh(Pending, answer)
  BY <1>1 DEF Known, ExtractorsInvariant, CacheFits
<1>4. Pending \in DOMAIN cache => answer = cache[Pending]
  OBVIOUS
<1>5. IsStore(disk)' /\ MoreFailed
  BY <1>1 DEF ExtractorsInvariant, CacheFits, PlatformFits, IsStore, MoreFailed
<1> HIDE DEF answer
<1>6. QED
  BY <1>1, <1>2, <1>3, <1>4, <1>5, TakeFits

\* What the platform says now.
LEMMA NowFits ==
  ASSUME ExtractorsInvariant, Asking, NEW ok \in BOOLEAN
  PROVE  LET answer == [rev |-> revision[scan.repo], ok |-> ok]
         IN  /\ Fits(Pending, answer)
             /\ answer.rev \in scan.from..revision[scan.repo]
<1>1. At("scanning") /\ scan.repo \in Repos /\ Pending \in Keys(scan.repo)
  BY AskingIs
<1>2. Pending[2] = scan.repo
  BY <1>1, KeysAre
<1>3. revision[scan.repo] \in Nat /\ revision[scan.repo] < Len(Trees[scan.repo])
  BY <1>1 DEF ExtractorsInvariant, PlatformFits
<1>4. scan.from \in Nat /\ scan.from <= revision[scan.repo]
  BY <1>1 DEF ExtractorsInvariant, ScanFits
<1>5. QED
  BY <1>2, <1>3, <1>4 DEF Fits, Answer

LEMMA AskPlatformFits ==
  ASSUME ExtractorsInvariant, AskPlatform
  PROVE  ExtractorsInvariant'
<1> DEFINE now == [rev |-> revision[scan.repo], ok |-> TRUE]
           tree == TreeKey("left out")
           kept == IF tree \in DOMAIN cache THEN cache[tree] ELSE disk[tree]
           answer == IF platform # "github" /\ Pending = LanguagesKey THEN kept ELSE now
<1>1. /\ Asking /\ ~Known(Pending) /\ TakeAnswer(Pending, answer)
      /\ disk' = disk \/ disk' = Stored(disk, Pending, answer)
      /\ failures' = failures \/ Fails
      /\ UNCHANGED <<platformVars, run, page>> /\ ~Raises(Pending)
  BY DEF AskPlatform
<1>2. /\ At("scanning") /\ scan.repo \in Repos /\ Pending \in Keys(scan.repo) /\ Pending \in AllKeys
      /\ Head(scan.todo) \in Keys(scan.repo)
  BY <1>1, AskingIs
<1>3. Fits(Pending, now) /\ IsFresh(Pending, now)
  BY <1>1, NowFits DEF IsFresh
<1>4. ASSUME platform # "github" /\ Pending = LanguagesKey
      PROVE  Fits(Pending, kept) /\ (~run.filing => IsFresh(Pending, kept))
  <2>1. Known(tree)
    <3>1. tree # LanguagesKey /\ RepoKey # LanguagesKey
      BY DEF TreeKey, LanguagesKey, RepoKey
    <3>2. QED
      BY <1>1, <1>4, <3>1 DEF Pending
  <2>2. tree[2] = scan.repo /\ Pending[2] = scan.repo
    BY <1>4 DEF TreeKey, LanguagesKey
  <2>3. Fits(tree, kept)
    BY <2>1 DEF Known, ExtractorsInvariant, CacheFits, IsStore
  <2>4. Fits(Pending, kept)
    BY <2>2, <2>3 DEF Fits
  <2>5. ~run.filing => IsFresh(Pending, kept)
    BY <1>1, <2>1 DEF Known, ExtractorsInvariant, CacheFits, IsFresh
  <2>6. QED
    BY <2>4, <2>5
<1> HIDE DEF kept, now
<1>5. Fits(Pending, answer) /\ (~run.filing => IsFresh(Pending, answer))
  BY <1>3, <1>4
<1> HIDE DEF answer
<1>6. IsStore(disk)'
  <2>1. IsStore(disk)
    BY DEF ExtractorsInvariant, CacheFits
  <2>2. IsStore(Stored(disk, Pending, answer))
    BY <1>2, <1>5, <2>1, StoredIs
  <2>3. IsStore(disk')
    BY <1>1, <2>1, <2>2
  <2>4. QED
    BY <2>3
<1>7. MoreFailed
  BY <1>1 DEF Fails, MoreFailed, ExtractorsInvariant, PlatformFits
<1>8. Pending \notin DOMAIN cache
  BY <1>1 DEF Known
<1>9. QED
  BY <1>1, <1>5, <1>6, <1>7, <1>8, TakeFits

LEMMA AskInVainFits ==
  ASSUME ExtractorsInvariant, AskInVain
  PROVE  ExtractorsInvariant'
<1> DEFINE answer == [rev |-> revision[scan.repo], ok |-> FALSE]
<1>1. /\ Asking /\ ~Known(Pending) /\ TakeAnswer(Pending, answer)
      /\ disk' = disk \/ disk' = Stored(disk, Pending, answer)
      /\ Fails
      /\ UNCHANGED <<platformVars, run, page>>
  BY DEF AskInVain
<1>2. Pending \in AllKeys
  BY <1>1, AskingIs
<1>3. Fits(Pending, answer) /\ IsFresh(Pending, answer)
  BY <1>1, NowFits DEF IsFresh
<1> HIDE DEF answer
<1>4. IsStore(disk)'
  <2>1. IsStore(disk)
    BY DEF ExtractorsInvariant, CacheFits
  <2>2. IsStore(Stored(disk, Pending, answer))
    BY <1>2, <1>3, <2>1, StoredIs
  <2>3. IsStore(disk')
    BY <1>1, <2>1, <2>2
  <2>4. QED
    BY <2>3
<1>5. MoreFailed
  BY <1>1, FailsMore
<1>6. Pending \notin DOMAIN cache
  BY <1>1 DEF Known
<1>7. QED
  BY <1>1, <1>3, <1>4, <1>5, <1>6, TakeFits

\* What is made of the files depends on those of the tree that are wanted only,
\* and once all have been asked for none has raised.
LEMMA ReadingIsComplete ==
  ASSUME Reading, scan.todo = <<>>
  PROVE  /\ Step = "readmes" => ReadmeFiles(scan.tree, scan.readable) = AllReadmes
         /\ Step = "dependencies" => ExtractManifests(scan.tree, scan.readable) = AllManifests
<1>1. /\ scan.tree = Actual /\ scan.readable \subseteq Full /\ Files \cap Full \subseteq scan.readable
      /\ \A p \in Files : ~(platform = "github" /\ FileName(p) \in Undecodable)
  BY DEF Reading, ReadingIn, Full
<1>2. Full \subseteq ToSet(Actual)
  BY DEF Full
<1>3. ASSUME Step = "readmes"
      PROVE  ReadmeFiles(scan.tree, scan.readable) = AllReadmes
  <2> DEFINE A == {p \in scan.readable : IsReadme(p)}
             B == {p \in Full : IsReadme(p)}
  <2>1. Files = {p \in ToSet(Actual) : IsReadme(p)}
    BY <1>3 DEF Files
  <2>2. ToSet(Actual) \cap A = ToSet(Actual) \cap B
    BY <1>1, <1>2, <2>1
  <2>3. ~LostReadmes
    BY <1>1, <2>1 DEF LostReadmes
  <2> HIDE DEF A, B
  <2>4. Among(Actual, A) = Among(Actual, B)
    BY <2>2, AmongSame
  <2>5. QED
    BY <1>1, <2>3, <2>4 DEF ReadmeFiles, SortedReadmes, AllReadmes, A, B
<1>4. ASSUME Step = "dependencies"
      PROVE  ExtractManifests(scan.tree, scan.readable) = AllManifests
  <2> DEFINE A == {q \in ToSet(Actual) : IsManifest(q)} \cap scan.readable
             B == {q \in ToSet(Actual) : IsManifest(q)} \cap Full
  <2>1. Files = {p \in ToSet(Actual) : IsManifest(p)}
    BY <1>4 DEF Files
  <2>2. A = B
    BY <1>1, <2>1
  <2>3. ~LostManifests
    BY <1>1, <2>1 DEF LostManifests
  <2> HIDE DEF A, B
  <2>4. QED
    BY <1>1, <2>2, <2>3 DEF ExtractManifests, AllManifests, A, B
<1>5. QED
  BY <1>3, <1>4

\* In a scan that is quiet only the content of a wanted file raises.
LEMMA WhatRaises ==
  ASSUME ExtractorsInvariant, Asking, Quiet, Raises(Pending)
  PROVE  /\ Step # "detections" /\ platform = "github"
         /\ Step \in {"readmes", "dependencies"} => \E p \in Files : FileName(p) \in Undecodable
<1>1. At("scanning") /\ scan.todo # <<>> /\ scan.todo \in Seq(Keys(scan.repo))
  BY AskingIs DEF Asking
<1>2. platform = "github" /\ Pending[1] = "get_file_content" /\ FileName(Pending[4]) \in Undecodable
  BY DEF Raises
<1>3. \A r, b : <<"get_file_tree", r, b>>[1] # "get_file_content" /\ <<"_get_repo", r>>[1] # "get_file_content"
  OBVIOUS
<1>4. Pending = Head(scan.todo)
  BY <1>2, <1>3 DEF Pending, RepoKey, TreeKey
<1>5. \A x : Head(<<x>>) = x
  OBVIOUS
<1>6. Step # "detections"
  <2> SUFFICES ASSUME Step = "detections" PROVE FALSE
    OBVIOUS
  <2>1. scan.todo = << <<"get_file_tree", scan.repo, "left out">> >>
    BY <1>1, OneCall, OpeningIs DEF ExtractorsInvariant
  <2>2. Pending = <<"get_file_tree", scan.repo, "left out">>
    BY <1>4, <1>5, <2>1
  <2>3. QED
    BY <1>2, <1>3, <2>2
<1>7. ASSUME Step \in {"readmes", "dependencies"}
      PROVE  \E p \in Files : FileName(p) \in Undecodable
  <2>1. scan.todo # Opening(scan.repo, Step)
    <3> SUFFICES ASSUME scan.todo = Opening(scan.repo, Step) PROVE FALSE
      OBVIOUS
    <3>1. PICK b : scan.todo = << <<"get_file_tree", scan.repo, b>> >>
      BY <1>7, OpeningIs
    <3>2. Pending = <<"get_file_tree", scan.repo, b>>
      BY <1>4, <1>5, <3>1
    <3>3. QED
      BY <1>2, <1>3, <3>2
  <2>2. Reading
    BY <1>7, <2>1 DEF ExtractorsInvariant, QuietFits
  <2>3. 1 \in DOMAIN scan.todo /\ Head(scan.todo) = scan.todo[1]
    BY <1>1
  <2>4. Pending[4] \in Files
    BY <1>4, <2>2, <2>3 DEF Reading, ReadingIn
  <2>5. QED
    BY <1>2, <2>4
<1>8. QED
  BY <1>2, <1>6, <1>7

\* Outside the steps that find something, a step that ends is in order.
LEMMA AskFailsFits ==
  ASSUME ExtractorsInvariant, AskFails
  PROVE  ExtractorsInvariant'
<1>1. /\ Asking /\ GoOn(NothingFound) /\ UNCHANGED <<platformVars, disk>>
      /\ (Raises(Pending) /\ failures' = failures) \/ Fails
  BY DEF AskFails
<1>2. At("scanning") /\ scan.todo # <<>>
  BY <1>1, AskingIs DEF Asking
<1>3. MoreFailed
  BY <1>1 DEF Fails, MoreFailed, ExtractorsInvariant, PlatformFits
<1>4. failures' = 0 => Concludes(NothingFound)
  <2> SUFFICES ASSUME failures' = 0 PROVE Concludes(NothingFound)
    OBVIOUS
  <2>1. Raises(Pending)
    BY <1>1 DEF Fails, ExtractorsInvariant, PlatformFits
  <2>2. /\ Quiet => platform = "github" /\ Step # "detections"
        /\ Quiet /\ Step \in {"readmes", "dependencies"} => \E p \in Files : FileName(p) \in Undecodable
    BY <1>1, <2>1, WhatRaises
  <2>3. Quiet /\ Step = "readmes" => LostReadmes
    BY <2>2 DEF LostReadmes, Files
  <2>4. Quiet /\ Step = "dependencies" => LostManifests
    BY <2>2 DEF LostManifests, Files
  <2>5. NothingFound.readmes = <<>> /\ NothingFound.manifests = {}
    BY DEF NothingFound
  <2>6. QED
    BY <2>2, <2>3, <2>4, <2>5 DEF Concludes, AllReadmes, AllManifests
<1>5. QED
  BY <1>1, <1>2, <1>3, <1>4, GoOnFits, NothingFits

-----------------------------------------------------------------------------
(* What the steps find.                                                    *)

\* One thing found is in order if it is by itself.
LEMMA FoundWith ==
  ASSUME NEW pl, NEW x
  PROVE  /\ FoundFits(pl, [NothingFound EXCEPT !.technologies = x])
         /\ [NothingFound EXCEPT !.technologies = x].technologies = x
         /\ ReadmesFit(pl, x) => FoundFits(pl, [NothingFound EXCEPT !.readmes = x])
         /\ [NothingFound EXCEPT !.readmes = x].readmes = x
         /\ CommitsFit(x) => FoundFits(pl, [NothingFound EXCEPT !.commits = x])
         /\ PullsFit(pl, x) => FoundFits(pl, [NothingFound EXCEPT !.pulls = x])
         /\ FoundFits(pl, [NothingFound EXCEPT !.manifests = x])
         /\ [NothingFound EXCEPT !.manifests = x].manifests = x
<1> DEFINE none == NothingFound
<1>1. none \in [languages : {none.languages}, technologies : {none.technologies}, readmes : {none.readmes},
                commits : {none.commits}, pulls : {none.pulls}, manifests : {none.manifests}]
  BY DEF NothingFound
<1>2. CommitsFit(none.commits) /\ ReadmesFit(pl, none.readmes) /\ PullsFit(pl, none.pulls)
  BY NothingFits DEF FoundFits
<1> HIDE DEF none
<1>3. /\ FoundFits(pl, [none EXCEPT !.technologies = x])
      /\ [none EXCEPT !.technologies = x].technologies = x
  <2> DEFINE f == [none EXCEPT !.technologies = x]
  <2>1. f \in [languages : {none.languages}, technologies : {x}, readmes : {none.readmes},
               commits : {none.commits}, pulls : {none.pulls}, manifests : {none.manifests}]
    BY <1>1
  <2> HIDE DEF f
  <2>2. f = [languages |-> none.languages, technologies |-> x, readmes |-> none.readmes,
             commits |-> none.commits, pulls |-> none.pulls, manifests |-> none.manifests]
    BY <2>1
  <2>3. FoundFits(pl, f) /\ f.technologies = x
    BY <1>2, <2>2 DEF FoundFits
  <2>4. QED
    BY <2>3 DEF f
<1>4. /\ ReadmesFit(pl, x) => FoundFits(pl, [none EXCEPT !.readmes = x])
      /\ [none EXCEPT !.readmes = x].readmes = x
  <2> DEFINE f == [none EXCEPT !.readmes = x]
  <2>1. f \in [languages : {none.languages}, technologies : {none.technologies}, readmes : {x},
               commits : {none.commits}, pulls : {none.pulls}, manifests : {none.manifests}]
    BY <1>1
  <2> HIDE DEF f
  <2>2. f = [languages |-> none.languages, technologies |-> none.technologies, readmes |-> x,
             commits |-> none.commits, pulls |-> none.pulls, manifests |-> none.manifests]
    BY <2>1
  <2>3. (ReadmesFit(pl, x) => FoundFits(pl, f)) /\ f.readmes = x
    BY <1>2, <2>2 DEF FoundFits
  <2>4. QED
    BY <2>3 DEF f
<1>5. CommitsFit(x) => FoundFits(pl, [none EXCEPT !.commits = x])
  <2> DEFINE f == [none EXCEPT !.commits = x]
  <2>1. f \in [languages : {none.languages}, technologies : {none.technologies}, readmes : {none.readmes},
               commits : {x}, pulls : {none.pulls}, manifests : {none.manifests}]
    BY <1>1
  <2> HIDE DEF f
  <2>2. f = [languages |-> none.languages, technologies |-> none.technologies, readmes |-> none.readmes,
             commits |-> x, pulls |-> none.pulls, manifests |-> none.manifests]
    BY <2>1
  <2>3. CommitsFit(x) => FoundFits(pl, f)
    BY <1>2, <2>2 DEF FoundFits
  <2>4. QED
    BY <2>3 DEF f
<1>6. PullsFit(pl, x) => FoundFits(pl, [none EXCEPT !.pulls = x])
  <2> DEFINE f == [none EXCEPT !.pulls = x]
  <2>1. f \in [languages : {none.languages}, technologies : {none.technologies}, readmes : {none.readmes},
               commits : {none.commits}, pulls : {x}, manifests : {none.manifests}]
    BY <1>1
  <2> HIDE DEF f
  <2>2. f = [languages |-> none.languages, technologies |-> none.technologies, readmes |-> none.readmes,
             commits |-> none.commits, pulls |-> x, manifests |-> none.manifests]
    BY <2>1
  <2>3. PullsFit(pl, x) => FoundFits(pl, f)
    BY <1>2, <2>2 DEF FoundFits
  <2>4. QED
    BY <2>3 DEF f
<1>7. /\ FoundFits(pl, [none EXCEPT !.manifests = x])
      /\ [none EXCEPT !.manifests = x].manifests = x
  <2> DEFINE f == [none EXCEPT !.manifests = x]
  <2>1. f \in [languages : {none.languages}, technologies : {none.technologies}, readmes : {none.readmes},
               commits : {none.commits}, pulls : {none.pulls}, manifests : {x}]
    BY <1>1
  <2> HIDE DEF f
  <2>2. f = [languages |-> none.languages, technologies |-> none.technologies, readmes |-> none.readmes,
             commits |-> none.commits, pulls |-> none.pulls, manifests |-> x]
    BY <2>1
  <2>3. FoundFits(pl, f) /\ f.manifests = x
    BY <1>2, <2>2 DEF FoundFits
  <2>4. QED
    BY <2>3 DEF f
<1>8. QED
  BY <1>3, <1>4, <1>5, <1>6, <1>7 DEF none

LEMMA FinishStepFits ==
  ASSUME ExtractorsInvariant, FinishStep
  PROVE  ExtractorsInvariant'
<1> DEFINE technologies == [NothingFound EXCEPT !.technologies = Detect(scan.tree)]
           readmes == [NothingFound EXCEPT !.readmes = ReadmeFiles(scan.tree, scan.readable)]
           manifests == [NothingFound EXCEPT !.manifests = ExtractManifests(scan.tree, scan.readable)]
           found == CASE Step = "languages" -> scan.found
                      [] Step = "detections" -> technologies
                      [] Step = "readmes" -> readmes
                      [] Step = "dependencies" -> manifests
                      [] OTHER -> NothingFound
<1>1. /\ At("scanning") /\ scan.todo = <<>> /\ GoOn(found) /\ UNCHANGED <<platformVars, disk, failures>>
  <2> HIDE DEF technologies, readmes, manifests
  <2>1. /\ At("scanning") /\ scan.todo = <<>> /\ UNCHANGED <<platformVars, disk, failures>>
        /\ \/ Step = "readmes" /\ GoOn(readmes)
           \/ /\ Step \notin {"readmes", "commits", "pulls"}
              /\ GoOn(CASE Step = "languages" -> scan.found
                        [] Step = "detections" -> technologies
                        [] Step = "dependencies" -> manifests
                        [] OTHER -> NothingFound)
    BY DEF FinishStep, ReadmeFiles, technologies, readmes, manifests
  <2>2. CASE Step = "readmes"
    <3>1. GoOn(readmes) /\ found = readmes
      BY <2>1, <2>2
    <3>2. QED
      BY <2>1, <3>1
  <2>3. CASE Step # "readmes"
    <3> DEFINE other == CASE Step = "languages" -> scan.found
                          [] Step = "detections" -> technologies
                          [] Step = "dependencies" -> manifests
                          [] OTHER -> NothingFound
    <3>1. GoOn(other) /\ other = found
      BY <2>1, <2>3
    <3>2. QED
      BY <2>1, <3>1
  <2>4. QED
    BY <2>2, <2>3
<1>2. MoreFailed
  BY <1>1 DEF MoreFailed, ExtractorsInvariant, PlatformFits
<1>3. /\ FoundFits(platform, technologies) /\ technologies.technologies = Detect(scan.tree)
      /\ FoundFits(platform, manifests) /\ manifests.manifests = ExtractManifests(scan.tree, scan.readable)
  BY FoundWith
<1>4. FoundFits(platform, readmes) /\ readmes.readmes = ReadmeFiles(scan.tree, scan.readable)
  <2>1. platform \in {"github", "azure_devops"} /\ scan.tree \in Seq(PathsOn(platform))
    BY <1>1 DEF ExtractorsInvariant, PlatformFits, ScanFits
  <2>2. ReadmesFit(platform, ReadmeFiles(scan.tree, scan.readable))
    BY <2>1, ReadmesArePlaced
  <2>3. QED
    BY <2>2, FoundWith
<1>5. FoundFits(platform, scan.found) /\ FoundFits(platform, NothingFound)
  BY NothingFits DEF ExtractorsInvariant, ScanFits
<1> HIDE DEF technologies, readmes, manifests
<1>6. /\ Step = "languages" => found = scan.found
      /\ Step = "detections" => found = technologies
      /\ Step = "readmes" => found = readmes
      /\ Step = "dependencies" => found = manifests
      /\ found \in {scan.found, technologies, readmes, manifests, NothingFound}
  OBVIOUS
<1> HIDE DEF found
<1>7. FoundFits(platform, found)
  BY <1>3, <1>4, <1>5, <1>6
<1>8. ASSUME Quiet, Step \in {"readmes", "dependencies"}
      PROVE  Reading
  <2>1. \A x : <<x>> # <<>>
    OBVIOUS
  <2>2. Opening(scan.repo, Step) # <<>>
    BY <1>8, <2>1, OpeningIs
  <2>3. QED
    BY <1>1, <1>8, <2>2 DEF ExtractorsInvariant, QuietFits
<1>9. Concludes(found)
  <2>1. /\ Quiet /\ Step = "languages" /\ platform = "azure_devops" => found.languages = CountLanguages(Actual)
        /\ Quiet /\ Step = "detections" => found.technologies = Detect(Actual)
    BY <1>1, <1>3, <1>6 DEF ExtractorsInvariant, QuietFits
  <2>2. /\ Quiet /\ Step = "readmes" => found.readmes = AllReadmes
        /\ Quiet /\ Step = "dependencies" => found.manifests = AllManifests
    BY <1>1, <1>3, <1>4, <1>6, <1>8, ReadingIsComplete
  <2>3. QED
    BY <2>1, <2>2 DEF Concludes
<1>10. QED
  BY <1>1, <1>2, <1>7, <1>9, GoOnFits

\* What the extractors make of a pull request.
LEMMA AzurePullFits ==
  ASSUME NEW pr \in ToSet(Pulls["azure_devops"]), NEW failed
  PROVE  PullsFit("azure_devops", <<AzurePullRequest(pr, failed)>>)
<1> DEFINE pull == AzurePullRequest(pr, failed)
           comments == IF "threads" \in failed THEN <<>> ELSE CommentsOf(pr.threads)
           status == MapPrStatus(pr.status)
           merged == IF status # "merged" THEN NoDate ELSE IF pr.queued # NoDate THEN pr.queued ELSE pr.closed
           closed == IF status \in {"merged", "closed"} THEN pr.closed ELSE NoDate
           date == IF merged # NoDate THEN merged ELSE IF closed # NoDate THEN closed ELSE pr.created
           reviews == IF "reviewers" \in failed THEN <<>> ELSE BuildReviews(pr.reviewers, comments, date)
<1>1. pull = [status |-> status, created |-> pr.created, merged |-> merged, closed |-> closed,
              files |-> IF "changes" \in failed THEN 0 ELSE pr.changes, comments |-> comments,
              reviews |-> reviews]
  BY DEF AzurePullRequest
<1>2. /\ pr.created \in Nat \cup {NoDate} /\ pr.queued \in Nat \cup {NoDate} /\ pr.closed \in Nat \cup {NoDate}
      /\ pr.status # "merged" /\ (pr.status = "completed" => pr.closed # NoDate)
      /\ pr.closed # NoDate => pr.queued <= pr.closed
  BY PullsAssumption
<1>3. status = "merged" <=> pr.status = "completed"
  BY <1>2 DEF MapPrStatus
<1>4. status = "merged" <=> merged # NoDate
  BY <1>2, <1>3
<1>5. closed # NoDate => date <= closed
  BY <1>2, <1>3 DEF NoDate
<1>6. \A review \in ToSet(reviews) :
        review.date = date /\ review.comment_count = CommentCount(comments, review.reviewer)
  <2> HIDE DEF comments, date
  <2>1. \A s : \A i \in DOMAIN BuildReviews(s, comments, date) :
          LET review == BuildReviews(s, comments, date)[i]
          IN  review.date = date /\ review.comment_count = CommentCount(comments, review.reviewer)
    BY DEF BuildReviews
  <2>2. \A review \in ToSet(BuildReviews(pr.reviewers, comments, date)) :
          review.date = date /\ review.comment_count = CommentCount(comments, review.reviewer)
    BY <2>1 DEF ToSet
  <2>3. ToSet(<<>>) = {}
    BY DEF ToSet
  <2>4. QED
    BY <2>2, <2>3
<1> HIDE DEF pull, comments, status, merged, closed, date, reviews
<1>7. /\ pull.status = status /\ pull.merged = merged /\ pull.closed = closed
      /\ pull.comments = comments /\ pull.reviews = reviews
  BY <1>1
<1>8. ToSet(<<pull>>) = {pull}
  BY DEF ToSet
<1>9. \A review \in ToSet(pull.reviews) :
        /\ review.comment_count = CommentCount(pull.comments, review.reviewer)
        /\ pull.closed # NoDate => review.date <= pull.closed
  BY <1>5, <1>6, <1>7
<1>10. PullsFit("azure_devops", <<pull>>)
  BY <1>4, <1>7, <1>8, <1>9 DEF PullsFit
<1>11. QED
  BY <1>10 DEF pull

LEMMA GitHubPullFits ==
  ASSUME NEW pr \in ToSet(Pulls["github"]), NEW reviews, NEW comments
  PROVE  PullsFit("github", <<GitHubPullRequest(pr, reviews, comments)>>)
<1> DEFINE pull == GitHubPullRequest(pr, reviews, comments)
<1>1. pull.status = (IF pr.merged # NoDate THEN "merged" ELSE pr.state) /\ pull.merged = pr.merged
  BY DEF GitHubPullRequest
<1>2. pr.state # "merged"
  BY PullsAssumption
<1> HIDE DEF pull
<1>3. ToSet(<<pull>>) = {pull}
  BY DEF ToSet
<1>4. PullsFit("github", <<pull>>)
  BY <1>1, <1>2, <1>3 DEF PullsFit
<1>5. QED
  BY <1>4 DEF pull

LEMMA FetchPullFits ==
  ASSUME ExtractorsInvariant, Fetching, FetchPull, UNCHANGED <<platformVars, disk, runs>>
  PROVE  ExtractorsInvariant'
<1>1. At("scanning") /\ Step = "pulls" /\ UNCHANGED <<platformVars, disk>> /\ failures \in Nat
      /\ platform \in {"github", "azure_devops"}
  BY DEF Fetching, ExtractorsInvariant, PlatformFits
<1>2. \A found : Concludes(found)
  BY <1>1 DEF Concludes
<1>3. \A S : S \subseteq {"threads", "reviewers", "changes"} => Cardinality(S) \in Nat
  <2>1. IsFiniteSet({"threads", "reviewers", "changes"})
    <3>1. IsFiniteSet({"threads"} \cup {"reviewers"})
      BY FS_Singleton, FS_AddElement
    <3>2. IsFiniteSet(({"threads"} \cup {"reviewers"}) \cup {"changes"})
      BY <3>1, FS_AddElement
    <3>3. ({"threads"} \cup {"reviewers"}) \cup {"changes"} = {"threads", "reviewers", "changes"}
      OBVIOUS
    <3>4. QED
      BY <3>2, <3>3
  <2>2. QED
    BY <2>1, FS_Subset, FS_CardinalityType
<1>4. \A S : S \subseteq {1} => Cardinality(S) \in Nat
  BY FS_Singleton, FS_Subset, FS_CardinalityType
<1>5. PICK i \in DOMAIN Pulls[platform] :
        LET pr == Pulls[platform][i]
        IN  \/ /\ platform # "github"
               /\ \E failed \in SUBSET {"threads", "reviewers", "changes"} :
                    /\ failures' = failures + Cardinality(failed)
                    /\ GoOn([NothingFound EXCEPT !.pulls = <<AzurePullRequest(pr, failed)>>])
            \/ /\ platform = "github"
               /\ \E n \in 0..Len(pr.reviewers), m \in 0..Len(pr.threads) :
                    /\ failures' = failures + Cardinality({x \in {1} : n < Len(pr.reviewers)})
                                           + Cardinality({x \in {1} : m < Len(pr.threads)})
                    /\ GoOn([NothingFound EXCEPT !.pulls = <<GitHubPullRequest(pr, n, m)>>])
  BY DEF FetchPull
<1> DEFINE pr == Pulls[platform][i]
<1>6. pr \in ToSet(Pulls[platform])
  BY DEF ToSet
<1>7. CASE platform # "github"
  <2>1. PICK failed \in SUBSET {"threads", "reviewers", "changes"} :
          /\ failures' = failures + Cardinality(failed)
          /\ GoOn([NothingFound EXCEPT !.pulls = <<AzurePullRequest(pr, failed)>>])
    BY <1>5, <1>7
  <2>2. MoreFailed
    <3>1. Cardinality(failed) \in Nat
      BY <1>3
    <3>2. QED
      BY <1>1, <2>1, <3>1 DEF MoreFailed
  <2> HIDE DEF pr
  <2>3. PullsFit(platform, <<AzurePullRequest(pr, failed)>>)
    BY <1>1, <1>6, <1>7, AzurePullFits
  <2>4. FoundFits(platform, [NothingFound EXCEPT !.pulls = <<AzurePullRequest(pr, failed)>>])
    BY <2>3, FoundWith
  <2>5. QED
    BY <1>1, <1>2, <2>1, <2>2, <2>4, GoOnFits
<1>8. CASE platform = "github"
  <2>1. PICK n \in 0..Len(pr.reviewers), m \in 0..Len(pr.threads) :
          /\ failures' = failures + Cardinality({x \in {1} : n < Len(pr.reviewers)})
                                 + Cardinality({x \in {1} : m < Len(pr.threads)})
          /\ GoOn([NothingFound EXCEPT !.pulls = <<GitHubPullRequest(pr, n, m)>>])
    BY <1>5, <1>8
  <2>2. MoreFailed
    <3> DEFINE a == Cardinality({x \in {1} : n < Len(pr.reviewers)})
               b == Cardinality({x \in {1} : m < Len(pr.threads)})
    <3>1. a \in Nat
      BY <1>4
    <3>2. b \in Nat
      BY <1>4
    <3>3. failures' = failures + a + b
      BY <2>1
    <3> HIDE DEF a, b
    <3>4. QED
      BY <1>1, <3>1, <3>2, <3>3 DEF MoreFailed
  <2> HIDE DEF pr
  <2>3. PullsFit(platform, <<GitHubPullRequest(pr, n, m)>>)
    BY <1>6, <1>8, GitHubPullFits
  <2>4. FoundFits(platform, [NothingFound EXCEPT !.pulls = <<GitHubPullRequest(pr, n, m)>>])
    BY <2>3, FoundWith
  <2>5. QED
    BY <1>1, <1>2, <2>1, <2>2, <2>4, GoOnFits
<1>9. QED
  BY <1>7, <1>8

LEMMA FetchPullsFits ==
  ASSUME ExtractorsInvariant, FetchPulls
  PROVE  ExtractorsInvariant'
<1>1. Fetching /\ UNCHANGED <<platformVars, disk, runs>>
  BY DEF FetchPulls
<1>2. CASE FetchPull
  BY <1>1, <1>2, FetchPullFits
<1>3. CASE (Fails \/ UNCHANGED failures) /\ GoOn(NothingFound)
  <2>1. MoreFailed
    BY <1>3, FailsMore DEF MoreFailed, ExtractorsInvariant, PlatformFits
  <2>2. At("scanning") /\ Concludes(NothingFound)
    BY <1>1 DEF Fetching, Concludes
  <2>3. QED
    BY <1>1, <1>3, <2>1, <2>2, GoOnFits, NothingFits
<1>4. QED
  BY <1>2, <1>3 DEF FetchPulls

-----------------------------------------------------------------------------
(* Listings.                                                               *)

LEMMA LeastIs ==
  ASSUME NEW S, S \subseteq Int, NEW m \in S, \A x \in S : m <= x
  PROVE  Min(S) = m
<1> DEFINE least == Min(S)
<1>1. least \in S /\ \A x \in S : least <= x
  BY DEF Min
<1> HIDE DEF least
<1>2. least \in Int /\ m \in Int /\ least <= m /\ m <= least
  BY <1>1
<1>3. least = m
  BY <1>2
<1>4. QED
  BY <1>3 DEF least

LEMMA LesserIs ==
  ASSUME NEW a \in Int, NEW b \in Int
  PROVE  Min({a, b}) = IF a <= b THEN a ELSE b
<1>1. {a, b} \subseteq Int
  OBVIOUS
<1>2. CASE a <= b
  <2>1. a \in {a, b} /\ \A x \in {a, b} : a <= x
    BY <1>2
  <2>2. Min({a, b}) = a
    BY ONLY <1>1, <2>1, LeastIs
  <2>3. QED
    BY <1>2, <2>2
<1>3. CASE ~(a <= b)
  <2>1. b \in {a, b} /\ \A x \in {a, b} : b <= x
    BY <1>3
  <2>2. Min({a, b}) = b
    BY ONLY <1>1, <2>1, LeastIs
  <2>3. QED
    BY <1>3, <2>2
<1>4. QED
  BY <1>2, <1>3

\* The first items of a sequence.
LEMMA UpToIs ==
  ASSUME NEW S, NEW s \in Seq(S), NEW n \in Nat
  PROVE  /\ UpTo(n, s) \in Seq(S)
         /\ Len(UpTo(n, s)) = IF n <= Len(s) THEN n ELSE Len(s)
         /\ \A i \in 1..Len(UpTo(n, s)) : UpTo(n, s)[i] = s[i]
<1> DEFINE m == Min({n, Len(s)})
           t == SubSeq(s, 1, m)
<1>1. Len(s) \in Nat /\ m = (IF n <= Len(s) THEN n ELSE Len(s)) /\ \A i \in 1..Len(s) : s[i] \in S
  BY LesserIs
<1> HIDE DEF m
<1>2. m \in Nat /\ m \in Int /\ 1 \in Int /\ \A i \in 1..m : s[i] \in S
  BY <1>1
<1>3. /\ t \in Seq(S) /\ Len(t) = (IF 1 <= m THEN m - 1 + 1 ELSE 0)
      /\ \A i \in 1..(m - 1 + 1) : t[i] = s[1 + i - 1]
  BY <1>2, SubSeqProperties
<1>4. UpTo(n, s) = t
  BY DEF UpTo, m
<1> HIDE DEF t
<1>5. Len(t) = m /\ \A i \in 1..m : t[i] = s[i]
  BY <1>2, <1>3
<1>6. QED
  BY <1>1, <1>3, <1>4, <1>5

\* More commits are listed: with those before, from h - 1 down to m, come t
\* more from n - b - 1 on down, of n there are by now.
Extends(all, items, t) ==
  /\ Len(all) = Len(items) + t
  /\ \A i \in 1..Len(items) : all[i] = items[i]

Spans(items, m, h) ==
  /\ \A sha \in ToSet(items) : m <= sha
  /\ m..(h - 1) \subseteq ToSet(items)

GoesDown(all, k, t, top) == \A j \in 1..t : all[k + j] = top - j

LEMMA SeqIs ==
  ASSUME NEW S, NEW s \in Seq(S)
  PROVE  /\ Len(s) \in Nat /\ DOMAIN s = 1..Len(s) /\ \A i \in 1..Len(s) : s[i] \in S
         /\ s = <<>> <=> Len(s) = 0
         /\ \A x : x \in ToSet(s) <=> \E i \in 1..Len(s) : s[i] = x
         /\ ToSet(s) \subseteq S
<1>1. Len(s) \in Nat /\ DOMAIN s = 1..Len(s) /\ (\A i \in 1..Len(s) : s[i] \in S) /\ (s = <<>> <=> Len(s) = 0)
  OBVIOUS
<1>2. QED
  BY <1>1 DEF ToSet

\* items is to be gone on with.
MayGoOn(items, all, t, n, b, m, h) ==
  /\ items \in Seq(Nat) /\ all \in Seq(Nat) /\ {t, n, b, m, h} \subseteq Nat
  /\ b + t <= n /\ m <= n - b
  /\ Extends(all, items, t) /\ GoesDown(all, Len(items), t, n - b) /\ Spans(items, m, h)
  /\ items # <<>> => m \in ToSet(items)
  /\ items = <<>> => t >= 1 /\ m = n /\ b = 0

LEMMA MoreListed ==
  ASSUME NEW items, NEW all, NEW t, NEW n, NEW b, NEW m, NEW h, MayGoOn(items, all, t, n, b, m, h)
  PROVE  \E least \in ToSet(all) :
           least <= n - b - t /\ (t = 0 => least = m) /\ Spans(all, least, h)
<1>1. /\ items \in Seq(Nat) /\ all \in Seq(Nat) /\ t \in Nat /\ n \in Nat /\ b \in Nat /\ m \in Nat /\ h \in Nat
      /\ b + t <= n /\ m <= n - b
      /\ items # <<>> => m \in ToSet(items)
      /\ items = <<>> => t >= 1 /\ m = n /\ b = 0
  BY DEF MayGoOn
<1> USE <1>1
<1> DEFINE k == Len(items)
<1>2. /\ Len(all) = k + t /\ \A i \in 1..k : all[i] = items[i]
      /\ \A j \in 1..t : all[k + j] = n - b - j
      /\ \A sha \in ToSet(items) : m <= sha
      /\ m..(h - 1) \subseteq ToSet(items)
  BY DEF MayGoOn, Extends, GoesDown, Spans
<1>3. /\ k \in Nat /\ DOMAIN items = 1..k /\ DOMAIN all = 1..(k + t)
      /\ \A i \in 1..k : items[i] \in Nat
  <2>1. /\ Len(items) \in Nat /\ DOMAIN items = 1..Len(items) /\ \A i \in 1..Len(items) : items[i] \in Nat
        /\ DOMAIN all = 1..Len(all)
    BY SeqIs
  <2>2. QED
    BY <1>2, <2>1
<1>4. /\ \A x : x \in ToSet(items) <=> \E i \in 1..k : items[i] = x
      /\ \A x : x \in ToSet(all) <=> \E i \in 1..(k + t) : all[i] = x
  <2>1. \A x : x \in ToSet(items) <=> \E i \in 1..Len(items) : items[i] = x
    BY <1>3 DEF ToSet, k
  <2>2. \A x : x \in ToSet(all) <=> \E i \in 1..(k + t) : all[i] = x
    BY <1>3 DEF ToSet
  <2>3. QED
    BY <2>1, <2>2 DEF k
<1> HIDE DEF k
<1>5. \A x \in ToSet(items) : x \in ToSet(all)
  <2>1. \A i \in 1..k : i \in 1..(k + t) /\ all[i] = items[i]
    BY <1>3, <1>2 DEF k
  <2>2. QED
    BY <1>4, <2>1
<1>6. \A j \in 1..t : n - b - j \in ToSet(all)
  <2>1. \A j \in 1..t : k + j \in 1..(k + t)
    <3>1. k \in Nat
      BY <1>3
    <3>2. QED
      BY <3>1
  <2>2. \A j \in 1..t : all[k + j] = n - b - j
    BY <1>2 DEF k
  <2>3. QED
    BY <1>4, <2>1, <2>2
<1>7. ASSUME NEW x \in ToSet(all) PROVE x \in ToSet(items) \/ \E j \in 1..t : x = n - b - j
  <2>1. PICK i \in 1..(k + t) : all[i] = x
    BY <1>4
  <2>2. CASE i <= k
    <3>1. i \in 1..k /\ items[i] = x
      BY <1>3, <1>2, <2>1, <2>2 DEF k
    <3>2. QED
      BY <1>4, <3>1
  <2>3. CASE ~(i <= k)
    <3>1. i - k \in 1..t /\ k + (i - k) = i
      <4>1. k \in Nat /\ t \in Nat
        BY <1>3
      <4>2. i \in Nat /\ i <= k + t /\ i > k
        BY <2>3, <4>1
      <4>3. i - k \in 1..t
        BY <4>1, <4>2
      <4>4. k + (i - k) = i
        BY <4>1, <4>2
      <4>5. QED
        BY <4>3, <4>4
    <3>2. all[k + (i - k)] = n - b - (i - k)
      BY <1>2, <3>1 DEF k
    <3>3. QED
      BY <2>1, <3>1, <3>2
  <2>4. QED
    BY <2>2, <2>3
<1> DEFINE last == n - b - t
           least == IF m <= last THEN m ELSE last
<1>8. last \in Nat /\ least \in Nat /\ least <= m /\ least <= last
  OBVIOUS
<1>9. least \in ToSet(all)
  <2>1. CASE m <= last /\ items # <<>>
    BY <1>5, <2>1
  <2>2. CASE ~(m <= last)
    <3>1. t \in 1..t
      BY <2>2
    <3>2. QED
      BY <1>6, <2>2, <3>1
  <2>3. CASE m <= last /\ items = <<>>
    BY <2>3
  <2>4. QED
    BY <2>1, <2>2, <2>3
<1>10. \A x \in ToSet(items) : x \in Nat
  BY SeqIs
<1>11. ASSUME NEW x \in ToSet(all) PROVE least <= x
  <2>1. CASE x \in ToSet(items)
    BY <1>8, <1>10, <1>2, <2>1
  <2>2. CASE \E j \in 1..t : x = n - b - j
    <3>1. PICK j \in 1..t : x = n - b - j
      BY <2>2
    <3>2. last <= x
      BY <3>1
    <3>3. QED
      BY <1>8, <3>1, <3>2
  <2>3. QED
    BY <1>7, <2>1, <2>2
<1>12. ASSUME NEW x \in least..(h - 1) PROVE x \in ToSet(all)
  <2>1. CASE m <= x
    <3>1. x \in m..(h - 1)
      BY <1>8, <2>1
    <3>2. QED
      BY <1>5, <1>2, <3>1
  <2>2. CASE ~(m <= x)
    <3>1. n - b - x \in 1..t /\ n - b - (n - b - x) = x
      BY <1>8, <2>2
    <3>2. QED
      BY <1>6, <3>1
  <2>3. QED
    BY <2>1, <2>2
<1>13. t = 0 => least = m
  OBVIOUS
<1> HIDE DEF least
<1>14. QED
  BY <1>8, <1>9, <1>11, <1>12, <1>13 DEF last, Spans

\* A page of a sequence: p items after the first b, or as many as there are.
IsSlice(slice, s, b, p) ==
  /\ Len(slice) = IF Len(s) <= b THEN 0 ELSE IF b + p <= Len(s) THEN p ELSE Len(s) - b
  /\ \A j \in 1..Len(slice) : slice[j] = s[b + j]

LEMMA SliceIs ==
  ASSUME NEW S, NEW s \in Seq(S), NEW b \in Nat, NEW p \in Nat \ {0}
  PROVE  LET slice == SubSeq(s, b + 1, Min({b + p, Len(s)}))
         IN  slice \in Seq(S) /\ IsSlice(slice, s, b, p)
<1> DEFINE m == Min({b + p, Len(s)})
           slice == SubSeq(s, b + 1, m)
<1>1. Len(s) \in Nat /\ \A i \in 1..Len(s) : s[i] \in S
  OBVIOUS
<1>2. m = IF b + p <= Len(s) THEN b + p ELSE Len(s)
  <2>1. b + p \in Int /\ Len(s) \in Int
    BY <1>1
  <2>2. QED
    BY ONLY <2>1, LesserIs
<1> HIDE DEF m
<1>3. m \in Int /\ b + 1 \in Int /\ \A i \in (b + 1)..m : s[i] \in S
  BY <1>1, <1>2
<1> DEFINE a == b + 1
<1> HIDE DEF a
<1>4. a \in Int /\ m \in Int /\ \A i \in a..m : s[i] \in S
  BY <1>3 DEF a
<1>5. /\ SubSeq(s, a, m) \in Seq(S) /\ Len(SubSeq(s, a, m)) = (IF a <= m THEN m - a + 1 ELSE 0)
      /\ \A i \in 1..(m - a + 1) : SubSeq(s, a, m)[i] = s[a + i - 1]
  BY <1>4, SubSeqProperties
<1>6. slice = SubSeq(s, a, m)
  BY DEF a
<1> HIDE DEF slice
<1>7. Len(slice) = IF Len(s) <= b THEN 0 ELSE IF b + p <= Len(s) THEN p ELSE Len(s) - b
  BY <1>1, <1>2, <1>5, <1>6 DEF a
<1>8. \A j \in 1..Len(slice) : slice[j] = s[b + j]
  <2> SUFFICES ASSUME NEW j \in 1..Len(slice) PROVE slice[j] = s[b + j]
    OBVIOUS
  <2>1. j \in 1..(m - a + 1) /\ a + j - 1 = b + j
    BY <1>1, <1>2, <1>7 DEF a
  <2>2. QED
    BY <1>5, <1>6, <2>1
<1>9. slice \in Seq(S) /\ IsSlice(slice, s, b, p)
  BY <1>5, <1>6, <1>7, <1>8 DEF IsSlice
<1>10. QED
  BY <1>9 DEF slice, m

LEMMA HistoryIs ==
  ASSUME NEW r, commits[r] \in Nat
  PROVE  /\ History(r) \in Seq(Nat) /\ Len(History(r)) = commits[r]
         /\ \A i \in 1..Len(History(r)) : History(r)[i] = Len(History(r)) - i
<1> DEFINE n == commits[r]
           h == [i \in 1..n |-> n - i]
<1>1. History(r) = h /\ n \in Nat
  BY DEF History
<1> HIDE DEF n
<1>2. \A i \in 1..n : h[i] = n - i /\ h[i] \in Nat
  BY <1>1
<1>3. h \in [1..n -> Nat]
  BY <1>2
<1> HIDE DEF h
<1>4. h \in Seq(Nat) /\ Len(h) = n
  BY <1>1, <1>3
<1>5. QED
  BY <1>1, <1>2, <1>4 DEF n

\* What is listed.
LEMMA SourceIs ==
  ASSUME ExtractorsInvariant, Listing
  PROVE  /\ Len(Source) \in Nat /\ SizeOfPage \in Nat \ {0} /\ Limit \in Nat \ {0}
         /\ At("listing") => Source \in Seq(Repos)
         /\ ~At("listing") =>
              /\ At("scanning") /\ Step = "commits" /\ scan.todo = <<>> /\ Limit = MaxItems
              /\ scan.repo \in Repos
              /\ Source \in Seq(Nat) /\ Len(Source) = commits[scan.repo] /\ Len(Source) # 0
              /\ \A i \in 1..Len(Source) : Source[i] = Len(Source) - i
         /\ platform = "github" => SizeOfPage = PageSize
         /\ platform # "github" => SizeOfPage = Len(Source) + 1
<1>1. At("listing") => Source \in Seq(Repos)
  BY LimitType DEF ExtractorsInvariant
<1>2. ASSUME ~At("listing")
      PROVE  /\ At("scanning") /\ Step = "commits" /\ scan.todo = <<>> /\ Limit = MaxItems
             /\ scan.repo \in Repos
             /\ Source \in Seq(Nat) /\ Len(Source) = commits[scan.repo] /\ Len(Source) # 0
             /\ \A i \in 1..Len(Source) : Source[i] = Len(Source) - i
  <2>1. At("scanning") /\ Step = "commits" /\ scan.todo = <<>> /\ Limit = MaxItems
    BY <1>2 DEF Listing, Limit
  <2>2. scan.repo \in Repos /\ commits[scan.repo] \in Nat \ {0}
    BY <2>1 DEF ExtractorsInvariant, ScanFits, PlatformFits
  <2> DEFINE h == History(scan.repo)
  <2>3. Source = h
    BY <1>2 DEF Source
  <2>4. h \in Seq(Nat) /\ Len(h) = commits[scan.repo] /\ \A i \in 1..Len(h) : h[i] = Len(h) - i
    BY <2>2, HistoryIs
  <2> HIDE DEF h
  <2>5. QED
    BY <2>1, <2>2, <2>3, <2>4
<1>3. Len(Source) \in Nat
  <2>1. CASE At("listing")
    BY <1>1, <2>1
  <2>2. CASE ~At("listing")
    BY <1>2, <2>2
  <2>3. QED
    BY <2>1, <2>2
<1>4. SizeOfPage \in Nat \ {0} /\ Limit \in Nat \ {0}
  BY <1>3 DEF SizeOfPage, Limit
<1>5. QED
  BY <1>1, <1>2, <1>3, <1>4 DEF SizeOfPage

\* Only the page changes.
LEMMA PageChanges ==
  ASSUME ExtractorsInvariant, UNCHANGED <<platformVars, run, scan, cache, disk, failures>>,
         attempts' \in 0..MaxRetries, PageFits'
  PROVE  ExtractorsInvariant'
<1>1. PlatformFits' /\ RunFits'
  <2>1. PlatformFits'
    BY DEF ExtractorsInvariant, PlatformFits, platformVars
  <2>2. RunFits'
    BY DEF ExtractorsInvariant, RunFits, platformVars, At
  <2>3. QED
    BY <2>1, <2>2
<1>2. CacheFits'
  BY DEF ExtractorsInvariant, CacheFits, IsStore, IsFresh, Raises, platformVars, At
<1>3. ScanFits'
  BY DEF ExtractorsInvariant, ScanFits, platformVars, At, Step, Opening
<1>4. QuietFits'
  <2>1. Quiet' => Quiet
    BY DEF Quiet, platformVars, At
  <2>2. QED
    BY <2>1, QuietAsBefore DEF ExtractorsInvariant, QuietFits, platformVars
<1>5. QED
  BY <1>1, <1>2, <1>3, <1>4 DEF ExtractorsInvariant

\* The page after the next one has come.
LEMMA NextPageIs ==
  ASSUME ExtractorsInvariant, NextPage
  PROVE  LET b == page.number * SizeOfPage
             slice == SubSeq(Source, b + 1, Min({b + SizeOfPage, Len(Source)}))
         IN  /\ page' = [items |-> UpTo(Limit, page.items \o slice), number |-> page.number + 1,
                         ended |-> b + SizeOfPage >= Len(Source), refused |-> page.refused,
                         rewritten |-> page.rewritten, head |-> IF page.number = 0 THEN Len(Source) ELSE page.head]
             /\ b \in Nat
<1>1. IsPage(page) /\ SizeOfPage \in Nat /\ page.number \in Nat
  BY SourceIs DEF ExtractorsInvariant, PageFits, IsPage, NextPage
<1> DEFINE b == page.number * SizeOfPage
           slice == SubSeq(Source, b + 1, Min({b + SizeOfPage, Len(Source)}))
           items == UpTo(Limit, page.items \o slice)
           ended == b + SizeOfPage >= Len(Source)
           head == IF page.number = 0 THEN Len(Source) ELSE page.head
           new == [page EXCEPT !.items = items, !.number = @ + 1, !.ended = ended, !.head = head]
<1>2. b \in Nat /\ (page.number + 1) * SizeOfPage = b + SizeOfPage
  BY <1>1
<1>3. page' = [page EXCEPT !.items = UpTo(Limit, @ \o SubSeq(Source, page.number * SizeOfPage + 1,
                                                   Min({(page.number + 1) * SizeOfPage, Len(Source)}))),
                 !.number = @ + 1, !.ended = (page.number + 1) * SizeOfPage >= Len(Source),
                 !.head = IF page.number = 0 THEN Len(Source) ELSE @]
  BY DEF NextPage
<1>4. page' = new
  BY <1>2, <1>3
<1>5. page \in [items : {page.items}, number : {page.number}, ended : {page.ended},
                refused : {page.refused}, rewritten : {page.rewritten}, head : {page.head}]
  BY <1>1 DEF IsPage
<1> HIDE DEF items, ended, head
<1>6. new \in [items : {items}, number : {page.number + 1}, ended : {ended}, refused : {page.refused},
               rewritten : {page.rewritten}, head : {head}]
  BY <1>5
<1> HIDE DEF new
<1>7. new = [items |-> items, number |-> page.number + 1, ended |-> ended, refused |-> page.refused,
             rewritten |-> page.rewritten, head |-> head]
  BY <1>6
<1>8. QED
  BY <1>2, <1>4, <1>7 DEF items, ended, head

\* The commits that are listed when the next page has come: none is left out,
\* although some may be listed twice.
\* With at most limit items.
Appends(all, items, slice, t, limit) ==
  /\ all \in Seq(Nat) /\ t \in 0..Len(slice)
  /\ Len(all) < limit => t = Len(slice)
  /\ Extends(all, items, t)
  /\ \A j \in 1..t : all[Len(items) + j] = slice[j]
  /\ items = <<>> /\ Len(slice) >= 1 => t >= 1

LEMMA MoreItems ==
  ASSUME NEW items \in Seq(Nat), NEW slice \in Seq(Nat), NEW limit \in Nat, Len(items) < limit
  PROVE  LET all == UpTo(limit, items \o slice)
         IN  Appends(all, items, slice, Len(all) - Len(items), limit)
<1> DEFINE both == items \o slice
           all == UpTo(limit, both)
           k == Len(items)
           r == Len(slice)
           a == Len(all)
<1>1. both \in Seq(Nat) /\ Len(both) = k + r
      /\ \A i \in 1..(k + r) : both[i] = IF i <= k THEN items[i] ELSE slice[i - k]
  BY ConcatProperties
<1>2. k \in Nat /\ r \in Nat /\ (items = <<>> => k = 0) /\ k < limit
  OBVIOUS
<1>3. all \in Seq(Nat) /\ a = (IF limit <= Len(both) THEN limit ELSE Len(both)) /\ \A i \in 1..a : all[i] = both[i]
  <2> HIDE DEF both
  <2>1. both \in Seq(Nat) /\ limit \in Nat
    BY <1>1
  <2>2. QED
    BY <2>1, UpToIs
<1> HIDE DEF both, all
<1> HIDE DEF k, r, a
<1>4. a \in Nat /\ a - k \in 0..r /\ (a < limit => a - k = r) /\ (k = 0 /\ r >= 1 => a - k >= 1)
  BY <1>1, <1>2, <1>3
<1>5. \A i \in 1..k : all[i] = items[i]
  <2> SUFFICES ASSUME NEW i \in 1..k PROVE all[i] = items[i]
    OBVIOUS
  <2>1. i \in 1..a /\ i \in 1..(k + r) /\ i <= k
    BY <1>2, <1>4
  <2>2. QED
    BY <1>1, <1>3, <2>1
<1>6. \A j \in 1..(a - k) : all[k + j] = slice[j]
  <2> SUFFICES ASSUME NEW j \in 1..(a - k) PROVE all[k + j] = slice[j]
    OBVIOUS
  <2>1. k + j \in 1..a /\ k + j \in 1..(k + r) /\ ~(k + j <= k) /\ (k + j) - k = j
    BY <1>2, <1>4
  <2>2. QED
    BY <1>1, <1>3, <2>1
<1>7. Extends(all, items, a - k)
  BY <1>2, <1>4, <1>5 DEF Extends, k, a
<1>8. Appends(all, items, slice, a - k, limit)
  BY <1>2, <1>3, <1>4, <1>6, <1>7 DEF Appends, k, r, a
<1>9. QED
  BY <1>8 DEF all, both, a, k

\* The page new comes after old: p items after the first b of n.
NextOf(old, new, n, b, p, slice) ==
  /\ IsPage(old) /\ IsPage(new) /\ ~old.ended /\ Len(old.items) < MaxItems
  /\ CommitsListed(old, n)
  /\ new.items = UpTo(MaxItems, old.items \o slice) /\ new.number = old.number + 1
  /\ b = old.number * p
  /\ new.ended <=> b + p >= n
  /\ new.rewritten = old.rewritten
  /\ new.head = IF old.number = 0 THEN n ELSE old.head
  /\ old.number # 0 => p = PageSize
  /\ p = PageSize \/ n < p

\* How the old page, or none, covers what comes before.
LEMMA OldCovers ==
  ASSUME NEW old, NEW new, NEW n \in Nat \ {0}, NEW b \in Nat, NEW p \in Nat \ {0},
         NEW slice \in Seq(Nat), NextOf(old, new, n, b, p, slice), ~old.rewritten \/ old.items = <<>>
  PROVE  \E m \in Nat : /\ b <= n /\ m <= n - b
                        /\ Spans(old.items, m, new.head)
                        /\ old.items # <<>> => m \in ToSet(old.items)
                        /\ old.items = <<>> => m = n /\ b = 0
<1>1. /\ old.items \in Seq(Nat) /\ old.number \in Nat /\ old.head \in Nat
      /\ old.number = 0 <=> old.items = <<>>
  BY DEF NextOf, CommitsListed, IsPage
<1>2. CASE old.items = <<>>
  <2>1. old.number = 0 /\ new.head = n
    BY <1>1, <1>2 DEF NextOf
  <2>2. b = 0
    <3>1. b = old.number * p
      BY DEF NextOf
    <3>2. QED
      BY <2>1, <3>1
  <2>3. ToSet(old.items) = {}
    BY <1>2 DEF ToSet
  <2>4. n..(n - 1) = {}
    OBVIOUS
  <2>5. n \in Nat /\ b <= n /\ n <= n - b
    BY <2>2
  <2>6. QED
    BY <1>2, <2>1, <2>2, <2>3, <2>4, <2>5 DEF Spans
<1>3. CASE old.items # <<>>
  <2>1. old.number # 0 /\ new.head = old.head /\ p = PageSize /\ b = old.number * PageSize
    BY <1>1, <1>3 DEF NextOf
  <2>2. PICK m \in ToSet(old.items) : Covers(old, n, m)
    BY <1>3 DEF NextOf, CommitsListed
  <2>3. m \in Nat
    <3>1. \A s \in Seq(Nat) : \A i \in DOMAIN s : s[i] \in Nat
      OBVIOUS
    <3>2. QED
      BY <1>1, <3>1 DEF ToSet
  <2>4. b <= n /\ m <= n - b
    BY <2>1, <2>2 DEF Covers, NextOf
  <2>5. (\A sha \in ToSet(old.items) : m <= sha) /\ m..(new.head - 1) \subseteq ToSet(old.items)
    BY <2>1, <2>2 DEF Covers
  <2>6. QED
    BY <1>3, <2>2, <2>3, <2>4, <2>5 DEF Spans
<1>4. QED
  BY <1>2, <1>3

\* The commits that are listed when the next page has come: none is left out,
\* although some may be listed twice.
LEMMA CommitsGoOnInOrder ==
  ASSUME NEW old, NEW new, NEW n \in Nat \ {0}, NEW b \in Nat, NEW p \in Nat \ {0},
         NEW slice \in Seq(Nat), NextOf(old, new, n, b, p, slice), ~old.rewritten \/ old.items = <<>>,
         Len(slice) = IF n <= b THEN 0 ELSE IF b + p <= n THEN p ELSE n - b,
         \A j \in 1..Len(slice) : slice[j] = n - b - j
  PROVE  CommitsListed(new, n)
<1> DEFINE items == old.items
           all == new.items
           t == Len(all) - Len(items)
           h == new.head
<1>1. items \in Seq(Nat) /\ Len(items) < MaxItems /\ MaxItems \in Nat /\ Len(items) \in Nat
      /\ all = UpTo(MaxItems, items \o slice)
      /\ old.number \in Nat /\ new.number = old.number + 1 /\ h \in Nat
      /\ (new.ended <=> b + p >= n)
      /\ Len(slice) \in Nat
  <2>1. items \in Seq(Nat)
    BY DEF NextOf, CommitsListed
  <2>2. Len(items) \in Nat /\ Len(slice) \in Nat
    BY <2>1
  <2>3. QED
    BY <2>1, <2>2 DEF NextOf, IsPage
<1> HIDE DEF items, all, h
<1>2. Appends(all, items, slice, t, MaxItems)
  BY <1>1, MoreItems
<1>3. /\ all \in Seq(Nat) /\ Len(all) \in Nat /\ Len(all) = Len(items) + t
      /\ Extends(all, items, t)
  BY <1>1, <1>2 DEF Appends
<1> HIDE DEF t
<1>4. PICK m \in Nat : /\ b <= n /\ m <= n - b
                       /\ Spans(items, m, h)
                       /\ items # <<>> => m \in ToSet(items)
                       /\ items = <<>> => m = n /\ b = 0
  BY OldCovers DEF items, h
<1> DEFINE r == Len(slice)
<1>5. r \in Nat /\ t \in Nat /\ t <= r /\ r = IF n <= b THEN 0 ELSE IF b + p <= n THEN p ELSE n - b
  BY <1>1, <1>2 DEF Appends
<1>6. GoesDown(all, Len(items), t, n - b)
  <2>1. \A j \in 1..t : j \in 1..Len(slice)
    BY <1>1, <1>2 DEF Appends
  <2>2. QED
    BY <1>2, <2>1 DEF Appends, GoesDown
<1> HIDE DEF r
<1>7. b + t <= n
  BY <1>4, <1>5
<1>8. items = <<>> => t >= 1 /\ m = n /\ b = 0
  <2> SUFFICES ASSUME items = <<>> PROVE t >= 1
    BY <1>4
  <2>1. b = 0 /\ r >= 1
    BY <1>4, <1>5
  <2>2. QED
    BY <1>2, <2>1 DEF Appends, r
<1>9. PICK least \in ToSet(all) :
         least <= n - b - t /\ (t = 0 => least = m) /\ Spans(all, least, h)
  <2>1. items \in Seq(Nat) /\ all \in Seq(Nat) /\ {t, n, b, m, h} \subseteq Nat
    BY <1>1, <1>3, <1>5
  <2>2. MayGoOn(items, all, t, n, b, m, h)
    BY <1>3, <1>4, <1>6, <1>7, <1>8, <2>1 DEF MayGoOn
  <2>3. QED
    BY <2>2, MoreListed
<1>10. least \in Nat
  <2>1. ToSet(all) \subseteq Nat
    BY <1>3, SeqIs
  <2>2. QED
    BY <2>1
<1>11. ASSUME Len(all) < MaxItems, ~new.ended
       PROVE  new.number * PageSize <= n /\ least <= n - new.number * PageSize
  <2>1. b + p < n
    BY <1>1, <1>11
  <2>2. p = PageSize /\ b = old.number * p
    BY <2>1 DEF NextOf
  <2>3. new.number * PageSize = b + p
    BY <1>1, <2>2
  <2>4. t = p
    BY <1>2, <1>5, <1>11, <2>1 DEF r, Appends
  <2> DEFINE x == new.number * PageSize
  <2> HIDE DEF x
  <2>5. x = b + p
    BY <2>3 DEF x
  <2>6. x <= n /\ least <= n - x
    BY <1>9, <1>10, <2>1, <2>4, <2>5
  <2>7. QED
    BY <2>6 DEF x
<1>12. ASSUME Len(all) < MaxItems, new.ended
       PROVE  least = 0
  <2>1. b + p >= n
    BY <1>1, <1>12
  <2>2. t = r
    BY <1>2, <1>12 DEF r, Appends
  <2>3. t = n - b
    BY <1>4, <1>5, <2>1, <2>2
  <2>4. QED
    BY <1>4, <1>9, <1>10, <2>3
<1>13. Covers(new, n, least)
  BY <1>9, <1>11, <1>12 DEF Covers, all, h, Spans
<1>14. new.number # 0 /\ all # <<>>
  <2>1. ToSet(<<>>) = {}
    BY DEF ToSet
  <2>2. all # <<>>
    BY <1>9, <2>1
  <2>3. QED
    BY <1>1, <2>2
<1>15. QED
  BY <1>3, <1>9, <1>13, <1>14 DEF CommitsListed, all

LEMMA CommitsGoOn ==
  ASSUME NEW old, NEW new, NEW n \in Nat \ {0}, NEW b \in Nat, NEW p \in Nat \ {0},
         NEW slice \in Seq(Nat), NextOf(old, new, n, b, p, slice),
         Len(slice) = IF n <= b THEN 0 ELSE IF b + p <= n THEN p ELSE n - b,
         \A j \in 1..Len(slice) : slice[j] = n - b - j
  PROVE  CommitsListed(new, n)
<1>1. CASE ~old.rewritten \/ old.items = <<>>
  BY <1>1, CommitsGoOnInOrder
<1>2. CASE old.rewritten /\ old.items # <<>>
  <2> DEFINE items == old.items
             all == new.items
  <2>1. items \in Seq(Nat) /\ Len(items) < MaxItems /\ MaxItems \in Nat /\ all = UpTo(MaxItems, items \o slice)
        /\ old.number \in Nat /\ new.number = old.number + 1 /\ new.rewritten
    BY <1>2 DEF NextOf, CommitsListed, IsPage
  <2>2. Len(items) \in Nat /\ Len(items) # 0
    BY <1>2, <2>1
  <2> HIDE DEF items, all
  <2>3. Appends(all, items, slice, Len(all) - Len(items), MaxItems)
    BY <2>1, MoreItems
  <2>4. all \in Seq(Nat) /\ Len(all) - Len(items) \in Nat
    BY <2>3 DEF Appends
  <2>5. Len(all) \in Nat
    BY <2>4
  <2>6. Len(all) # 0
    BY <2>2, <2>4, <2>5
  <2>7. all # <<>> /\ new.number # 0
    BY <2>1, <2>6
  <2>8. QED
    BY <2>1, <2>4, <2>7 DEF CommitsListed, all
<1>3. QED
  BY <1>1, <1>2

LEMMA NextPageFits ==
  ASSUME ExtractorsInvariant, NextPage
  PROVE  ExtractorsInvariant'
<1>1. /\ Listing /\ ~page.ended /\ Len(page.items) < Limit
      /\ UNCHANGED <<platformVars, run, scan, cache, disk, failures>>
      /\ attempts' \in {0, attempts}
  BY DEF NextPage
<1>2. attempts' \in 0..MaxRetries
  BY <1>1 DEF ExtractorsInvariant, PlatformFits
<1> DEFINE b == page.number * SizeOfPage
           slice == SubSeq(Source, b + 1, Min({b + SizeOfPage, Len(Source)}))
<1>3. /\ page' = [items |-> UpTo(Limit, page.items \o slice), number |-> page.number + 1,
                  ended |-> b + SizeOfPage >= Len(Source), refused |-> page.refused,
                  rewritten |-> page.rewritten, head |-> IF page.number = 0 THEN Len(Source) ELSE page.head]
      /\ b \in Nat
  BY NextPageIs
<1>4. /\ page'.items = UpTo(Limit, page.items \o slice) /\ page'.number = page.number + 1
      /\ page'.ended = (b + SizeOfPage >= Len(Source)) /\ page'.refused = page.refused
      /\ page'.rewritten = page.rewritten /\ page'.head = IF page.number = 0 THEN Len(Source) ELSE page.head
  BY <1>3
<1>5. IsPage(page) /\ page.number \in Nat /\ page.head \in Nat
      /\ page.refused \in BOOLEAN /\ page.rewritten \in BOOLEAN
  BY DEF ExtractorsInvariant, PageFits, IsPage
<1>6. /\ Len(Source) \in Nat /\ SizeOfPage \in Nat \ {0} /\ Limit \in Nat \ {0}
      /\ platform = "github" => SizeOfPage = PageSize
      /\ platform # "github" => SizeOfPage = Len(Source) + 1
  BY <1>1, SourceIs
<1>7. IsPage(page')
  <2>1. page' = [items |-> page'.items, number |-> page'.number, ended |-> page'.ended,
                 refused |-> page'.refused, rewritten |-> page'.rewritten, head |-> page'.head]
    BY <1>3
  <2>2. page'.number \in Nat
    BY <1>4, <1>5
  <2> DEFINE len == Len(Source)
  <2>3. len \in Nat /\ page'.head = IF page.number = 0 THEN len ELSE page.head
    BY <1>4, <1>6
  <2> HIDE DEF len
  <2>4. page'.head \in Nat
    BY <1>5, <2>3
  <2>5. page'.ended \in BOOLEAN /\ page'.refused \in BOOLEAN /\ page'.rewritten \in BOOLEAN
    BY <1>4, <1>5
  <2>6. QED
    BY <2>1, <2>2, <2>4, <2>5 DEF IsPage
<1>8. Limit' = Limit /\ Listing' = Listing /\ At("listing")' = At("listing")
      /\ At("scanning")' = At("scanning")
  BY <1>1 DEF Limit, Source, Listing, At, Step, History, platformVars
<1>9. platform = "azure_devops" => page.number = 0 /\ page'.ended
  <2> SUFFICES ASSUME platform = "azure_devops" PROVE page.number = 0 /\ page'.ended
    OBVIOUS
  <2>1. page.number = 0
    BY <1>1 DEF ExtractorsInvariant, PageFits
  <2>2. b + SizeOfPage >= Len(Source)
    BY <1>3, <1>6
  <2>3. QED
    BY <1>4, <2>1, <2>2
<1>10. platform \in {"github", "azure_devops"}
  BY DEF ExtractorsInvariant, PlatformFits
<1>11. CASE At("listing")
  <2>1. Source \in Seq(Repos) /\ page.items \in Seq(Repos)
    BY <1>1, <1>11, SourceIs DEF ExtractorsInvariant, PageFits
  <2>2. slice \in Seq(Repos)
    BY <1>3, <1>6, <2>1, SliceIs
  <2> HIDE DEF slice
  <2> DEFINE both == page.items \o slice
  <2>3. both \in Seq(Repos)
    BY <2>1, <2>2
  <2> HIDE DEF both
  <2>4. /\ UpTo(Limit, both) \in Seq(Repos)
        /\ Len(UpTo(Limit, both)) = IF Limit <= Len(both) THEN Limit ELSE Len(both)
    BY <1>6, <2>3, UpToIs
  <2>5. page'.items = UpTo(Limit, both)
    BY <1>4 DEF both
  <2>6. page'.items \in Seq(Repos) /\ Len(page'.items) <= Limit
    <3>1. Len(both) \in Nat
      BY <2>3
    <3>2. QED
      BY <1>6, <2>4, <2>5, <3>1
  <2>7. ~At("scanning")
    BY <1>11 DEF At
  <2>8. PageFits'
    BY <1>1, <1>7, <1>8, <1>9, <2>6, <2>7 DEF PageFits, platformVars
  <2>9. QED
    BY <1>1, <1>2, <2>8, PageChanges
<1>12. CASE ~At("listing")
  <2> DEFINE n == Len(Source)
             p == SizeOfPage
  <2>1. /\ At("scanning") /\ Limit = MaxItems /\ scan.repo \in Repos
        /\ Source \in Seq(Nat) /\ n = commits[scan.repo] /\ n # 0
        /\ \A i \in 1..n : Source[i] = n - i
    BY <1>1, <1>12, SourceIs
  <2>2. n \in Nat \ {0} /\ p \in Nat \ {0}
    BY <1>6, <2>1
  <2>3. /\ slice \in Seq(Nat)
        /\ Len(slice) = IF n <= b THEN 0 ELSE IF b + p <= n THEN p ELSE n - b
        /\ \A j \in 1..Len(slice) : slice[j] = Source[b + j]
    <3>1. b \in Nat /\ SizeOfPage \in Nat \ {0} /\ Source \in Seq(Nat)
      BY <1>3, <1>6, <2>1
    <3> HIDE DEF b
    <3>2. slice \in Seq(Nat) /\ IsSlice(slice, Source, b, SizeOfPage)
      BY <3>1, SliceIs
    <3> HIDE DEF slice
    <3>3. QED
      BY <3>2 DEF IsSlice
  <2>4. b = page.number * p
    OBVIOUS
  <2> HIDE DEF n, p, b, slice
  <2>5. \A j \in 1..Len(slice) : slice[j] = n - b - j
    <3> SUFFICES ASSUME NEW j \in 1..Len(slice) PROVE slice[j] = n - b - j
      OBVIOUS
    <3> DEFINE r == Len(slice)
    <3>1. r = (IF n <= b THEN 0 ELSE IF b + p <= n THEN p ELSE n - b) /\ j \in 1..r
      BY <2>3
    <3> HIDE DEF r
    <3>2. b + j \in 1..n
      BY <1>3, <2>2, <3>1
    <3>3. slice[j] = Source[b + j]
      BY <2>3
    <3>4. b + j \in 1..n /\ Source[b + j] = n - (b + j)
      BY <2>1, <3>2
    <3>5. n \in Int /\ b \in Int /\ j \in Int
      BY <1>3, <2>2
    <3>6. n - (b + j) = n - b - j
      BY <3>5
    <3>7. QED
      BY <3>3, <3>4, <3>6
  <2>6. CommitsListed(page, n)
    BY <2>1 DEF ExtractorsInvariant, PageFits
  <2>7. page.number # 0 => p = PageSize
    BY <1>6, <1>9, <1>10 DEF p
  <2>8. p = PageSize \/ n < p
    <3>1. platform # "github" => p = n + 1
      BY <1>6 DEF p, n
    <3>2. platform = "github" => p = PageSize
      BY <1>6 DEF p
    <3>3. QED
      BY <2>2, <3>1, <3>2
  <2>9. page'.ended <=> b + p >= n
    BY <1>4 DEF n, p
  <2>10. NextOf(page, page', n, b, p, slice)
    BY <1>1, <1>4, <1>5, <1>7, <2>1, <2>4, <2>6, <2>7, <2>8, <2>9 DEF NextOf, n
  <2>11. CommitsListed(page', n)
    BY <1>3, <2>2, <2>3, <2>5, <2>10, CommitsGoOn
  <2>12. CommitsListed(page', commits'[scan'.repo])
    BY <1>1, <2>1, <2>11 DEF platformVars
  <2>13. Len(page'.items) <= Limit
    <3> DEFINE both == page.items \o slice
    <3>1. both \in Seq(Nat)
      <4>1. page.items \in Seq(Nat)
        BY <2>6 DEF CommitsListed
      <4>2. QED
        BY <2>3, <4>1
    <3> HIDE DEF both
    <3>2. Len(UpTo(Limit, both)) = IF Limit <= Len(both) THEN Limit ELSE Len(both)
      BY <1>6, <3>1, UpToIs
    <3>3. Len(both) \in Nat
      BY <3>1
    <3>4. page'.items = UpTo(Limit, both)
      BY <1>4 DEF both
    <3>5. QED
      BY <1>6, <3>2, <3>3, <3>4
  <2>14. PageFits'
    BY <1>1, <1>7, <1>8, <1>9, <1>12, <2>12, <2>13 DEF PageFits, platformVars
  <2>15. QED
    BY <1>1, <1>2, <2>14, PageChanges
<1>13. QED
  BY <1>11, <1>12

LEMMA LimitedFits ==
  ASSUME ExtractorsInvariant, Limited
  PROVE  ExtractorsInvariant'
<1>1. /\ UNCHANGED <<platformVars, run, scan, cache, disk, failures>>
      /\ attempts < MaxRetries /\ attempts' = attempts + 1
      /\ page' = IF Listing \/ Fetching THEN [page EXCEPT !.refused = TRUE, !.ended = platform = "github"] ELSE page
      /\ Listing \/ Fetching => ~page.ended
  BY DEF Limited, Refused, Asking, Listing, Fetching, At
<1>2. attempts' \in 0..MaxRetries
  BY <1>1 DEF ExtractorsInvariant, PlatformFits
<1>3. Limit' = Limit /\ Listing' = Listing /\ Fetching' = Fetching /\ At("listing")' = At("listing")
      /\ At("scanning")' = At("scanning")
  BY <1>1 DEF Limit, Source, Listing, Fetching, At, Step, History, platformVars
<1>4. PageFits
  BY DEF ExtractorsInvariant
<1>5. CASE ~(Listing \/ Fetching)
  <2>1. page' = page
    BY <1>1, <1>5
  <2>2. PageFits'
    BY <1>1, <1>3, <1>4, <2>1 DEF PageFits, platformVars
  <2>3. QED
    BY <1>1, <1>2, <2>2, PageChanges
<1>6. CASE Listing \/ Fetching
  <2> DEFINE ended == platform = "github"
             new == [page EXCEPT !.refused = TRUE, !.ended = ended]
  <2>1. page \in [items : {page.items}, number : {page.number}, ended : {page.ended},
                  refused : {page.refused}, rewritten : {page.rewritten}, head : {page.head}]
    BY <1>4 DEF PageFits, IsPage
  <2>2. page' = new
    BY <1>1, <1>6
  <2>3. ended \in BOOLEAN
    OBVIOUS
  <2>4. platform = "azure_devops" => page.number = 0
    BY <1>1, <1>4, <1>6, FirstPageFits DEF PageFits
  <2>5. ended \/ platform = "azure_devops"
    BY DEF ExtractorsInvariant, PlatformFits
  <2> HIDE DEF ended
  <2>6. new \in [items : {page.items}, number : {page.number}, ended : {ended}, refused : {TRUE},
                 rewritten : {page.rewritten}, head : {page.head}]
    BY <2>1
  <2> HIDE DEF new
  <2>7. page' = [items |-> page.items, number |-> page.number, ended |-> ended, refused |-> TRUE,
                 rewritten |-> page.rewritten, head |-> page.head]
    BY <2>2, <2>6
  <2>8. /\ page'.items = page.items /\ page'.number = page.number /\ page'.ended = ended
        /\ page'.refused = TRUE /\ page'.rewritten = page.rewritten /\ page'.head = page.head
    BY <2>7
  <2>9. IsPage(page')
    BY <1>4, <2>3, <2>7, <2>8 DEF PageFits, IsPage
  <2>10. ASSUME At("scanning") PROVE CommitsListed(page', commits[scan.repo])
    <3> DEFINE n == commits[scan.repo]
    <3>1. CommitsListed(page, n)
      BY <1>4, <2>10 DEF PageFits
    <3> HIDE DEF n
    <3>2. page.items # <<>> => ended
      BY <2>4, <2>5, <3>1 DEF CommitsListed
    <3>3. ASSUME NEW m, Covers(page, n, m), ended PROVE Covers(page', n, m)
      BY <2>8, <3>3 DEF Covers
    <3>4. CommitsListed(page', n)
      BY <2>8, <3>1, <3>2, <3>3 DEF CommitsListed
    <3>5. QED
      BY <3>4 DEF n
  <2>11. PageFits'
    <3>1. /\ Len(page.items) <= Limit
          /\ At("listing") => page.items \in Seq(Repos)
      BY <1>4 DEF PageFits
    <3>2. CommitsListed(page, commits[scan.repo])' <=> CommitsListed(page', commits[scan.repo])
      BY <1>1 DEF platformVars
    <3>3. platform' = platform
      BY <1>1 DEF platformVars
    <3>4. Fetching /\ ~Listing => page.items = <<>> /\ page.number = 0
      BY <1>4, FirstPageFits DEF PageFits
    <3>5. QED
      BY <1>3, <1>6, <2>4, <2>8, <2>9, <2>10, <3>1, <3>2, <3>3, <3>4 DEF PageFits
  <2>12. QED
    BY <1>1, <1>2, <2>11, PageChanges
<1>7. QED
  BY <1>5, <1>6

LEMMA ListingFailsFits ==
  ASSUME ExtractorsInvariant, ListingFails
  PROVE  ExtractorsInvariant'
<1>1. Listing /\ Fails /\ GiveUp /\ UNCHANGED <<platformVars, disk>> /\ MoreFailed
  BY FailsMore DEF ListingFails
<1>2. CASE At("listing")
  <2>1. EndRun /\ failures' \in Nat
    BY <1>1, <1>2 DEF GiveUp, MoreFailed
  <2>2. QED
    BY <1>1, <2>1, EndRunFits
<1>3. CASE ~At("listing")
  <2>1. At("scanning") /\ GoOn(NothingFound)
    BY <1>1, <1>3 DEF GiveUp, Listing
  <2>2. failures' # 0
    BY <1>1 DEF Fails, ExtractorsInvariant, PlatformFits
  <2>3. FoundFits(platform, NothingFound)
    BY NothingFits
  <2>4. QED
    BY <1>1, <2>1, <2>2, <2>3, GoOnFits
<1>4. QED
  BY <1>2, <1>3

\* A list of commits that is at its end.
LEMMA CommitsFitAtEnd ==
  ASSUME NEW p, IsPage(p), NEW n, CommitsListed(p, n), p.ended \/ Len(p.items) = MaxItems,
         Len(p.items) <= MaxItems
  PROVE  CommitsFit(p)
<1> SUFFICES ASSUME p.items # <<>>, ~p.rewritten
             PROVE  /\ Min(ToSet(p.items))..(p.head - 1) \subseteq ToSet(p.items)
                    /\ Min(ToSet(p.items)) = 0 \/ Len(p.items) = MaxItems \/ p.refused
  BY DEF CommitsFit
<1>1. PICK m \in ToSet(p.items) : Covers(p, n, m)
  BY DEF CommitsListed
<1>2. p.items \in Seq(Nat) /\ ToSet(p.items) \subseteq Int
  <2>1. p.items \in Seq(Nat)
    BY DEF CommitsListed
  <2>2. ToSet(p.items) \subseteq Nat
    BY <2>1, SeqIs
  <2>3. QED
    BY <2>1, <2>2
<1>3. Min(ToSet(p.items)) = m
  <2>1. \A x \in ToSet(p.items) : m <= x
    BY <1>1 DEF Covers
  <2>2. QED
    BY <1>1, <1>2, <2>1, LeastIs
<1>4. m..(p.head - 1) \subseteq ToSet(p.items)
  BY <1>1 DEF Covers
<1>5. m = 0 \/ Len(p.items) = MaxItems \/ p.refused
  <2>1. Len(p.items) \in Nat /\ MaxItems \in Nat
    BY <1>2
  <2>2. Len(p.items) = MaxItems \/ (Len(p.items) < MaxItems /\ p.ended)
    BY <2>1
  <2>3. QED
    BY <1>1, <2>2 DEF Covers
<1>6. QED
  BY <1>3, <1>4, <1>5

LEMMA ListingReturnsFits ==
  ASSUME ExtractorsInvariant, ListingReturns
  PROVE  ExtractorsInvariant'
<1>1. /\ Listing /\ (page.ended \/ Len(page.items) = Limit)
      /\ UNCHANGED <<platformVars, disk, failures>>
  BY DEF ListingReturns
<1>2. PageFits
  BY DEF ExtractorsInvariant
<1>3. CASE At("listing")
  <2>1. /\ run' = [run EXCEPT !.at = "choosing", !.items = page.items, !.refused = page.refused]
        /\ page' = FirstPage /\ attempts' = 0 /\ UNCHANGED <<scan, cache>>
    BY <1>3 DEF ListingReturns
  <2>2. PlatformFits'
    BY <1>1, <2>1 DEF ExtractorsInvariant, PlatformFits, platformVars
  <2>3. RunFits' /\ ~At("scanning")'
    <3>1. run \in [at : Places, filing : BOOLEAN, public : BOOLEAN, items : Seq(Repos), index : Nat,
                  refused : BOOLEAN]
      BY DEF ExtractorsInvariant, RunFits
    <3>2. page.items \in Seq(Repos) /\ page.refused \in BOOLEAN /\ "choosing" \in Places
      BY <1>2, <1>3 DEF PageFits, IsPage, Places
    <3>3. run' \in [at : Places, filing : BOOLEAN, public : BOOLEAN, items : Seq(Repos), index : Nat,
                   refused : BOOLEAN]
      BY <2>1, <3>1, <3>2
    <3>4. run'.at = "choosing"
      BY <2>1, <3>1
    <3>5. run'.items = page.items /\ run'.index = run.index
      BY <2>1, <3>1
    <3>6. run'.public = run.public
      BY <2>1, <3>1
    <3>7. run.index = 0 /\ (platform = "azure_devops" => ~run.public)
      BY <1>3 DEF ExtractorsInvariant, RunFits
    <3>8. run'.index <= Len(run'.items)
      BY <3>2, <3>5, <3>7
    <3>9. QED
      BY <1>1, <3>3, <3>4, <3>6, <3>7, <3>8 DEF RunFits, At, platformVars
  <2>4. IsStore(disk)'
    BY <1>1 DEF ExtractorsInvariant, CacheFits, IsStore
  <2>5. scan' = NoScan /\ cache' = <<>>
    BY <1>3, <2>1 DEF ExtractorsInvariant, ScanFits, CacheFits, At
  <2>6. QED
    BY <2>1, <2>2, <2>3, <2>4, <2>5, NothingUnderWayNext DEF ExtractorsInvariant
<1>4. CASE ~At("listing")
  <2> DEFINE found == [NothingFound EXCEPT !.commits = page]
  <2>1. At("scanning") /\ Step = "commits" /\ GoOn(found) /\ Limit = MaxItems
    BY <1>1, <1>4, SourceIs DEF ListingReturns, Listing
  <2>2. CommitsFit(page)
    <3>1. CommitsListed(page, commits[scan.repo]) /\ IsPage(page) /\ Len(page.items) <= Limit
      BY <1>2, <2>1 DEF PageFits
    <3>2. QED
      BY <1>1, <2>1, <3>1, CommitsFitAtEnd
  <2>3. FoundFits(platform, found)
    BY <2>2, FoundWith
  <2>4. Concludes(found)
    BY <2>1 DEF Concludes
  <2>5. MoreFailed
    BY <1>1 DEF MoreFailed, ExtractorsInvariant, PlatformFits
  <2> HIDE DEF found
  <2>6. QED
    BY <1>1, <2>1, <2>3, <2>4, <2>5, GoOnFits
<1>5. QED
  BY <1>3, <1>4

LEMMA Preserved ==
  ExtractorsInvariant /\ [Next]_vars => ExtractorsInvariant'
<1> SUFFICES ASSUME ExtractorsInvariant, [Next]_vars
             PROVE  ExtractorsInvariant'
  OBVIOUS
<1>1. CASE \E r \in Repos : Push(r)
  BY <1>1, PushFits
<1>0. CASE \E r \in Repos : ForcePush(r)
  BY <1>0, ForcePushFits
<1>2. CASE \E r \in Repos : CreateRepository(r)
  BY <1>2, CreateRepositoryFits
<1>3. CASE BeginRun
  BY <1>3, BeginRunFits
<1>4. CASE FailScan
  BY <1>4, FailScanFits
<1>5. CASE Abort \/ Finish
  BY <1>5, FinishFits
<1>6. CASE LookUp
  BY <1>6, LookUpFits
<1>7. CASE ChooseNext
  BY <1>7, ChooseNextFits
<1>8. CASE AskCache
  BY <1>8, AskCacheFits
<1>9. CASE AskPlatform
  BY <1>9, AskPlatformFits
<1>10. CASE AskInVain
  BY <1>10, AskInVainFits
<1>11. CASE AskFails
  BY <1>11, AskFailsFits
<1>12. CASE FinishStep
  BY <1>12, FinishStepFits
<1>13. CASE FetchPulls
  BY <1>13, FetchPullsFits
<1>14. CASE NextPage
  BY <1>14, NextPageFits
<1>15. CASE Limited
  BY <1>15, LimitedFits
<1>16. CASE ListingFails
  BY <1>16, ListingFailsFits
<1>17. CASE ListingReturns
  BY <1>17, ListingReturnsFits
<1>18. CASE UNCHANGED vars
  <2>1. /\ PlatformFits' = PlatformFits /\ RunFits' = RunFits
        /\ CacheFits' = CacheFits
        /\ At("scanning")' = At("scanning") /\ At("listing")' = At("listing")
    BY <1>18 DEF vars, platformVars, PlatformFits, RunFits, CacheFits, IsFresh, Raises, At
  <2>2. Limit' = Limit /\ Listing' = Listing /\ Fetching' = Fetching
    BY <1>18 DEF vars, platformVars, Limit, Source, Listing, Fetching, At, Step, History
  <2>3. PageFits' = PageFits
    BY <1>18, <2>1, <2>2 DEF vars, platformVars, PageFits
  <2> DEFINE same == scan' = scan /\ revision' = revision /\ platform' = platform /\ run' = run
                     /\ cache' = cache /\ failures' = failures
  <2>4. same /\ Step' = Step
    BY <1>18 DEF vars, platformVars, Step
  <2>5. Opening(scan.repo, Step)' = Opening(scan.repo, Step)
    BY <2>4 DEF Opening
  <2>6. ScanFits'
    BY <2>1, <2>4, <2>5 DEF ExtractorsInvariant, ScanFits
  <2>7. Quiet' = Quiet
    BY <2>1, <2>4 DEF Quiet
  <2>10. QuietFits'
    BY <2>4, <2>7, QuietAsBefore DEF ExtractorsInvariant, QuietFits
  <2>11. QED
    BY <2>1, <2>3, <2>6, <2>10 DEF ExtractorsInvariant
<1>19. QED
  BY <1>1, <1>0, <1>2, <1>3, <1>4, <1>5, <1>6, <1>7, <1>8, <1>9, <1>10, <1>11, <1>12, <1>13, <1>14, <1>15,
     <1>16, <1>17, <1>18 DEF Next, Extract

\* The whole of it, in every state of every behaviour: what the caches hold,
\* the page a listing has come to, the scan and what it has found.
THEOREM ExtractorsHold == Spec => []ExtractorsInvariant
<1>1. QED
  BY Initial, Preserved, PTL DEF Spec

-----------------------------------------------------------------------------
(* What the runs check.                                                    *)

\* The variables have their types, for every configuration (the dataclasses of
\* extractors/base.py, the keys of extractors/cache.py).
THEOREM ExtractorsTypes == Spec => []ExtractorsTypeOK
<1>1. ExtractorsInvariant => ExtractorsTypeOK
  <2> SUFFICES ASSUME ExtractorsInvariant PROVE ExtractorsTypeOK
    OBVIOUS
  <2>1. run.at \in Places /\ run.items \in Seq(Repos) /\ run.index \in Nat /\ run.index <= Len(run.items)
    BY DEF ExtractorsInvariant, RunFits
  <2>2. Len(run.items) \in Nat /\ ToSet(run.items) \subseteq Repos
    BY <2>1, SeqIs
  <2>3. run.index \in 0..Len(run.items)
    BY <2>1, <2>2
  <2>4. attempts \in 0..MaxRetries
    BY DEF ExtractorsInvariant, PlatformFits
  <2>5. ASSUME NEW key \in DOMAIN cache \cup DOMAIN disk PROVE key[2] \in Repos
    <3>1. key \in AllKeys
      BY DEF ExtractorsInvariant, CacheFits, IsStore
    <3>2. PICK r \in Repos : key \in Keys(r)
      BY <3>1 DEF AllKeys
    <3>3. key[2] = r
      BY <3>2, KeysAre
    <3>4. QED
      BY <3>3
  <2>6. scan.step \in DOMAIN Steps /\ Len(page.items) <= Limit
    BY DEF ExtractorsInvariant, ScanFits, PageFits
  <2>7. QED
    BY <2>1, <2>2, <2>3, <2>4, <2>5, <2>6 DEF ExtractorsTypeOK, Places
<1>2. QED
  BY <1>1, ExtractorsHold, PTL

\* No answer of an earlier scan is used again (extractors/cache.py, clear_cache
\* at the end of each repository).
THEOREM Freshness == Spec => []AnswersAreFresh
<1>1. ExtractorsInvariant => AnswersAreFresh
  <2> SUFFICES ASSUME ExtractorsInvariant, ~run.filing, NEW key \in DOMAIN cache
               PROVE  cache[key].rev >= scan.from
    BY DEF AnswersAreFresh
  <2>1. cache[key].rev \in scan.from..revision[scan.repo]
    BY DEF ExtractorsInvariant, CacheFits, IsFresh
  <2>2. QED
    BY <2>1
<1>2. QED
  BY <1>1, ExtractorsHold, PTL

\* Pushes while the commits of a repository are listed leave none out of the
\* list (get_commits of both extractors), unless one of them rewrites the
\* history between two pages.
THEOREM CommitsAreListed == Spec => []NoCommitIsLeftOut
<1>1. ExtractorsInvariant => NoCommitIsLeftOut
  BY DEF ExtractorsInvariant, ScanFits, FoundFits, CommitsFit, NoCommitIsLeftOut
<1>2. QED
  BY <1>1, ExtractorsHold, PTL

\* Every README in a directory is placed under the nearest one above it, which
\* comes before it, and those of the root under none, or on Azure DevOps under
\* each other (find_parent_readme and get_readme_files of both extractors).
THEOREM ReadmesAreUnderParents == Spec => []ParentsAreAbove
<1>1. ExtractorsInvariant => ParentsAreAbove
  <2> SUFFICES ASSUME ExtractorsInvariant PROVE ParentsAreAbove
    OBVIOUS
  <2>1. ReadmesFit(platform, scan.found.readmes)
    BY DEF ExtractorsInvariant, ScanFits, FoundFits
  <2>2. QED
    BY <2>1 DEF ReadmesFit, ParentsAreAbove
<1>2. QED
  BY <1>1, ExtractorsHold, PTL

\* What is said of a pull request adds up, whichever of its calls failed
\* (get_pull_requests of both extractors).
THEOREM PullRequestsAddUp == Spec => []PullsAddUp
<1>1. ExtractorsInvariant => PullsAddUp
  <2> SUFFICES ASSUME ExtractorsInvariant PROVE PullsAddUp
    OBVIOUS
  <2>1. PullsFit(platform, scan.found.pulls)
    BY DEF ExtractorsInvariant, ScanFits, FoundFits
  <2>2. QED
    BY <2>1 DEF PullsFit, PullsAddUp
<1>2. QED
  BY <1>1, ExtractorsHold, PTL

\* A scan that nothing disturbs comes out of its steps with what is there
\* (get_file_tree, get_readme_files, extract_dependencies and the languages and
\* technologies of both extractors), and on GitHub, where one file that is not
\* UTF-8 raises past the method that reads it, with no README or no manifest
\* at all if there is one among them.
THEOREM QuietScans == Spec => []QuietScanIsComplete
<1>1. ExtractorsInvariant => QuietScanIsComplete
  <2> SUFFICES ASSUME ExtractorsInvariant, Quiet
               PROVE  /\ Step = "detections" /\ platform = "azure_devops" =>
                           scan.found.languages = CountLanguages(Actual)
                      /\ Step = "readmes" => scan.found.technologies = Detect(Actual)
                      /\ Step = "commits" => scan.found.readmes = AllReadmes
                      /\ Step = "stamp" => scan.found.manifests = AllManifests
    BY DEF QuietScanIsComplete, Quiet, Actual, Full, AllReadmes, AllManifests, LostReadmes, LostManifests
  <2>1. QED
    BY DEF ExtractorsInvariant, QuietFits
<1>2. QED
  BY <1>1, ExtractorsHold, PTL

-----------------------------------------------------------------------------
(* Which lists a refusal may lose.                                         *)

\* Elsewhere than in a listing of repositories: the page stays or is a new
\* one, and the list of the run stays or is dropped.
Settles ==
  /\ page'.refused => page.refused
  /\ At("listing")' => page' = FirstPage \/ (At("listing") /\ page' = page)
  /\ run'.refused => run.refused /\ run'.items = run.items

LEMMA NothingSettles == run' = Nothing /\ page' \in {page, FirstPage} => Settles
BY FirstPageFits DEF Settles, Nothing, At

LEMMA SameSettles == UNCHANGED run /\ page' \in {page, FirstPage} => Settles
BY FirstPageFits DEF Settles, At

LEMMA RewrittenSettles ==
  ASSUME ExtractorsInvariant, NEW r \in Repos, ForcePush(r)
  PROVE  Settles
<1>1. page'.refused = page.refused /\ UNCHANGED run
  BY ForcePushPage DEF ForcePush
<1>2. ~At("listing")
  BY DEF ForcePush, ExtractorsInvariant, ScanFits, NoScan, At
<1>3. QED
  BY <1>1, <1>2 DEF Settles, At

LEMMA GoOnSettles ==
  ASSUME ExtractorsInvariant, NEW found, GoOn(found)
  PROVE  Settles
<1>1. CASE UNCHANGED run
  BY <1>1, SameSettles DEF GoOn
<1>2. CASE run' = [run EXCEPT !.at = "choosing"]
  <2>1. run'.at = "choosing" /\ run'.refused = run.refused /\ run'.items = run.items
    BY <1>2 DEF ExtractorsInvariant, RunFits
  <2>2. QED
    BY <2>1, FirstPageFits DEF Settles, At, GoOn
<1>3. QED
  BY <1>1, <1>2 DEF GoOn

LEMMA ScanSettles ==
  ASSUME ExtractorsInvariant,
         AskCache \/ AskPlatform \/ AskInVain \/ AskFails \/ FinishStep \/ FetchPulls \/ FailScan
  PROVE  Settles
<1>1. CASE AskCache \/ AskPlatform \/ AskInVain
  BY <1>1, SameSettles DEF AskCache, AskPlatform, AskInVain
<1>2. CASE AskFails \/ FinishStep
  BY <1>2, GoOnSettles DEF AskFails, FinishStep
<1>4. CASE FetchPulls
  <2>1. \E found : GoOn(found)
    BY <1>4 DEF FetchPulls, FetchPull
  <2>2. QED
    BY <2>1, GoOnSettles
<1>3. CASE FailScan
  <2>1. page' = FirstPage /\ run' = [run EXCEPT !.at = "choosing"]
    BY <1>3 DEF FailScan
  <2>2. run'.at = "choosing" /\ run'.refused = run.refused /\ run'.items = run.items
    BY <2>1 DEF ExtractorsInvariant, RunFits
  <2>3. QED
    BY <2>1, <2>2, FirstPageFits DEF Settles, At
<1>5. QED
  BY <1>1, <1>2, <1>3, <1>4

LEMMA RunSettles ==
  ASSUME ExtractorsInvariant, BeginRun \/ LookUp \/ ChooseNext \/ Finish \/ Abort
  PROVE  Settles
<1>1. CASE Finish \/ Abort
  BY <1>1, NothingSettles DEF Finish, Abort, EndRun
<1>2. CASE BeginRun \/ LookUp \/ ChooseNext
  <2>1. page' = page /\ page = FirstPage
    <3>1. Idle /\ page' = page
      BY <1>2 DEF Idle, At, BeginRun, LookUp, ChooseNext
    <3>2. QED
      BY <3>1, IdleIs
  <2>2. run'.refused => run.refused /\ run'.items = run.items
    <3>1. CASE BeginRun
      BY <3>1 DEF BeginRun, Nothing
    <3>2. CASE LookUp
      BY <3>2 DEF LookUp, ExtractorsInvariant, RunFits
    <3>3. CASE ChooseNext
      BY <3>3 DEF ChooseNext, ExtractorsInvariant, RunFits
    <3>4. QED
      BY <1>2, <3>1, <3>2, <3>3
  <2>3. QED
    BY <2>1, <2>2 DEF Settles
<1>3. QED
  BY <1>1, <1>2

\* Every step but those of a listing.
LEMMA OthersSettle ==
  ASSUME ExtractorsInvariant, [Next]_vars,
         ~NextPage, ~Limited, ~(ListingReturns /\ At("listing"))
  PROVE  Settles
<1>1. CASE \E r \in Repos : Push(r) \/ CreateRepository(r)
  BY <1>1, SameSettles DEF Push, CreateRepository
<1>7. CASE \E r \in Repos : ForcePush(r)
  BY <1>7, RewrittenSettles
<1>2. CASE AskCache \/ AskPlatform \/ AskInVain \/ AskFails \/ FinishStep \/ FetchPulls \/ FailScan
  BY <1>2, ScanSettles
<1>3. CASE BeginRun \/ LookUp \/ ChooseNext \/ Finish \/ Abort
  BY <1>3, RunSettles
<1>4. CASE ListingFails
  BY <1>4, NothingSettles, GoOnSettles DEF ListingFails, GiveUp, EndRun
<1>5. CASE ListingReturns
  BY <1>5, GoOnSettles DEF ListingReturns
<1>6. CASE UNCHANGED vars
  BY <1>6, SameSettles DEF vars
<1>8. QED
  BY <1>1, <1>2, <1>3, <1>4, <1>5, <1>6, <1>7 DEF Next, Extract

\* What the steps of a listing do to the page and to the run.
LEMMA ListingSteps ==
  ASSUME ExtractorsInvariant
  PROVE  /\ NextPage => page'.refused = page.refused /\ UNCHANGED <<run, org>>
         /\ Limited => /\ attempts < MaxRetries /\ UNCHANGED <<run, org>>
                       /\ Listing => page'.ended = (platform = "github")
         /\ ListingReturns /\ At("listing") =>
              /\ page' = FirstPage /\ UNCHANGED org /\ ~At("listing")'
              /\ run'.refused = page.refused /\ run'.items = page.items
<1>1. IsPage(page) /\ page = [items |-> page.items, number |-> page.number, ended |-> page.ended,
                              refused |-> page.refused, rewritten |-> page.rewritten, head |-> page.head]
  BY DEF ExtractorsInvariant, PageFits, IsPage
<1>2. ASSUME NextPage PROVE page'.refused = page.refused /\ UNCHANGED <<run, org>>
  BY <1>2, NextPageIs DEF NextPage, platformVars
<1>3. ASSUME Limited
      PROVE  /\ attempts < MaxRetries /\ UNCHANGED <<run, org>>
             /\ Listing => page'.ended = (platform = "github")
  <2>1. /\ attempts < MaxRetries /\ UNCHANGED <<run, org>>
        /\ Listing => page' = [page EXCEPT !.refused = TRUE, !.ended = platform = "github"]
    BY <1>3 DEF Limited, Refused, platformVars
  <2>2. Listing => page'.ended = (platform = "github")
    BY <1>1, <2>1
  <2>3. QED
    BY <2>1, <2>2
<1>4. ASSUME ListingReturns, At("listing")
      PROVE  /\ page' = FirstPage /\ UNCHANGED org /\ ~At("listing")'
             /\ run'.refused = page.refused /\ run'.items = page.items
  <2>1. /\ run' = [run EXCEPT !.at = "choosing", !.items = page.items, !.refused = page.refused]
        /\ page' = FirstPage /\ UNCHANGED org
    BY <1>4 DEF ListingReturns, platformVars
  <2>2. QED
    BY <2>1 DEF ExtractorsInvariant, RunFits, At
<1>5. QED
  BY <1>2, <1>3, <1>4

\* Without retries nothing is ever refused and gone on with.
Unrefused == ~page.refused /\ ~run.refused

LEMMA UnrefusedStep ==
  ASSUME ExtractorsInvariant, MaxRetries = 0, Unrefused, [Next]_vars
  PROVE  Unrefused'
<1>1. CASE NextPage
  BY <1>1, ListingSteps DEF Unrefused
<1>2. ~Limited
  <2>1. attempts \in 0..MaxRetries
    BY DEF ExtractorsInvariant, PlatformFits
  <2>2. QED
    BY <2>1, ListingSteps
<1>3. CASE ListingReturns /\ At("listing")
  BY <1>3, ListingSteps, FirstPageFits DEF Unrefused
<1>4. CASE ~NextPage /\ ~(ListingReturns /\ At("listing"))
  BY <1>2, <1>4, OthersSettle, FirstPageFits DEF Unrefused, Settles
<1>5. QED
  BY <1>1, <1>3, <1>4

\* Azure DevOps has the whole of a scope on its one page, and a page that is
\* refused is asked for again.
ListsAll ==
  /\ org # <<>>
  /\ At("listing") /\ page.ended => page.items # <<>>
  /\ run.refused => run.items # <<>>

LEMMA OnePageIs ==
  ASSUME ExtractorsInvariant, platform = "azure_devops", org # <<>>, At("listing"), NextPage
  PROVE  page'.items # <<>>
<1> DEFINE b == page.number * SizeOfPage
           slice == SubSeq(Source, b + 1, Min({b + SizeOfPage, Len(Source)}))
<1>1. Listing
  BY DEF NextPage
<1>2. Source \in Seq(Repos) /\ Len(Source) >= 1
  <2>1. Source = org /\ org \in Seq(Repos)
    BY DEF Source, ExtractorsInvariant, RunFits, PlatformFits
  <2>2. QED
    BY <2>1
<1>3. SizeOfPage = Len(Source) + 1 /\ SizeOfPage \in Nat \ {0} /\ Limit \in Nat \ {0} /\ Len(Source) \in Nat
  BY <1>1, SourceIs
<1>4. page.number = 0 /\ page.items \in Seq(Repos)
  BY DEF ExtractorsInvariant, PageFits, NextPage
<1>5. page'.items = UpTo(Limit, page.items \o slice)
  BY NextPageIs
<1>6. b = 0
  BY <1>3, <1>4
<1>7. slice \in Seq(Repos) /\ Len(slice) >= 1
  <2>1. b \in Nat
    BY <1>6
  <2> HIDE DEF b
  <2>2. slice \in Seq(Repos) /\ IsSlice(slice, Source, b, SizeOfPage)
    BY <1>2, <1>3, <2>1, SliceIs
  <2> HIDE DEF slice
  <2>3. QED
    BY <1>2, <1>3, <1>6, <2>2 DEF IsSlice
<1> HIDE DEF slice
<1> DEFINE all == page.items \o slice
<1>8. all \in Seq(Repos) /\ Len(all) >= 1
  BY <1>4, <1>7
<1> HIDE DEF all
<1>9. UpTo(Limit, all) \in Seq(Repos) /\ Len(UpTo(Limit, all)) >= 1
  <2>1. Limit \in Nat /\ Limit >= 1
    BY <1>3
  <2>2. /\ UpTo(Limit, all) \in Seq(Repos)
        /\ Len(UpTo(Limit, all)) = IF Limit <= Len(all) THEN Limit ELSE Len(all)
    BY <1>8, <2>1, UpToIs
  <2>3. QED
    BY <1>8, <2>1, <2>2
<1>10. page'.items = UpTo(Limit, all)
  BY <1>5 DEF all
<1> DEFINE items == UpTo(Limit, all)
<1>11. items \in Seq(Repos) /\ Len(items) >= 1
  BY <1>9
<1> HIDE DEF items
<1>12. items # <<>>
  BY <1>11
<1>13. QED
  BY <1>10, <1>12 DEF items

LEMMA ListsAllStep ==
  ASSUME ExtractorsInvariant, platform = "azure_devops", ListsAll, [Next]_vars
  PROVE  ListsAll'
<1>1. org' # <<>>
  <2>1. CASE \E r \in Repos : CreateRepository(r)
    <3>1. PICK r \in Repos : org' = <<r>> \o org
      BY <2>1 DEF CreateRepository
    <3>2. org \in Seq(Repos) /\ <<r>> \in Seq(Repos) /\ Len(<<r>>) = 1
      BY DEF ExtractorsInvariant, PlatformFits
    <3>3. Len(<<r>> \o org) = 1 + Len(org) /\ Len(org) \in Nat
      BY <3>2
    <3>4. Len(org') # 0
      BY <3>1, <3>3
    <3>5. QED
      BY <3>4
  <2>2. CASE ~\E r \in Repos : CreateRepository(r)
    <3>1. org' = org
      BY <2>2 DEF Next, Extract, Push, ForcePush, BeginRun, FailScan, Abort, LookUp, ChooseNext, AskCache, AskPlatform,
         AskInVain, AskFails, FinishStep, FetchPulls, NextPage, Limited, Refused, ListingFails,
         ListingReturns, Finish, platformVars, vars
    <3>2. QED
      BY <3>1 DEF ListsAll
  <2>3. QED
    BY <2>1, <2>2
<1>2. /\ At("listing")' /\ page'.ended => page'.items # <<>>
      /\ run'.refused => run'.items # <<>>
  <2>1. CASE NextPage
    <3>1. UNCHANGED run
      BY <2>1, ListingSteps
    <3>2. At("listing") => page'.items # <<>>
      BY <2>1, OnePageIs DEF ListsAll
    <3>3. QED
      BY <3>1, <3>2 DEF ListsAll, At
  <2>2. CASE Limited
    <3>1. UNCHANGED run /\ (Listing => ~page'.ended)
      BY <2>2, ListingSteps
    <3>2. QED
      BY <3>1 DEF ListsAll, Listing, At
  <2>3. CASE ListingReturns /\ At("listing")
    <3>1. page.ended \/ Len(page.items) = Limit
      BY <2>3 DEF ListingReturns
    <3>2. Limit # 0
      BY <2>3, SourceIs DEF Listing
    <3>3. page.items # <<>>
      BY <2>3, <3>1, <3>2 DEF ListsAll
    <3>4. QED
      BY <2>3, <3>3, ListingSteps
  <2>4. CASE ~NextPage /\ ~Limited /\ ~(ListingReturns /\ At("listing"))
    <3>1. Settles
      BY <2>4, OthersSettle
    <3>2. QED
      BY <3>1, FirstPageFits DEF Settles, ListsAll
  <2>5. QED
    BY <2>1, <2>2, <2>3, <2>4
<1>3. QED
  BY <1>1, <1>2 DEF ListsAll

\* No call is made again, or the whole list comes with one call.
OneCallLists == MaxRetries = 0 \/ (platform = "azure_devops" /\ <<>> \notin Orgs)

\* A list that is refused on the way can come out empty on GitHub only, and
\* only if the call is made again: its iterator has nothing more to give then.
\* (RefusedIsSkipped, what scope_handling.py says, fails there.)  Without
\* retries, or on Azure DevOps in a scope that is not empty, no list that was
\* refused comes out empty.
THEOREM OnlyRetriesLoseLists == Spec => [](OneCallLists => RefusedIsSkipped)
<1> DEFINE Unlost == /\ MaxRetries = 0 => Unrefused
                     /\ platform = "azure_devops" /\ <<>> \notin Orgs => ListsAll
<1>1. Init => Unlost
  BY FirstPageFits DEF Init, Unrefused, ListsAll, Nothing, At
<1>2. ExtractorsInvariant /\ Unlost /\ [Next]_vars => Unlost'
  <2> SUFFICES ASSUME ExtractorsInvariant, Unlost, [Next]_vars PROVE Unlost'
    OBVIOUS
  <2>1. platform' = platform
    BY DEF Next, Extract, Push, ForcePush, CreateRepository, BeginRun, FailScan, Abort, LookUp, ChooseNext, AskCache,
       AskPlatform, AskInVain, AskFails, FinishStep, FetchPulls, NextPage, Limited, Refused, ListingFails,
       ListingReturns, Finish, platformVars, vars
  <2>2. QED
    BY <2>1, UnrefusedStep, ListsAllStep
<1>3. Unlost => (OneCallLists => RefusedIsSkipped)
  BY DEF OneCallLists, Unrefused, ListsAll, RefusedIsSkipped
<1> HIDE DEF Unlost
<1>4. QED
  BY <1>1, <1>2, <1>3, ExtractorsHold, PTL DEF Spec

=============================================================================
