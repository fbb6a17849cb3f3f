---------------------------- MODULE DependencyRules ----------------------------
(***************************************************************************)
(* What the analysis of a repository's manifests computes: the declared    *)
(* dependencies, one per package (dependency_analyzer.py), and what is     *)
(* added to each from OSV.dev and endoflife.date (dependency_enricher.py,  *)
(* osv_client.py, eol_client.py).  Everything here is a function of its    *)
(* arguments; a service that cannot be reached is one of them.             *)
(*                                                                         *)
(* A version is a number; the code knows it as text, so that 10 comes      *)
(* before 9 wherever versions are compared as text.                        *)
(***************************************************************************)
EXTENDS Integers, Sequences, FiniteSets, SequencesExt, FiniteSetsExt

CONSTANTS
    Outage,         \* no answer: a timeout or an error of the service
    NoCve           \* a vulnerability that has no number of that kind

NoVersion == 0      \* a declaration without a version
NoDate    == -1
Unreadable == -1    \* a CVSS score that is no number
NoScore    == -2    \* a vulnerability without one

-----------------------------------------------------------------------------
(* Versions as text.                                                       *)

Text(v) == IF v < 10 THEN <<v>> ELSE <<v \div 10, v % 10>>

TextBefore(a, b) ==
    LET s == Text(a)  t == Text(b)
    IN  \E i \in 1..Len(t) :
          /\ i <= Len(s) + 1
          /\ SubSeq(s, 1, i - 1) = SubSeq(t, 1, i - 1)
          /\ i > Len(s) \/ s[i] < t[i]

-----------------------------------------------------------------------------
(* The analyzer: manifests are parsed one by one, a manifest that is too   *)
(* large or that no parser knows declares nothing, and one that cannot be  *)
(* parsed is an error and nothing more.                                    *)

\* A manifest is [parses |-> BOOLEAN, fits |-> BOOLEAN, declares |-> sequence].
ParseManifest(m) == IF m.parses /\ m.fits THEN m.declares ELSE <<>>

\* Mutant of Supersedes: the longer version wins whatever its kind.
SupersedesByVersion(dep, existing) ==
    \/ existing.dev /\ ~dep.dev
    \/ /\ dep.version # NoVersion
       /\ \/ existing.version = NoVersion
          \/ Len(Text(dep.version)) > Len(Text(existing.version))

\* Which of two declarations of a package is kept: a non-dev one before a dev
\* one, and of two alike the one whose version is longer.
Supersedes(dep, existing) ==
    \/ existing.dev /\ ~dep.dev
    \/ /\ dep.dev = existing.dev
       /\ dep.version # NoVersion
       /\ \/ existing.version = NoVersion
          \/ Len(Text(dep.version)) > Len(Text(existing.version))

DeduplicateDependencies(deps) ==
    LET seen(kept, dep) ==
          IF \E i \in DOMAIN kept : kept[i].package = dep.package
          THEN [i \in DOMAIN kept |->
                  IF kept[i].package = dep.package /\ Supersedes(dep, kept[i])
                  THEN dep ELSE kept[i]]
          ELSE Append(kept, dep)
    IN  FoldLeft(seen, <<>>, deps)

\* The manifests of a repository, or Outage if they cannot be fetched.
Analyze(manifests) ==
    IF manifests = Outage THEN <<>>
    ELSE DeduplicateDependencies(FlattenSeq([i \in DOMAIN manifests |-> ParseManifest(manifests[i])]))

-----------------------------------------------------------------------------
(* OSV.dev: a vulnerability is [id, cve, score, introduced, fixed], fixed  *)
(* being a set of versions.                                                *)

\* Unsupported ecosystems, timeouts and errors all give no information.
GetPackageInfo(reply) ==
    IF reply = Outage THEN [known |-> FALSE, vulns |-> {}] ELSE [known |-> TRUE, vulns |-> reply]

\* The last of all versions named, as text.
ExtractLatestVersion(vulns) ==
    LET named == {v.introduced : v \in vulns} \cup UNION {v.fixed : v \in vulns}
    IN  IF named = {} THEN NoVersion
        ELSE CHOOSE v \in named : \A u \in named \ {v} : TextBefore(u, v)

\* A vulnerability without a score is stored as "UNKNOWN".
ExtractSeverity(score) ==
    CASE score = NoScore -> "UNKNOWN"
      [] score >= 9 -> "CRITICAL"
      [] score \in 7..8 -> "HIGH"
      [] score \in 4..6 -> "MEDIUM"
      [] OTHER      -> "LOW"

\* One unreadable score makes the extraction of the whole answer raise.
Readable(vulns) == \A v \in vulns : v.score # Unreadable

ExtractVulnerabilities(vulns) ==
    {[id |-> v.id, cve |-> v.cve, severity |-> ExtractSeverity(v.score), fixed |-> v.fixed] : v \in vulns}

-----------------------------------------------------------------------------
(* endoflife.date: a function from version to end-of-life date.            *)

GetEolDate(releases, version) ==
    IF releases = Outage THEN NoDate
    ELSE IF version # NoVersion /\ version \in DOMAIN releases THEN releases[version] ELSE NoDate

\* Asks again; the end of life begins with its day.
IsEol(releases, version, today) ==
    LET date == GetEolDate(releases, version) IN date # NoDate /\ date <= today

-----------------------------------------------------------------------------
(* The enricher.                                                           *)

VersionIsAffected(current, fixed) ==
    current # NoVersion /\ fixed # NoVersion /\ current < fixed

NoMetadata == [known |-> FALSE]

\* What becomes of a dependency: replies is what the three calls of
\* _enrich_single come back with.
EnrichSingle(dep, replies, today) ==
    LET info  == GetPackageInfo(replies.osv)
        vulns == ExtractVulnerabilities(info.vulns)
        date  == GetEolDate(replies.date, dep.version)
    IN  [package |-> dep.package, version |-> dep.version, dev |-> dep.dev,
         exposed |-> \E v \in vulns : \E f \in v.fixed : VersionIsAffected(dep.version, f),
         metadata |-> [known    |-> TRUE,
                       latest   |-> ExtractLatestVersion(info.vulns),
                       is_eol   |-> date # NoDate /\ IsEol(replies.eol, dep.version, today),
                       eol_date |-> date,
                       cves     |-> vulns]]

\* A dependency as declared: what is left when its enrichment raised.
CreateEnrichedDependency(dep) ==
    [package |-> dep.package, version |-> dep.version, dev |-> dep.dev,
     exposed |-> FALSE, metadata |-> NoMetadata]

EnrichDependency(dep, replies, today) ==
    IF replies.osv # Outage /\ ~Readable(replies.osv)
    THEN CreateEnrichedDependency(dep)
    ELSE EnrichSingle(dep, replies, today)

=============================================================================
