------------------------------- MODULE Portfolio -------------------------------
(***************************************************************************)
(* The dependencies of all repositories, the packages they come from, and  *)
(* who reads them: repository_dependencies has a row for each repository   *)
(* and package, with a flag that says whether the version in use is        *)
(* exposed; packages has a row for each package, shared by all             *)
(* repositories, with its vulnerabilities.  An extraction writes both (the *)
(* package row from the version that this repository happens to use), the  *)
(* endpoints of api/rescan.py and the views of views.sql read them.        *)
(*                                                                         *)
(* The transaction that writes them is one step here; how two of them      *)
(* interleave is the subject of ContentStore.                              *)
(***************************************************************************)
EXTENDS DependencyRules

CONSTANTS
    Repos,          \* repositories
    Packages,       \* names of packages, of one ecosystem
    Services,       \* services and the repositories linked to each
    Manifests,      \* Manifests[r]: what the manifests of r may be
    Advisories,     \* Advisories[p]: the vulnerabilities OSV.dev may come to know
    Releases,       \* what endoflife.date knows, version to date
    Soon,           \* days within which an end of life is near (90)
    MaxDay,         \* bound: last day
    MaxAnalyses,    \* bound: analyses
    MaxOutages,     \* bound: calls to a service that fail
    MaxRevisions    \* bound: vulnerabilities withdrawn or revised

ASSUME PortfolioAssumption ==
    /\ \A s \in DOMAIN Services : Services[s] \subseteq Repos
    /\ {Soon, MaxDay, MaxAnalyses, MaxOutages, MaxRevisions} \subseteq Nat
    /\ \A v \in DOMAIN Releases : Releases[v] \in Nat

\* What the parsers return, and what the services know is no outage.
Declaration  == [package : Packages, version : Nat, dev : BOOLEAN]
ManifestFile == [parses : BOOLEAN, fits : BOOLEAN, declares : Seq(Declaration)]

ASSUME AnswersAssumption ==
    /\ IsFiniteSet(Repos) /\ IsFiniteSet(Packages)
    /\ \A r \in Repos : \A manifests \in Manifests[r] \ {Outage} : manifests \in Seq(ManifestFile)
    /\ \A p \in Packages : \A known \in SUBSET Advisories[p] : known # Outage

VARIABLES
    today,          \* the date
    advisories,     \* what OSV.dev knows of each package
    withdrawn,      \* history: what it has withdrawn or revised, <<package, vulnerability>>
    dependencies,   \* rows of repository_dependencies by <<repo, package>>
    packages,       \* rows of packages, with their vulnerabilities, by package
    declared,       \* history: what the last analysis of each repository found
    blinded,        \* history: packages last stored without OSV.dev's answer
    analyses,       \* bounded: analyses so far
    outages         \* bounded: failed calls so far

portfolioVars == <<today, advisories, withdrawn, dependencies, packages, declared, blinded,
                   analyses, outages>>

PortfolioInit ==
    /\ today = 0
    /\ advisories = [p \in Packages |-> {}]
    /\ withdrawn = {}
    /\ dependencies = <<>>
    /\ packages = <<>>
    /\ declared = [r \in Repos |-> <<>>]
    /\ blinded = {}
    /\ analyses = 0
    /\ outages = 0

-----------------------------------------------------------------------------
(* Writing.                                                                *)

\* The vulnerabilities of one set, each with the first of its fixes: the list
\* is made from a set, so that any of them may be the first.
FirstFixes(vulns) ==
    {first \in [vulns -> {NoVersion} \cup UNION {v.fixed : v \in vulns}] :
       \A v \in vulns : IF v.fixed = {} THEN first[v] = NoVersion ELSE first[v] \in v.fixed}

\* The row of a package: of the fixes of a vulnerability it has the first.
PackageRow(metadata, first) ==
    [latest |-> metadata.latest, is_eol |-> metadata.is_eol, eol_date |-> metadata.eol_date,
     cves   |-> {[id |-> v.id, cve |-> v.cve, severity |-> v.severity, fixed_in |-> first[v]]
                 : v \in metadata.cves}]

\* Mutant of StorePackageMetadata: a package that is stored is left alone.
StorePackageMetadataOnce(enriched, first) ==
    LET known == {e \in enriched : e.metadata.known}
    IN  [p \in DOMAIN packages \cup {e.package : e \in known} |->
           IF p \in DOMAIN packages THEN packages[p]
           ELSE PackageRow((CHOOSE e \in known : e.package = p).metadata, first)]

\* The package row and its vulnerabilities are replaced; a dependency whose
\* enrichment raised leaves its package alone.
StorePackageMetadata(enriched, first) ==
    LET known == {e \in enriched : e.metadata.known}
    IN  [p \in DOMAIN packages \cup {e.package : e \in known} |->
           IF \E e \in known : e.package = p
           THEN PackageRow((CHOOSE e \in known : e.package = p).metadata, first)
           ELSE packages[p]]

\* Rows are added and updated; the rows of packages that are no longer
\* declared stay.
StoreRepoDependencies(r, enriched) ==
    LET keys == {<<r, e.package>> : e \in enriched}
        row(k, e) == [version |-> e.version, dev |-> e.dev, exposed |-> e.exposed,
                      first |-> IF k \in DOMAIN dependencies THEN dependencies[k].first ELSE today,
                      last  |-> today]
    IN  [k \in DOMAIN dependencies \cup keys |->
           IF k \in keys THEN row(k, CHOOSE e \in enriched : e.package = k[2])
                         ELSE dependencies[k]]

\* What the services answer for a dependency, some calls having failed.  The
\* date and the end of life are two calls of the same service.
Replies(p, failed) ==
    [osv  |-> IF "osv"  \in failed THEN Outage ELSE advisories[p],
     date |-> IF "date" \in failed THEN Outage ELSE Releases,
     eol  |-> IF "eol"  \in failed THEN Outage ELSE Releases]

\* _process_dependencies: nothing declared, nothing stored.
ProcessDependencies(r) ==
    /\ analyses < MaxAnalyses
    /\ analyses' = analyses + 1
    /\ \E manifests \in Manifests[r] :
         LET deps == Analyze(manifests)
             calls == (DOMAIN deps) \X {"osv", "date", "eol"}
         IN  \/ /\ deps = <<>>
                /\ UNCHANGED <<dependencies, packages, declared, blinded, outages>>
             \/ /\ deps # <<>>
                /\ \E n \in 0..(MaxOutages - outages) : \E failed \in kSubset(n, calls) :
                     LET enriched == {EnrichDependency(deps[i],
                                        Replies(deps[i].package, {c \in {"osv", "date", "eol"} : <<i, c>> \in failed}),
                                        today) : i \in DOMAIN deps}
                         known  == {e \in enriched : e.metadata.known}
                         stored == {e.package : e \in known}
                     IN  /\ outages' = outages + n
                         /\ \E first \in FirstFixes(UNION {e.metadata.cves : e \in known}) :
                              packages' = StorePackageMetadata(enriched, first)
                         /\ dependencies' = StoreRepoDependencies(r, enriched)
                         /\ declared' = [declared EXCEPT ![r] =
                              FlattenSeq([i \in DOMAIN manifests |-> ParseManifest(manifests[i])])]
                         /\ blinded' = (blinded \ stored) \cup
                              {deps[i].package : i \in {j \in DOMAIN deps : <<j, "osv">> \in failed}}
    /\ UNCHANGED <<today, advisories, withdrawn>>

\* OSV.dev takes vulnerabilities from its list, if any, and adds others.
Amend(p, gone, new) ==
    /\ advisories' = [advisories EXCEPT ![p] = (@ \ gone) \cup new]
    /\ withdrawn' = withdrawn \cup {<<p, v>> : v \in gone}
    /\ Cardinality(withdrawn') <= MaxRevisions
    /\ UNCHANGED <<today, dependencies, packages, declared, blinded, analyses, outages>>

\* It comes to know a vulnerability, or says something else of one it knows.
PublishAdvisory(p) ==
    \E v \in Advisories[p] \ advisories[p] :
       Amend(p, {u \in advisories[p] : u.id = v.id}, {v})

WithdrawAdvisory(p) ==
    \E v \in advisories[p] : Amend(p, {v}, {})

NextDay ==
    /\ today < MaxDay
    /\ today' = today + 1
    /\ UNCHANGED <<advisories, withdrawn, dependencies, packages, declared, blinded, analyses,
                   outages>>

PortfolioNext ==
    \/ \E r \in Repos : ProcessDependencies(r)
    \/ \E p \in Packages : PublishAdvisory(p) \/ WithdrawAdvisory(p)
    \/ NextDay

-----------------------------------------------------------------------------
(* Reading: the endpoints under /api/packages and the views they select    *)
(* from.                                                                   *)

Users(p)   == {r \in Repos : <<r, p>> \in DOMAIN dependencies}
Exposed(p) == {r \in Users(p) : dependencies[<<r, p>>].exposed}
Known      == DOMAIN packages

SearchPackages(names) ==
    {[package |-> p, latest |-> packages[p].latest, is_eol |-> packages[p].is_eol,
      eol_date |-> packages[p].eol_date, repo_count |-> Cardinality(Users(p))]
     : p \in names \cap Known}

\* The rows whose version is this one: those without a version (NULL) never are.
UsersOf(p, version) ==
    {r \in Users(p) : version # NoVersion /\ dependencies[<<r, p>>].version = version}

SearchPackageVersion(names, version) ==
    {[package |-> p, repos |-> UsersOf(p, version)]
     : p \in {q \in names \cap Known : UsersOf(q, version) # {}}}

PackagesByRepo(r) ==
    {[package |-> p, version |-> dependencies[<<r, p>>].version, dev |-> dependencies[<<r, p>>].dev,
      exposed |-> dependencies[<<r, p>>].exposed,
      is_eol |-> IF p \in Known THEN {packages[p].is_eol} ELSE {}]
     : p \in {q \in Packages : r \in Users(q)}}

\* Mutant of VulnerablePackages: every user is counted.
VulnerablePackagesCountingUsers ==
    {[package |-> p, repo_count |-> Cardinality(Users(p)),
      cves |-> IF p \in Known THEN {v.cve : v \in packages[p].cves} \ {NoCve} ELSE {}]
     : p \in {q \in Packages : Exposed(q) # {}}}

\* Vulnerabilities without a CVE number are left out of the list.
VulnerablePackages ==
    {[package |-> p, repo_count |-> Cardinality(Exposed(p)),
      cves |-> IF p \in Known THEN {v.cve : v \in packages[p].cves} \ {NoCve} ELSE {}]
     : p \in {q \in Packages : Exposed(q) # {}}}

EolPackages ==
    {[package |-> p, repo_count |-> Cardinality(Users(p))]
     : p \in {q \in Known : \/ packages[q].is_eol
                            \/ /\ packages[q].eol_date # NoDate
                               /\ packages[q].eol_date <= today + Soon}}

\* Of one version, or of any if none is asked for.
PackagesByService(p, version) ==
    LET used(s) == Services[s] \cap (IF version = NoVersion THEN Users(p) ELSE UsersOf(p, version))
    IN  {[service |-> s, repo_count |-> Cardinality(used(s)),
          versions |-> {dependencies[<<r, p>>].version : r \in used(s)} \ {NoVersion}]
         : s \in {t \in DOMAIN Services : used(t) # {}}}

LibraryDetail(p) ==
    [cves  |-> packages[p].cves,
     usage |-> {[repo |-> r, version |-> dependencies[<<r, p>>].version,
                 exposed |-> dependencies[<<r, p>>].exposed] : r \in Users(p)}]

\* v_package_health_latest
HealthStatus(p) ==
    LET severities == {v.severity : v \in packages[p].cves}
        date == packages[p].eol_date
    IN  CASE packages[p].is_eol                              -> "EOL"
          [] ~packages[p].is_eol /\ date # NoDate /\ date <= today -> "EOL"
          [] ~packages[p].is_eol /\ date > today /\ date < today + Soon -> "APPROACHING_EOL"
          [] OTHER ->
               IF Exposed(p) # {} /\ "CRITICAL" \in severities THEN "CRITICAL_EXPOSED"
               ELSE IF Exposed(p) # {} /\ "HIGH" \in severities THEN "HIGH_EXPOSED"
               ELSE "HEALTHY"

\* The buckets of /api/packages/health, of the packages that have a
\* vulnerability of one of these severities, or all if none is given.
PackagesHealth(severities) ==
    LET shown == {p \in Known : severities = {} \/ \E v \in packages[p].cves : v.severity \in severities}
    IN  [status \in {"HEALTHY", "HIGH_EXPOSED", "CRITICAL_EXPOSED", "EOL", "APPROACHING_EOL"} |->
           {p \in shown : HealthStatus(p) = status}]

-----------------------------------------------------------------------------
(* Properties.                                                             *)

\* The row of a package a repository declares is one of its declarations,
\* and the best: a non-dev one if there is one, and of those one with a
\* version as long as any, whatever the order of the manifests and whatever
\* the services answered.
StoredIsBestDeclaration ==
    \A r \in Repos : \A p \in {declared[r][i].package : i \in DOMAIN declared[r]} :
        LET all  == {d \in ToSet(declared[r]) : d.package = p}
            prod == {d \in all : ~d.dev}
            candidates == IF prod = {} THEN all ELSE prod
            row  == dependencies[<<r, p>>]
        IN  /\ <<r, p>> \in DOMAIN dependencies
            /\ \E d \in candidates : d.version = row.version /\ d.dev = row.dev
            /\ \A d \in candidates :
                 d.version # NoVersion =>
                    /\ row.version # NoVersion
                    /\ Len(Text(d.version)) <= Len(Text(row.version))

Exposes(vuln, version) == \E f \in vuln.fixed : VersionIsAffected(version, f)

\* The package row shows this vulnerability, with one of its fixes.
Shown(p, vuln) == \E row \in packages[p].cves : row.id = vuln.id /\ row.fixed_in \in vuln.fixed

\* A repository flagged as exposed uses a version below a fix of a vulnerability
\* that is stored with the package, although other repositories have stored the
\* package since, unless one of those had no answer from OSV.dev, or OSV.dev
\* has withdrawn or revised the vulnerability: the flag stays as it was.  The
\* fix that is stored need not be the one above the version: of several fixes
\* the row keeps any.
ExposureHasCause ==
    \A k \in DOMAIN dependencies :
        dependencies[k].exposed /\ k[2] \notin blinded =>
            /\ k[2] \in Known
            /\ \E v \in Advisories[k[2]] :
                 /\ Exposes(v, dependencies[k].version)
                 /\ Shown(k[2], v) \/ <<k[2], v>> \in withdrawn

\* The endpoints tell the same story: what is at or near its end of life by
\* the health view is listed by /api/packages/eol; what the health view calls
\* exposed is listed as vulnerable, and the library's page shows the reason;
\* as many repositories are said to be exposed as show the package as exposed,
\* with the CVE numbers the library's page has, which may be none; every user
\* of a package is found among those of its version, if it has one, and through
\* its services, asked for that version or for any.
ReadersAgree ==
    LET health == PackagesHealth({})
        vulnerable == VulnerablePackages
        listed(rows) == {row.package : row \in rows}
    IN  /\ health["EOL"] \cup health["APPROACHING_EOL"] \subseteq listed(EolPackages)
        /\ \A p \in health["CRITICAL_EXPOSED"] \cup health["HIGH_EXPOSED"] :
             p \in listed(vulnerable) /\ LibraryDetail(p).cves # {}
        /\ \A row \in vulnerable :
             /\ row.repo_count = Cardinality({r \in Repos :
                    \E d \in PackagesByRepo(r) : d.package = row.package /\ d.exposed})
             /\ row.package \in Known =>
                  /\ row.repo_count = Cardinality({u \in LibraryDetail(row.package).usage : u.exposed})
                  /\ row.cves = {v.cve : v \in LibraryDetail(row.package).cves} \ {NoCve}
        /\ \A row \in SearchPackages(Packages) : \A r \in Users(row.package) :
             LET version == dependencies[<<r, row.package>>].version
             IN  version # NoVersion =>
                    \E found \in SearchPackageVersion({row.package}, version) : r \in found.repos
        /\ \A s \in DOMAIN Services : \A r \in Services[s] : \A d \in PackagesByRepo(r) :
             \A version \in {NoVersion, d.version} :
                \E row \in PackagesByService(d.package, version) :
                   row.service = s /\ (d.version # NoVersion => d.version \in row.versions)

=============================================================================
