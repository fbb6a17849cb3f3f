--------------------------------- MODULE Radar ---------------------------------
(***************************************************************************)
(* The Tech Radar: a publication (workflows/radar_publication.py) reads    *)
(* the latest publication, the use of the packages and the package rows,   *)
(* puts each package in a ring (analyzers/radar_categorization.py), says   *)
(* what has moved since, clears is_latest of what is latest and inserts    *)
(* itself, in one transaction that the caller commits.                     *)
(*                                                                         *)
(* The transaction reads committed rows, and each of its statements those  *)
(* that are committed when it starts.  An UPDATE of a row that another     *)
(* transaction has updated waits for that one and then looks at the row    *)
(* again, but never at rows inserted meanwhile.                            *)
(***************************************************************************)
EXTENDS Portfolio

CONSTANTS
    Publishers,     \* who publishes
    Exclusions,     \* what the configuration may exclude: sets of packages
    AdoptRepos, AdoptDays, TrialRepos, TrialDays, AssessRepos,     \* ring_rules
    MaxPublications \* bound: publications begun

ASSUME RadarAssumption ==
    /\ {AdoptRepos, AdoptDays, TrialRepos, TrialDays, AssessRepos, MaxPublications} \subseteq Nat
    /\ Exclusions \subseteq SUBSET Packages

VARIABLES
    publications,   \* committed rows of radar_publications, with their blips
    history,        \* committed rows of radar_blip_history
    publisher,      \* publisher[x]: the transaction of x
    begun           \* bounded: publications begun

radarVars == <<publications, history, publisher, begun>>
vars == <<portfolioVars, radarVars>>

NoRing  == "none"
Removed == "Removed"
NoBlips == <<>>

Away == [at |-> "away", excluded |-> {}, prior |-> NoBlips, users |-> <<>>, blips |-> NoBlips,
         moves |-> {}, date |-> 0, targets |-> {}]

Init ==
    /\ PortfolioInit
    /\ publications = <<>>
    /\ history = <<>>
    /\ publisher = [x \in Publishers |-> Away]
    /\ begun = 0

Latest == {i \in DOMAIN publications : publications[i].is_latest}

-----------------------------------------------------------------------------
(* Categorization.                                                         *)

RingFromAdoption(repos, days) ==
    CASE repos >= AdoptRepos /\ days >= AdoptDays -> "Adopt"
      [] ~(repos >= AdoptRepos /\ days >= AdoptDays)
         /\ repos >= TrialRepos /\ days >= TrialDays -> "Trial"
      [] OTHER -> IF repos >= AssessRepos THEN "Assess" ELSE "Hold"

\* End of life before exposure before adoption.
DetermineRing(m) == IF m.is_eol \/ m.exposed > 0 THEN "Hold"
                    ELSE RingFromAdoption(m.repo_count, m.days)

\* Mutant of Categorize: a package without a prior ring has moved, too.
CategorizeMoved(m, prior_ring, has_prior) ==
    LET ring == DetermineRing(m)
    IN  [ring |-> ring, repo_count |-> m.repo_count, exposed |-> m.exposed,
         is_new |-> has_prior /\ prior_ring = NoRing, is_moved |-> prior_ring # ring]

Categorize(m, prior_ring, has_prior) ==
    LET ring == DetermineRing(m)
    IN  [ring |-> ring, repo_count |-> m.repo_count, exposed |-> m.exposed,
         is_new |-> has_prior /\ prior_ring = NoRing,
         is_moved |-> prior_ring # NoRing /\ prior_ring # ring]

-----------------------------------------------------------------------------
(* Movements, from the blips of the prior publication to these.            *)

RingIn(blips, p)    == IF p \in DOMAIN blips THEN blips[p].ring ELSE NoRing
CountIn(blips, p)   == IF p \in DOMAIN blips THEN blips[p].repo_count ELSE 0
ExposedIn(blips, p) == IF p \in DOMAIN blips THEN blips[p].exposed ELSE 0

VulnerabilityChange(prior, current) ==
    CASE prior = 0 /\ current > 0 -> "now_exposed"
      [] prior > 0 /\ current = 0 -> "fixed"
      [] OTHER                    -> "unchanged"

Movement(prior, blips, p) ==
    [package |-> p, prior_ring |-> RingIn(prior, p),
     current_ring |-> IF p \in DOMAIN blips THEN blips[p].ring ELSE Removed,
     repo_count_delta |-> CountIn(blips, p) - CountIn(prior, p),
     vulnerability_change |-> VulnerabilityChange(ExposedIn(prior, p), ExposedIn(blips, p))]

\* Mutant of DetectMovements: what is gone leaves no trace.
DetectMovementsPresent(prior, blips) ==
    {Movement(prior, blips, p) : p \in {q \in DOMAIN blips : RingIn(prior, q) # blips[q].ring}}

DetectMovements(prior, blips) ==
    {Movement(prior, blips, p) :
       p \in {q \in DOMAIN prior \cup DOMAIN blips : RingIn(prior, q) # RingIn(blips, q)}}

-----------------------------------------------------------------------------
(* A publication.                                                          *)

At(x, place) == publisher[x].at = place

\* The configuration is read; then the blips of the publication that is
\* latest, of any of them if several are.
LoadPrior(x) ==
    /\ At(x, "away")
    /\ begun < MaxPublications
    /\ begun' = begun + 1
    /\ \E prior \in IF Latest = {} THEN {NoBlips} ELSE {publications[i].blips : i \in Latest},
          excluded \in Exclusions :
         publisher' = [publisher EXCEPT ![x] = [Away EXCEPT !.at = "prior", !.prior = prior,
                                                            !.excluded = excluded]]
    /\ UNCHANGED <<portfolioVars, publications, history>>

\* One statement over repository_dependencies.
CountUsers(x) ==
    /\ At(x, "prior")
    /\ LET use(p) == [repo_count |-> Cardinality(Users(p)), exposed |-> Cardinality(Exposed(p)),
                      first |-> Min({dependencies[<<r, p>>].first : r \in Users(p)})]
       IN  publisher' = [publisher EXCEPT ![x].at = "counted",
                           ![x].users = [p \in {q \in Packages : Users(q) # {}} |-> use(p)]]
    /\ UNCHANGED <<portfolioVars, publications, history, begun>>

\* Then the package rows; the rest is computed.
CategorizePackages(x) ==
    /\ At(x, "counted")
    /\ LET users == publisher[x].users
           prior == publisher[x].prior
           metrics(p) == [repo_count |-> users[p].repo_count, exposed |-> users[p].exposed,
                          days |-> today - users[p].first,
                          is_eol |-> p \in Known /\ packages[p].is_eol]
           blips == [p \in DOMAIN users \ publisher[x].excluded |->
                       Categorize(metrics(p), RingIn(prior, p), prior # NoBlips)]
       IN  publisher' = [publisher EXCEPT ![x].at = "computed", ![x].users = <<>>,
                           ![x].blips = blips, ![x].moves = DetectMovements(prior, blips)]
    /\ UNCHANGED <<portfolioVars, publications, history, begun>>

\* The UPDATE starts: these are the rows it will clear.
BeginClear(x) ==
    /\ At(x, "computed")
    /\ publisher' = [publisher EXCEPT ![x].at = "clearing", ![x].date = today,
                                      ![x].targets = Latest]
    /\ UNCHANGED <<portfolioVars, publications, history, begun>>

\* The UPDATE has all its rows, none of them held by another publisher.  A
\* row that is no longer latest is left out.
Clear(x) ==
    /\ At(x, "clearing")
    /\ \A y \in Publishers \ {x} : At(y, "cleared") => publisher[y].targets \cap publisher[x].targets = {}
    /\ publisher' = [publisher EXCEPT ![x].at = "cleared", ![x].targets = @ \cap Latest]
    /\ UNCHANGED <<portfolioVars, publications, history, begun>>

\* Mutant of Publish: the flag of the others is left alone.
PublishUncleared(x) ==
    /\ At(x, "cleared")
    /\ publications' = Append(publications, [date |-> publisher[x].date, is_latest |-> TRUE,
                                             blips |-> publisher[x].blips])
    /\ history' = history \o SetToSeq(publisher[x].moves)
    /\ publisher' = [publisher EXCEPT ![x] = Away]
    /\ UNCHANGED <<portfolioVars, begun>>

\* The inserts and the caller's commit.
Publish(x) ==
    /\ At(x, "cleared")
    /\ publications' =
         Append([i \in DOMAIN publications |->
                   [publications[i] EXCEPT !.is_latest = @ /\ i \notin publisher[x].targets]],
                [date |-> publisher[x].date, is_latest |-> TRUE, blips |-> publisher[x].blips])
    /\ history' = history \o SetToSeq(publisher[x].moves)
    /\ publisher' = [publisher EXCEPT ![x] = Away]
    /\ UNCHANGED <<portfolioVars, begun>>

\* An error or the end of the process: nothing is kept.
Abort(x) ==
    /\ ~At(x, "away")
    /\ publisher' = [publisher EXCEPT ![x] = Away]
    /\ UNCHANGED <<portfolioVars, publications, history, begun>>

RadarStep(x) ==
    \/ LoadPrior(x) \/ CountUsers(x) \/ CategorizePackages(x)
    \/ BeginClear(x) \/ Clear(x) \/ Publish(x) \/ Abort(x)

Next ==
    \/ PortfolioNext /\ UNCHANGED radarVars
    \/ \E x \in Publishers : RadarStep(x)

Spec == Init /\ [][Next]_vars

-----------------------------------------------------------------------------
(* Reading: the endpoints under /api/radar.                                *)

GetRadar == IF Latest = {} THEN NoBlips ELSE publications[CHOOSE i \in Latest : TRUE].blips

\* What a package went through: the rows of its movements, in their order
\* (of one day: that of insertion, which the endpoint leaves open).
RadarHistory(p) == {i \in DOMAIN history : history[i].package = p}

\* Mutant of ExportRadar: the first publication of the day.
ExportRadarFirst(date) ==
    LET until == {i \in DOMAIN publications : publications[i].date <= date}
        last  == {i \in until : \A j \in until : publications[j].date <= publications[i].date}
    IN  IF until = {} THEN NoBlips ELSE publications[Min(last)].blips

\* The publication of the latest moment up to the end of that day.
ExportRadar(date) ==
    LET until == {i \in DOMAIN publications : publications[i].date <= date}
    IN  IF until = {} THEN NoBlips ELSE publications[Max(until)].blips

-----------------------------------------------------------------------------
(* Properties.                                                             *)

\* Once something is published exactly one publication is the latest,
\* although any publication may fail half-way.
OneLatest == publications # <<>> => Cardinality(Latest) = 1

\* A publication is what /api/radar shows and what an export up to today
\* contains, although one goes by the flag and the other by the date.
ExportAgrees == ExportRadar(today) = GetRadar

\* The timeline of a package leads to where it is: the last movement of each
\* package ends in the ring it has in the latest publication, and a package
\* not on the radar was never on it or has been removed; each movement
\* starts where the one before it ended, the first one off the radar.
RingAfter(rows) ==
    IF rows = {} \/ history[Max(rows)].current_ring = Removed THEN NoRing
    ELSE history[Max(rows)].current_ring

TimelineLeadsToRadar ==
    \A p \in Packages :
        /\ RingIn(GetRadar, p) = RingAfter(RadarHistory(p))
        /\ \A i \in RadarHistory(p) :
             history[i].prior_ring = RingAfter({j \in RadarHistory(p) : j < i})

\* What a blip says of itself (is_moved, is_new) and what is recorded of it
\* are computed apart and agree: in every publication under way, a moved or
\* new package has a movement, and a package with a movement is moved, new,
\* or gone, or the publication had nothing to compare with.
FlagsMatchMovements ==
    \A x \in Publishers : At(x, "computed") =>
        LET blips == publisher[x].blips
            moving == {m.package : m \in publisher[x].moves}
        IN  \A p \in DOMAIN blips :
              /\ blips[p].is_moved \/ blips[p].is_new => p \in moving
              /\ p \in moving => blips[p].is_moved \/ blips[p].is_new \/ publisher[x].prior = NoBlips
              /\ ~(blips[p].is_moved /\ blips[p].is_new)

=============================================================================
