------------------------------ MODULE Radar_proofs ------------------------------
(***************************************************************************)
(* The radar and the portfolio it is drawn from, for any packages,         *)
(* repositories, manifests, rules and number of publications.              *)
(*                                                                         *)
(* Flags and movements agree whoever publishes.  With one publisher        *)
(* exactly one publication is the latest, the one an export up to today    *)
(* contains, and the timeline of each package leads to it.  The rows of    *)
(* the portfolio are the best declarations, an exposed one has a cause     *)
(* that is stored, and its readers agree.                                  *)
(***************************************************************************)
EXTENDS Radar, Fold_lemmas, FiniteSetTheorems, TLAPS

Rings  == {"Adopt", "Trial", "Assess", "Hold"}
Places == {"away", "prior", "counted", "computed", "clearing", "cleared"}

\* The records of publishers, with V for what the proofs do not look into.
Publisher(V) ==
  [at : Places, excluded : V, prior : V, users : V, blips : V, moves : V,
   date : V, targets : V]

PublishersTyped == \E V : publisher \in [Publishers -> Publisher(V)]

\* The blips and the movements of a publication that is computed come from
\* the same prior publication.
FlagsMatch(x) ==
  At(x, "computed") =>
    LET blips == publisher[x].blips
        moving == {m.package : m \in publisher[x].moves}
    IN  \A p \in DOMAIN blips :
          /\ blips[p].is_moved \/ blips[p].is_new => p \in moving
          /\ p \in moving => blips[p].is_moved \/ blips[p].is_new \/ publisher[x].prior = NoBlips
          /\ ~(blips[p].is_moved /\ blips[p].is_new)

\* A package is in one of the four rings, whatever its numbers.
LEMMA RingIsARing ==
  ASSUME NEW m
  PROVE  DetermineRing(m) \in Rings
<1>1. RingFromAdoption(m.repo_count, m.days) \in Rings
  BY DEF RingFromAdoption, Rings
<1>2. QED
  BY <1>1 DEF DetermineRing, Rings

\* Movements are of the packages whose ring is not what it was.
LEMMA MovingPackages ==
  ASSUME NEW prior, NEW blips, NEW p
  PROVE  p \in {m.package : m \in DetectMovements(prior, blips)} <=>
           /\ p \in DOMAIN prior \cup DOMAIN blips
           /\ RingIn(prior, p) # RingIn(blips, p)
<1>1. \A q : Movement(prior, blips, q).package = q
  BY DEF Movement
<1>2. QED
  BY <1>1 DEF DetectMovements

\* The blips that CategorizePackages computes.
MetricsOf(users, p) ==
  [repo_count |-> users[p].repo_count, exposed |-> users[p].exposed,
   days |-> today - users[p].first, is_eol |-> p \in Known /\ packages[p].is_eol]

BlipsOf(x) ==
  [p \in DOMAIN publisher[x].users \ publisher[x].excluded |->
     Categorize(MetricsOf(publisher[x].users, p), RingIn(publisher[x].prior, p),
                publisher[x].prior # NoBlips)]

LEMMA ComputedFields ==
  ASSUME PublishersTyped, NEW x \in Publishers, CategorizePackages(x)
  PROVE  /\ publisher'[x].prior = publisher[x].prior
         /\ publisher'[x].blips = BlipsOf(x)
         /\ publisher'[x].moves = DetectMovements(publisher[x].prior, BlipsOf(x))
<1>1. publisher' = [publisher EXCEPT ![x] =
        [publisher[x] EXCEPT !.at = "computed", !.users = <<>>, !.blips = BlipsOf(x),
                             !.moves = DetectMovements(publisher[x].prior, BlipsOf(x))]]
  BY DEF CategorizePackages, BlipsOf, MetricsOf
<1>2. PICK V : publisher \in [Publishers -> Publisher(V)]
  BY DEF PublishersTyped
<1>3. publisher[x] \in Publisher(V)
  BY <1>2
<1>4. QED
  BY <1>1, <1>2, <1>3 DEF Publisher

\* The flags of a blip.
LEMMA CategorizeFields ==
  ASSUME NEW m, NEW prior_ring, NEW has_prior \in BOOLEAN
  PROVE  LET blip == Categorize(m, prior_ring, has_prior)
         IN  /\ blip.ring = DetermineRing(m)
             /\ blip.is_new <=> has_prior /\ prior_ring = NoRing
             /\ blip.is_moved <=> prior_ring # NoRing /\ prior_ring # DetermineRing(m)
<1> DEFINE blip == Categorize(m, prior_ring, has_prior)
<1>1. blip.ring = DetermineRing(m)
  BY DEF Categorize
<1>2. blip.is_new = (has_prior /\ prior_ring = NoRing)
  BY Zenon DEF Categorize
<1>3. blip.is_moved = (prior_ring # NoRing /\ prior_ring # DetermineRing(m))
  BY Zenon DEF Categorize
<1> HIDE DEF blip
<1>4. blip.is_new <=> has_prior /\ prior_ring = NoRing
  BY <1>2, Zenon
<1>5. blip.is_moved <=> prior_ring # NoRing /\ prior_ring # DetermineRing(m)
  BY <1>3, Zenon
<1>6. QED
  BY <1>1, <1>4, <1>5 DEF blip

LEMMA CategorizeMatches ==
  ASSUME PublishersTyped, NEW x \in Publishers, CategorizePackages(x)
  PROVE  FlagsMatch(x)'
<1> DEFINE prior == publisher[x].prior
           blips == BlipsOf(x)
<1>1. /\ publisher'[x].prior = prior /\ publisher'[x].blips = blips
      /\ publisher'[x].moves = DetectMovements(prior, blips)
  BY ComputedFields
<1>2. ASSUME NEW p \in DOMAIN blips
      PROVE  /\ blips[p].ring \in Rings
             /\ blips[p].is_new <=> prior # NoBlips /\ RingIn(prior, p) = NoRing
             /\ blips[p].is_moved <=> RingIn(prior, p) # NoRing /\ RingIn(prior, p) # blips[p].ring
  <2> DEFINE m == MetricsOf(publisher[x].users, p)
  <2>1. blips[p] = Categorize(m, RingIn(prior, p), prior # NoBlips)
    BY DEF BlipsOf
  <2>2. DetermineRing(m) \in Rings
    BY RingIsARing
  <2>3. (prior # NoBlips) \in BOOLEAN
    OBVIOUS
  <2> HIDE DEF m, blips, prior
  <2> DEFINE blip == Categorize(m, RingIn(prior, p), prior # NoBlips)
  <2>4. /\ blip.ring = DetermineRing(m)
        /\ blip.is_new <=> prior # NoBlips /\ RingIn(prior, p) = NoRing
        /\ blip.is_moved <=> RingIn(prior, p) # NoRing
                              /\ RingIn(prior, p) # DetermineRing(m)
    BY <2>3, CategorizeFields
  <2>5. blips[p] = blip
    BY <2>1
  <2> HIDE DEF blip
  <2>6. QED
    BY <2>2, <2>4, <2>5
<1>3. ASSUME NEW p \in DOMAIN blips
      PROVE  p \in {m.package : m \in DetectMovements(prior, blips)}
               <=> RingIn(prior, p) # blips[p].ring
  <2>1. p \in {m.package : m \in DetectMovements(prior, blips)} <=>
           /\ p \in DOMAIN prior \cup DOMAIN blips
           /\ RingIn(prior, p) # RingIn(blips, p)
    BY MovingPackages
  <2> HIDE DEF blips, prior
  <2>2. RingIn(blips, p) = blips[p].ring
    BY DEF RingIn
  <2>3. QED
    BY <2>1, <2>2
<1>4. NoRing \notin Rings
  BY DEF NoRing, Rings
<1> HIDE DEF blips, prior
<1>5. QED
  BY <1>1, <1>2, <1>3, <1>4 DEF FlagsMatch

-----------------------------------------------------------------------------
(* Every step of a publisher keeps its record a record.                    *)

LEMMA MoreValues ==
  ASSUME NEW V, NEW W
  PROVE  Publisher(V) \subseteq Publisher(V \cup W)
BY DEF Publisher

\* A publisher gets a new record, the others keep theirs.
LEMMA OneChanges ==
  ASSUME PublishersTyped, NEW x \in Publishers, NEW W, NEW new \in Publisher(W),
         publisher' = [publisher EXCEPT ![x] = new]
  PROVE  /\ PublishersTyped'
         /\ publisher'[x] = new
         /\ \A y \in Publishers \ {x} : publisher'[y] = publisher[y]
<1>1. PICK V : publisher \in [Publishers -> Publisher(V)]
  BY DEF PublishersTyped
<1>2. /\ Publisher(V) \subseteq Publisher(V \cup W)
      /\ Publisher(W) \subseteq Publisher(W \cup V)
      /\ W \cup V = V \cup W
  BY MoreValues
<1>3. publisher' \in [Publishers -> Publisher(V \cup W)]
  BY <1>1, <1>2
<1>4. PublishersTyped'
  BY <1>3 DEF PublishersTyped
<1>5. QED
  BY <1>1, <1>4

\* What a step makes of the record of the publisher that takes it.
LEMMA StepChangesOne ==
  ASSUME PublishersTyped, NEW x \in Publishers, RadarStep(x)
  PROVE  \E W, new : /\ new \in Publisher(W)
                     /\ publisher' = [publisher EXCEPT ![x] = new]
                     /\ new.at = "computed" => CategorizePackages(x)
                     /\ new.at = "clearing" => new.targets = Latest /\ new.date = today
                     /\ new.at = "cleared" => /\ publisher[x].at = "clearing"
                                              /\ new.targets = publisher[x].targets \cap Latest
                                              /\ new.date = publisher[x].date
<1>1. PICK V : publisher \in [Publishers -> Publisher(V)]
  BY DEF PublishersTyped
<1>2. publisher[x] \in Publisher(V)
  BY <1>1
<1>3. CASE LoadPrior(x)
  <2>1. PICK prior, excluded :
          publisher' = [publisher EXCEPT ![x] = [Away EXCEPT !.at = "prior", !.prior = prior,
                                                             !.excluded = excluded]]
    BY <1>3 DEF LoadPrior
  <2> DEFINE W == {{}, <<>>, 0, prior, excluded}
             new == [Away EXCEPT !.at = "prior", !.prior = prior, !.excluded = excluded]
  <2>2. new \in Publisher(W) /\ new.at = "prior"
    BY DEF Away, NoBlips, Publisher, Places
  <2>3. QED
    BY <2>1, <2>2
<1>4. CASE CountUsers(x)
  <2>1. PICK use : publisher' = [publisher EXCEPT ![x] =
                     [publisher[x] EXCEPT !.at = "counted", !.users = use]]
    <3> DEFINE use(p) == [repo_count |-> Cardinality(Users(p)), exposed |-> Cardinality(Exposed(p)),
                          first |-> Min({dependencies[<<r, p>>].first : r \in Users(p)})]
               all == [p \in {q \in Packages : Users(q) # {}} |-> use(p)]
    <3>1. publisher' = [publisher EXCEPT ![x].at = "counted", ![x].users = all]
      BY <1>4 DEF CountUsers
    <3> HIDE DEF all
    <3>2. publisher' = [publisher EXCEPT ![x] =
                          [publisher[x] EXCEPT !.at = "counted", !.users = all]]
      BY <3>1, <1>1
    <3>3. QED
      BY <3>2
  <2> DEFINE new == [publisher[x] EXCEPT !.at = "counted", !.users = use]
  <2>2. new \in Publisher(V \cup {use}) /\ new.at = "counted"
    BY <1>2 DEF Publisher, Places
  <2>3. QED
    BY <2>1, <2>2
<1>5. CASE CategorizePackages(x)
  <2> DEFINE moves == DetectMovements(publisher[x].prior, BlipsOf(x))
             new == [publisher[x] EXCEPT !.at = "computed", !.users = <<>>, !.blips = BlipsOf(x),
                                         !.moves = moves]
  <2>1. publisher' = [publisher EXCEPT ![x] = new]
    BY <1>5 DEF CategorizePackages, BlipsOf, MetricsOf
  <2> HIDE DEF moves
  <2>2. new \in Publisher(V \cup {<<>>, BlipsOf(x), moves}) /\ new.at = "computed"
    BY <1>2 DEF Publisher, Places
  <2>3. QED
    BY <2>1, <2>2, <1>5
<1>6. CASE BeginClear(x)
  <2> DEFINE new == [publisher[x] EXCEPT !.at = "clearing", !.date = today, !.targets = Latest]
  <2>1. publisher' = [publisher EXCEPT ![x] = new]
    BY <1>6 DEF BeginClear
  <2>2. /\ new \in Publisher(V \cup {today, Latest}) /\ new.at = "clearing"
        /\ new.targets = Latest /\ new.date = today
    BY <1>2 DEF Publisher, Places
  <2>3. QED
    BY <2>1, <2>2
<1>7. CASE Clear(x)
  <2> DEFINE left == publisher[x].targets \cap Latest
             new == [publisher[x] EXCEPT !.at = "cleared", !.targets = left]
  <2>1. publisher' = [publisher EXCEPT ![x] = new]
    BY <1>7 DEF Clear
  <2>2. /\ new \in Publisher(V \cup {left}) /\ new.at = "cleared"
        /\ new.targets = left /\ new.date = publisher[x].date
    BY <1>2 DEF Publisher, Places
  <2>3. publisher[x].at = "clearing"
    BY <1>7 DEF Clear, At
  <2>4. QED
    BY <2>1, <2>2, <2>3
<1>8. CASE Publish(x) \/ Abort(x)
  <2>1. publisher' = [publisher EXCEPT ![x] = Away]
    BY <1>8 DEF Publish, Abort
  <2>2. Away \in Publisher({{}, <<>>, 0}) /\ Away.at = "away"
    BY DEF Away, NoBlips, Publisher, Places
  <2>3. QED
    BY <2>1, <2>2
<1>9. QED
  BY <1>3, <1>4, <1>5, <1>6, <1>7, <1>8 DEF RadarStep

FlagsInvariant == PublishersTyped /\ \A x \in Publishers : FlagsMatch(x)

LEMMA FlagsInit == Init => FlagsInvariant
<1> SUFFICES ASSUME Init PROVE FlagsInvariant
  OBVIOUS
<1>1. Away \in Publisher({{}, <<>>, 0}) /\ Away.at = "away"
  BY DEF Away, NoBlips, Publisher, Places
<1>2. publisher = [x \in Publishers |-> Away]
  BY DEF Init
<1>3. publisher \in [Publishers -> Publisher({{}, <<>>, 0})]
  BY <1>1, <1>2
<1>4. PublishersTyped
  BY <1>3 DEF PublishersTyped
<1>5. \A x \in Publishers : ~At(x, "computed")
  BY <1>1, <1>2 DEF At
<1>6. QED
  BY <1>4, <1>5 DEF FlagsInvariant, FlagsMatch

LEMMA FlagsStep == FlagsInvariant /\ [Next]_vars => FlagsInvariant'
<1> SUFFICES ASSUME FlagsInvariant, [Next]_vars PROVE FlagsInvariant'
  OBVIOUS
<1>1. CASE UNCHANGED publisher
  BY <1>1 DEF FlagsInvariant, PublishersTyped, FlagsMatch, At
<1>2. ASSUME NEW x \in Publishers, RadarStep(x)
      PROVE  FlagsInvariant'
  <2>1. PublishersTyped
    BY DEF FlagsInvariant
  <2>2. PICK W, new : /\ new \in Publisher(W)
                      /\ publisher' = [publisher EXCEPT ![x] = new]
                      /\ new.at = "computed" => CategorizePackages(x)
    BY <1>2, <2>1, StepChangesOne
  <2>3. /\ PublishersTyped'
        /\ publisher'[x] = new
        /\ \A y \in Publishers \ {x} : publisher'[y] = publisher[y]
    BY <2>1, <2>2, OneChanges
  <2>4. FlagsMatch(x)'
    <3>1. CASE CategorizePackages(x)
      BY <3>1, <2>1, CategorizeMatches
    <3>2. CASE new.at # "computed"
      BY <3>2, <2>3 DEF FlagsMatch, At
    <3>3. QED
      BY <3>1, <3>2, <2>2
  <2>5. ASSUME NEW y \in Publishers \ {x}
        PROVE  FlagsMatch(y)'
    BY <2>3, <2>5 DEF FlagsInvariant, FlagsMatch, At
  <2>6. QED
    BY <2>3, <2>4, <2>5 DEF FlagsInvariant
<1>3. QED
  BY <1>1, <1>2 DEF Next, vars, radarVars

\* Whoever publishes, and whatever happens between the statements of a
\* publication, the flags of its blips and its movements tell one story:
\* analyzers/radar_categorization.py and _detect_movements compute them apart.
THEOREM FlagsAgree == Spec => []FlagsMatchMovements
<1>1. FlagsInvariant => FlagsMatchMovements
  BY DEF FlagsInvariant, FlagsMatch, FlagsMatchMovements
<1>2. QED
  BY <1>1, FlagsInit, FlagsStep, PTL DEF Spec

-----------------------------------------------------------------------------
(* One publisher at a time: the row that was inserted last is the latest.  *)

AtMostOnePublisher == \A x, y \in Publishers : x = y

Row(V) == [date : Nat, is_latest : BOOLEAN, blips : V]

\* The flag marks the row inserted last, and no row is of a later day.
LastIsLatest ==
  /\ \E V : publications \in Seq(Row(V))
  /\ today \in Nat
  /\ \A i \in DOMAIN publications : /\ publications[i].is_latest <=> i = Len(publications)
                                    /\ publications[i].date <= today

\* Whoever is clearing holds the row that is the latest.
HoldsLatest ==
  \A x \in Publishers :
    publisher[x].at \in {"clearing", "cleared"} =>
      publisher[x].targets = Latest /\ publisher[x].date \in Nat /\ publisher[x].date <= today

LatestInvariant == PublishersTyped /\ LastIsLatest /\ HoldsLatest

LEMMA LatestInit == Init => LatestInvariant
<1> SUFFICES ASSUME Init PROVE LatestInvariant
  OBVIOUS
<1>1. PublishersTyped
  BY FlagsInit DEF FlagsInvariant
<1>2. publications = <<>> /\ today = 0
  BY DEF Init, PortfolioInit
<1>3. publications \in Seq(Row({}))
  BY <1>2
<1>4. LastIsLatest
  BY <1>2, <1>3 DEF LastIsLatest
<1>5. HoldsLatest
  BY DEF Init, HoldsLatest, Away
<1>6. QED
  BY <1>1, <1>4, <1>5 DEF LatestInvariant

\* While nothing is inserted the rows stay as they are; days pass.
LEMMA RowsStay ==
  ASSUME LastIsLatest, UNCHANGED publications, today' \in Nat, today <= today'
  PROVE  LastIsLatest' /\ Latest' = Latest
<1>1. PICK V : publications \in Seq(Row(V))
  BY DEF LastIsLatest
<1>2. \A i \in DOMAIN publications : publications[i].date \in Nat
  <2>1. \A i \in DOMAIN publications : publications[i] \in Row(V)
    BY <1>1
  <2>2. QED
    BY <2>1 DEF Row
<1>3. \A i \in DOMAIN publications : publications[i].date <= today'
  BY <1>2 DEF LastIsLatest
<1>4. publications' \in Seq(Row(V))
  BY <1>1
<1>5. QED
  BY <1>3, <1>4 DEF LastIsLatest, Latest

LEMMA FunctionIsSequence ==
  ASSUME NEW S, NEW n \in Nat, NEW f \in [1..n -> S]
  PROVE  f \in Seq(S) /\ Len(f) = n
OBVIOUS

\* The inserted row is the only one that keeps the flag.
LEMMA InsertedIsLatest ==
  ASSUME LastIsLatest, HoldsLatest, NEW x \in Publishers, Publish(x)
  PROVE  LastIsLatest'
<1> DEFINE cleared == [i \in DOMAIN publications |->
                         [publications[i] EXCEPT !.is_latest = @ /\ i \notin publisher[x].targets]]
           inserted == [date |-> publisher[x].date, is_latest |-> TRUE, blips |-> publisher[x].blips]
<1>1. PICK V : publications \in Seq(Row(V))
  BY DEF LastIsLatest
<1>2. /\ publisher[x].targets = Latest
      /\ publisher[x].date \in Nat /\ publisher[x].date <= today
  BY DEF Publish, At, HoldsLatest
<1>3. publications' = Append(cleared, inserted) /\ today' = today
  BY DEF Publish, portfolioVars
<1> DEFINE n == Len(publications)
<1>4. n \in Nat /\ DOMAIN publications = 1..n /\ \A i \in 1..n : publications[i] \in Row(V)
  BY <1>1
<1>5. \A i \in 1..n : /\ cleared[i] \in Row(V)
                      /\ ~cleared[i].is_latest
                      /\ cleared[i].date = publications[i].date
  BY <1>2, <1>4 DEF Row, Latest
<1>6. DOMAIN cleared = 1..n /\ cleared = [i \in 1..n |-> cleared[i]]
  BY <1>4
<1>7. inserted \in Row(V \cup {publisher[x].blips}) /\ Row(V) \subseteq Row(V \cup {publisher[x].blips})
  BY <1>2 DEF Row
<1>8. cleared \in Seq(Row(V \cup {publisher[x].blips})) /\ Len(cleared) = n
  <2> HIDE DEF cleared
  <2>1. cleared \in [1..n -> Row(V \cup {publisher[x].blips})]
    BY <1>5, <1>6, <1>7
  <2>2. QED
    BY <2>1, <1>4, FunctionIsSequence
<1> HIDE DEF cleared
<1>9. /\ publications' \in Seq(Row(V \cup {publisher[x].blips}))
      /\ Len(publications') = n + 1
      /\ publications'[n + 1] = inserted
      /\ \A i \in 1..n : publications'[i] = cleared[i]
  BY <1>3, <1>4, <1>7, <1>8
<1>10. ASSUME NEW i \in DOMAIN publications'
       PROVE  /\ publications'[i].is_latest <=> i = Len(publications')
              /\ publications'[i].date <= today'
  <2>1. i \in 1..n \/ i = n + 1
    BY <1>4, <1>9
  <2>2. CASE i \in 1..n
    BY <2>2, <1>3, <1>4, <1>5, <1>9 DEF LastIsLatest
  <2>3. CASE i = n + 1
    BY <2>3, <1>2, <1>3, <1>9
  <2>4. QED
    BY <2>1, <2>2, <2>3
<1>11. today' \in Nat
  BY <1>3 DEF LastIsLatest
<1>12. QED
  BY <1>9, <1>10, <1>11 DEF LastIsLatest

LEMMA LatestStep ==
  ASSUME AtMostOnePublisher, LatestInvariant, [Next]_vars
  PROVE  LatestInvariant'
<1> USE DEF LatestInvariant
<1>1. CASE UNCHANGED radarVars
  <2>1. UNCHANGED <<publications, publisher>>
    BY <1>1 DEF radarVars
  <2>2. today' = today \/ today' = today + 1
    <3>1. CASE UNCHANGED vars
      BY <3>1 DEF vars, portfolioVars
    <3>2. CASE PortfolioNext
      <4>1. ASSUME NEW r \in Repos, ProcessDependencies(r) PROVE today' = today
        BY <4>1, Zenon DEF ProcessDependencies
      <4>2. ASSUME NEW p, NEW gone, NEW new, Amend(p, gone, new) PROVE today' = today
        BY ONLY <4>2 DEF Amend
      <4>3. ASSUME NEW p \in Packages, PublishAdvisory(p) \/ WithdrawAdvisory(p)
            PROVE  today' = today
        BY ONLY <4>2, <4>3, Zenon DEF PublishAdvisory, WithdrawAdvisory
      <4>4. CASE NextDay
        BY <4>4, Zenon DEF NextDay
      <4>5. QED
        BY ONLY <3>2, <4>1, <4>3, <4>4, Zenon DEF PortfolioNext
    <3>3. ASSUME NEW x \in Publishers, RadarStep(x)
          PROVE  today' = today
      BY <3>3 DEF RadarStep, LoadPrior, CountUsers, CategorizePackages, BeginClear, Clear,
                  Publish, Abort, portfolioVars
    <3>4. QED
      BY <3>1, <3>2, <3>3 DEF Next
  <2>3. today \in Nat /\ today' \in Nat /\ today <= today'
    BY <2>2 DEF LastIsLatest
  <2>4. LastIsLatest' /\ Latest' = Latest
    BY <2>1, <2>3, RowsStay
  <2>5. HoldsLatest'
    BY <2>1, <2>3, <2>4 DEF HoldsLatest
  <2>6. PublishersTyped'
    BY <2>1 DEF PublishersTyped
  <2>7. QED
    BY <2>4, <2>5, <2>6
<1>2. ASSUME NEW x \in Publishers, RadarStep(x)
      PROVE  LatestInvariant'
  <2>1. PICK W, new : /\ new \in Publisher(W)
                      /\ publisher' = [publisher EXCEPT ![x] = new]
                      /\ new.at = "clearing" => new.targets = Latest /\ new.date = today
                      /\ new.at = "cleared" => /\ publisher[x].at = "clearing"
                                               /\ new.targets = publisher[x].targets \cap Latest
                                               /\ new.date = publisher[x].date
    BY <1>2, StepChangesOne
  <2>2. PublishersTyped' /\ publisher'[x] = new
    BY <2>1, OneChanges
  <2>3. \A y \in Publishers : y = x
    BY DEF AtMostOnePublisher
  <2>4. CASE Publish(x)
    <3>1. publisher'[x] = Away
      <4>1. PICK V : publisher \in [Publishers -> Publisher(V)]
        BY DEF PublishersTyped
      <4>2. QED
        BY <4>1, <2>4 DEF Publish
    <3>2. HoldsLatest'
      BY <3>1, <2>3 DEF HoldsLatest, Away
    <3>3. LastIsLatest'
      BY <2>4, InsertedIsLatest
    <3>4. QED
      BY <2>2, <3>2, <3>3
  <2>5. CASE ~Publish(x)
    <3>1. UNCHANGED <<publications, today>>
      BY <1>2, <2>5 DEF RadarStep, LoadPrior, CountUsers, CategorizePackages, BeginClear, Clear,
                        Abort, portfolioVars
    <3>2. today \in Nat
      BY DEF LastIsLatest
    <3>3. LastIsLatest' /\ Latest' = Latest
      BY <3>1, <3>2, RowsStay
    <3>4. HoldsLatest'
      <4>1. ASSUME new.at \in {"clearing", "cleared"}
            PROVE  new.targets = Latest /\ new.date \in Nat /\ new.date <= today
        <5>1. CASE new.at = "clearing"
          BY <5>1, <2>1, <3>2
        <5>2. CASE new.at = "cleared"
          BY <5>2, <2>1 DEF HoldsLatest
        <5>3. QED
          BY <4>1, <5>1, <5>2
      <4>2. QED
        BY <4>1, <2>2, <2>3, <3>1, <3>3 DEF HoldsLatest
    <3>5. QED
      BY <2>2, <3>3, <3>4
  <2>6. QED
    BY <2>4, <2>5
<1>3. QED
  BY <1>1, <1>2 DEF Next, vars

\* What the invariant says of the readers.
LEMMA LatestRow ==
  ASSUME LastIsLatest
  PROVE  OneLatest /\ ExportAgrees
<1> DEFINE n == Len(publications)
<1>1. PICK V : publications \in Seq(Row(V))
  BY DEF LastIsLatest
<1>2. n \in Nat /\ DOMAIN publications = 1..n
  BY <1>1
<1>3. CASE n = 0
  <2>1. publications = <<>> /\ Latest = {}
    BY <1>1, <1>2, <1>3 DEF Latest
  <2>2. {i \in DOMAIN publications : publications[i].date <= today} = {}
    BY <1>2, <1>3
  <2>3. QED
    BY <2>1, <2>2 DEF OneLatest, ExportAgrees, ExportRadar, GetRadar
<1>4. CASE n # 0
  <2>1. Latest = {n}
    BY <1>2, <1>4 DEF Latest, LastIsLatest
  <2>2. OneLatest
    BY <2>1, FS_Singleton DEF OneLatest
  <2>3. {i \in DOMAIN publications : publications[i].date <= today} = 1..n
    BY <1>2 DEF LastIsLatest
  <2>4. Max(1..n) = n
    BY <1>2, <1>4 DEF Max
  <2>5. (CHOOSE i \in {n} : TRUE) = n
    OBVIOUS
  <2>6. 1..n # {} /\ {n} # {}
    BY <1>2, <1>4
  <2>7. ExportRadar(today) = publications[n].blips
    BY <2>3, <2>4, <2>6 DEF ExportRadar
  <2>8. GetRadar = publications[n].blips
    BY <2>1, <2>5, <2>6 DEF GetRadar
  <2>9. QED
    BY <2>2, <2>7, <2>8 DEF ExportAgrees
<1>5. QED
  BY <1>3, <1>4

\* With one publisher at a time, and whichever of its publications fail,
\* exactly one publication is the latest (workflows/radar_publication.py).
THEOREM OneRowIsLatest == ASSUME AtMostOnePublisher PROVE Spec => []OneLatest
<1>1. LatestInvariant => OneLatest
  BY LatestRow DEF LatestInvariant
<1>2. LatestInvariant /\ [Next]_vars => LatestInvariant'
  BY LatestStep
<1>3. QED
  BY <1>1, <1>2, LatestInit, PTL DEF Spec

\* And what the radar endpoint finds by the flag is what an export finds by
\* the date.
THEOREM ReadersSeeOneRadar == ASSUME AtMostOnePublisher PROVE Spec => []ExportAgrees
<1>1. LatestInvariant => ExportAgrees
  BY LatestRow DEF LatestInvariant
<1>2. LatestInvariant /\ [Next]_vars => LatestInvariant'
  BY LatestStep
<1>3. QED
  BY <1>1, <1>2, LatestInit, PTL DEF Spec

-----------------------------------------------------------------------------
(* The timeline: movements are appended, each package at most once.        *)

\* SetToSeq lists each element of a finite set once.
LEMMA EachOnce ==
  ASSUME NEW S, IsFiniteSet(S)
  PROVE  LET s == SetToSeq(S)
             n == Cardinality(S)
         IN  /\ n \in Nat /\ s \in [1..n -> S]
             /\ \A i, j \in 1..n : s[i] = s[j] => i = j
             /\ \A x \in S : \E i \in 1..n : s[i] = x
<1> DEFINE n == Cardinality(S)
           s == SetToSeq(S)
<1>1. n \in Nat /\ ExistsBijection(1..n, S)
  BY FS_CardinalityType
<1>2. PICK f : f \in Bijection(1..n, S)
  BY <1>1 DEF ExistsBijection
<1>3. f \in [1..n -> S] /\ IsInjective(f)
  BY <1>2 DEF Bijection, Injection, IsInjective
<1>4. s \in [1..n -> S] /\ IsInjective(s)
  BY <1>3 DEF SetToSeq
<1>5. s \in Injection(1..n, S)
  BY <1>4 DEF Injection
<1>6. Cardinality(1..n) = n
  <2> HIDE DEF n
  <2>1. 1 \in Int /\ n \in Int /\ (1 > n => n = 0) /\ n - 1 + 1 = n
    BY <1>1
  <2>2. QED
    BY <2>1, FS_Interval
<1>7. s \in Surjection(1..n, S)
  <2> HIDE DEF s, n
  <2>1. QED
    BY <1>5, <1>6, FS_Injection DEF n
<1> HIDE DEF s, n
<1>8. /\ n \in Nat /\ s \in [1..n -> S]
      /\ \A i, j \in 1..n : s[i] = s[j] => i = j
      /\ \A x \in S : \E i \in 1..n : s[i] = x
  BY <1>1, <1>4, <1>7 DEF IsInjective, Surjection
<1>9. QED
  BY <1>8 DEF s, n

\* Where the last of these rows of h left its package.
RingOf(row) == IF row.current_ring = Removed THEN NoRing ELSE row.current_ring
After(h, rows) == IF rows = {} THEN NoRing ELSE RingOf(h[Max(rows)])
RowsOf(h, p) == {i \in DOMAIN h : h[i].package = p}

\* The timeline of p in h leads to this ring.
LeadsTo(h, p, ring) ==
  /\ ring = After(h, RowsOf(h, p))
  /\ \A i \in RowsOf(h, p) : h[i].prior_ring = After(h, {j \in RowsOf(h, p) : j < i})

LEMMA TimelineIs ==
  ASSUME NEW p
  PROVE  /\ RadarHistory(p) = RowsOf(history, p)
         /\ \A rows : RingAfter(rows) = After(history, rows)
BY DEF RadarHistory, RowsOf, RingAfter, After, RingOf

LEMMA LastOf ==
  ASSUME NEW n \in Nat, NEW T, T \subseteq 1..n, NEW k \in T, \A x \in T : x <= k
  PROVE  Max(T) = k
<1>1. Max(T) \in T /\ \A x \in T : x <= Max(T)
  BY MaxIsLast
<1>2. Max(T) \in 1..n /\ k \in 1..n
  BY <1>1
<1>3. k <= Max(T) /\ Max(T) <= k
  BY <1>1
<1>4. QED
  BY <1>2, <1>3

\* g is h with c rows more.
MoreRows(g, h, n, c) ==
  /\ n \in Nat /\ c \in Nat
  /\ DOMAIN h = 1..n /\ DOMAIN g = 1..(n + c)
  /\ \A i \in 1..n : g[i] = h[i]

\* Of these at most one is of the package, and takes it from one ring to
\* another; if none is, the package stays where it is.
MovesOnce(g, n, c, p, before, ring) ==
  \/ ring = before /\ \A k \in 1..c : g[n + k].package # p
  \/ \E k \in 1..c : /\ g[n + k].package = p /\ g[n + k].prior_ring = before
                     /\ RingOf(g[n + k]) = ring
                     /\ \A l \in 1..c : g[n + l].package = p => l = k

LEMMA TimelineGrows ==
  ASSUME NEW h, NEW g, NEW n, NEW c, MoreRows(g, h, n, c), NEW p, NEW before, NEW ring,
         LeadsTo(h, p, before), MovesOnce(g, n, c, p, before, ring)
  PROVE  LeadsTo(g, p, ring)
<1> DEFINE old == RowsOf(h, p)
           new == RowsOf(g, p)
<1>1. /\ n \in Nat /\ c \in Nat /\ DOMAIN h = 1..n /\ DOMAIN g = 1..(n + c)
      /\ \A i \in 1..n : g[i] = h[i]
  BY DEF MoreRows
<1>2. old \subseteq 1..n /\ 1..n \subseteq 1..(n + c)
  BY <1>1 DEF RowsOf
<1>3. \A i \in 1..(n + c) : i \in 1..n \/ (i - n \in 1..c /\ i = n + (i - n))
  BY <1>1
<1>4. \A i \in 1..n : i \in new <=> i \in old
  BY <1>1, <1>2 DEF RowsOf
<1>5. ASSUME NEW rows, rows \subseteq 1..n PROVE After(g, rows) = After(h, rows)
  <2>1. CASE rows = {}
    BY <2>1 DEF After
  <2>2. CASE rows # {}
    <3>1. Max(rows) \in rows
      BY <1>1, <1>5, <2>2, MaxIsLast
    <3>2. QED
      BY <1>1, <1>5, <2>2, <3>1 DEF After
  <2>3. QED
    BY <2>1, <2>2
<1>6. ASSUME NEW i \in old
      PROVE  g[i].prior_ring = After(g, {j \in new : j < i})
  <2>1. i \in 1..n
    BY <1>2
  <2>2. \A j \in new : j < i => j \in 1..n
    BY <1>1, <2>1 DEF RowsOf
  <2>3. {j \in new : j < i} = {j \in old : j < i}
    BY <1>2, <1>4, <2>1, <2>2
  <2>4. After(g, {j \in old : j < i}) = After(h, {j \in old : j < i})
    <3> DEFINE early == {j \in old : j < i}
    <3>1. early \subseteq 1..n
      BY <1>2
    <3> HIDE DEF early
    <3>2. After(g, early) = After(h, early)
      BY <1>5, <3>1
    <3>3. QED
      BY <3>2 DEF early
  <2>5. h[i].prior_ring = After(h, {j \in old : j < i})
    BY DEF LeadsTo
  <2>6. QED
    BY <1>1, <2>1, <2>3, <2>4, <2>5
<1>7. After(g, old) = before
  <2>1. After(g, old) = After(h, old)
    BY <1>2, <1>5
  <2>2. QED
    BY <2>1 DEF LeadsTo
<1>8. CASE ring = before /\ \A k \in 1..c : g[n + k].package # p
  <2>1. new = old
    BY <1>1, <1>2, <1>3, <1>4, <1>8 DEF RowsOf
  <2>2. QED
    BY <1>6, <1>7, <1>8, <2>1 DEF LeadsTo
<1>9. CASE \E k \in 1..c : /\ g[n + k].package = p /\ g[n + k].prior_ring = before
                           /\ RingOf(g[n + k]) = ring
                           /\ \A l \in 1..c : g[n + l].package = p => l = k
  <2>1. PICK k \in 1..c : /\ g[n + k].package = p /\ g[n + k].prior_ring = before
                          /\ RingOf(g[n + k]) = ring
                          /\ \A l \in 1..c : g[n + l].package = p => l = k
    BY <1>9
  <2>2. n + k \in 1..(n + c) /\ \A i \in 1..n : i < n + k
    BY <1>1
  <2>3. n + k \in new
    BY <1>1, <2>1, <2>2 DEF RowsOf
  <2>4. ASSUME NEW i \in new PROVE i \in old \/ i = n + k
    <3>1. i \in 1..(n + c) /\ g[i].package = p
      BY <1>1 DEF RowsOf
    <3>2. CASE i \in 1..n
      BY <1>4, <3>2
    <3>3. CASE i - n \in 1..c /\ i = n + (i - n)
      <4>1. i - n = k
        BY <2>1, <3>1, <3>3
      <4>2. QED
        BY <3>3, <4>1
    <3>4. QED
      BY <1>3, <3>1, <3>2, <3>3
  <2>5. new = old \cup {n + k}
    BY <1>1, <1>2, <1>4, <2>3, <2>4
  <2>6. Max(new) = n + k
    <3>1. n + c \in Nat /\ new \subseteq 1..(n + c)
      BY <1>1 DEF RowsOf
    <3>2. \A x \in new : x <= n + k
      BY <1>1, <1>2, <2>2, <2>5
    <3> HIDE DEF new
    <3>3. QED
      BY <2>3, <3>1, <3>2, LastOf
  <2>7. {j \in new : j < n + k} = old
    BY <1>1, <1>2, <2>2, <2>5
  <2>8. After(g, new) = ring
    BY <2>1, <2>3, <2>6 DEF After
  <2> HIDE DEF new, old
  <2>9. \A i \in new : g[i].prior_ring = After(g, {j \in new : j < i})
    BY <1>6, <1>7, <2>1, <2>5, <2>7
  <2>10. QED
    BY <2>8, <2>9 DEF LeadsTo, new
<1>10. QED
  BY <1>8, <1>9 DEF MovesOnce

\* Blips are of packages, in one of the four rings.
BlipsFit(blips) ==
  /\ DOMAIN blips \subseteq Packages
  /\ \A p \in DOMAIN blips : blips[p].ring \in Rings

\* A publication compares with what is published.
ComparesWithLatest(x) ==
  LET t == publisher[x]
  IN  /\ t.at # "away" => t.prior = GetRadar
      /\ t.at = "counted" => DOMAIN t.users \subseteq Packages
      /\ t.at \in {"computed", "clearing", "cleared"} =>
           BlipsFit(t.blips) /\ t.moves = DetectMovements(t.prior, t.blips)

TimelineInvariant ==
  /\ \E V : history \in Seq(V)
  /\ \A i \in DOMAIN publications : BlipsFit(publications[i].blips)
  /\ \A x \in Publishers : ComparesWithLatest(x)
  /\ \A p : LeadsTo(history, p, RingIn(GetRadar, p))

LEMMA TimelineInit == Init => TimelineInvariant
<1> SUFFICES ASSUME Init PROVE TimelineInvariant
  OBVIOUS
<1>1. history = <<>> /\ publications = <<>> /\ publisher = [x \in Publishers |-> Away]
  BY DEF Init
<1>2. history \in Seq({}) /\ DOMAIN history = {} /\ DOMAIN publications = {}
  BY <1>1
<1>3. GetRadar = <<>>
  BY <1>2 DEF GetRadar, Latest, NoBlips
<1>4. ASSUME NEW p PROVE LeadsTo(history, p, RingIn(GetRadar, p))
  <2>1. RowsOf(history, p) = {} /\ RingIn(GetRadar, p) = NoRing
    BY <1>2, <1>3 DEF RowsOf, RingIn
  <2>2. QED
    BY <2>1 DEF LeadsTo, After
<1>5. \A x \in Publishers : ComparesWithLatest(x)
  BY <1>1 DEF ComparesWithLatest, Away
<1>6. QED
  BY <1>2, <1>4, <1>5 DEF TimelineInvariant

\* Only two rings have a name outside Rings.
LEMMA RingNames == NoRing \notin Rings /\ Removed \notin Rings /\ NoRing # Removed
BY DEF NoRing, Removed, Rings

LEMMA RadarFits ==
  ASSUME TimelineInvariant
  PROVE  BlipsFit(GetRadar)
<1>1. CASE Latest = {}
  BY <1>1 DEF GetRadar, NoBlips, BlipsFit
<1>2. CASE Latest # {}
  <2>1. (CHOOSE i \in Latest : TRUE) \in DOMAIN publications
    BY <1>2 DEF Latest
  <2>2. QED
    BY <1>2, <2>1 DEF GetRadar, TimelineInvariant
<1>3. QED
  BY <1>1, <1>2

LEMMA ComputedBlipsFit ==
  ASSUME NEW x \in Publishers, DOMAIN publisher[x].users \subseteq Packages
  PROVE  BlipsFit(BlipsOf(x))
<1> DEFINE prior == publisher[x].prior
           has == (prior # NoBlips)
           m(p) == MetricsOf(publisher[x].users, p)
<1>1. ASSUME NEW p \in DOMAIN BlipsOf(x)
      PROVE  BlipsOf(x)[p].ring \in Rings
  <2>1. BlipsOf(x)[p] = Categorize(m(p), RingIn(prior, p), has)
    BY DEF BlipsOf
  <2>2. has \in BOOLEAN
    OBVIOUS
  <2> HIDE DEF prior, has, m
  <2> DEFINE blip == Categorize(m(p), RingIn(prior, p), has)
  <2>3. blip.ring = DetermineRing(m(p))
    BY <2>2, CategorizeFields
  <2> HIDE DEF blip
  <2>4. QED
    BY <2>1, <2>3, RingIsARing DEF blip
<1>2. DOMAIN BlipsOf(x) \subseteq Packages
  BY DEF BlipsOf
<1>3. QED
  BY <1>1, <1>2 DEF BlipsFit

\* What a step of the only publisher makes of its record, before it inserts.
LEMMA PublisherCompares ==
  ASSUME AtMostOnePublisher, PublishersTyped, LastIsLatest, NEW x \in Publishers, RadarStep(x),
         ~Publish(x), ComparesWithLatest(x), GetRadar' = GetRadar
  PROVE  ComparesWithLatest(x)'
<1>1. PICK V : publisher \in [Publishers -> Publisher(V)]
  BY DEF PublishersTyped
<1> DEFINE t == publisher[x]
<1>2. t \in Publisher(V)
  BY <1>1
<1>3. CASE LoadPrior(x)
  <2>1. PICK prior \in IF Latest = {} THEN {NoBlips} ELSE {publications[i].blips : i \in Latest},
             excluded \in Exclusions :
          publisher' = [publisher EXCEPT ![x] = [Away EXCEPT !.at = "prior", !.prior = prior,
                                                             !.excluded = excluded]]
    BY <1>3 DEF LoadPrior
  <2>2. prior = GetRadar
    <3>1. CASE Latest = {}
      BY <2>1, <3>1 DEF GetRadar
    <3>2. CASE Latest # {}
      <4>1. PICK k \in Latest : prior = publications[k].blips
        BY <2>1, <3>2
      <4>2. \A j \in Latest : j = Len(publications)
        BY DEF Latest, LastIsLatest
      <4>3. (CHOOSE i \in Latest : TRUE) = k
        BY <4>1, <4>2
      <4> DEFINE first == CHOOSE i \in Latest : TRUE
      <4>4. GetRadar = publications[first].blips
        BY <3>2 DEF GetRadar
      <4>5. first = k
        BY <4>3
      <4> HIDE DEF first
      <4>6. QED
        BY <4>1, <4>4, <4>5
    <3>3. QED
      BY <3>1, <3>2
  <2> DEFINE new == [Away EXCEPT !.at = "prior", !.prior = prior, !.excluded = excluded]
  <2>3. new.at = "prior" /\ new.prior = prior
    BY DEF Away
  <2>4. publisher'[x] = new
    BY <1>1, <2>1
  <2> HIDE DEF new
  <2>5. QED
    BY <2>2, <2>3, <2>4 DEF ComparesWithLatest
<1>4. CASE CountUsers(x)
  <2> DEFINE use(p) == [repo_count |-> Cardinality(Users(p)), exposed |-> Cardinality(Exposed(p)),
                        first |-> Min({dependencies[<<r, p>>].first : r \in Users(p)})]
             all == [p \in {q \in Packages : Users(q) # {}} |-> use(p)]
  <2>1. publisher' = [publisher EXCEPT ![x].at = "counted", ![x].users = all] /\ t.at = "prior"
    BY <1>4 DEF CountUsers, At
  <2>2. DOMAIN all \subseteq Packages
    OBVIOUS
  <2> HIDE DEF all
  <2>3. publisher'[x] = [t EXCEPT !.at = "counted", !.users = all]
    BY <1>1, <2>1
  <2>4. publisher'[x].at = "counted" /\ publisher'[x].users = all /\ publisher'[x].prior = t.prior
    BY <1>2, <2>3 DEF Publisher
  <2>5. QED
    BY <2>1, <2>2, <2>4 DEF ComparesWithLatest
<1>5. CASE CategorizePackages(x)
  <2>1. /\ publisher'[x].prior = t.prior /\ publisher'[x].blips = BlipsOf(x)
        /\ publisher'[x].moves = DetectMovements(t.prior, BlipsOf(x))
    BY <1>5, ComputedFields
  <2>2. t.at = "counted"
    BY <1>5 DEF CategorizePackages, At
  <2>3. BlipsFit(BlipsOf(x))
    BY <2>2, ComputedBlipsFit DEF ComparesWithLatest
  <2>4. publisher'[x].at = "computed"
    BY <1>1, <1>2, <1>5 DEF CategorizePackages, Publisher
  <2>5. QED
    BY <2>1, <2>2, <2>3, <2>4 DEF ComparesWithLatest
<1>6. CASE BeginClear(x)
  <2>1. publisher'[x] = [t EXCEPT !.at = "clearing", !.date = today, !.targets = Latest] /\ t.at = "computed"
    BY <1>1, <1>6 DEF BeginClear, At
  <2>2. /\ publisher'[x].at = "clearing" /\ publisher'[x].prior = t.prior
        /\ publisher'[x].blips = t.blips /\ publisher'[x].moves = t.moves
    BY <1>2, <2>1 DEF Publisher
  <2>3. QED
    BY <2>1, <2>2 DEF ComparesWithLatest
<1>7. CASE Clear(x)
  <2>1. publisher'[x] = [t EXCEPT !.at = "cleared", !.targets = @ \cap Latest] /\ t.at = "clearing"
    BY <1>1, <1>7 DEF Clear, At
  <2>2. /\ publisher'[x].at = "cleared" /\ publisher'[x].prior = t.prior
        /\ publisher'[x].blips = t.blips /\ publisher'[x].moves = t.moves
    BY <1>2, <2>1 DEF Publisher
  <2>3. QED
    BY <2>1, <2>2 DEF ComparesWithLatest
<1>8. CASE Abort(x)
  <2>1. publisher'[x] = Away
    BY <1>1, <1>8 DEF Abort
  <2>2. QED
    BY <2>1 DEF ComparesWithLatest, Away
<1>9. QED
  BY <1>3, <1>4, <1>5, <1>6, <1>7, <1>8 DEF RadarStep

Appends(g, h, prior, blips) == g = h \o SetToSeq(DetectMovements(prior, blips))

\* The movements of a publication lead from one radar to the next.
LEMMA MovementsLead ==
  ASSUME NEW h, NEW V, h \in Seq(V), NEW prior, NEW blips, BlipsFit(prior), BlipsFit(blips),
         NEW g, Appends(g, h, prior, blips), NEW p,
         LeadsTo(h, p, RingIn(prior, p))
  PROVE  /\ g \in Seq(V \cup DetectMovements(prior, blips))
         /\ LeadsTo(g, p, RingIn(blips, p))
<1> DEFINE moves == DetectMovements(prior, blips)
           s == SetToSeq(moves)
           n == Len(h)
           c == Cardinality(moves)
           moving == {q \in DOMAIN prior \cup DOMAIN blips : RingIn(prior, q) # RingIn(blips, q)}
           m(q) == Movement(prior, blips, q)
<1>1. moves = {m(q) : q \in moving}
  BY DEF DetectMovements
<1>2. \A q : /\ m(q).package = q
             /\ m(q).prior_ring = RingIn(prior, q)
             /\ m(q).current_ring = IF q \in DOMAIN blips THEN blips[q].ring ELSE Removed
  BY DEF Movement
<1>3. IsFiniteSet(moves)
  <2> DEFINE f == [q \in moving |-> m(q)]
  <2>1. moving \subseteq Packages
    BY DEF BlipsFit
  <2>2. IsFiniteSet(moving)
    BY <2>1, AnswersAssumption, FS_Subset
  <2>3. DOMAIN f = moving /\ moves = {f[q] : q \in DOMAIN f}
    BY <1>1
  <2> HIDE DEF f, moves, moving
  <2>4. IsFiniteSet({f[q] : q \in DOMAIN f})
    BY <2>2, <2>3, FiniteImage
  <2>5. QED
    BY <2>3, <2>4
<1> HIDE DEF m, moves, moving
<1>4. /\ c \in Nat /\ s \in [1..c -> moves]
      /\ \A i, j \in 1..c : s[i] = s[j] => i = j
      /\ \A x \in moves : \E i \in 1..c : s[i] = x
  BY <1>3, EachOnce
<1>5. g = h \o s
  BY DEF Appends, moves
<1> HIDE DEF s, c
<1>6. s \in Seq(moves) /\ Len(s) = c
  BY <1>4
<1>7. n \in Nat /\ DOMAIN h = 1..n
  OBVIOUS
<1>8. h \in Seq(V \cup moves) /\ s \in Seq(V \cup moves)
  <2>1. \A i \in 1..n : h[i] \in V
    OBVIOUS
  <2>2. h \in [1..n -> V \cup moves] /\ s \in [1..c -> V \cup moves]
    BY <1>4, <1>7, <2>1
  <2> HIDE DEF n
  <2>3. QED
    BY <1>4, <1>7, <2>2
<1>9. g \in Seq(V \cup moves) /\ DOMAIN g = 1..(n + c)
  <2> DEFINE U == V \cup moves
  <2>1. h \in Seq(U) /\ s \in Seq(U) /\ Len(h) = n
    BY <1>8
  <2> HIDE DEF U, n
  <2>2. g \in Seq(U)
    BY <1>5, <2>1
  <2>3. Len(h \o s) = Len(h) + Len(s)
    BY <2>1
  <2>4. Len(g) = n + c
    BY <1>5, <1>6, <2>1, <2>3
  <2>5. DOMAIN g = 1..Len(g)
    BY <2>2
  <2>6. QED
    BY <2>2, <2>4, <2>5 DEF U
<1>10. (\A i \in 1..n : g[i] = h[i]) /\ (\A k \in 1..c : g[n + k] = s[k])
  BY <1>4, <1>5, <1>6, <1>7, <1>8
<1> HIDE DEF n
<1>11. \A k \in 1..c : \E q \in moving : g[n + k] = m(q)
  <2>1. SUFFICES ASSUME NEW k \in 1..c PROVE \E q \in moving : g[n + k] = m(q)
    OBVIOUS
  <2>2. g[n + k] = s[k] /\ s[k] \in moves
    BY <1>4, <1>10
  <2>3. QED
    BY <1>1, <2>2
<1>12. MoreRows(g, h, n, c)
  BY <1>4, <1>7, <1>9, <1>10 DEF MoreRows
<1>13. SUFFICES LeadsTo(g, p, RingIn(blips, p))
  BY <1>9 DEF moves
<1>14. CASE p \in moving
  <2>1. PICK k \in 1..c : s[k] = m(p)
    BY <1>1, <1>4, <1>14
  <2>2. g[n + k] = m(p)
    BY <1>10, <2>1
  <2>3. RingOf(m(p)) = RingIn(blips, p)
    <3>1. CASE p \in DOMAIN blips
      <4>1. blips[p].ring \in Rings /\ m(p).current_ring = blips[p].ring
        BY <1>2, <3>1 DEF BlipsFit
      <4>2. QED
        BY <3>1, <4>1, RingNames DEF RingOf, RingIn
    <3>2. CASE p \notin DOMAIN blips
      BY <1>2, <3>2 DEF RingOf, RingIn
    <3>3. QED
      BY <3>1, <3>2
  <2>4. ASSUME NEW l \in 1..c, g[n + l].package = p PROVE l = k
    <3>1. PICK q \in moving : g[n + l] = m(q)
      BY <1>11
    <3>2. q = p
      BY <1>2, <2>4, <3>1
    <3>3. s[l] = s[k]
      BY <1>10, <2>1, <3>1, <3>2
    <3>4. QED
      BY <1>4, <3>3
  <2>5. MovesOnce(g, n, c, p, RingIn(prior, p), RingIn(blips, p))
    BY <1>2, <2>2, <2>3, <2>4 DEF MovesOnce
  <2>6. QED
    BY <1>12, <2>5, TimelineGrows
<1>15. CASE p \notin moving
  <2>1. RingIn(blips, p) = RingIn(prior, p)
    BY <1>15 DEF moving, RingIn
  <2>2. \A k \in 1..c : g[n + k].package # p
    BY <1>2, <1>11, <1>15
  <2>3. MovesOnce(g, n, c, p, RingIn(prior, p), RingIn(blips, p))
    BY <2>1, <2>2 DEF MovesOnce
  <2>4. QED
    BY <1>12, <2>3, TimelineGrows
<1>16. QED
  BY <1>14, <1>15

LEMMA PublishLeads ==
  ASSUME AtMostOnePublisher, LatestInvariant, TimelineInvariant, NEW x \in Publishers, Publish(x)
  PROVE  TimelineInvariant'
<1> DEFINE t == publisher[x]
           n == Len(publications)
<1>1. /\ t.prior = GetRadar /\ BlipsFit(t.blips) /\ t.moves = DetectMovements(t.prior, t.blips)
  BY DEF Publish, At, TimelineInvariant, ComparesWithLatest
<1>2. PICK V : publications \in Seq(Row(V))
  BY DEF LatestInvariant, LastIsLatest
<1>3. n \in Nat /\ DOMAIN publications = 1..n
  BY <1>2
<1>4. /\ DOMAIN publications' = 1..(n + 1) /\ Len(publications') = n + 1
      /\ \A i \in 1..n : publications'[i].blips = publications[i].blips
      /\ publications'[n + 1].blips = t.blips
  <2> DEFINE cleared == [i \in DOMAIN publications |->
                           [publications[i] EXCEPT !.is_latest = @ /\ i \notin publisher[x].targets]]
             inserted == [date |-> publisher[x].date, is_latest |-> TRUE, blips |-> publisher[x].blips]
  <2>1. publications' = Append(cleared, inserted)
    BY DEF Publish
  <2>2. \A i \in 1..n : publications[i] \in Row(V)
    BY <1>2, <1>3
  <2>3. \A i \in 1..n : cleared[i].blips = publications[i].blips
    BY <1>3, <2>2 DEF Row
  <2>4. cleared = [i \in 1..n |-> cleared[i]]
    BY <1>3
  <2> HIDE DEF cleared, n
  <2>5. cleared \in Seq({cleared[i] : i \in 1..n}) /\ Len(cleared) = n
    BY <1>3, <2>4
  <2>6. inserted.blips = t.blips
    OBVIOUS
  <2> HIDE DEF inserted
  <2>7. /\ DOMAIN publications' = 1..(n + 1) /\ Len(publications') = n + 1
        /\ \A i \in 1..n : publications'[i] = cleared[i]
        /\ publications'[n + 1] = inserted
    BY <1>3, <2>1, <2>5
  <2>8. QED
    BY <2>3, <2>6, <2>7
<1>5. GetRadar' = t.blips
  <2>1. LastIsLatest'
    BY InsertedIsLatest DEF LatestInvariant
  <2>2. Latest' = {n + 1}
    BY <1>3, <1>4, <2>1 DEF Latest, LastIsLatest
  <2>3. (CHOOSE i \in {n + 1} : TRUE) = n + 1 /\ {n + 1} # {}
    OBVIOUS
  <2>4. QED
    BY <1>4, <2>2, <2>3 DEF GetRadar
<1>6. \A i \in DOMAIN publications' : BlipsFit(publications'[i].blips)
  <2>1. \A i \in 1..(n + 1) : i \in 1..n \/ i = n + 1
    BY <1>3
  <2>2. QED
    BY <1>1, <1>3, <1>4, <2>1 DEF TimelineInvariant
<1>7. \A y \in Publishers : ComparesWithLatest(y)'
  <2>1. publisher'[x] = Away
    <3>1. PICK W : publisher \in [Publishers -> Publisher(W)]
      BY DEF LatestInvariant, PublishersTyped
    <3>2. QED
      BY <3>1 DEF Publish
  <2>2. \A y \in Publishers : y = x
    BY DEF AtMostOnePublisher
  <2>3. QED
    BY <2>1, <2>2 DEF ComparesWithLatest, Away
<1>8. Appends(history', history, GetRadar, t.blips)
  BY <1>1 DEF Publish, Appends
<1>9. PICK W : history \in Seq(W)
  BY DEF TimelineInvariant
<1>10. BlipsFit(GetRadar)
  BY RadarFits
<1> HIDE DEF t, n
<1>11. ASSUME NEW p
       PROVE  /\ history' \in Seq(W \cup DetectMovements(GetRadar, t.blips))
              /\ LeadsTo(history', p, RingIn(t.blips, p))
  <2>1. LeadsTo(history, p, RingIn(GetRadar, p))
    BY DEF TimelineInvariant
  <2>2. QED
    BY <1>1, <1>8, <1>9, <1>10, <2>1, MovementsLead
<1>12. QED
  BY <1>5, <1>6, <1>7, <1>11 DEF TimelineInvariant

LEMMA TimelineStep ==
  ASSUME AtMostOnePublisher, LatestInvariant, TimelineInvariant, [Next]_vars
  PROVE  TimelineInvariant'
<1>1. CASE UNCHANGED radarVars
  <2>1. UNCHANGED <<publications, publisher, history>>
    BY <1>1 DEF radarVars
  <2>2. GetRadar' = GetRadar
    BY <2>1 DEF GetRadar, Latest
  <2>3. QED
    BY <2>1, <2>2 DEF TimelineInvariant, ComparesWithLatest
<1>2. ASSUME NEW x \in Publishers, RadarStep(x)
      PROVE  TimelineInvariant'
  <2>1. CASE Publish(x)
    BY <2>1, PublishLeads
  <2>2. CASE ~Publish(x)
    <3>1. UNCHANGED <<publications, history>>
      BY <1>2, <2>2 DEF RadarStep, LoadPrior, CountUsers, CategorizePackages, BeginClear, Clear, Abort
    <3>2. GetRadar' = GetRadar
      BY <3>1 DEF GetRadar, Latest
    <3>3. ComparesWithLatest(x)'
      BY <1>2, <2>2, <3>2, PublisherCompares DEF LatestInvariant, TimelineInvariant
    <3>4. \A y \in Publishers : ComparesWithLatest(y)'
      BY <3>3, Zenon DEF AtMostOnePublisher
    <3>5. QED
      BY <3>1, <3>2, <3>4 DEF TimelineInvariant
  <2>3. QED
    BY <2>1, <2>2
<1>3. QED
  BY <1>1, <1>2 DEF Next, vars

LEMMA TimelineFollows ==
  ASSUME TimelineInvariant
  PROVE  TimelineLeadsToRadar
BY TimelineIs DEF TimelineInvariant, LeadsTo, TimelineLeadsToRadar

\* With one publisher at a time the timeline of a package (the rows of
\* radar_blip_history that /api/radar/history selects) leads from ring to ring
\* to where the package is now, whichever publications failed in between.
THEOREM TimelineLeads == ASSUME AtMostOnePublisher PROVE Spec => []TimelineLeadsToRadar
<1>1. Init => LatestInvariant /\ TimelineInvariant
  BY LatestInit, TimelineInit
<1>2. (LatestInvariant /\ TimelineInvariant) /\ [Next]_vars => (LatestInvariant /\ TimelineInvariant)'
  BY LatestStep, TimelineStep
<1>3. LatestInvariant /\ TimelineInvariant => TimelineLeadsToRadar
  BY TimelineFollows
<1>4. QED
  BY <1>1, <1>2, <1>3, PTL DEF Spec

-----------------------------------------------------------------------------
(* Which declaration is kept.                                              *)

LEMMA TextLength ==
  ASSUME NEW v
  PROVE  Len(Text(v)) \in Nat
BY DEF Text

\* a is no worse than b: Supersedes as an order.
AsGood(a, b) ==
  \/ ~a.dev /\ b.dev
  \/ /\ a.dev = b.dev
     /\ b.version # NoVersion => /\ a.version # NoVersion
                                 /\ Len(Text(b.version)) <= Len(Text(a.version))

LEMMA OneIsAsGood ==
  ASSUME NEW dep \in Declaration, NEW existing \in Declaration
  PROVE  IF Supersedes(dep, existing) THEN AsGood(dep, existing) ELSE AsGood(existing, dep)
<1>1. Len(Text(dep.version)) \in Nat /\ Len(Text(existing.version)) \in Nat
  BY TextLength
<1>2. dep.dev \in BOOLEAN /\ existing.dev \in BOOLEAN
  BY DEF Declaration
<1> DEFINE s == Len(Text(dep.version))  t == Len(Text(existing.version))
<1>3. s > t => t <= s
  BY <1>1
<1>4. ~(s > t) => s <= t
  BY <1>1
<1>5. QED
  BY <1>2, <1>3, <1>4, Zenon DEF Supersedes, AsGood

LEMMA AsGoodIsOrder ==
  /\ \A a \in Declaration : AsGood(a, a)
  /\ \A a, b, c \in Declaration : AsGood(a, b) /\ AsGood(b, c) => AsGood(a, c)
<1>1. \A v : Len(Text(v)) \in Nat
  BY TextLength
<1>2. \A a \in Declaration : a.dev \in BOOLEAN
  BY DEF Declaration
<1>3. \A a \in Declaration : AsGood(a, a)
  BY <1>1 DEF AsGood
<1>4. ASSUME NEW a \in Declaration, NEW b \in Declaration, NEW c \in Declaration,
             AsGood(a, b), AsGood(b, c)
      PROVE  AsGood(a, c)
  <2> DEFINE r == Len(Text(a.version))  s == Len(Text(b.version))  t == Len(Text(c.version))
  <2>1. t <= s /\ s <= r => t <= r
    BY <1>1
  <2>2. QED
    BY <1>2, <1>4, <2>1, Zenon DEF AsGood
<1>5. QED
  BY <1>3, <1>4

Seen(kept, dep) ==
  IF \E i \in DOMAIN kept : kept[i].package = dep.package
  THEN [i \in DOMAIN kept |->
          IF kept[i].package = dep.package /\ Supersedes(dep, kept[i])
          THEN dep ELSE kept[i]]
  ELSE Append(kept, dep)

IsDedup(g, deps) ==
  g = [s \in SUBSET DOMAIN deps |->
         IF s = {} THEN <<>> ELSE Seen(g[s \ {Max(s)}], deps[Max(s)])]

\* The fold over the positions of a list exists.
LEMMA DedupExists ==
  ASSUME NEW deps, NEW n \in Nat, DOMAIN deps = 1..n
  PROVE  \E g : IsDedup(g, deps)
<1> DEFINE S == DOMAIN deps
           Right(g, s) == g[s] = IF s = {} THEN <<>> ELSE Seen(g[s \ {Max(s)}], deps[Max(s)])
           Upto(g, k) == \A s \in SUBSET S : Cardinality(s) <= k => Right(g, s)
           D == {k \in Nat : \E g : Upto(g, k)}
<1>1. IsFiniteSet(S) /\ \A s \in SUBSET S : IsFiniteSet(s) /\ Cardinality(s) \in Nat
  <2>1. IsFiniteSet(1..n)
    <3>1. 1 \in Int /\ n \in Int
      OBVIOUS
    <3>2. QED
      BY <3>1, FS_Interval
  <2>2. QED
    BY <2>1, FS_Subset, FS_CardinalityType
<1>2. \A s \in SUBSET S : s # {} => Max(s) \in s
  BY MaxIsLast
<1>3. 0 \in D
  <2> DEFINE g == [s \in SUBSET S |-> <<>>]
  <2>1. ASSUME NEW s \in SUBSET S, Cardinality(s) <= 0 PROVE Right(g, s)
    <3>1. Cardinality(s) = 0
      BY <1>1, <2>1
    <3>2. s = {}
      BY <1>1, <3>1, FS_EmptySet
    <3>3. QED
      BY <3>2
  <2> HIDE DEF g
  <2>2. QED
    BY <2>1
<1>4. ASSUME NEW k \in Nat, k \in D PROVE k + 1 \in D
  <2>1. PICK g : \A s \in SUBSET S : Cardinality(s) <= k => Right(g, s)
    BY <1>4
  <2> DEFINE h == [s \in SUBSET S |-> IF s = {} THEN <<>> ELSE Seen(g[s \ {Max(s)}], deps[Max(s)])]
  <2>2. ASSUME NEW s \in SUBSET S, Cardinality(s) <= k + 1 PROVE Right(h, s)
    <3>1. CASE s = {}
      BY <3>1
    <3>2. CASE s # {}
      <4> DEFINE r == s \ {Max(s)}
      <4>1. Max(s) \in s /\ r \in SUBSET S
        BY <1>2, <3>2
      <4>2. Cardinality(r) = Cardinality(s) - 1
        BY <1>1, <4>1, FS_RemoveElement
      <4>3. Cardinality(r) <= k
        BY <1>1, <2>2, <4>2
      <4>4. Right(g, r)
        BY <2>1, <4>1, <4>3
      <4>5. h[r] = g[r]
        BY <4>1, <4>4
      <4>6. QED
        BY <3>2, <4>5
    <3>3. QED
      BY <3>1, <3>2
  <2>3. Upto(h, k + 1)
    <3> HIDE DEF h, Right
    <3> QED
      BY <2>2
  <2>4. k + 1 \in Nat
    OBVIOUS
  <2> HIDE DEF h, Upto
  <2>5. QED
    BY <2>3, <2>4
<1>5. Nat \subseteq D
  <2> HIDE DEF D
  <2> QED
    BY <1>3, <1>4, InductionOverNat
<1>6. PICK g : \A s \in SUBSET S : Cardinality(s) <= Cardinality(S) => Right(g, s)
  BY <1>1, <1>5
<1>7. \A s \in SUBSET S : Right(g, s)
  BY <1>1, <1>6, FS_Subset
<1> DEFINE h == [s \in SUBSET S |-> g[s]]
<1>8. IsDedup(h, deps)
  <2>1. \A s \in SUBSET S : s # {} => s \ {Max(s)} \in SUBSET S
    OBVIOUS
  <2>2. QED
    BY <1>7, <2>1 DEF IsDedup
<1>9. QED
  BY <1>8

\* What is kept after n declarations: one of each package, as good as any.
KeptOf(kept, deps, n) ==
  /\ kept \in Seq(Declaration)
  /\ \A i, j \in DOMAIN kept : kept[i].package = kept[j].package => i = j
  /\ \A i \in DOMAIN kept : \E j \in 1..n : kept[i] = deps[j]
  /\ \A j \in 1..n : \E i \in DOMAIN kept :
        kept[i].package = deps[j].package /\ AsGood(kept[i], deps[j])

LEMMA KeptOneMore ==
  ASSUME NEW kept, NEW deps, NEW n \in Nat, KeptOf(kept, deps, n),
         \A j \in 1..(n + 1) : deps[j] \in Declaration
  PROVE  KeptOf(Seen(kept, deps[n + 1]), deps, n + 1)
<1> DEFINE dep == deps[n + 1]
           new == Seen(kept, dep)
           m == Len(kept)
<1>1. kept \in Seq(Declaration) /\ m \in Nat /\ DOMAIN kept = 1..m /\ \A i \in 1..m : kept[i] \in Declaration
  BY DEF KeptOf
<1>2. dep \in Declaration /\ 1..n \subseteq 1..(n + 1) /\ n + 1 \in 1..(n + 1)
  OBVIOUS
<1>3. \A j \in 1..(n + 1) : j \in 1..n \/ j = n + 1
  OBVIOUS
<1>4. CASE \E i \in DOMAIN kept : kept[i].package = dep.package
  <2>1. new = [i \in 1..m |-> IF kept[i].package = dep.package /\ Supersedes(dep, kept[i])
                              THEN dep ELSE kept[i]]
    BY <1>1, <1>4 DEF Seen
  <2>2. ASSUME NEW i \in 1..m
        PROVE  /\ new[i] \in Declaration
               /\ new[i].package = kept[i].package
               /\ AsGood(new[i], kept[i])
               /\ kept[i].package = dep.package => AsGood(new[i], dep)
               /\ new[i] = dep \/ new[i] = kept[i]
    <3>1. kept[i] \in Declaration
      BY <1>1
    <3>2. CASE kept[i].package = dep.package /\ Supersedes(dep, kept[i])
      <4>1. new[i] = dep
        BY <2>1, <3>2
      <4>2. AsGood(dep, kept[i]) /\ AsGood(dep, dep)
        BY <1>2, <3>1, <3>2, OneIsAsGood, AsGoodIsOrder
      <4> HIDE DEF new, dep
      <4>3. QED
        BY <1>2, <3>2, <4>1, <4>2
    <3>3. CASE ~(kept[i].package = dep.package /\ Supersedes(dep, kept[i]))
      <4>1. new[i] = kept[i]
        BY <2>1, <3>3
      <4>2. AsGood(kept[i], kept[i]) /\ (kept[i].package = dep.package => AsGood(kept[i], dep))
        BY <1>2, <3>1, <3>3, OneIsAsGood, AsGoodIsOrder
      <4> HIDE DEF new, dep
      <4>3. QED
        BY <3>1, <4>1, <4>2
    <3>4. QED
      BY <3>2, <3>3
  <2>3. DOMAIN new = 1..m /\ new \in Seq(Declaration)
    <3>1. new = [i \in 1..m |-> new[i]]
      BY <2>1
    <3> HIDE DEF new, m
    <3>2. new \in [1..m -> Declaration]
      BY <2>2, <3>1
    <3>3. QED
      BY <1>1, <3>2
  <2> HIDE DEF new, m
  <2>4. \A i, j \in DOMAIN new : new[i].package = new[j].package => i = j
    BY <1>1, <2>2, <2>3 DEF KeptOf
  <2>5. \A i \in DOMAIN new : \E j \in 1..(n + 1) : new[i] = deps[j]
    <3>1. SUFFICES ASSUME NEW i \in 1..m PROVE \E j \in 1..(n + 1) : new[i] = deps[j]
      BY <2>3
    <3>2. CASE new[i] = dep
      BY <1>2, <3>2
    <3>3. CASE new[i] = kept[i]
      <4>1. PICK j \in 1..n : kept[i] = deps[j]
        BY <1>1 DEF KeptOf
      <4>2. QED
        BY <1>2, <3>3, <4>1
    <3>4. QED
      BY <2>2, <3>2, <3>3
  <2>6. ASSUME NEW j \in 1..(n + 1)
        PROVE  \E i \in DOMAIN new : new[i].package = deps[j].package /\ AsGood(new[i], deps[j])
    <3>1. CASE j \in 1..n
      <4>1. PICK i \in 1..m : kept[i].package = deps[j].package /\ AsGood(kept[i], deps[j])
        BY <1>1, <3>1 DEF KeptOf
      <4>2. /\ new[i] \in Declaration /\ kept[i] \in Declaration /\ deps[j] \in Declaration
            /\ AsGood(new[i], kept[i]) /\ new[i].package = kept[i].package
        BY <1>1, <2>2
      <4>3. AsGood(new[i], deps[j])
        BY <4>1, <4>2, AsGoodIsOrder
      <4>4. QED
        BY <2>3, <4>1, <4>2, <4>3
    <3>2. CASE j = n + 1
      <4>1. PICK i \in 1..m : kept[i].package = dep.package
        BY <1>1, <1>4
      <4>2. QED
        BY <2>2, <2>3, <3>2, <4>1
    <3>3. QED
      BY <1>3, <3>1, <3>2
  <2>7. QED
    BY <2>3, <2>4, <2>5, <2>6 DEF KeptOf, new
<1>5. CASE ~\E i \in DOMAIN kept : kept[i].package = dep.package
  <2>1. new = Append(kept, dep)
    BY <1>5 DEF Seen
  <2>2. /\ new \in Seq(Declaration) /\ DOMAIN new = 1..(m + 1)
        /\ \A i \in 1..m : new[i] = kept[i]
        /\ new[m + 1] = dep
    BY <1>1, <1>2, <2>1
  <2>3. \A i \in 1..(m + 1) : i \in 1..m \/ i = m + 1
    BY <1>1
  <2>4. 1..m \subseteq 1..(m + 1) /\ m + 1 \in 1..(m + 1)
    BY <1>1
  <2> HIDE DEF new, m, dep
  <2>5. ASSUME NEW i \in 1..(m + 1), NEW j \in 1..(m + 1), new[i].package = new[j].package
        PROVE  i = j
    <3>1. i \in 1..m => new[i].package = kept[i].package /\ kept[i].package # dep.package
      BY <1>1, <1>5, <2>2
    <3>2. j \in 1..m => new[j].package = kept[j].package /\ kept[j].package # dep.package
      BY <1>1, <1>5, <2>2
    <3>3. i \in 1..m /\ j \in 1..m => i = j
      BY <1>1, <2>5, <3>1, <3>2 DEF KeptOf
    <3>4. QED
      BY <2>2, <2>3, <2>5, <3>1, <3>2, <3>3
  <2>6. ASSUME NEW i \in 1..(m + 1)
        PROVE  \E j \in 1..(n + 1) : new[i] = deps[j]
    <3>1. CASE i = m + 1
      BY <1>2, <2>2, <3>1 DEF dep
    <3>2. CASE i \in 1..m
      <4>1. PICK j \in 1..n : kept[i] = deps[j]
        BY <1>1, <3>2 DEF KeptOf
      <4>2. QED
        BY <1>2, <2>2, <3>2, <4>1
    <3>3. QED
      BY <2>3, <3>1, <3>2
  <2>7. ASSUME NEW j \in 1..(n + 1)
        PROVE  \E i \in 1..(m + 1) : new[i].package = deps[j].package /\ AsGood(new[i], deps[j])
    <3>1. CASE j \in 1..n
      <4>1. PICK i \in 1..m : kept[i].package = deps[j].package /\ AsGood(kept[i], deps[j])
        BY <1>1, <3>1 DEF KeptOf
      <4>2. QED
        BY <2>2, <2>4, <4>1
    <3>2. CASE j = n + 1
      <4>1. AsGood(dep, dep)
        BY <1>2, AsGoodIsOrder
      <4>2. QED
        BY <2>2, <2>4, <3>2, <4>1 DEF dep
    <3>3. QED
      BY <1>3, <3>1, <3>2
  <2>8. QED
    BY <2>2, <2>5, <2>6, <2>7 DEF KeptOf, new, dep
<1>6. QED
  BY <1>4, <1>5

LEMMA Deduplicated ==
  ASSUME NEW deps \in Seq(Declaration)
  PROVE  KeptOf(DeduplicateDependencies(deps), deps, Len(deps))
<1> DEFINE n == Len(deps)
           S == DOMAIN deps
           g == CHOOSE g : IsDedup(g, deps)
<1>1. n \in Nat /\ S = 1..n /\ \A j \in 1..n : deps[j] \in Declaration
  OBVIOUS
<1>2. IsDedup(g, deps)
  BY <1>1, DedupExists
<1>3. DeduplicateDependencies(deps) = g[S]
  BY DEF DeduplicateDependencies, FoldLeft, MapThenFoldSet, IsDedup, Seen
<1> HIDE DEF g, n, S
<1> DEFINE T == {k \in Nat : k <= n => KeptOf(g[1..k], deps, k)}
<1>4. 0 \in T
  <2>1. 1..0 = {} /\ {} \in SUBSET S
    OBVIOUS
  <2>2. g[1..0] = <<>>
    BY <1>2, <2>1 DEF IsDedup, S
  <2>3. KeptOf(<<>>, deps, 0)
    BY DEF KeptOf
  <2>4. QED
    BY <2>2, <2>3
<1>5. ASSUME NEW k \in Nat, k \in T PROVE k + 1 \in T
  <2>1. SUFFICES ASSUME k + 1 <= n PROVE KeptOf(g[1..(k + 1)], deps, k + 1)
    OBVIOUS
  <2> DEFINE s == 1..(k + 1)
  <2>2. s \in SUBSET S /\ s # {} /\ s \ {k + 1} = 1..k /\ k + 1 \in s
    <3>1. k + 1 \in s
      OBVIOUS
    <3>2. s \ {k + 1} = 1..k
      OBVIOUS
    <3>3. \A i \in s : i \in 1..n
      BY <1>1, <2>1
    <3> HIDE DEF s
    <3>4. QED
      BY <1>1, <3>1, <3>2, <3>3
  <2>3. Max(s) = k + 1
    <3>1. k + 1 \in Nat
      OBVIOUS
    <3>2. Max(s) \in s /\ \A x \in s : x <= Max(s)
      BY <2>2, <3>1, MaxIsLast
    <3>3. QED
      BY <2>2, <3>2
  <2>4. g[s] = Seen(g[1..k], deps[k + 1])
    <3> HIDE DEF s
    <3> QED
      BY <1>2, <2>2, <2>3 DEF IsDedup, S
  <2>5. KeptOf(g[1..k], deps, k)
    BY <1>1, <1>5, <2>1
  <2>6. \A j \in 1..(k + 1) : deps[j] \in Declaration
    BY <1>1, <2>1
  <2>7. QED
    BY <2>4, <2>5, <2>6, KeptOneMore
<1>6. Nat \subseteq T
  <2> HIDE DEF T
  <2> QED
    BY <1>4, <1>5, InductionOverNat
<1>7. KeptOf(g[1..n], deps, n)
  BY <1>1, <1>6
<1>8. QED
  BY <1>1, <1>3, <1>7 DEF n

-----------------------------------------------------------------------------
(* What an analysis stores.                                                *)

DeclaredIn(manifests) == FlattenSeq([i \in DOMAIN manifests |-> ParseManifest(manifests[i])])

\* What becomes of the i-th dependency, these calls having failed.
Outcome(deps, failed, i) ==
  EnrichDependency(deps[i],
    Replies(deps[i].package, {c \in {"osv", "date", "eol"} : <<i, c>> \in failed}), today)

Enriched(deps, failed) == {Outcome(deps, failed, i) : i \in DOMAIN deps}

KnownIn(enriched) == {e \in enriched : e.metadata.known}

Stores(r, deps, failed) ==
  /\ \E first \in FirstFixes(UNION {e.metadata.cves : e \in KnownIn(Enriched(deps, failed))}) :
       packages' = StorePackageMetadata(Enriched(deps, failed), first)
  /\ dependencies' = StoreRepoDependencies(r, Enriched(deps, failed))
  /\ blinded' = (blinded \ {e.package : e \in {d \in Enriched(deps, failed) : d.metadata.known}})
                  \cup {deps[i].package : i \in {j \in DOMAIN deps : <<j, "osv">> \in failed}}

LEMMA ManifestsDeclare ==
  ASSUME NEW r \in Repos, NEW manifests \in Manifests[r], manifests # Outage
  PROVE  DeclaredIn(manifests) \in Seq(Declaration)
<1> DEFINE lists == [i \in DOMAIN manifests |-> ParseManifest(manifests[i])]
<1>1. manifests \in Seq(ManifestFile)
  BY AnswersAssumption
<1>2. \A i \in DOMAIN manifests : ParseManifest(manifests[i]) \in Seq(Declaration)
  <2>1. SUFFICES ASSUME NEW i \in DOMAIN manifests
                 PROVE  ParseManifest(manifests[i]) \in Seq(Declaration)
    OBVIOUS
  <2>2. manifests[i] \in ManifestFile
    BY <1>1
  <2>3. manifests[i].declares \in Seq(Declaration)
    BY <2>2 DEF ManifestFile
  <2>4. QED
    BY <2>3 DEF ParseManifest
<1>3. DOMAIN manifests = 1..Len(manifests) /\ Len(manifests) \in Nat
  BY <1>1
<1>4. lists \in [1..Len(manifests) -> Seq(Declaration)]
  BY <1>2, <1>3
<1> HIDE DEF lists
<1>5. lists \in Seq(Seq(Declaration))
  BY <1>3, <1>4
<1>6. QED
  BY <1>5, FlattenedIsList DEF DeclaredIn, lists

\* An analysis stores nothing, or one dependency of each package declared.
LEMMA AnalysisStores ==
  ASSUME NEW r \in Repos, ProcessDependencies(r)
  PROVE  \/ UNCHANGED <<dependencies, packages, declared, blinded>>
         \/ \E list \in Seq(Declaration) : \E deps, failed :
              /\ KeptOf(deps, list, Len(list))
              /\ declared' = [declared EXCEPT ![r] = list]
              /\ Stores(r, deps, failed)
<1>1. PICK manifests \in Manifests[r] :
        LET deps == Analyze(manifests)
            calls == (DOMAIN deps) \X {"osv", "date", "eol"}
        IN  \/ UNCHANGED <<dependencies, packages, declared, blinded>>
            \/ /\ deps # <<>>
               /\ \E n \in 0..(MaxOutages - outages) : \E failed \in kSubset(n, calls) :
                    /\ Stores(r, deps, failed)
                    /\ declared' = [declared EXCEPT ![r] = DeclaredIn(manifests)]
  BY DEF ProcessDependencies, Stores, Enriched, KnownIn, Outcome, DeclaredIn
<1> DEFINE deps == Analyze(manifests)
<1>2. CASE UNCHANGED <<dependencies, packages, declared, blinded>>
  BY <1>2
<1>3. CASE ~UNCHANGED <<dependencies, packages, declared, blinded>>
  <2>1. deps # <<>> /\ \E failed : /\ Stores(r, deps, failed)
                                   /\ declared' = [declared EXCEPT ![r] = DeclaredIn(manifests)]
    BY <1>1, <1>3
  <2>2. manifests # Outage
    BY <2>1 DEF Analyze
  <2>3. deps = DeduplicateDependencies(DeclaredIn(manifests))
    BY <2>2 DEF Analyze, DeclaredIn
  <2>4. DeclaredIn(manifests) \in Seq(Declaration)
    BY <2>2, ManifestsDeclare
  <2>5. KeptOf(deps, DeclaredIn(manifests), Len(DeclaredIn(manifests)))
    BY <2>3, <2>4, Deduplicated
  <2> HIDE DEF deps
  <2>6. QED
    BY <2>1, <2>4, <2>5
<1>4. QED
  BY <1>2, <1>3

\* What the enrichment makes of a declaration.
LEMMA EnrichmentFields ==
  ASSUME NEW dep \in Declaration, NEW osv, NEW date \in {Outage, Releases}, NEW eol, NEW day,
         NEW replies, replies = [osv |-> osv, date |-> date, eol |-> eol]
  PROVE  LET e == EnrichDependency(dep, replies, day)
         IN  /\ e.package = dep.package /\ e.version = dep.version /\ e.dev = dep.dev
             /\ e.exposed \in BOOLEAN /\ e.metadata.known \in BOOLEAN
             /\ e.metadata.known => /\ e.metadata.is_eol \in BOOLEAN
                                    /\ e.metadata.eol_date \in Int
             /\ e.metadata.known /\ osv # Outage => e.metadata.cves = ExtractVulnerabilities(osv)
             /\ e.exposed => /\ e.metadata.known /\ osv # Outage
                             /\ \E v \in osv : \E f \in v.fixed : VersionIsAffected(dep.version, f)
<1> DEFINE e == EnrichDependency(dep, replies, day)
           info == GetPackageInfo(osv)
           vulns == ExtractVulnerabilities(info.vulns)
           found == GetEolDate(date, dep.version)
<1>1. replies.osv = osv /\ replies.date = date /\ replies.eol = eol
  OBVIOUS
<1>2. CASE osv # Outage /\ ~Readable(osv)
  <2>1. e = [package |-> dep.package, version |-> dep.version, dev |-> dep.dev,
             exposed |-> FALSE, metadata |-> [known |-> FALSE]]
    BY <1>1, <1>2 DEF EnrichDependency, CreateEnrichedDependency, NoMetadata
  <2> HIDE DEF e
  <2>2. /\ e.package = dep.package /\ e.version = dep.version /\ e.dev = dep.dev
        /\ e.exposed = FALSE /\ e.metadata.known = FALSE
    BY <2>1
  <2>3. QED
    BY <2>2 DEF e
<1>3. CASE ~(osv # Outage /\ ~Readable(osv))
  <2> DEFINE flag == \E v \in vulns : \E f \in v.fixed : VersionIsAffected(dep.version, f)
             over == found # NoDate /\ IsEol(eol, dep.version, day)
             meta == [known |-> TRUE, latest |-> ExtractLatestVersion(info.vulns),
                      is_eol |-> over, eol_date |-> found, cves |-> vulns]
  <2>1. e = [package |-> dep.package, version |-> dep.version, dev |-> dep.dev,
             exposed |-> flag, metadata |-> meta]
    BY <1>1, <1>3 DEF EnrichDependency, EnrichSingle
  <2>2. flag \in BOOLEAN /\ over \in BOOLEAN
    OBVIOUS
  <2>3. found \in Int
    BY PortfolioAssumption DEF GetEolDate, NoDate
  <2>4. osv # Outage => vulns = ExtractVulnerabilities(osv)
    BY DEF GetPackageInfo
  <2>5. ASSUME flag
        PROVE  osv # Outage /\ \E v \in osv : \E f \in v.fixed : VersionIsAffected(dep.version, f)
    <3>1. PICK v \in vulns : \E f \in v.fixed : VersionIsAffected(dep.version, f)
      BY <2>5
    <3>2. osv # Outage
      BY <3>1 DEF GetPackageInfo, ExtractVulnerabilities
    <3>3. PICK u \in osv : v = [id |-> u.id, cve |-> u.cve, severity |-> ExtractSeverity(u.score),
                                fixed |-> u.fixed]
      BY <3>1, <3>2, <2>4 DEF ExtractVulnerabilities
    <3>4. v.fixed = u.fixed
      BY <3>3
    <3>5. QED
      BY <3>1, <3>2, <3>4
  <2> HIDE DEF flag, over, vulns, found, info, e
  <2>6. /\ e.package = dep.package /\ e.version = dep.version /\ e.dev = dep.dev
        /\ e.exposed = flag /\ e.metadata = meta
    BY <2>1
  <2>7. meta.known = TRUE /\ meta.is_eol = over /\ meta.eol_date = found /\ meta.cves = vulns
    OBVIOUS
  <2> HIDE DEF meta
  <2>8. QED
    BY <2>2, <2>3, <2>4, <2>5, <2>6, <2>7 DEF e
<1>4. QED
  BY <1>2, <1>3

Distinct(deps) == \A i, j \in DOMAIN deps : deps[i].package = deps[j].package => i = j

Named(deps, failed) == \A j \in DOMAIN deps : Outcome(deps, failed, j).package = deps[j].package

\* The dependency that decides on a package is the only one of it.
LEMMA OutcomeOfPackage ==
  ASSUME NEW deps, NEW failed, Distinct(deps), NEW i \in DOMAIN deps,
         Named(deps, failed)
  PROVE  /\ Outcome(deps, failed, i) \in Enriched(deps, failed)
         /\ \A e \in Enriched(deps, failed) :
              e.package = deps[i].package => e = Outcome(deps, failed, i)
BY DEF Named, Distinct, Enriched

\* What a stored vulnerability has of one that was answered.
Stored(w, v) ==
  /\ w.id = v.id
  /\ IF v.fixed = {} THEN w.fixed_in = NoVersion ELSE w.fixed_in \in v.fixed

\* A package row shows these metadata.
RowShows(row, metadata) ==
  /\ row.latest = metadata.latest
  /\ row.is_eol = metadata.is_eol
  /\ row.eol_date = metadata.eol_date
  /\ \A v \in metadata.cves : \E w \in row.cves : Stored(w, v)
  /\ \A w \in row.cves : \E v \in metadata.cves : Stored(w, v)

LEMMA PackageRowShows ==
  ASSUME NEW vulns, NEW first \in FirstFixes(vulns), NEW metadata, metadata.cves \subseteq vulns
  PROVE  RowShows(PackageRow(metadata, first), metadata)
<1> DEFINE w(v) == [id |-> v.id, cve |-> v.cve, severity |-> v.severity, fixed_in |-> first[v]]
           rows == {w(v) : v \in metadata.cves}
           row == PackageRow(metadata, first)
<1>1. row = [latest |-> metadata.latest, is_eol |-> metadata.is_eol,
             eol_date |-> metadata.eol_date, cves |-> rows]
  BY DEF PackageRow
<1>2. ASSUME NEW v \in metadata.cves PROVE Stored(w(v), v)
  <2>1. w(v).id = v.id /\ w(v).fixed_in = first[v]
    OBVIOUS
  <2>2. IF v.fixed = {} THEN first[v] = NoVersion ELSE first[v] \in v.fixed
    BY DEF FirstFixes
  <2> HIDE DEF w
  <2>3. QED
    BY <2>1, <2>2 DEF Stored
<1> HIDE DEF w
<1>3. /\ \A v \in metadata.cves : w(v) \in rows /\ Stored(w(v), v)
      /\ \A x \in rows : \E v \in metadata.cves : Stored(x, v)
  BY <1>2
<1> HIDE DEF rows, row
<1>4. /\ row.latest = metadata.latest /\ row.is_eol = metadata.is_eol
      /\ row.eol_date = metadata.eol_date /\ row.cves = rows
  BY <1>1
<1>5. QED
  BY <1>3, <1>4 DEF RowShows, row

\* The packages after an analysis.
PackagesAre(deps, failed) ==
  /\ DOMAIN packages' = DOMAIN packages \cup
       {deps[i].package : i \in {j \in DOMAIN deps : Outcome(deps, failed, j).metadata.known}}
  /\ \A i \in DOMAIN deps :
       Outcome(deps, failed, i).metadata.known =>
         RowShows(packages'[deps[i].package], Outcome(deps, failed, i).metadata)
  /\ \A p \in DOMAIN packages :
       (\A i \in DOMAIN deps : deps[i].package = p => ~Outcome(deps, failed, i).metadata.known)
         => packages'[p] = packages[p]

LEMMA PackagesStored ==
  ASSUME NEW r, NEW deps, NEW failed, Distinct(deps), Stores(r, deps, failed),
         Named(deps, failed)
  PROVE  PackagesAre(deps, failed)
<1> DEFINE all == Enriched(deps, failed)
           known == {e \in all : e.metadata.known}
           names == {e.package : e \in known}
           vulns == UNION {e.metadata.cves : e \in known}
           out(i) == Outcome(deps, failed, i)
<1>1. PICK first \in FirstFixes(vulns) :
        packages' = [p \in DOMAIN packages \cup names |->
                       IF \E e \in known : e.package = p
                       THEN PackageRow((CHOOSE e \in known : e.package = p).metadata, first)
                       ELSE packages[p]]
  BY DEF Stores, StorePackageMetadata, KnownIn
<1>2. \A i \in DOMAIN deps : /\ out(i) \in all
                             /\ \A e \in all : e.package = deps[i].package => e = out(i)
  BY OutcomeOfPackage
<1>3. \A e \in all : \E i \in DOMAIN deps : e = out(i)
  BY DEF Enriched
<1>4. \A e \in known : e.metadata.cves \subseteq vulns
  OBVIOUS
<1> HIDE DEF all, out, vulns
<1>5. names = {deps[i].package : i \in {j \in DOMAIN deps : out(j).metadata.known}}
  BY <1>2, <1>3 DEF out, Named
<1>6. ASSUME NEW i \in DOMAIN deps, out(i).metadata.known
      PROVE  RowShows(packages'[deps[i].package], out(i).metadata)
  <2>1. out(i) \in known /\ out(i).package = deps[i].package
    BY <1>2, <1>6 DEF out, Named
  <2>2. (CHOOSE e \in known : e.package = deps[i].package) = out(i)
    BY <1>2, <2>1
  <2>3. packages'[deps[i].package] = PackageRow(out(i).metadata, first)
    BY <1>1, <2>1, <2>2
  <2>4. QED
    BY <1>4, <2>1, <2>3, PackageRowShows
<1>7. ASSUME NEW p \in DOMAIN packages,
             \A i \in DOMAIN deps : deps[i].package = p => ~out(i).metadata.known
      PROVE  packages'[p] = packages[p]
  <2>1. ~\E e \in known : e.package = p
    BY <1>3, <1>7 DEF out, Named
  <2> HIDE DEF known
  <2>2. QED
    BY <1>1, <2>1
<1>8. DOMAIN packages' = DOMAIN packages \cup names
  BY <1>1
<1>9. QED
  BY <1>5, <1>6, <1>7, <1>8 DEF out, PackagesAre

\* The rows of a repository after its analysis.
RowsAre(r, deps, failed) ==
  /\ DOMAIN dependencies' = DOMAIN dependencies \cup {<<r, deps[i].package>> : i \in DOMAIN deps}
  /\ \A i \in DOMAIN deps :
       /\ dependencies'[<<r, deps[i].package>>].version = Outcome(deps, failed, i).version
       /\ dependencies'[<<r, deps[i].package>>].dev = Outcome(deps, failed, i).dev
       /\ dependencies'[<<r, deps[i].package>>].exposed = Outcome(deps, failed, i).exposed
  /\ \A k \in DOMAIN dependencies :
       (\A i \in DOMAIN deps : k # <<r, deps[i].package>>) => dependencies'[k] = dependencies[k]

LEMMA RowsStored ==
  ASSUME NEW r, NEW deps, NEW failed, Distinct(deps), Stores(r, deps, failed),
         Named(deps, failed)
  PROVE  RowsAre(r, deps, failed)
<1> DEFINE all == Enriched(deps, failed)
           keys == {<<r, e.package>> : e \in all}
           out(i) == Outcome(deps, failed, i)
           since(k) == IF k \in DOMAIN dependencies THEN dependencies[k].first ELSE today
           row(k, e) == [version |-> e.version, dev |-> e.dev, exposed |-> e.exposed,
                         first |-> since(k), last |-> today]
<1>1. dependencies' = [k \in DOMAIN dependencies \cup keys |->
                         IF k \in keys THEN row(k, CHOOSE e \in all : e.package = k[2])
                         ELSE dependencies[k]]
  BY DEF Stores, StoreRepoDependencies
<1>2. \A i \in DOMAIN deps : /\ out(i) \in all
                             /\ \A e \in all : e.package = deps[i].package => e = out(i)
  BY OutcomeOfPackage
<1>3. \A e \in all : \E i \in DOMAIN deps : e = out(i)
  BY DEF Enriched
<1> HIDE DEF all, out, since
<1>4. keys = {<<r, deps[i].package>> : i \in DOMAIN deps}
  BY <1>2, <1>3 DEF out, Named
<1>5. ASSUME NEW i \in DOMAIN deps
      PROVE  dependencies'[<<r, deps[i].package>>] = row(<<r, deps[i].package>>, out(i))
  <2> DEFINE k == <<r, deps[i].package>>
  <2>1. k \in keys /\ k[2] = deps[i].package
    BY <1>4
  <2>2. out(i) \in all /\ out(i).package = k[2] /\ \A e \in all : e.package = k[2] => e = out(i)
    BY <1>2, <2>1 DEF out, Named
  <2> HIDE DEF k, keys
  <2>3. (CHOOSE e \in all : e.package = k[2]) = out(i)
    BY <2>2
  <2> HIDE DEF row
  <2>4. dependencies'[k] = row(k, out(i))
    BY <1>1, <2>1, <2>3
  <2>5. QED
    BY <2>4 DEF k
<1>6. ASSUME NEW k \in DOMAIN dependencies, \A i \in DOMAIN deps : k # <<r, deps[i].package>>
      PROVE  dependencies'[k] = dependencies[k]
  <2>1. k \notin keys
    BY <1>4, <1>6
  <2> HIDE DEF keys, row
  <2>2. QED
    BY <1>1, <2>1
<1>7. DOMAIN dependencies' = DOMAIN dependencies \cup keys
  BY <1>1
<1>8. ASSUME NEW i \in DOMAIN deps
      PROVE  LET k == <<r, deps[i].package>>
             IN  /\ dependencies'[k].version = out(i).version
                 /\ dependencies'[k].dev = out(i).dev
                 /\ dependencies'[k].exposed = out(i).exposed
  <2> DEFINE k == <<r, deps[i].package>>  new == dependencies'[k]  e == out(i)
  <2>1. new = [version |-> e.version, dev |-> e.dev, exposed |-> e.exposed,
               first |-> since(k), last |-> today]
    BY <1>5
  <2> HIDE DEF new, e
  <2>2. new.version = e.version /\ new.dev = e.dev /\ new.exposed = e.exposed
    BY <2>1
  <2>3. QED
    BY <2>2 DEF new, e
<1> HIDE DEF row, keys
<1>9. DOMAIN dependencies' = DOMAIN dependencies \cup {<<r, deps[i].package>> : i \in DOMAIN deps}
  BY <1>4, <1>7
<1>10. QED
  BY <1>6, <1>8, <1>9 DEF out, RowsAre

-----------------------------------------------------------------------------
(* The rows of the portfolio.                                              *)

PortfolioTypes ==
  /\ today \in Nat
  /\ declared \in [Repos -> Seq(Declaration)]
  /\ advisories = [p \in Packages |-> advisories[p]]
  /\ \A p \in Packages : advisories[p] \in SUBSET Advisories[p]
  /\ DOMAIN dependencies \subseteq Repos \X Packages
  /\ DOMAIN packages \subseteq Packages
  /\ \A p \in DOMAIN packages : packages[p].is_eol \in BOOLEAN /\ packages[p].eol_date \in Int

\* The row of a declared package is a declaration of it, and as good as any.
RowIsBest(r, j) ==
  LET k == <<r, declared[r][j].package>>
      same == {i \in DOMAIN declared[r] : declared[r][i].package = declared[r][j].package}
  IN  /\ k \in DOMAIN dependencies
      /\ \E i \in same : /\ declared[r][i].version = dependencies[k].version
                         /\ declared[r][i].dev = dependencies[k].dev
      /\ \A i \in same : AsGood(dependencies[k], declared[r][i])

RowsAreBest == \A r \in Repos : \A j \in DOMAIN declared[r] : RowIsBest(r, j)

\* A row is exposed by an advisory that OSV.dev has or has taken back, whoever
\* stores what of it with the package.
AdvisoryExposes(k) ==
  dependencies[k].exposed =>
    \E v \in Advisories[k[2]] :
      /\ Exposes(v, dependencies[k].version)
      /\ v \in advisories[k[2]] \/ <<k[2], v>> \in withdrawn

CauseIsStored(k) ==
  dependencies[k].exposed /\ k[2] \notin blinded =>
    /\ k[2] \in DOMAIN packages
    /\ \E v \in Advisories[k[2]] :
         /\ Exposes(v, dependencies[k].version)
         /\ Shown(k[2], v) \/ <<k[2], v>> \in withdrawn

PortfolioInvariant ==
  /\ PortfolioTypes
  /\ RowsAreBest
  /\ \A k \in DOMAIN dependencies : AdvisoryExposes(k) /\ CauseIsStored(k)

LEMMA PortfolioStart == PortfolioInit => PortfolioInvariant
<1> SUFFICES ASSUME PortfolioInit PROVE PortfolioInvariant
  OBVIOUS
<1>1. /\ today = 0 /\ dependencies = <<>> /\ packages = <<>>
      /\ declared = [r \in Repos |-> <<>>] /\ advisories = [p \in Packages |-> {}]
  BY DEF PortfolioInit
<1>2. DOMAIN dependencies = {} /\ DOMAIN packages = {}
  BY <1>1
<1>3. PortfolioTypes
  BY <1>1, <1>2 DEF PortfolioTypes
<1>4. RowsAreBest
  BY <1>1 DEF RowsAreBest
<1>5. QED
  BY <1>2, <1>3, <1>4 DEF PortfolioInvariant

\* What is known of each outcome of an analysis.
Outcomes(deps, failed) ==
  \A i \in DOMAIN deps :
    LET e == Outcome(deps, failed, i)
        p == deps[i].package
    IN  /\ e.package = p /\ e.version = deps[i].version /\ e.dev = deps[i].dev
        /\ e.metadata.known => /\ e.metadata.is_eol \in BOOLEAN /\ e.metadata.eol_date \in Int
        /\ e.metadata.known /\ <<i, "osv">> \notin failed =>
             e.metadata.cves = ExtractVulnerabilities(advisories[p])
        /\ e.exposed => /\ e.metadata.known
                        /\ \E v \in advisories[p] : \E f \in v.fixed : VersionIsAffected(e.version, f)

LEMMA OutcomesHold ==
  ASSUME PortfolioTypes, NEW deps, NEW failed, \A i \in DOMAIN deps : deps[i] \in Declaration
  PROVE  Outcomes(deps, failed)
<1> SUFFICES ASSUME NEW i \in DOMAIN deps
             PROVE  LET e == Outcome(deps, failed, i)
                        p == deps[i].package
                    IN  /\ e.package = p /\ e.version = deps[i].version /\ e.dev = deps[i].dev
                        /\ e.metadata.known => /\ e.metadata.is_eol \in BOOLEAN /\ e.metadata.eol_date \in Int
                        /\ e.metadata.known /\ <<i, "osv">> \notin failed =>
                             e.metadata.cves = ExtractVulnerabilities(advisories[p])
                        /\ e.exposed => /\ e.metadata.known
                                        /\ \E v \in advisories[p] : \E f \in v.fixed : VersionIsAffected(e.version, f)
  BY Zenon DEF Outcomes
<1> DEFINE e == Outcome(deps, failed, i)
           p == deps[i].package
           down == {c \in {"osv", "date", "eol"} : <<i, c>> \in failed}
           osv == IF "osv" \in down THEN Outage ELSE advisories[p]
           date == IF "date" \in down THEN Outage ELSE Releases
           eol == IF "eol" \in down THEN Outage ELSE Releases
           replies == Replies(p, down)
<1>1. replies = [osv |-> osv, date |-> date, eol |-> eol] /\ e = EnrichDependency(deps[i], replies, today)
  BY DEF Replies, Outcome
<1>2. date \in {Outage, Releases}
  OBVIOUS
<1>3. "osv" \in down <=> <<i, "osv">> \in failed
  OBVIOUS
<1>4. deps[i] \in Declaration /\ p \in Packages
  BY DEF Declaration
<1>5. advisories[p] # Outage
  BY <1>4, AnswersAssumption DEF PortfolioTypes
<1>6. osv # Outage => osv = advisories[p]
  OBVIOUS
<1>7. <<i, "osv">> \notin failed => osv # Outage /\ osv = advisories[p]
  BY <1>3, <1>5
<1> HIDE DEF e, osv, date, eol, replies, down, p
<1> DEFINE enriched == EnrichDependency(deps[i], replies, today)
<1>8. /\ enriched.package = deps[i].package /\ enriched.version = deps[i].version /\ enriched.dev = deps[i].dev
      /\ enriched.metadata.known => /\ enriched.metadata.is_eol \in BOOLEAN
                                    /\ enriched.metadata.eol_date \in Int
      /\ enriched.metadata.known /\ osv # Outage => enriched.metadata.cves = ExtractVulnerabilities(osv)
      /\ enriched.exposed => /\ enriched.metadata.known /\ osv # Outage
                             /\ \E v \in osv : \E f \in v.fixed : VersionIsAffected(deps[i].version, f)
  BY <1>1, <1>2, <1>4, EnrichmentFields
<1>9. e = enriched
  BY <1>1
<1> HIDE DEF enriched
<1>10. /\ e.package = p /\ e.version = deps[i].version /\ e.dev = deps[i].dev
       /\ e.metadata.known => /\ e.metadata.is_eol \in BOOLEAN /\ e.metadata.eol_date \in Int
       /\ e.metadata.known /\ <<i, "osv">> \notin failed =>
            e.metadata.cves = ExtractVulnerabilities(advisories[p])
       /\ e.exposed => /\ e.metadata.known
                       /\ \E v \in advisories[p] : \E f \in v.fixed : VersionIsAffected(e.version, f)
  BY <1>6, <1>7, <1>8, <1>9 DEF p
<1>11. QED
  BY <1>10 DEF e, p

\* A row looks as good as its version and its kind.
LEMMA AsGoodLooks ==
  ASSUME NEW a, NEW b, NEW c, a.version = b.version, a.dev = b.dev, AsGood(b, c)
  PROVE  AsGood(a, c)
BY DEF AsGood

LEMMA PortfolioStays ==
  ASSUME PortfolioInvariant, today' \in Nat,
         UNCHANGED <<advisories, withdrawn, dependencies, packages, declared, blinded>>
  PROVE  PortfolioInvariant'
<1>1. PortfolioTypes'
  BY DEF PortfolioInvariant, PortfolioTypes
<1>2. RowsAreBest'
  BY DEF PortfolioInvariant, RowsAreBest, RowIsBest
<1>3. \A k \in DOMAIN dependencies :
        AdvisoryExposes(k)' = AdvisoryExposes(k) /\ CauseIsStored(k)' = CauseIsStored(k)
  BY DEF AdvisoryExposes, CauseIsStored, Shown
<1>4. QED
  BY <1>1, <1>2, <1>3 DEF PortfolioInvariant

LEMMA AnalysisKeeps ==
  ASSUME PortfolioInvariant, NEW r \in Repos, ProcessDependencies(r)
  PROVE  PortfolioInvariant'
<1>1. UNCHANGED <<today, advisories, withdrawn>>
  BY DEF ProcessDependencies
<1>2. CASE UNCHANGED <<dependencies, packages, declared, blinded>>
  <2>1. today' \in Nat
    BY <1>1 DEF PortfolioInvariant, PortfolioTypes
  <2>2. QED
    BY <1>1, <1>2, <2>1, PortfolioStays
<1>3. CASE ~UNCHANGED <<dependencies, packages, declared, blinded>>
  <2>1. PICK list \in Seq(Declaration) :
          \E deps, failed : /\ KeptOf(deps, list, Len(list))
                            /\ declared' = [declared EXCEPT ![r] = list]
                            /\ Stores(r, deps, failed)
    BY <1>3, AnalysisStores
  <2>2. PICK deps, failed : /\ KeptOf(deps, list, Len(list))
                            /\ declared' = [declared EXCEPT ![r] = list]
                            /\ Stores(r, deps, failed)
    BY <2>1
  <2> DEFINE out(i) == Outcome(deps, failed, i)
             key(i) == <<r, deps[i].package>>
  <2>3. Distinct(deps) /\ \A i \in DOMAIN deps : deps[i] \in Declaration
    BY <2>2 DEF KeptOf, Distinct
  <2>4. Outcomes(deps, failed)
    BY <2>3, OutcomesHold DEF PortfolioInvariant
  <2>5. \A i \in DOMAIN deps : /\ out(i).package = deps[i].package
                               /\ out(i).version = deps[i].version
                               /\ out(i).dev = deps[i].dev
    BY <2>4 DEF Outcomes
  <2>6. /\ DOMAIN packages' = DOMAIN packages \cup
              {deps[i].package : i \in {j \in DOMAIN deps : out(j).metadata.known}}
        /\ \A i \in DOMAIN deps :
              out(i).metadata.known => RowShows(packages'[deps[i].package], out(i).metadata)
        /\ \A p \in DOMAIN packages :
              (\A i \in DOMAIN deps : deps[i].package = p => ~out(i).metadata.known)
                => packages'[p] = packages[p]
    <3>1. Named(deps, failed)
      BY <2>5 DEF Named
    <3>2. PackagesAre(deps, failed)
      BY <2>2, <2>3, <3>1, PackagesStored
    <3>3. QED
      BY <3>2 DEF PackagesAre
  <2>7. /\ DOMAIN dependencies' = DOMAIN dependencies \cup {key(i) : i \in DOMAIN deps}
        /\ \A i \in DOMAIN deps :
              /\ dependencies'[key(i)].version = out(i).version
              /\ dependencies'[key(i)].dev = out(i).dev
              /\ dependencies'[key(i)].exposed = out(i).exposed
        /\ \A k \in DOMAIN dependencies :
              (\A i \in DOMAIN deps : k # key(i)) => dependencies'[k] = dependencies[k]
    <3>1. Named(deps, failed)
      BY <2>5 DEF Named
    <3>2. RowsAre(r, deps, failed)
      BY <2>2, <2>3, <3>1, RowsStored
    <3>3. QED
      BY <3>2 DEF RowsAre
  <2>8. blinded' = (blinded \ {e.package : e \in {d \in Enriched(deps, failed) : d.metadata.known}})
                    \cup {deps[i].package : i \in {j \in DOMAIN deps : <<j, "osv">> \in failed}}
    BY <2>2 DEF Stores
  <2>9. \A i \in DOMAIN deps :
          /\ out(i).metadata.known => out(i).metadata.is_eol \in BOOLEAN /\ out(i).metadata.eol_date \in Int
          /\ out(i).metadata.known /\ <<i, "osv">> \notin failed =>
               out(i).metadata.cves = ExtractVulnerabilities(advisories[deps[i].package])
          /\ out(i).exposed => /\ out(i).metadata.known
                               /\ \E v \in advisories[deps[i].package] : \E f \in v.fixed :
                                     VersionIsAffected(out(i).version, f)
    BY <2>4 DEF Outcomes
  <2>10. ASSUME NEW p \in DOMAIN packages', \A i \in DOMAIN deps : deps[i].package = p => ~out(i).metadata.known
        PROVE  p \in DOMAIN packages /\ packages'[p] = packages[p] /\ (p \in blinded => p \in blinded')
    <3>1. p \in DOMAIN packages
      BY <2>6, <2>10
    <3>2. \A e \in Enriched(deps, failed) : e.metadata.known => e.package # p
      <4>1. \A e \in Enriched(deps, failed) : \E i \in DOMAIN deps : e = out(i)
        BY DEF Enriched
      <4> HIDE DEF out
      <4>2. QED
        BY <2>5, <2>10, <4>1
    <3>3. QED
      BY <2>6, <2>8, <2>10, <3>1, <3>2
  <2> HIDE DEF out
  <2>11. PortfolioTypes'
    <3>1. declared' \in [Repos -> Seq(Declaration)]
      BY <2>2 DEF PortfolioInvariant, PortfolioTypes
    <3>2. DOMAIN dependencies' \subseteq Repos \X Packages
      <4>1. \A i \in DOMAIN deps : key(i) \in Repos \X Packages
        BY <2>3 DEF Declaration
      <4> HIDE DEF key
      <4>2. QED
        BY <2>7, <4>1 DEF PortfolioInvariant, PortfolioTypes
    <3>3. DOMAIN packages' \subseteq Packages
      <4>1. \A i \in DOMAIN deps : deps[i].package \in Packages
        BY <2>3 DEF Declaration
      <4>2. QED
        BY <2>6, <4>1 DEF PortfolioInvariant, PortfolioTypes
    <3>4. ASSUME NEW p \in DOMAIN packages'
          PROVE  packages'[p].is_eol \in BOOLEAN /\ packages'[p].eol_date \in Int
      <4>1. CASE \E i \in DOMAIN deps : deps[i].package = p /\ out(i).metadata.known
        BY <2>6, <2>9, <4>1 DEF RowShows
      <4>2. CASE ~\E i \in DOMAIN deps : deps[i].package = p /\ out(i).metadata.known
        BY <2>10, <4>2 DEF PortfolioInvariant, PortfolioTypes
      <4>3. QED
        BY <4>1, <4>2
    <3>5. QED
      BY <1>1, <3>1, <3>2, <3>3, <3>4 DEF PortfolioInvariant, PortfolioTypes
  <2>12. RowsAreBest'
    <3>1. ASSUME NEW q \in Repos \ {r}, NEW j \in DOMAIN declared'[q]
          PROVE  RowIsBest(q, j)'
      <4>1. declared'[q] = declared[q]
        BY <2>2 DEF PortfolioInvariant, PortfolioTypes
      <4> DEFINE k == <<q, declared[q][j].package>>
      <4>2. RowIsBest(q, j) /\ k \in DOMAIN dependencies
        BY <3>1, <4>1 DEF PortfolioInvariant, RowsAreBest, RowIsBest
      <4>3. \A i \in DOMAIN deps : k # key(i)
        OBVIOUS
      <4>4. k \in DOMAIN dependencies' /\ dependencies'[k] = dependencies[k]
        BY <2>7, <4>2, <4>3
      <4>5. QED
        BY <4>1, <4>2, <4>4 DEF RowIsBest
    <3>2. declared'[r] = list
      BY <2>2 DEF PortfolioInvariant, PortfolioTypes
    <3>3. ASSUME NEW j \in DOMAIN list
          PROVE  RowIsBest(r, j)'
      <4>1. DOMAIN list = 1..Len(list)
        OBVIOUS
      <4>2. PICK i \in DOMAIN deps : deps[i].package = list[j].package /\ AsGood(deps[i], list[j])
        BY <2>2, <4>1 DEF KeptOf
      <4> DEFINE k == <<r, list[j].package>>
                 row == dependencies'[k]
      <4>3. k = key(i)
        BY <4>2
      <4>4. k \in DOMAIN dependencies' /\ row.version = deps[i].version /\ row.dev = deps[i].dev
        BY <2>5, <2>7, <4>3
      <4>5. PICK m \in DOMAIN list : deps[i] = list[m]
        BY <2>2, <4>1 DEF KeptOf
      <4>6. ASSUME NEW n \in DOMAIN list, list[n].package = list[j].package
            PROVE  AsGood(row, list[n])
        <5>1. PICK h \in DOMAIN deps : deps[h].package = list[n].package /\ AsGood(deps[h], list[n])
          BY <2>2, <4>1 DEF KeptOf
        <5>2. h = i
          BY <2>3, <4>2, <4>6, <5>1 DEF Distinct
        <5> HIDE DEF row
        <5>3. QED
          BY <4>4, <5>1, <5>2, AsGoodLooks
      <4> HIDE DEF row
      <4>7. QED
        BY <3>2, <4>2, <4>4, <4>5, <4>6 DEF RowIsBest, row
    <3>4. QED
      BY <3>1, <3>2, <3>3 DEF RowsAreBest
  <2>13. ASSUME NEW k \in DOMAIN dependencies', dependencies'[k].exposed,
                NEW i \in DOMAIN deps, k = key(i)
         PROVE  /\ out(i).exposed /\ out(i).metadata.known /\ k[2] = deps[i].package
                /\ \E v \in advisories[k[2]] : Exposes(v, dependencies'[k].version)
    <3>1. out(i).exposed /\ dependencies'[k].version = out(i).version /\ k[2] = deps[i].package
      BY <2>7, <2>13
    <3>2. QED
      BY <2>9, <3>1 DEF Exposes
  <2>14. ASSUME NEW k \in DOMAIN dependencies'
         PROVE  AdvisoryExposes(k)'
    <3>1. CASE \E i \in DOMAIN deps : k = key(i)
      <4>1. k[2] \in Packages
        BY <2>3, <3>1 DEF Declaration
      <4>2. advisories[k[2]] \subseteq Advisories[k[2]]
        BY <4>1 DEF PortfolioInvariant, PortfolioTypes
      <4>3. QED
        BY <1>1, <2>13, <3>1, <4>2 DEF AdvisoryExposes
    <3>2. CASE \A i \in DOMAIN deps : k # key(i)
      BY <1>1, <2>7, <3>2 DEF PortfolioInvariant, AdvisoryExposes
    <3>3. QED
      BY <3>1, <3>2
  <2>15. ASSUME NEW k \in DOMAIN dependencies'
         PROVE  CauseIsStored(k)'
    <3>1. SUFFICES ASSUME dependencies'[k].exposed, k[2] \notin blinded'
                   PROVE  /\ k[2] \in DOMAIN packages'
                          /\ \E v \in Advisories[k[2]] :
                               /\ Exposes(v, dependencies'[k].version)
                               /\ Shown(k[2], v)' \/ <<k[2], v>> \in withdrawn
      BY <1>1 DEF CauseIsStored
    <3>2. PICK v \in Advisories[k[2]] :
            /\ Exposes(v, dependencies'[k].version)
            /\ v \in advisories[k[2]] \/ <<k[2], v>> \in withdrawn
      BY <1>1, <2>14, <3>1 DEF AdvisoryExposes
    <3>3. CASE \E i \in DOMAIN deps : deps[i].package = k[2] /\ out(i).metadata.known
      <4>1. PICK i \in DOMAIN deps : deps[i].package = k[2] /\ out(i).metadata.known
        BY <3>3
      <4>2. <<i, "osv">> \notin failed
        BY <2>8, <3>1, <4>1
      <4>3. /\ k[2] \in DOMAIN packages' /\ RowShows(packages'[k[2]], out(i).metadata)
            /\ out(i).metadata.cves = ExtractVulnerabilities(advisories[k[2]])
        BY <2>6, <2>9, <4>1, <4>2
      <4>4. ASSUME v \in advisories[k[2]] PROVE Shown(k[2], v)'
        <5> DEFINE u == [id |-> v.id, cve |-> v.cve, severity |-> ExtractSeverity(v.score),
                         fixed |-> v.fixed]
        <5>1. u \in out(i).metadata.cves /\ u.id = v.id /\ u.fixed = v.fixed
          BY <4>3, <4>4 DEF ExtractVulnerabilities
        <5> HIDE DEF u
        <5>2. PICK w \in packages'[k[2]].cves : Stored(w, u)
          BY <4>3, <5>1 DEF RowShows
        <5>3. v.fixed # {}
          BY <3>2 DEF Exposes
        <5>4. w.id = v.id /\ w.fixed_in \in v.fixed
          BY <5>1, <5>2, <5>3 DEF Stored
        <5>5. QED
          BY <5>4 DEF Shown
      <4>5. QED
        BY <3>2, <4>3, <4>4
    <3>4. CASE ~\E i \in DOMAIN deps : deps[i].package = k[2] /\ out(i).metadata.known
      <4>1. \A i \in DOMAIN deps : k # key(i)
        BY <2>13, <3>1, <3>4
      <4>2. k \in DOMAIN dependencies /\ dependencies'[k] = dependencies[k]
        BY <2>7, <4>1
      <4>3. k[2] \notin blinded
        <5>1. \A e \in Enriched(deps, failed) : \E i \in DOMAIN deps : e = out(i)
          BY DEF Enriched, out
        <5>2. \A e \in Enriched(deps, failed) : e.metadata.known => e.package # k[2]
          BY <2>5, <3>4, <5>1
        <5>3. QED
          BY <2>8, <3>1, <5>2
      <4>4. PICK w \in Advisories[k[2]] :
              /\ k[2] \in DOMAIN packages
              /\ Exposes(w, dependencies[k].version)
              /\ Shown(k[2], w) \/ <<k[2], w>> \in withdrawn
        BY <3>1, <4>2, <4>3 DEF PortfolioInvariant, CauseIsStored
      <4>5. k[2] \in DOMAIN packages' /\ packages'[k[2]] = packages[k[2]]
        BY <2>6, <3>4, <4>4
      <4>6. Shown(k[2], w) => Shown(k[2], w)'
        BY <4>5 DEF Shown
      <4>7. QED
        BY <4>2, <4>4, <4>5, <4>6
    <3>5. QED
      BY <3>3, <3>4
  <2>16. QED
    BY <2>11, <2>12, <2>14, <2>15 DEF PortfolioInvariant
<1>4. QED
  BY <1>2, <1>3

\* What OSV.dev takes back is remembered.
LEMMA AmendKeeps ==
  ASSUME PortfolioInvariant, NEW p \in Packages, NEW gone, NEW new \in SUBSET Advisories[p],
         Amend(p, gone, new)
  PROVE  PortfolioInvariant'
<1>1. /\ UNCHANGED <<today, dependencies, packages, declared, blinded>>
      /\ advisories' = [advisories EXCEPT ![p] = (@ \ gone) \cup new]
      /\ withdrawn' = withdrawn \cup {<<p, v>> : v \in gone}
  BY DEF Amend
<1>2. /\ advisories' = [q \in Packages |-> advisories'[q]]
      /\ \A q \in Packages : advisories'[q] \in SUBSET Advisories[q]
      /\ \A q \in Packages : \A v \in advisories[q] : v \in advisories'[q] \/ <<q, v>> \in withdrawn'
  BY <1>1 DEF PortfolioInvariant, PortfolioTypes
<1>3. withdrawn \subseteq withdrawn'
  BY <1>1
<1>4. PortfolioTypes'
  BY <1>1, <1>2 DEF PortfolioInvariant, PortfolioTypes
<1>5. RowsAreBest'
  BY <1>1 DEF PortfolioInvariant, RowsAreBest, RowIsBest
<1>6. ASSUME NEW k \in DOMAIN dependencies PROVE AdvisoryExposes(k)' /\ CauseIsStored(k)'
  <2>1. k[2] \in Packages
    BY DEF PortfolioInvariant, PortfolioTypes
  <2>2. AdvisoryExposes(k)'
    BY <1>1, <1>2, <1>3, <2>1 DEF PortfolioInvariant, AdvisoryExposes
  <2>3. CauseIsStored(k)'
    BY <1>1, <1>3 DEF PortfolioInvariant, CauseIsStored, Shown
  <2>4. QED
    BY <2>2, <2>3
<1>7. QED
  BY <1>1, <1>4, <1>5, <1>6 DEF PortfolioInvariant

LEMMA AdvisoryKeeps ==
  ASSUME PortfolioInvariant, NEW p \in Packages, PublishAdvisory(p) \/ WithdrawAdvisory(p)
  PROVE  PortfolioInvariant'
<1>1. CASE PublishAdvisory(p)
  <2>1. PICK v \in Advisories[p] : Amend(p, {u \in advisories[p] : u.id = v.id}, {v})
    BY <1>1 DEF PublishAdvisory
  <2>2. {v} \in SUBSET Advisories[p]
    OBVIOUS
  <2>3. QED
    BY <2>1, <2>2, AmendKeeps
<1>2. CASE WithdrawAdvisory(p)
  <2>1. PICK v \in advisories[p] : Amend(p, {v}, {})
    BY <1>2 DEF WithdrawAdvisory
  <2>2. QED
    BY <2>1, AmendKeeps
<1>3. QED
  BY <1>1, <1>2

LEMMA PortfolioStep ==
  ASSUME PortfolioInvariant, PortfolioNext
  PROVE  PortfolioInvariant'
<1>1. ASSUME NEW r \in Repos, ProcessDependencies(r) PROVE PortfolioInvariant'
  BY <1>1, AnalysisKeeps
<1>2. ASSUME NEW p \in Packages, PublishAdvisory(p) \/ WithdrawAdvisory(p) PROVE PortfolioInvariant'
  BY <1>2, AdvisoryKeeps
<1>3. CASE NextDay
  <2>1. today' \in Nat
    BY <1>3 DEF NextDay, PortfolioInvariant, PortfolioTypes
  <2>2. QED
    BY <1>3, <2>1, PortfolioStays DEF NextDay
<1>4. QED
  BY <1>1, <1>2, <1>3 DEF PortfolioNext

-----------------------------------------------------------------------------
(* What the rows say to their readers.                                     *)

LEMMA BestIsStored ==
  ASSUME PortfolioInvariant
  PROVE  StoredIsBestDeclaration
<1> SUFFICES ASSUME NEW r \in Repos, NEW p \in {declared[r][i].package : i \in DOMAIN declared[r]}
             PROVE  LET all  == {d \in ToSet(declared[r]) : d.package = p}
                        prod == {d \in all : ~d.dev}
                        candidates == IF prod = {} THEN all ELSE prod
                        row  == dependencies[<<r, p>>]
                    IN  /\ <<r, p>> \in DOMAIN dependencies
                        /\ \E d \in candidates : d.version = row.version /\ d.dev = row.dev
                        /\ \A d \in candidates :
                             d.version # NoVersion =>
                                /\ row.version # NoVersion
                                /\ Len(Text(d.version)) <= Len(Text(row.version))
  BY DEF StoredIsBestDeclaration
<1> DEFINE all  == {d \in ToSet(declared[r]) : d.package = p}
           prod == {d \in all : ~d.dev}
           candidates == IF prod = {} THEN all ELSE prod
           row  == dependencies[<<r, p>>]
           same == {i \in DOMAIN declared[r] : declared[r][i].package = p}
<1>1. /\ <<r, p>> \in DOMAIN dependencies
      /\ \E i \in same : declared[r][i].version = row.version /\ declared[r][i].dev = row.dev
      /\ \A i \in same : AsGood(row, declared[r][i])
  <2>1. PICK j \in DOMAIN declared[r] : p = declared[r][j].package
    OBVIOUS
  <2>2. RowIsBest(r, j)
    BY DEF PortfolioInvariant, RowsAreBest
  <2>3. QED
    BY <2>1, <2>2 DEF RowIsBest
<1>2. ToSet(declared[r]) = {declared[r][i] : i \in DOMAIN declared[r]}
  BY DEF ToSet
<1>3. all = {declared[r][i] : i \in same}
  BY <1>2
<1>4. \A d \in all : d.dev \in BOOLEAN
  <2>1. declared[r] \in Seq(Declaration)
    BY DEF PortfolioInvariant, PortfolioTypes
  <2>2. \A i \in DOMAIN declared[r] : declared[r][i] \in Declaration
    BY <2>1
  <2>3. \A i \in DOMAIN declared[r] : declared[r][i].dev \in BOOLEAN
    BY <2>2 DEF Declaration
  <2> HIDE DEF all
  <2>4. QED
    BY <1>3, <2>3
<1> HIDE DEF same, row
<1>5. PICK best \in all : best.version = row.version /\ best.dev = row.dev
  BY <1>1, <1>3
<1>6. \A d \in all : AsGood(row, d)
  BY <1>1, <1>3
<1> HIDE DEF all
<1>7. best \in candidates
  <2>1. ASSUME NEW d \in prod PROVE ~best.dev
    BY <1>4, <1>5, <1>6 DEF AsGood
  <2>2. QED
    BY <2>1
<1>8. ASSUME NEW d \in candidates PROVE d \in all /\ d.dev = row.dev
  <2>1. best.dev = row.dev /\ row.dev \in BOOLEAN
    BY <1>4, <1>5
  <2>2. CASE prod = {}
    BY <1>4, <1>5, <1>8, <2>1, <2>2
  <2>3. CASE prod # {}
    BY <1>4, <1>7, <1>8, <2>1, <2>3
  <2>4. QED
    BY <2>2, <2>3
<1>9. ASSUME NEW d \in candidates, d.version # NoVersion
      PROVE  row.version # NoVersion /\ Len(Text(d.version)) <= Len(Text(row.version))
  <2>1. AsGood(row, d) /\ d.dev = row.dev
    BY <1>6, <1>8, <1>9
  <2>2. QED
    BY <1>9, <2>1, Zenon DEF AsGood
<1> HIDE DEF candidates
<1>10. /\ <<r, p>> \in DOMAIN dependencies
       /\ \E d \in candidates : d.version = row.version /\ d.dev = row.dev
       /\ \A d \in candidates :
            d.version # NoVersion =>
               row.version # NoVersion /\ Len(Text(d.version)) <= Len(Text(row.version))
  BY <1>1, <1>5, <1>7, <1>9
<1>11. QED
  BY <1>10 DEF candidates, prod, all, row

LEMMA CauseIsThere ==
  ASSUME PortfolioInvariant
  PROVE  ExposureHasCause
BY DEF PortfolioInvariant, CauseIsStored, ExposureHasCause, Known

\* The keys of the rows are users of packages.
LEMMA UsersAre ==
  ASSUME PortfolioInvariant
  PROVE  /\ \A r, p : <<r, p>> \in DOMAIN dependencies => r \in Repos /\ p \in Packages
         /\ \A p : Users(p) \subseteq Repos /\ IsFiniteSet(Users(p)) /\ IsFiniteSet(Exposed(p))
<1>1. \A r, p : <<r, p>> \in DOMAIN dependencies => r \in Repos /\ p \in Packages
  BY DEF PortfolioInvariant, PortfolioTypes
<1>2. \A p : Users(p) \in SUBSET Repos /\ Exposed(p) \in SUBSET Repos
  BY DEF Users, Exposed
<1>3. \A p : IsFiniteSet(Users(p)) /\ IsFiniteSet(Exposed(p))
  BY <1>2, AnswersAssumption, FS_Subset
<1>4. QED
  BY <1>1, <1>2, <1>3

\* A row of an endpoint, by what it shows.
LEMMA PackagesByRepoHas ==
  ASSUME NEW r, NEW p \in Packages, r \in Users(p)
  PROVE  \E d \in PackagesByRepo(r) : /\ d.package = p
                                      /\ d.version = dependencies[<<r, p>>].version
                                      /\ d.exposed = dependencies[<<r, p>>].exposed
<1> DEFINE d == [package |-> p, version |-> dependencies[<<r, p>>].version,
                 dev |-> dependencies[<<r, p>>].dev, exposed |-> dependencies[<<r, p>>].exposed,
                 is_eol |-> IF p \in Known THEN {packages[p].is_eol} ELSE {}]
<1>1. d \in PackagesByRepo(r)
  BY DEF PackagesByRepo
<1>2. d.package = p /\ d.version = dependencies[<<r, p>>].version /\ d.exposed = dependencies[<<r, p>>].exposed
  OBVIOUS
<1> HIDE DEF d
<1>3. QED
  BY <1>1, <1>2

LEMMA PackagesByRepoOnly ==
  ASSUME NEW r, NEW d \in PackagesByRepo(r)
  PROVE  /\ d.package \in Packages /\ r \in Users(d.package)
         /\ d.version = dependencies[<<r, d.package>>].version
         /\ d.exposed = dependencies[<<r, d.package>>].exposed
<1>1. PICK p \in Packages :
        /\ r \in Users(p)
        /\ d = [package |-> p, version |-> dependencies[<<r, p>>].version,
                dev |-> dependencies[<<r, p>>].dev, exposed |-> dependencies[<<r, p>>].exposed,
                is_eol |-> IF p \in Known THEN {packages[p].is_eol} ELSE {}]
  BY DEF PackagesByRepo
<1>2. /\ d.package = p /\ d.version = dependencies[<<r, p>>].version
      /\ d.exposed = dependencies[<<r, p>>].exposed
  BY <1>1
<1>3. QED
  BY <1>1, <1>2

LEMMA SameCounts ==
  ASSUME PortfolioInvariant, NEW p \in Packages
  PROVE  /\ Exposed(p) = {r \in Repos : \E d \in PackagesByRepo(r) : d.package = p /\ d.exposed}
         /\ Cardinality(Exposed(p)) = Cardinality({u \in LibraryDetail(p).usage : u.exposed})
<1>1. Users(p) \subseteq Repos /\ IsFiniteSet(Exposed(p))
  BY UsersAre
<1>2. Exposed(p) = {r \in Repos : \E d \in PackagesByRepo(r) : d.package = p /\ d.exposed}
  BY <1>1, PackagesByRepoHas, PackagesByRepoOnly DEF Exposed
<1> DEFINE u(r) == [repo |-> r, version |-> dependencies[<<r, p>>].version,
                    exposed |-> dependencies[<<r, p>>].exposed]
           shown == {x \in LibraryDetail(p).usage : x.exposed}
           f == [r \in Exposed(p) |-> u(r)]
<1>3. LibraryDetail(p).usage = {u(r) : r \in Users(p)}
  BY DEF LibraryDetail
<1>4. \A r : u(r).repo = r /\ u(r).exposed = dependencies[<<r, p>>].exposed
  OBVIOUS
<1> HIDE DEF u
<1>5. \A x \in shown : \E r \in Exposed(p) : x = u(r)
  BY <1>3, <1>4 DEF Exposed
<1>6. \A r \in Exposed(p) : u(r) \in shown
  BY <1>3, <1>4 DEF Exposed
<1> HIDE DEF shown
<1>7. f \in Bijection(Exposed(p), shown)
  <2>1. f \in [Exposed(p) -> shown] /\ \A r \in Exposed(p) : f[r] = u(r)
    BY <1>6
  <2>2. ASSUME NEW r \in Exposed(p), NEW q \in Exposed(p), f[r] = f[q] PROVE r = q
    <3>1. u(r) = u(q)
      BY <2>1, <2>2
    <3>2. QED
      BY <1>4, <3>1
  <2>3. ASSUME NEW x \in shown PROVE \E r \in Exposed(p) : f[r] = x
    BY <1>5, <2>1
  <2> HIDE DEF f
  <2>4. QED
    BY <2>1, <2>2, <2>3 DEF Bijection, Injection, Surjection, IsInjective
<1>8. ExistsBijection(Exposed(p), shown)
  BY <1>7 DEF ExistsBijection
<1>9. Cardinality(shown) = Cardinality(Exposed(p))
  BY <1>1, <1>8, FS_Bijection
<1>10. QED
  BY <1>2, <1>9 DEF shown

\* The health view and the lists of what is at its end or vulnerable.
LEMMA HealthIsListed ==
  ASSUME PortfolioInvariant, NEW p \in Known
  PROVE  /\ HealthStatus(p) \in {"EOL", "APPROACHING_EOL"} =>
              \/ packages[p].is_eol
              \/ packages[p].eol_date # NoDate /\ packages[p].eol_date <= today + Soon
         /\ HealthStatus(p) \in {"CRITICAL_EXPOSED", "HIGH_EXPOSED"} =>
              Exposed(p) # {} /\ packages[p].cves # {}
<1> DEFINE date == packages[p].eol_date
           over == packages[p].is_eol
           severities == {v.severity : v \in packages[p].cves}
           health == IF Exposed(p) # {} /\ "CRITICAL" \in severities THEN "CRITICAL_EXPOSED"
                     ELSE IF Exposed(p) # {} /\ "HIGH" \in severities THEN "HIGH_EXPOSED"
                     ELSE "HEALTHY"
           status == HealthStatus(p)
<1>1. today \in Nat /\ Soon \in Nat /\ date \in Int /\ over \in BOOLEAN
  BY PortfolioAssumption DEF PortfolioInvariant, PortfolioTypes, Known
<1>2. status = CASE over                                -> "EOL"
                 [] ~over /\ date # NoDate /\ date <= today -> "EOL"
                 [] ~over /\ date > today /\ date < today + Soon -> "APPROACHING_EOL"
                 [] OTHER -> health
  BY DEF HealthStatus
<1> HIDE DEF date, over, health, status
<1>3. CASE over
  BY <1>1, <1>2, <1>3 DEF over, status
<1>4. CASE ~over /\ date # NoDate /\ date <= today
  <2>1. status = "EOL" /\ date <= today + Soon
    BY <1>1, <1>2, <1>4
  <2>2. QED
    BY <1>4, <2>1 DEF status, date
<1>5. CASE ~over /\ date > today /\ date < today + Soon
  <2>1. status = "APPROACHING_EOL" /\ date <= today + Soon /\ date # NoDate
    BY <1>1, <1>2, <1>5 DEF NoDate
  <2>2. QED
    BY <2>1 DEF status, date
<1>6. CASE /\ ~over /\ ~(~over /\ date # NoDate /\ date <= today)
           /\ ~(~over /\ date > today /\ date < today + Soon)
  <2>1. status = health
    BY <1>2, <1>6
  <2>2. health \notin {"EOL", "APPROACHING_EOL"}
    BY DEF health
  <2>3. health \in {"CRITICAL_EXPOSED", "HIGH_EXPOSED"} => Exposed(p) # {} /\ packages[p].cves # {}
    BY DEF health
  <2>4. QED
    BY <2>1, <2>2, <2>3 DEF status
<1>7. QED
  BY <1>3, <1>4, <1>5, <1>6

LEMMA ReadersTellOneStory ==
  ASSUME PortfolioInvariant
  PROVE  ReadersAgree
<1> DEFINE health == PackagesHealth({})
           vulnerable == VulnerablePackages
           status(s) == {p \in Known : HealthStatus(p) = s}
<1>1. /\ health["EOL"] = status("EOL") /\ health["APPROACHING_EOL"] = status("APPROACHING_EOL")
      /\ health["CRITICAL_EXPOSED"] = status("CRITICAL_EXPOSED")
      /\ health["HIGH_EXPOSED"] = status("HIGH_EXPOSED")
  BY DEF PackagesHealth
<1>2. health["EOL"] \cup health["APPROACHING_EOL"] \subseteq {row.package : row \in EolPackages}
  <2>1. SUFFICES ASSUME NEW p \in Known, HealthStatus(p) \in {"EOL", "APPROACHING_EOL"}
                 PROVE  \E row \in EolPackages : row.package = p
    BY <1>1
  <2> DEFINE row == [package |-> p, repo_count |-> Cardinality(Users(p))]
  <2>2. row \in EolPackages
    BY <2>1, HealthIsListed DEF EolPackages
  <2>3. row.package = p
    OBVIOUS
  <2> HIDE DEF row
  <2>4. QED
    BY <2>2, <2>3
<1>3. ASSUME NEW p \in health["CRITICAL_EXPOSED"] \cup health["HIGH_EXPOSED"]
      PROVE  (\E row \in VulnerablePackages : row.package = p) /\ LibraryDetail(p).cves # {}
  <2>1. p \in Known /\ HealthStatus(p) \in {"CRITICAL_EXPOSED", "HIGH_EXPOSED"}
    BY <1>1, <1>3
  <2>2. p \in Packages /\ Exposed(p) # {} /\ packages[p].cves # {}
    BY <2>1, HealthIsListed DEF PortfolioInvariant, PortfolioTypes, Known
  <2> DEFINE cves == IF p \in Known THEN {v.cve : v \in packages[p].cves} \ {NoCve} ELSE {}
             row == [package |-> p, repo_count |-> Cardinality(Exposed(p)), cves |-> cves]
  <2>3. row \in VulnerablePackages
    BY <2>2 DEF VulnerablePackages
  <2> HIDE DEF cves
  <2>4. row.package = p
    OBVIOUS
  <2> HIDE DEF row
  <2>5. LibraryDetail(p).cves = packages[p].cves
    BY DEF LibraryDetail
  <2>6. QED
    BY <2>2, <2>3, <2>4, <2>5
<1>4. ASSUME NEW row \in VulnerablePackages
      PROVE  /\ row.repo_count = Cardinality({r \in Repos :
                    \E d \in PackagesByRepo(r) : d.package = row.package /\ d.exposed})
             /\ row.repo_count = Cardinality({u \in LibraryDetail(row.package).usage : u.exposed})
             /\ row.package \in Known =>
                  row.cves = {v.cve : v \in LibraryDetail(row.package).cves} \ {NoCve}
  <2>1. PICK p \in Packages :
          row = [package |-> p, repo_count |-> Cardinality(Exposed(p)),
                 cves |-> IF p \in Known THEN {v.cve : v \in packages[p].cves} \ {NoCve} ELSE {}]
    BY DEF VulnerablePackages
  <2>2. row.package = p /\ row.repo_count = Cardinality(Exposed(p))
    BY <2>1
  <2>3. p \in Known => row.cves = {v.cve : v \in packages[p].cves} \ {NoCve}
    BY <2>1
  <2>4. LibraryDetail(p).cves = packages[p].cves
    BY DEF LibraryDetail
  <2>5. /\ row.repo_count = Cardinality({r \in Repos :
               \E d \in PackagesByRepo(r) : d.package = p /\ d.exposed})
        /\ row.repo_count = Cardinality({u \in LibraryDetail(p).usage : u.exposed})
    BY <2>2, SameCounts
  <2> HIDE DEF LibraryDetail
  <2>6. QED
    BY <2>2, <2>3, <2>4, <2>5
<1>5. ASSUME NEW row \in SearchPackages(Packages), NEW r \in Users(row.package),
             dependencies[<<r, row.package>>].version # NoVersion
      PROVE  \E found \in SearchPackageVersion({row.package}, dependencies[<<r, row.package>>].version) :
                r \in found.repos
  <2> DEFINE p == row.package
             v == dependencies[<<r, p>>].version
             found == [package |-> p, repos |-> UsersOf(p, v)]
  <2>1. p \in Known
    BY DEF SearchPackages
  <2>2. r \in UsersOf(p, v)
    BY <1>5 DEF UsersOf
  <2> HIDE DEF v, p
  <2>3. found \in SearchPackageVersion({p}, v)
    BY <2>1, <2>2 DEF SearchPackageVersion
  <2>4. r \in found.repos
    BY <2>2
  <2> HIDE DEF found
  <2>5. QED
    BY <2>3, <2>4 DEF p, v
<1>6. ASSUME NEW s \in DOMAIN Services, NEW r \in Services[s], NEW d \in PackagesByRepo(r),
             NEW version \in {NoVersion, d.version}
      PROVE  \E row \in PackagesByService(d.package, version) :
                row.service = s /\ (d.version # NoVersion => d.version \in row.versions)
  <2> DEFINE p == d.package
             used(t) == Services[t] \cap (IF version = NoVersion THEN Users(p) ELSE UsersOf(p, version))
             versions == {dependencies[<<q, p>>].version : q \in used(s)} \ {NoVersion}
             row == [service |-> s, repo_count |-> Cardinality(used(s)), versions |-> versions]
  <2>1. r \in Users(p) /\ d.version = dependencies[<<r, p>>].version
    BY PackagesByRepoOnly
  <2>2. r \in used(s)
    BY <2>1 DEF UsersOf
  <2>3. d.version # NoVersion => d.version \in versions
    BY <2>1, <2>2
  <2>4. row \in PackagesByService(p, version)
    BY <2>2 DEF PackagesByService
  <2>5. row.service = s /\ row.versions = versions
    OBVIOUS
  <2> HIDE DEF row, versions, p
  <2>6. QED
    BY <2>3, <2>4, <2>5 DEF p
<1> HIDE DEF health, vulnerable
<1>7. QED
  BY <1>2, <1>3, <1>4, <1>5, <1>6, Zenon DEF ReadersAgree, health, vulnerable

-----------------------------------------------------------------------------
(* Publications leave the portfolio alone.                                 *)

LEMMA PortfolioKept == PortfolioInvariant /\ [Next]_vars => PortfolioInvariant'
<1> SUFFICES ASSUME PortfolioInvariant, [Next]_vars PROVE PortfolioInvariant'
  OBVIOUS
<1>1. CASE UNCHANGED portfolioVars
  <2>1. today' \in Nat
    BY <1>1 DEF portfolioVars, PortfolioInvariant, PortfolioTypes
  <2>2. QED
    BY <1>1, <2>1, PortfolioStays DEF portfolioVars
<1>2. CASE PortfolioNext
  BY <1>2, PortfolioStep
<1>3. ASSUME NEW x \in Publishers, RadarStep(x) PROVE UNCHANGED portfolioVars
  BY <1>3 DEF RadarStep, LoadPrior, CountUsers, CategorizePackages, BeginClear, Clear, Publish, Abort
<1>4. QED
  BY <1>1, <1>2, <1>3 DEF Next, vars

LEMMA PortfolioHolds == Spec => []PortfolioInvariant
<1>1. Init => PortfolioInvariant
  BY PortfolioStart DEF Init
<1>2. QED
  BY <1>1, PortfolioKept, PTL DEF Spec

\* The row of a declared package is its best declaration, whatever the order
\* of the manifests, the answers of the services and the analyses of other
\* repositories (_deduplicate_dependencies, store_repository_dependencies).
THEOREM BestDeclarationIsStored == Spec => []StoredIsBestDeclaration
BY PortfolioHolds, BestIsStored, PTL

\* An exposed row has a vulnerability with a fix above its version, shown with
\* its package and one of its fixes, not always that one, unless OSV.dev has
\* taken the vulnerability back since or did not answer when the package was
\* last stored (store_package_metadata replaces the list for all repositories).
THEOREM ExposureIsCaused == Spec => []ExposureHasCause
BY PortfolioHolds, CauseIsThere, PTL

\* The endpoints of api/rescan.py and the health view count and list the same
\* repositories and packages, with the same CVE numbers where there are any;
\* a row without a version is found without asking for one.
THEOREM EndpointsAgree == Spec => []ReadersAgree
BY PortfolioHolds, ReadersTellOneStory, PTL

-----------------------------------------------------------------------------
(* The latest version of a package.                                        *)

\* What a version of one or two digits looks like: the first digit, and 0 or
\* more than the second one.
Leading(v)  == IF v < 10 THEN v ELSE v \div 10
Trailing(v) == IF v < 10 THEN 0 ELSE (v % 10) + 1
Rank(v)     == 11 * Leading(v) + Trailing(v)

LEMMA DigitsAre ==
  ASSUME NEW v \in 0..99
  PROVE  /\ Leading(v) \in 0..9 /\ Trailing(v) \in 0..10 /\ Rank(v) \in 0..109
         /\ v = IF Trailing(v) = 0 THEN Leading(v) ELSE 10 * Leading(v) + Trailing(v) - 1
<1>1. CASE v < 10
  BY <1>1 DEF Leading, Trailing, Rank
<1>2. CASE v >= 10
  <2>1. v \div 10 \in 1..9 /\ v % 10 \in 0..9 /\ v = 10 * (v \div 10) + (v % 10)
    BY <1>2
  <2>2. Leading(v) = v \div 10 /\ Trailing(v) = (v % 10) + 1
    BY <1>2 DEF Leading, Trailing
  <2>3. QED
    BY <2>1, <2>2 DEF Rank
<1>3. QED
  BY <1>1, <1>2

LEMMA BeginningIs ==
  ASSUME NEW s \in Seq(Int), Len(s) \in {1, 2}
  PROVE  SubSeq(s, 1, 0) = <<>> /\ SubSeq(s, 1, 1) = <<s[1]>>
<1>1. SubSeq(s, 1, 0) = <<>>
  OBVIOUS
<1>2. /\ SubSeq(s, 1, 1) \in Seq(Int) /\ Len(SubSeq(s, 1, 1)) = 1
      /\ SubSeq(s, 1, 1)[1] = s[1]
  OBVIOUS
<1> DEFINE t == SubSeq(s, 1, 1)
<1>3. t = <<t[1]>>
  <2>1. t \in Seq(Int) /\ Len(t) = 1
    BY <1>2
  <2> HIDE DEF t
  <2>2. QED
    BY <2>1
<1>4. QED
  BY <1>1, <1>2, <1>3

LEMMA TextIs ==
  ASSUME NEW v \in 0..99
  PROVE  /\ Text(v) \in Seq(Int) /\ Len(Text(v)) = (IF v < 10 THEN 1 ELSE 2)
         /\ Text(v)[1] = Leading(v) /\ (v >= 10 => Text(v)[2] = Trailing(v) - 1)
         /\ SubSeq(Text(v), 1, 0) = <<>> /\ SubSeq(Text(v), 1, 1) = <<Leading(v)>>
<1>1. CASE v < 10
  <2>1. Text(v) = <<v>> /\ Leading(v) = v
    BY <1>1 DEF Text, Leading
  <2>2. Text(v) \in Seq(Int) /\ Len(Text(v)) = 1 /\ Text(v)[1] = v
    BY <2>1
  <2>3. SubSeq(Text(v), 1, 0) = <<>> /\ SubSeq(Text(v), 1, 1) = <<Text(v)[1]>>
    BY <2>2, BeginningIs
  <2>4. QED
    BY <1>1, <2>1, <2>2, <2>3
<1>2. CASE v >= 10
  <2> DEFINE a == v \div 10
             b == v % 10
  <2>1. Text(v) = <<a, b>> /\ Leading(v) = a /\ Trailing(v) = b + 1 /\ a \in Int /\ b \in Int
    BY <1>2 DEF Text, Leading, Trailing
  <2> HIDE DEF a, b
  <2>2. /\ Text(v) \in Seq(Int) /\ Len(Text(v)) = 2
        /\ Text(v)[1] = a /\ Text(v)[2] = b
    BY <2>1
  <2>3. SubSeq(Text(v), 1, 0) = <<>> /\ SubSeq(Text(v), 1, 1) = <<Text(v)[1]>>
    BY <2>2, BeginningIs
  <2>4. QED
    BY <1>2, <2>1, <2>2, <2>3
<1>3. QED
  BY <1>1, <1>2

LEMMA RanksCompare ==
  ASSUME NEW a \in 0..9, NEW b \in 0..9, NEW c \in 0..10, NEW d \in 0..10
  PROVE  /\ 11 * a + c < 11 * b + d <=> (a < b \/ (a = b /\ c < d))
         /\ 11 * a + c = 11 * b + d <=> (a = b /\ c = d)
OBVIOUS

\* The order of texts is that of ranks.
LEMMA TextOrder ==
  ASSUME NEW a \in 0..99, NEW b \in 0..99
  PROVE  TextBefore(a, b) <=> Rank(a) < Rank(b)
<1> DEFINE s == Text(a)
           t == Text(b)
           at(i) == /\ i <= Len(s) + 1
                    /\ SubSeq(s, 1, i - 1) = SubSeq(t, 1, i - 1)
                    /\ i > Len(s) \/ s[i] < t[i]
<1>1. TextBefore(a, b) <=> \E i \in 1..Len(t) : at(i)
  BY DEF TextBefore
<1>2. /\ Len(s) = (IF a < 10 THEN 1 ELSE 2) /\ Len(t) = (IF b < 10 THEN 1 ELSE 2)
      /\ s[1] = Leading(a) /\ t[1] = Leading(b)
      /\ a >= 10 => s[2] = Trailing(a) - 1
      /\ b >= 10 => t[2] = Trailing(b) - 1
      /\ SubSeq(s, 1, 0) = SubSeq(t, 1, 0)
      /\ SubSeq(s, 1, 1) = <<Leading(a)>> /\ SubSeq(t, 1, 1) = <<Leading(b)>>
  BY TextIs
<1>3. <<Leading(a)>> = <<Leading(b)>> <=> Leading(a) = Leading(b)
  OBVIOUS
<1> HIDE DEF s, t
<1>4. at(1) <=> Leading(a) < Leading(b)
  <2>1. 1 - 1 = 0 /\ 1 <= Len(s) + 1 /\ ~(1 > Len(s))
    BY <1>2
  <2>2. QED
    BY <1>2, <2>1
<1>5. b >= 10 => (at(2) <=> Leading(a) = Leading(b) /\ (a < 10 \/ Trailing(a) < Trailing(b)))
  <2>1. 2 - 1 = 1 /\ 2 <= Len(s) + 1 /\ (2 > Len(s) <=> a < 10)
    BY <1>2
  <2>2. Trailing(a) \in Int /\ Trailing(b) \in Int
    <3>1. Trailing(a) \in 0..10 /\ Trailing(b) \in 0..10
      BY DigitsAre
    <3>2. QED
      BY <3>1
  <2>3. b >= 10 /\ a >= 10 => (s[2] < t[2] <=> Trailing(a) < Trailing(b))
    BY <1>2, <2>2
  <2>4. QED
    BY <1>2, <1>3, <2>1, <2>3
<1> HIDE DEF at
<1>6. TextBefore(a, b) <=> at(1) \/ (b >= 10 /\ at(2))
  BY <1>1, <1>2
<1>7. /\ Leading(a) \in 0..9 /\ Leading(b) \in 0..9 /\ Trailing(a) \in 0..10 /\ Trailing(b) \in 0..10
      /\ (a < 10 <=> Trailing(a) = 0) /\ (b < 10 <=> Trailing(b) = 0)
  <2>1. \A v \in 0..99 : v < 10 <=> Trailing(v) = 0
    BY DEF Trailing
  <2>2. QED
    BY <2>1, DigitsAre
<1>8. Rank(a) < Rank(b) <=>
        (Leading(a) < Leading(b) \/ (Leading(a) = Leading(b) /\ Trailing(a) < Trailing(b)))
  BY <1>7, RanksCompare DEF Rank
<1>9. b < 10 \/ b >= 10
  OBVIOUS
<1>10. Leading(a) < Leading(b) \/ (Leading(a) = Leading(b) /\ Trailing(a) < Trailing(b))
         <=> at(1) \/ (b >= 10 /\ at(2))
  BY <1>4, <1>5, <1>7, <1>9
<1>11. QED
  BY <1>6, <1>8, <1>10

\* Among versions there is one that comes last as text.
LEMMA LastIsThere ==
  ASSUME NEW named, named \subseteq 0..99, named # {}
  PROVE  \E v \in named : \A u \in named \ {v} : TextBefore(u, v)
<1> DEFINE ranks == {Rank(v) : v \in named}
<1>1. ranks \subseteq 0..109 /\ ranks # {}
  <2>1. ASSUME NEW v \in named PROVE Rank(v) \in 0..109
    <3>1. v \in 0..99
      OBVIOUS
    <3>2. QED
      BY ONLY <3>1, DigitsAre
  <2> HIDE DEF Rank
  <2>2. ranks # {}
    OBVIOUS
  <2>3. ranks \subseteq 0..109
    BY <2>1
  <2>4. QED
    BY <2>2, <2>3
<1>2. IsFiniteSet(ranks) /\ ranks \subseteq Nat
  <2>1. IsFiniteSet(0..109)
    <3>1. 0 \in Int /\ 109 \in Int
      OBVIOUS
    <3>2. QED
      BY <3>1, FS_Interval
  <2>2. QED
    BY <1>1, <2>1, FS_Subset
<1> DEFINE top == Max(ranks)
<1>3. top \in ranks /\ \A x \in ranks : x <= top
  <2> HIDE DEF ranks
  <2>1. QED
    BY <1>1, <1>2, MaxIsGreatest
<1>4. PICK v \in named : Rank(v) = top
  BY <1>3
<1> HIDE DEF top
<1>5. ASSUME NEW u \in named \ {v} PROVE TextBefore(u, v)
  <2>1. Rank(u) <= Rank(v) /\ u \in 0..99 /\ v \in 0..99 /\ u # v
    BY <1>3, <1>4
  <2>2. Rank(u) # Rank(v)
    <3>1. /\ Leading(u) \in 0..9 /\ Trailing(u) \in 0..10 /\ Leading(v) \in 0..9 /\ Trailing(v) \in 0..10
          /\ u = IF Trailing(u) = 0 THEN Leading(u) ELSE 10 * Leading(u) + Trailing(u) - 1
          /\ v = IF Trailing(v) = 0 THEN Leading(v) ELSE 10 * Leading(v) + Trailing(v) - 1
      <4>1. u \in 0..99 /\ v \in 0..99
        BY <2>1
      <4>2. QED
        BY ONLY <4>1, DigitsAre
    <3>2. Rank(u) = Rank(v) => Leading(u) = Leading(v) /\ Trailing(u) = Trailing(v)
      <4>1. /\ Leading(u) \in 0..9 /\ Trailing(u) \in 0..10
            /\ Leading(v) \in 0..9 /\ Trailing(v) \in 0..10
        BY <3>1
      <4>2. QED
        BY <4>1, RanksCompare DEF Rank
    <3>3. QED
      BY <2>1, <3>1, <3>2
  <2>3. Rank(u) \in Int /\ Rank(v) \in Int
    <3>1. Rank(u) \in 0..109 /\ Rank(v) \in 0..109
      <4>1. u \in 0..99 /\ v \in 0..99
        BY <2>1
      <4>2. QED
        BY ONLY <4>1, DigitsAre
    <3>2. QED
      BY <3>1
  <2>4. Rank(u) < Rank(v)
    BY <2>1, <2>2, <2>3
  <2>5. QED
    BY <2>1, <2>4, TextOrder
<1>6. QED
  BY <1>5

\* The versions an advisory names have one or two digits.
TwoDigits(v) == v.introduced \in 0..99 /\ v.fixed \subseteq 0..99

LEMMA LatestIsLast ==
  ASSUME NEW vulns, \A v \in vulns : TwoDigits(v), NEW v \in vulns, NEW f \in v.fixed
  PROVE  f = ExtractLatestVersion(vulns) \/ TextBefore(f, ExtractLatestVersion(vulns))
<1> DEFINE named == {u.introduced : u \in vulns} \cup UNION {u.fixed : u \in vulns}
           last == CHOOSE x \in named : \A u \in named \ {x} : TextBefore(u, x)
<1>1. f \in named /\ named \subseteq 0..99
  BY DEF TwoDigits
<1>2. ExtractLatestVersion(vulns) = last
  BY <1>1 DEF ExtractLatestVersion
<1> HIDE DEF named
<1>3. \E x \in named : \A u \in named \ {x} : TextBefore(u, x)
  BY <1>1, LastIsThere
<1>4. last \in named /\ \A u \in named \ {last} : TextBefore(u, last)
  BY <1>3
<1> HIDE DEF last
<1>5. QED
  BY <1>1, <1>2, <1>4

\* The latest version and the fixes of a row were said in one answer.
FromOneAnswer(p, row) ==
  \E known \in SUBSET Advisories[p] :
    /\ row.latest = ExtractLatestVersion(known)
    /\ \A w \in row.cves :
         w.fixed_in # NoVersion => \E u \in known : w.fixed_in \in u.fixed

LEMMA OneReply ==
  ASSUME NEW dep, NEW replies, NEW day,
         EnrichDependency(dep, replies, day).metadata.known
  PROVE  LET known == GetPackageInfo(replies.osv).vulns
             row == EnrichDependency(dep, replies, day).metadata
         IN  row.cves = ExtractVulnerabilities(known) /\ row.latest = ExtractLatestVersion(known)
<1> DEFINE e == EnrichDependency(dep, replies, day)
           known == GetPackageInfo(replies.osv).vulns
           vulns == ExtractVulnerabilities(known)
           latest == ExtractLatestVersion(known)
           date == GetEolDate(replies.date, dep.version)
           over == date # NoDate /\ IsEol(replies.eol, dep.version, day)
           exposed == \E v \in vulns : \E f \in v.fixed : VersionIsAffected(dep.version, f)
           row == [known |-> TRUE, latest |-> latest, is_eol |-> over, eol_date |-> date, cves |-> vulns]
<1>1. \/ e = [package |-> dep.package, version |-> dep.version, dev |-> dep.dev,
              exposed |-> FALSE, metadata |-> [known |-> FALSE]]
      \/ e = [package |-> dep.package, version |-> dep.version, dev |-> dep.dev,
              exposed |-> exposed, metadata |-> row]
  BY DEF EnrichDependency, EnrichSingle, CreateEnrichedDependency, NoMetadata
<1>2. row.cves = vulns /\ row.latest = latest
  OBVIOUS
<1>3. e.metadata.known
  OBVIOUS
<1> HIDE DEF e, row, exposed, vulns, latest
<1>4. e.metadata = row
  BY <1>1, <1>3
<1>5. QED
  BY <1>2, <1>4 DEF e, vulns, latest

LEMMA OutcomeFromOneAnswer ==
  ASSUME PortfolioTypes, NEW deps, NEW failed, NEW i \in DOMAIN deps, deps[i] \in Declaration,
         Outcome(deps, failed, i).metadata.known,
         NEW row, RowShows(row, Outcome(deps, failed, i).metadata)
  PROVE  FromOneAnswer(deps[i].package, row)
<1> DEFINE p == deps[i].package
           down == {c \in {"osv", "date", "eol"} : <<i, c>> \in failed}
           replies == Replies(p, down)
           known == GetPackageInfo(replies.osv).vulns
<1>1. Outcome(deps, failed, i) = EnrichDependency(deps[i], replies, today)
  BY DEF Outcome
<1>2. replies.osv = Outage \/ replies.osv = advisories[p]
  BY DEF Replies
<1>3. known = {} \/ known = advisories[p]
  BY <1>2 DEF GetPackageInfo
<1>4. p \in Packages
  BY DEF Declaration
<1>5. known \in SUBSET Advisories[p]
  BY <1>3, <1>4 DEF PortfolioTypes
<1> HIDE DEF replies, p
<1>6. /\ Outcome(deps, failed, i).metadata.cves = ExtractVulnerabilities(known)
      /\ Outcome(deps, failed, i).metadata.latest = ExtractLatestVersion(known)
  BY <1>1, OneReply
<1> HIDE DEF known
<1>7. row.latest = ExtractLatestVersion(known)
  BY <1>6 DEF RowShows
<1>8. ASSUME NEW w \in row.cves, w.fixed_in # NoVersion
      PROVE  \E u \in known : w.fixed_in \in u.fixed
  <2>1. PICK v \in ExtractVulnerabilities(known) : Stored(w, v)
    BY <1>6 DEF RowShows
  <2>2. w.fixed_in \in v.fixed
    BY <1>8, <2>1 DEF Stored
  <2>3. PICK u \in known : v = [id |-> u.id, cve |-> u.cve, severity |-> ExtractSeverity(u.score),
                                fixed |-> u.fixed]
    BY DEF ExtractVulnerabilities
  <2>4. v.fixed = u.fixed
    BY <2>3
  <2>5. QED
    BY <2>2, <2>4
<1>9. FromOneAnswer(p, row)
  BY <1>5, <1>7, <1>8 DEF FromOneAnswer
<1>10. QED
  BY <1>9 DEF p

RowsOfOneAnswer == \A p \in Known : FromOneAnswer(p, packages[p])

LEMMA AnalysisKeepsAnswers ==
  ASSUME PortfolioInvariant, RowsOfOneAnswer, NEW r \in Repos, ProcessDependencies(r)
  PROVE  RowsOfOneAnswer'
<1>1. CASE UNCHANGED packages
  BY <1>1 DEF RowsOfOneAnswer, Known
<1>2. CASE ~UNCHANGED packages
  <2>1. PICK list \in Seq(Declaration) :
          \E deps, failed : KeptOf(deps, list, Len(list)) /\ Stores(r, deps, failed)
    BY <1>2, AnalysisStores
  <2>2. PICK deps, failed : KeptOf(deps, list, Len(list)) /\ Stores(r, deps, failed)
    BY <2>1
  <2>3. Distinct(deps) /\ \A i \in DOMAIN deps : deps[i] \in Declaration
    BY <2>2 DEF KeptOf, Distinct
  <2>4. Named(deps, failed)
    <3>1. Outcomes(deps, failed)
      BY <2>3, OutcomesHold DEF PortfolioInvariant
    <3>2. QED
      BY <3>1 DEF Outcomes, Named
  <2>5. PackagesAre(deps, failed)
    BY <2>2, <2>3, <2>4, PackagesStored
  <2>6. ASSUME NEW p \in DOMAIN packages' PROVE FromOneAnswer(p, packages'[p])
    <3>1. CASE \E i \in DOMAIN deps : deps[i].package = p /\ Outcome(deps, failed, i).metadata.known
      <4>1. PICK i \in DOMAIN deps : deps[i].package = p /\ Outcome(deps, failed, i).metadata.known
        BY <3>1
      <4>2. RowShows(packages'[p], Outcome(deps, failed, i).metadata)
        BY <2>5, <4>1 DEF PackagesAre
      <4>3. QED
        BY <2>3, <4>1, <4>2, OutcomeFromOneAnswer DEF PortfolioInvariant
    <3>2. CASE ~\E i \in DOMAIN deps : deps[i].package = p /\ Outcome(deps, failed, i).metadata.known
      <4>1. p \in DOMAIN packages /\ packages'[p] = packages[p]
        BY <2>5, <3>2 DEF PackagesAre
      <4>2. QED
        BY <4>1 DEF RowsOfOneAnswer, Known
    <3>3. QED
      BY <3>1, <3>2
  <2>7. QED
    BY <2>6 DEF RowsOfOneAnswer, Known
<1>3. QED
  BY <1>1, <1>2

LEMMA AdvisoryLeavesPackages ==
  ASSUME NEW p \in Packages, PublishAdvisory(p) \/ WithdrawAdvisory(p)
  PROVE  UNCHANGED packages
BY DEF PublishAdvisory, WithdrawAdvisory, Amend

LEMMA AnswersKept == PortfolioInvariant /\ RowsOfOneAnswer /\ [Next]_vars => RowsOfOneAnswer'
<1> SUFFICES ASSUME PortfolioInvariant, RowsOfOneAnswer, [Next]_vars PROVE RowsOfOneAnswer'
  OBVIOUS
<1>1. ASSUME UNCHANGED packages PROVE RowsOfOneAnswer'
  BY <1>1 DEF RowsOfOneAnswer, Known
<1>2. ASSUME NEW r \in Repos, ProcessDependencies(r) PROVE RowsOfOneAnswer'
  BY <1>2, AnalysisKeepsAnswers
<1>3. ASSUME NEW p \in Packages, PublishAdvisory(p) \/ WithdrawAdvisory(p) PROVE UNCHANGED packages
  BY <1>3, AdvisoryLeavesPackages
<1>4. ASSUME NextDay PROVE UNCHANGED packages
  BY <1>4 DEF NextDay
<1>5. CASE PortfolioNext
  <2>1. CASE \E r \in Repos : ProcessDependencies(r)
    BY <1>2, <2>1
  <2>2. CASE \E p \in Packages : PublishAdvisory(p) \/ WithdrawAdvisory(p)
    BY <1>1, <1>3, <2>2
  <2>3. CASE NextDay
    <3>1. UNCHANGED packages
      BY <1>4, <2>3, Zenon
    <3>2. QED
      BY <1>1, <3>1
  <2>4. QED
    BY ONLY <1>5, <2>1, <2>2, <2>3 DEF PortfolioNext
<1>6. ASSUME NEW x \in Publishers, RadarStep(x) PROVE UNCHANGED packages
  BY <1>6 DEF RadarStep, LoadPrior, CountUsers, CategorizePackages, BeginClear, Clear, Publish, Abort,
              portfolioVars
<1>7. CASE UNCHANGED vars
  BY <1>1, <1>7 DEF vars, portfolioVars
<1>8. QED
  BY <1>1, <1>5, <1>6, <1>7 DEF Next

LatestComesLast ==
  \A p \in Known : \A v \in packages[p].cves :
    v.fixed_in # NoVersion =>
      v.fixed_in = packages[p].latest \/ TextBefore(v.fixed_in, packages[p].latest)

\* The latest version that is shown with a package is the last as text of all
\* that its row names: none of the fixes listed beside it comes after it
\* (_extract_latest_version; store_package_metadata writes the version and the
\* vulnerabilities of one answer, whatever the row had before).  As numbers a
\* fix may be above it, 10 above 9.
THEOREM LatestIsShownLast ==
  ASSUME \A p \in Packages : \A v \in Advisories[p] : TwoDigits(v)
  PROVE  Spec => []LatestComesLast
<1>1. Init => RowsOfOneAnswer
  BY DEF Init, PortfolioInit, RowsOfOneAnswer, Known
<1>2. PortfolioInvariant /\ RowsOfOneAnswer /\ [Next]_vars => RowsOfOneAnswer'
  BY AnswersKept
<1>3. PortfolioInvariant /\ RowsOfOneAnswer => LatestComesLast
  <2> SUFFICES ASSUME PortfolioInvariant, RowsOfOneAnswer, NEW p \in Known,
                      NEW v \in packages[p].cves, v.fixed_in # NoVersion
               PROVE  \/ v.fixed_in = packages[p].latest
                      \/ TextBefore(v.fixed_in, packages[p].latest)
    BY DEF LatestComesLast
  <2>1. PICK known \in SUBSET Advisories[p] :
          /\ packages[p].latest = ExtractLatestVersion(known)
          /\ \E u \in known : v.fixed_in \in u.fixed
    BY DEF RowsOfOneAnswer, FromOneAnswer
  <2>2. \A u \in known : TwoDigits(u)
    BY DEF PortfolioInvariant, PortfolioTypes, Known
  <2>3. QED
    BY <2>1, <2>2, LatestIsLast
<1>4. QED
  BY <1>1, <1>2, <1>3, PortfolioHolds, PTL DEF Spec

=============================================================================
