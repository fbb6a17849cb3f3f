--------------------------- MODULE Analytics_proofs ---------------------------
(***************************************************************************)
(* The invariants of Analytics, for any activity, repositories, services,  *)
(* workers and changes to the team, and months of any length.  What is     *)
(* counted is compared with what is stored now: a computation that ends    *)
(* late has counted less, never more.                                      *)
(***************************************************************************)
EXTENDS Analytics, Fold_lemmas

USE AnalyticsAssumption DEF AnalyticsAssumption

-----------------------------------------------------------------------------
(* Months.                                                                 *)

\* A day lies in its month.
LEMMA DaysInMonth ==
  ASSUME NEW d \in Nat
  PROVE  /\ MonthOf(d) \in Nat
         /\ MonthOf(d) * MonthDays <= d
         /\ d < (MonthOf(d) + 1) * MonthDays
BY DEF MonthOf

\* A month begins when the ones before it have ended.
LEMMA LaterMonth ==
  ASSUME NEW m \in Nat, NEW n \in Nat, m < n
  PROVE  (m + 1) * MonthDays <= n * MonthDays
OBVIOUS

LEMMA MonthDaysAreNumbers ==
  ASSUME NEW m \in Nat
  PROVE  /\ m * MonthDays \in Nat
         /\ (m + 1) * MonthDays \in Nat
         /\ (m + 1) * MonthDays = m * MonthDays + MonthDays
OBVIOUS

LEMMA DuringMonth ==
  ASSUME NEW m \in Nat, NEW d \in Nat
  PROVE  During(Month(m), d) <=> MonthOf(d) = m
<1> DEFINE n == MonthOf(d)
<1>1. n \in Nat /\ n * MonthDays <= d /\ d < (n + 1) * MonthDays
  BY DaysInMonth
<1>2. /\ m * MonthDays \in Nat /\ (m + 1) * MonthDays \in Nat
      /\ n * MonthDays \in Nat /\ (n + 1) * MonthDays \in Nat
  BY <1>1, MonthDaysAreNumbers
<1>3. During(Month(m), d) <=> m * MonthDays <= d /\ d < (m + 1) * MonthDays
  BY DEF During, Month
<1>4. (m * MonthDays <= d /\ d < (m + 1) * MonthDays) <=> n = m
  <2> HIDE DEF n
  <2>1. CASE n < m
    BY <1>1, <1>2, <2>1, LaterMonth
  <2>2. CASE m < n
    BY <1>1, <1>2, <2>2, LaterMonth
  <2>3. CASE n = m
    BY <1>1, <2>3
  <2>4. n < m \/ m < n \/ n = m
    <3>1. n \in Nat
      BY <1>1
    <3>2. QED
      BY <3>1
  <2>5. QED
    BY <2>1, <2>2, <2>3, <2>4
<1>5. QED
  BY <1>3, <1>4

-----------------------------------------------------------------------------
(* What a row of contributor_metrics may hold.  s is the stored activity,  *)
(* k the key of the row, c a computation that is under way.                *)

CommitsIn(s, k) ==
  {a \in s \cap Commits : a.repo = k[1] /\ a.by = k[2] /\ a.by # NoOne /\ MonthOf(a.day) = k[3]}

RowFits(s, k, row) ==
  /\ row.end = (k[3] + 1) * MonthDays
  /\ row.commits \in Nat /\ row.pulls \in Nat /\ row.judged \in Nat /\ row.quality \in Nat
  /\ row.commits <= Cardinality(CommitsIn(s, k))
  /\ row.judged <= row.commits
  /\ row.quality <= 20 * row.judged

Scorable(s) == {a \in s \cap Commits : a.message.subject > 0}

\* A commit of the month has no author.
Nobodys(s, r, m) == \E a \in s \cap Commits : a.repo = r /\ MonthOf(a.day) = m /\ a.by = NoOne

CountFits(s, c) ==
  c # Idle =>
    /\ c.repo \in Repos /\ c.month \in Nat
    /\ c.scores \subseteq Scorable(s)
    /\ IsFiniteSet(DOMAIN c.stats) /\ DOMAIN c.stats \subseteq People
    /\ \A p \in DOMAIN c.stats : RowFits(s, <<c.repo, p, c.month>>, c.stats[p])
    /\ ~Nobodys(s, c.repo, c.month) => \E p \in DOMAIN c.stats : c.stats[p].commits > 0

Stored(s) == s \subseteq Activity

RowsFit(s, m) ==
  /\ IsFiniteSet(DOMAIN m)
  /\ \A k \in DOMAIN m : k \in Repos \X People \X Nat /\ RowFits(s, k, m[k])

CountInvariant ==
  /\ today \in 0..MaxDay
  /\ Stored(stored)
  /\ scored \subseteq Scorable(stored)
  /\ RowsFit(stored, metrics)
  /\ counting = [w \in Workers |-> counting[w]]
  /\ \A w \in Workers : CountFits(stored, counting[w])

LEMMA StoredFinite ==
  ASSUME NEW s, Stored(s)
  PROVE  IsFiniteSet(s) /\ \A k : IsFiniteSet(CommitsIn(s, k)) /\ CommitsIn(s, k) \subseteq s
<1>1. IsFiniteSet(s)
  BY FS_Subset DEF Stored
<1>2. \A k : CommitsIn(s, k) \subseteq s
  BY DEF CommitsIn
<1>3. QED
  BY <1>1, <1>2, FS_Subset

\* More is stored: what was counted fits as well.
LEMMA MoreStored ==
  ASSUME NEW s, NEW t, s \subseteq t, Stored(t)
  PROVE  /\ Stored(s) /\ Scorable(s) \subseteq Scorable(t)
         /\ \A k, row : RowFits(s, k, row) => RowFits(t, k, row)
         /\ \A m : RowsFit(s, m) => RowsFit(t, m)
         /\ \A r, m : Nobodys(s, r, m) => Nobodys(t, r, m)
         /\ \A c : CountFits(s, c) => CountFits(t, c)
<1>1. Stored(s) /\ Scorable(s) \subseteq Scorable(t)
  BY DEF Stored, Scorable
<1>2. ASSUME NEW k, NEW row, RowFits(s, k, row) PROVE RowFits(t, k, row)
  <2>1. CommitsIn(s, k) \subseteq CommitsIn(t, k)
    BY DEF CommitsIn
  <2>2. /\ IsFiniteSet(CommitsIn(t, k)) /\ IsFiniteSet(CommitsIn(s, k))
    BY <1>1, StoredFinite
  <2>3. /\ Cardinality(CommitsIn(s, k)) <= Cardinality(CommitsIn(t, k))
        /\ Cardinality(CommitsIn(s, k)) \in Nat /\ Cardinality(CommitsIn(t, k)) \in Nat
    BY <2>1, <2>2, FS_Subset, FS_CardinalityType
  <2>4. row.commits <= Cardinality(CommitsIn(t, k))
    BY <1>2, <2>3 DEF RowFits
  <2>5. QED
    BY <1>2, <2>4 DEF RowFits
<1>3. \A m : RowsFit(s, m) => RowsFit(t, m)
  BY <1>2 DEF RowsFit
<1>4. \A r, m : Nobodys(s, r, m) => Nobodys(t, r, m)
  BY DEF Nobodys
<1>5. \A c : CountFits(s, c) => CountFits(t, c)
  BY <1>1, <1>2, <1>4 DEF CountFits
<1>6. QED
  BY <1>1, <1>2, <1>3, <1>4, <1>5

\* No message has more than 20 half points.
LEMMA ScoreIsBounded ==
  ASSUME NEW m
  PROVE  MessageScore(m) \in Nat /\ MessageScore(m) <= 20
<1> DEFINE length == IF m.subject \in 20..72 THEN 2 ELSE IF m.subject \in 10..100 THEN 1 ELSE 0
           a == IF ~m.trivial THEN 2 ELSE 0
           b == IF m.body > 20 THEN 4 ELSE 0
           c == IF m.issue THEN 2 ELSE 0
           d == IF m.imperative THEN 2 ELSE 0
           e == IF m.conventional THEN 2 ELSE 0
<1>1. MessageScore(m) = IF m.subject = 0 THEN 0 ELSE 4 + length + a + b + c + d + e
  BY DEF MessageScore
<1>2. length \in 0..2 /\ a \in 0..2 /\ b \in 0..4 /\ c \in 0..2 /\ d \in 0..2 /\ e \in 0..2
  OBVIOUS
<1> HIDE DEF length, a, b, c, d, e
<1>3. QED
  BY <1>1, <1>2

\* The statistics of a computation that begins.
LEMMA StatsFit ==
  ASSUME Stored(stored), scored \subseteq Scorable(stored), NEW r \in Repos, NEW m \in Nat,
         NEW stats, stats = CalculateContributorMetrics(r, Month(m))
  PROVE  /\ IsFiniteSet(DOMAIN stats) /\ DOMAIN stats \subseteq People
         /\ \A p \in DOMAIN stats : RowFits(stored, <<r, p, m>>, stats[p])
         /\ \A a \in stored \cap Commits :
              a.repo = r /\ MonthOf(a.day) = m /\ a.by # NoOne =>
                a.by \in DOMAIN stats /\ stats[a.by].commits > 0
<1> DEFINE of(kind, c) == {a \in InPeriod(kind, r, Month(m)) : a.by = c}
           active(c) == UNION {of(kind, c) : kind \in {"commit", "pull", "review", "comment"}}
<1>0. DOMAIN stats = {d \in People : active(d) # {}}
  BY DEF CalculateContributorMetrics
<1>1. \A c : of("commit", c) = CommitsIn(stored, <<r, c, m>>)
  <2>1. \A a \in stored : a.day \in Nat /\ (a \in Commits <=> a.kind = "commit")
    BY DEF Stored, Commits
  <2>2. \A a \in stored : During(Month(m), a.day) <=> MonthOf(a.day) = m
    BY <2>1, DuringMonth
  <2>3. QED
    BY <2>1, <2>2 DEF InPeriod, CommitsIn
<1>2. \A kind, c : of(kind, c) \subseteq stored /\ IsFiniteSet(of(kind, c))
  <2>1. \A kind, c : of(kind, c) \subseteq stored
    BY DEF InPeriod
  <2>2. QED
    BY <2>1, StoredFinite, FS_Subset
<1>3. IsFiniteSet(DOMAIN stats)
  <2> DEFINE by == [a \in stored |-> a.by]
  <2>1. IsFiniteSet({by[a] : a \in stored})
    <3>1. DOMAIN by = stored /\ IsFiniteSet(stored)
      BY StoredFinite
    <3> HIDE DEF by
    <3>2. QED
      BY <3>1, FiniteImage
  <2>2. DOMAIN stats \subseteq {by[a] : a \in stored}
    <3>1. \A d : \A a \in active(d) : a \in stored /\ by[a] = d
      BY <1>2
    <3> HIDE DEF active, by
    <3>2. QED
      BY <1>0, <3>1
  <2>3. QED
    BY <2>1, <2>2, FS_Subset
<1>4. ASSUME NEW p \in DOMAIN stats PROVE RowFits(stored, <<r, p, m>>, stats[p])
  <2> DEFINE cs == of("commit", p)
  <2> DEFINE score == [a \in cs \cap scored |-> MessageScore(a.message)]
  <2>1. /\ stats[p].end = (m + 1) * MonthDays
        /\ stats[p].commits = Cardinality(cs)
        /\ stats[p].pulls = Cardinality(of("pull", p))
        /\ stats[p].judged = Cardinality(cs \cap scored)
        /\ stats[p].quality = SumFunction(score)
    BY <1>0 DEF CalculateContributorMetrics, Month
  <2>2. IsFiniteSet(cs) /\ IsFiniteSet(of("pull", p)) /\ IsFiniteSet(cs \cap scored)
    <3>1. IsFiniteSet(cs) /\ IsFiniteSet(of("pull", p))
      BY <1>2
    <3> HIDE DEF cs
    <3>2. QED
      BY <3>1, FS_Subset
  <2>3. /\ Cardinality(cs) \in Nat /\ Cardinality(of("pull", p)) \in Nat
        /\ Cardinality(cs \cap scored) \in Nat /\ Cardinality(cs \cap scored) <= Cardinality(cs)
    BY <2>2, FS_CardinalityType, FS_Subset
  <2>4. \A a \in cs \cap scored : score[a] \in Nat /\ score[a] <= 20
    BY ScoreIsBounded
  <2>5. SumFunction(score) \in Nat /\ SumFunction(score) <= 20 * Cardinality(cs \cap scored)
    <3>1. DOMAIN score = cs \cap scored
      OBVIOUS
    <3> HIDE DEF cs, score
    <3>2. QED
      BY <2>2, <2>4, <3>1, SumType, SumBounded DEF SumFunction
  <2>6. cs = CommitsIn(stored, <<r, p, m>>)
    BY <1>1
  <2> HIDE DEF cs, score, of
  <2>7. QED
    BY <2>1, <2>3, <2>5, <2>6 DEF RowFits
<1>5. ASSUME NEW a \in stored \cap Commits, a.repo = r, MonthOf(a.day) = m, a.by # NoOne
      PROVE  a.by \in DOMAIN stats /\ stats[a.by].commits > 0
  <2>1. a.by \in People
    BY <1>5 DEF Stored
  <2>2. a \in of("commit", a.by)
    BY <1>1, <1>5 DEF CommitsIn
  <2>3. active(a.by) # {}
    BY <2>2
  <2>4. stats[a.by].commits = Cardinality(of("commit", a.by))
    BY <1>0, <2>1, <2>3 DEF CalculateContributorMetrics
  <2>5. Cardinality(of("commit", a.by)) # 0 /\ Cardinality(of("commit", a.by)) \in Nat
    <3>1. IsFiniteSet(of("commit", a.by)) /\ of("commit", a.by) # {}
      BY <1>2, <2>2
    <3> HIDE DEF of
    <3> QED
      BY <3>1, FS_EmptySet, FS_CardinalityType
  <2>6. QED
    BY <1>0, <2>1, <2>3, <2>4, <2>5
<1>6. QED
  BY <1>0, <1>3, <1>4, <1>5

\* Storing what a computation counted.
LEMMA StoreFits ==
  ASSUME RowsFit(stored, metrics), NEW c, c # Idle, CountFits(stored, c)
  PROVE  RowsFit(stored, StoreContributorMetrics(c))
<1> DEFINE new == StoreContributorMetrics(c)
           keys == {<<c.repo, p, c.month>> : p \in DOMAIN c.stats}
<1>1. DOMAIN new = DOMAIN metrics \cup keys
  BY DEF StoreContributorMetrics
<1>2. IsFiniteSet(keys)
  <2> DEFINE f == [p \in DOMAIN c.stats |-> <<c.repo, p, c.month>>]
  <2>1. IsFiniteSet(DOMAIN f) /\ keys = {f[p] : p \in DOMAIN f}
    BY DEF CountFits
  <2> HIDE DEF f, keys
  <2>2. QED
    BY <2>1, FiniteImage
<1>3. IsFiniteSet(DOMAIN new)
  <2>1. IsFiniteSet(DOMAIN metrics)
    BY DEF RowsFit
  <2> HIDE DEF new, keys
  <2>2. IsFiniteSet(DOMAIN metrics \cup keys)
    BY <1>2, <2>1, FS_Union
  <2>3. QED
    BY <1>1, <2>2
<1>4. ASSUME NEW k \in DOMAIN new PROVE k \in Repos \X People \X Nat /\ RowFits(stored, k, new[k])
  <2>1. CASE k \in keys
    <3>1. PICK p \in DOMAIN c.stats : k = <<c.repo, p, c.month>>
      BY <2>1
    <3>2. new[k] = c.stats[p]
      BY <1>4, <3>1 DEF StoreContributorMetrics
    <3>3. c.repo \in Repos /\ p \in People /\ c.month \in Nat /\ RowFits(stored, k, c.stats[p])
      BY <3>1 DEF CountFits
    <3>4. QED
      BY <3>1, <3>2, <3>3
  <2>2. CASE k \notin keys
    <3>1. k \in DOMAIN metrics /\ new[k] = metrics[k]
      BY <1>1, <1>4, <2>2 DEF StoreContributorMetrics
    <3>2. QED
      BY <3>1 DEF RowsFit
  <2>3. QED
    BY <2>1, <2>2
<1>5. QED
  BY <1>3, <1>4 DEF RowsFit

LEMMA CountInit == Init => CountInvariant
<1> SUFFICES ASSUME Init PROVE CountInvariant
  OBVIOUS
<1>1. RowsFit(stored, metrics)
  BY FS_EmptySet DEF Init, RowsFit
<1>2. QED
  BY <1>1 DEF Init, CountInvariant, CountFits, Stored, Scorable

LEMMA BeginCountStep ==
  ASSUME CountInvariant, NEW w \in Workers, NEW r \in Repos, BeginCount(w, r)
  PROVE  CountInvariant'
<1> DEFINE m == MonthOf(today)
<1>1. m \in Nat
  BY DaysInMonth DEF CountInvariant
<1>2. PICK scores \in ScoreMessages(r) :
        counting' = [counting EXCEPT ![w] =
          [at |-> "counted", repo |-> r, month |-> m, scores |-> scores,
           stats |-> CalculateContributorMetrics(r, Month(m))]]
  BY DEF BeginCount
<1>3. \E a \in stored \cap Commits : a.repo = r /\ MonthOf(a.day) = m
  BY DEF BeginCount
<1> DEFINE stats == CalculateContributorMetrics(r, Month(m))
<1> HIDE DEF m
<1>4. scores \subseteq Scorable(stored)
  BY DEF ScoreMessages, Scorable, CountInvariant, kSubset
<1>5. /\ IsFiniteSet(DOMAIN stats) /\ DOMAIN stats \subseteq People
      /\ \A p \in DOMAIN stats : RowFits(stored, <<r, p, m>>, stats[p])
      /\ \A a \in stored \cap Commits :
           a.repo = r /\ MonthOf(a.day) = m /\ a.by # NoOne =>
             a.by \in DOMAIN stats /\ stats[a.by].commits > 0
  BY <1>1, StatsFit DEF CountInvariant
<1>6. ~Nobodys(stored, r, m) => \E p \in DOMAIN stats : stats[p].commits > 0
  BY <1>3, <1>5 DEF Nobodys
<1>7. counting = [v \in Workers |-> counting[v]] /\ \A v \in Workers : CountFits(stored, counting[v])
  BY DEF CountInvariant
<1>8. /\ counting' = [v \in Workers |-> counting'[v]]
      /\ counting'[w] = [at |-> "counted", repo |-> r, month |-> m, scores |-> scores, stats |-> stats]
      /\ \A v \in Workers \ {w} : counting'[v] = counting[v]
  <2> HIDE DEF stats
  <2>1. counting' = [counting EXCEPT ![w] =
          [at |-> "counted", repo |-> r, month |-> m, scores |-> scores, stats |-> stats]]
    BY <1>2 DEF stats
  <2>2. QED
    BY <1>7, <2>1
<1>9. CountFits(stored, counting'[w])
  <2> HIDE DEF stats
  <2> QED
    BY <1>1, <1>4, <1>5, <1>6, <1>8 DEF CountFits
<1>10. UNCHANGED <<today, stored, scored, metrics>>
  BY DEF BeginCount, contentVars
<1>11. QED
  <2> HIDE DEF stats
  <2> QED
    BY <1>7, <1>8, <1>9, <1>10 DEF CountInvariant

LEMMA FinishCountStep ==
  ASSUME CountInvariant, NEW w \in Workers, FinishCount(w)
  PROVE  CountInvariant'
<1>1. /\ RowsFit(stored, metrics) /\ CountFits(stored, counting[w]) /\ counting[w] # Idle
      /\ scored \subseteq Scorable(stored)
  BY DEF CountInvariant, FinishCount
<1>2. RowsFit(stored, metrics')
  BY <1>1, StoreFits DEF FinishCount
<1>3. scored' \subseteq Scorable(stored)
  BY <1>1 DEF FinishCount, CountFits
<1>4. UNCHANGED <<today, stored>> /\ counting' = [counting EXCEPT ![w] = Idle]
  BY DEF FinishCount, contentVars
<1>5. /\ counting' = [v \in Workers |-> counting'[v]]
      /\ \A v \in Workers : CountFits(stored, counting'[v])
  BY <1>4 DEF CountInvariant, CountFits
<1>6. QED
  BY <1>2, <1>3, <1>4, <1>5 DEF CountInvariant

LEMMA FailCountStep ==
  ASSUME CountInvariant, NEW w \in Workers, FailCount(w)
  PROVE  CountInvariant'
<1>1. UNCHANGED <<today, stored, scored, metrics>> /\ counting' = [counting EXCEPT ![w] = Idle]
  BY DEF FailCount, contentVars
<1>2. /\ counting' = [v \in Workers |-> counting'[v]]
      /\ \A v \in Workers : CountFits(stored, counting'[v])
  BY <1>1 DEF CountInvariant, CountFits
<1>3. QED
  BY <1>1, <1>2 DEF CountInvariant

\* What is stored stays stored.
LEMMA StoredGrows ==
  ASSUME CountInvariant, [Next]_vars
  PROVE  stored \subseteq stored' /\ Stored(stored')
<1>1. CASE \E r \in Repos : StoreActivity(r)
  BY <1>1 DEF StoreActivity, Stored, CountInvariant
<1>2. CASE UNCHANGED stored
  BY <1>2 DEF CountInvariant
<1>3. QED
  BY <1>1, <1>2 DEF Next, vars, NextDay, StoreDependencies, BeginCount, FinishCount, FailCount,
     StartTask, StartService, RunStatement, FinishTask, FailTask, AddContributorToTeam,
     RemoveContributorFromTeam, contentVars

LEMMA CountStep == CountInvariant /\ [Next]_vars => CountInvariant'
<1> SUFFICES ASSUME CountInvariant, [Next]_vars PROVE CountInvariant'
  OBVIOUS
<1>1. ASSUME NEW w \in Workers, NEW r \in Repos, BeginCount(w, r) PROVE CountInvariant'
  BY <1>1, BeginCountStep
<1>2. ASSUME NEW w \in Workers, FinishCount(w) \/ FailCount(w) PROVE CountInvariant'
  BY <1>2, FinishCountStep, FailCountStep
<1>3. CASE today' \in 0..MaxDay /\ UNCHANGED <<scored, metrics, counting>>
  <2>1. stored \subseteq stored' /\ Stored(stored')
    BY StoredGrows
  <2>2. /\ RowsFit(stored, metrics) => RowsFit(stored', metrics)
        /\ \A w : CountFits(stored, counting[w]) => CountFits(stored', counting[w])
        /\ Scorable(stored) \subseteq Scorable(stored')
    BY <2>1, MoreStored
  <2>3. QED
    BY <1>3, <2>1, <2>2 DEF CountInvariant
<1>4. today' \in 0..MaxDay
  <2>1. CASE NextDay
    BY <2>1 DEF NextDay, CountInvariant
  <2>2. CASE UNCHANGED today
    BY <2>2 DEF CountInvariant
  <2>3. QED
    BY <2>1, <2>2 DEF Next, vars, StoreActivity, StoreDependencies, BeginCount, FinishCount,
       FailCount, StartTask, StartService, RunStatement, FinishTask, FailTask, AddContributorToTeam,
       RemoveContributorFromTeam
<1>5. QED
  BY <1>1, <1>2, <1>3, <1>4 DEF Next, vars, NextDay, StoreActivity, StoreDependencies,
     StartTask, StartService, RunStatement, FinishTask, FailTask, AddContributorToTeam,
     RemoveContributorFromTeam, countVars

LEMMA CountHolds == Spec => []CountInvariant
BY CountInit, CountStep, PTL DEF Spec

\* NoActivityCountedTwice: what the rows of a repository count are different
\* commits, of one contributor and one month each.
THEOREM CommitsCountOnce == Spec => []NoActivityCountedTwice
<1>1. ASSUME CountInvariant PROVE NoActivityCountedTwice
  <2>1. SUFFICES ASSUME NEW r \in Repos
        PROVE  SumFunctionOnSet(CommitCount, {k \in DOMAIN metrics : k[1] = r})
                 <= Cardinality({a \in stored \cap Commits : a.repo = r /\ a.by # NoOne})
    BY DEF NoActivityCountedTwice
  <2> DEFINE rows == {k \in DOMAIN metrics : k[1] = r}
             all == {a \in stored \cap Commits : a.repo = r /\ a.by # NoOne}
             part == [k \in rows |-> CommitsIn(stored, k)]
             size == [k \in rows |-> Cardinality(CommitsIn(stored, k))]
  <2>1a. IsFiniteSet(rows) /\ IsFiniteSet(all)
    BY <1>1, StoredFinite, FS_Subset DEF CountInvariant, RowsFit
  <2>2. \A k \in rows : CommitCount[k] \in Nat /\ size[k] \in Nat /\ CommitCount[k] <= size[k]
    BY <1>1, StoredFinite, FS_CardinalityType DEF CountInvariant, RowsFit, RowFits, CommitCount
  <2>3. SumFunctionOnSet(CommitCount, rows) <= SumFunctionOnSet(size, rows)
    <3> HIDE DEF rows, size
    <3> QED
      BY <2>1a, <2>2, SumMonotone
  <2>4. \A k \in rows : part[k] \subseteq all /\ size[k] = Cardinality(part[k])
    BY DEF CommitsIn
  <2>5. \A j, k \in rows : j # k => part[j] \cap part[k] = {}
    <3>1. \A j, k \in rows : j # k => j[1] # k[1] \/ j[2] # k[2] \/ j[3] # k[3]
      BY <1>1 DEF CountInvariant, RowsFit
    <3>2. QED
      BY <3>1 DEF CommitsIn
  <2>6. SumFunctionOnSet(size, rows) <= Cardinality(all)
    <3> HIDE DEF rows, size, part, all
    <3> QED
      BY <2>1a, <2>4, <2>5, SumOfParts
  <2>7. /\ SumFunctionOnSet(CommitCount, rows) \in Nat /\ SumFunctionOnSet(size, rows) \in Nat
        /\ Cardinality(all) \in Nat
    <3> HIDE DEF rows, size, all
    <3> QED
      BY <2>1a, <2>2, SumType, FS_CardinalityType
  <2>8. QED
    BY <2>3, <2>6, <2>7
<1>2. QED
  BY <1>1, CountHolds, PTL

-----------------------------------------------------------------------------
(* Service metrics.  m stands for the rows of contributor_metrics and d    *)
(* for the dependencies, as of some state.                                 *)

Names == DOMAIN Services
Period == [start : Nat, end : Nat]

\* A period that begins with a month and ends in it.
InOneMonth(p) ==
  /\ p.start = MonthOf(p.start) * MonthDays
  /\ p.start < p.end /\ p.end <= (MonthOf(p.start) + 1) * MonthDays

ServiceRow(S) ==
  [service : S, period : Period, repositories : Nat, commits : Nat, created : Nat, merged : Nat,
   vulnerable : Nat, dependencies : Nat, contributors : Nat, active : Nat]

DependFits(d) ==
  /\ d = [r \in Repos |-> d[r]]
  /\ \A r \in Repos : IsFiniteSet(d[r].all) /\ d[r].exposed \subseteq d[r].all

Total(d, repos) == SumFunction([r \in repos |-> Cardinality(d[r].all)])

HasCommits(m, r, n) == \E k \in DOMAIN m : k[1] = r /\ k[3] = n /\ m[k].commits > 0

MonthRows(m, row) ==
  {k \in DOMAIN m : k[1] \in Services[row.service] /\ k[3] = MonthOf(row.period.start)}

AttributedIn(s, row) ==
  \A a \in s \cap Commits :
    a.repo \in Services[row.service] /\ MonthOf(a.day) = MonthOf(row.period.start) => a.by # NoOne

RowAddsUp(s, row) ==
  /\ row.commits > 0 => row.contributors > 0
  /\ row.commits > 0 /\ AttributedIn(s, row) => row.active > 0
  /\ row.vulnerable <= row.dependencies
  /\ row.active <= row.repositories

\* A row before its statement n: what is counted has been there, and is there.
Begun(s, m, d, row, n) ==
  /\ row.repositories = Cardinality(Services[row.service])
  /\ row.commits > 0 => MonthRows(m, row) # {}
  /\ row.commits > 0 /\ AttributedIn(s, row) =>
       \E r \in Services[row.service] : HasCommits(m, r, MonthOf(row.period.start))
  /\ n <= 4 => row.vulnerable <= Total(d, Services[row.service])
  /\ n > 4 => row.vulnerable <= row.dependencies
  /\ n > 5 => (row.commits > 0 => row.contributors > 0)

\* Sequences of services and of rows, and a row that may have no service yet.
ServiceSeq == Seq(Names)
RowSeq == Seq(ServiceRow(Names))
OpenRow == ServiceRow(Names \cup {"none"})

TaskTyped(t) ==
  t \in [at : {"computing"}, services : ServiceSeq, period : Period, rows : RowSeq,
         row : OpenRow, next : 0..6]

TaskFits(s, m, d, t) ==
  t # NoTask =>
    /\ TaskTyped(t)
    /\ InOneMonth(t.period)
    /\ \A i \in DOMAIN t.rows : RowAddsUp(s, t.rows[i])
    /\ t.next > 0 => /\ t.row.service \in Names /\ t.row.period = t.period
                     /\ Begun(s, m, d, t.row, t.next)

RowsAddUp(s, rows) == rows \in RowSeq /\ \A i \in DOMAIN rows : RowAddsUp(s, rows[i])

TaskInvariant ==
  /\ CountInvariant
  /\ DependFits(dependencies)
  /\ TaskFits(stored, metrics, dependencies, task)
  /\ RowsAddUp(stored, snapshots)

LEMMA RepositoriesFinite ==
  ASSUME NEW n \in Names
  PROVE  IsFiniteSet(Services[n]) /\ Cardinality(Services[n]) \in Nat /\ Services[n] \subseteq Repos
BY FS_Subset, FS_CardinalityType DEF Names

LEMMA TotalIsNumber ==
  ASSUME NEW d, DependFits(d), NEW n \in Names
  PROVE  Total(d, Services[n]) \in Nat
<1> DEFINE f == [r \in Services[n] |-> Cardinality(d[r].all)]
<1>1. DOMAIN f = Services[n] /\ \A r \in Services[n] : f[r] \in Nat
  BY RepositoriesFinite, FS_CardinalityType DEF DependFits
<1>2. Total(d, Services[n]) = SumFunctionOnSet(f, Services[n])
  BY DEF Total, SumFunction
<1> HIDE DEF f
<1>3. QED
  BY <1>1, <1>2, RepositoriesFinite, SumType

\* No more dependencies are exposed than there are.
LEMMA ExposedAreThere ==
  ASSUME DependFits(dependencies), NEW n \in Names
  PROVE  /\ VulnerableDependencies(Services[n]) \in Nat
         /\ VulnerableDependencies(Services[n]) <= Total(dependencies, Services[n])
<1> DEFINE f == [r \in Services[n] |-> Cardinality(dependencies[r].exposed)]
           g == [r \in Services[n] |-> Cardinality(dependencies[r].all)]
<1>1. \A r \in Services[n] : f[r] \in Nat /\ g[r] \in Nat /\ f[r] <= g[r]
  <2>1. ASSUME NEW r \in Services[n]
        PROVE  /\ IsFiniteSet(dependencies[r].all)
               /\ dependencies[r].exposed \in SUBSET dependencies[r].all
    BY RepositoriesFinite DEF DependFits
  <2>2. ASSUME NEW r \in Services[n] PROVE f[r] \in Nat /\ g[r] \in Nat /\ f[r] <= g[r]
    BY <2>1, FS_Subset, FS_CardinalityType
  <2>3. QED
    BY <2>2
<1>2. /\ VulnerableDependencies(Services[n]) = SumFunctionOnSet(f, Services[n])
      /\ Total(dependencies, Services[n]) = SumFunctionOnSet(g, Services[n])
  BY DEF Total, VulnerableDependencies, SumFunction
<1> HIDE DEF f, g
<1>3. QED
  BY <1>1, <1>2, RepositoriesFinite, SumType, SumMonotone

\* More dependencies: the total grows.
LEMMA TotalGrows ==
  ASSUME NEW d, NEW e, DependFits(d), DependFits(e), \A r \in Repos : d[r].all \subseteq e[r].all,
         NEW n \in Names
  PROVE  Total(d, Services[n]) <= Total(e, Services[n])
<1> DEFINE f == [r \in Services[n] |-> Cardinality(d[r].all)]
           g == [r \in Services[n] |-> Cardinality(e[r].all)]
<1>1. \A r \in Services[n] : f[r] \in Nat /\ g[r] \in Nat /\ f[r] <= g[r]
  <2>1. ASSUME NEW r \in Services[n]
        PROVE  IsFiniteSet(e[r].all) /\ d[r].all \in SUBSET e[r].all
    BY RepositoriesFinite DEF DependFits
  <2>2. ASSUME NEW r \in Services[n] PROVE f[r] \in Nat /\ g[r] \in Nat /\ f[r] <= g[r]
    BY <2>1, FS_Subset, FS_CardinalityType
  <2>3. QED
    BY <2>2
<1>2. /\ Total(d, Services[n]) = SumFunctionOnSet(f, Services[n])
      /\ Total(e, Services[n]) = SumFunctionOnSet(g, Services[n])
  BY DEF Total, SumFunction
<1> HIDE DEF f, g
<1>3. QED
  BY <1>1, <1>2, RepositoriesFinite, SumMonotone

\* The rows of a period that lies in one month are those of the month.
LEMMA RowsAreOfMonth ==
  ASSUME RowsFit(stored, metrics), NEW row, row.period \in Period, InOneMonth(row.period)
  PROVE  RowsIn(Services[row.service], row.period) = MonthRows(metrics, row)
<1> DEFINE n == MonthOf(row.period.start)
<1>1. n \in Nat /\ row.period.start \in Nat /\ row.period.end \in Nat
  BY DaysInMonth DEF Period
<1>2. ASSUME NEW k \in Nat PROVE During(row.period, k * MonthDays) <=> k = n
  <2>1. /\ k * MonthDays \in Nat /\ n * MonthDays \in Nat
        /\ (k + 1) * MonthDays \in Nat /\ (n + 1) * MonthDays \in Nat
        /\ (k + 1) * MonthDays = k * MonthDays + MonthDays
    BY <1>1, MonthDaysAreNumbers
  <2>2. /\ row.period.start = n * MonthDays
        /\ row.period.start < row.period.end /\ row.period.end <= (n + 1) * MonthDays
    BY DEF InOneMonth
  <2>3. CASE k < n
    <3>1. (k + 1) * MonthDays <= n * MonthDays
      BY <1>1, <2>3, LaterMonth
    <3>2. ~(row.period.start <= k * MonthDays)
      BY <2>1, <2>2, <3>1
    <3>3. QED
      BY <1>1, <2>3, <3>2 DEF During
  <2>4. CASE n < k
    <3>1. (n + 1) * MonthDays <= k * MonthDays
      BY <1>1, <2>4, LaterMonth
    <3>2. ~(k * MonthDays < row.period.end)
      BY <1>1, <2>1, <2>2, <3>1
    <3>3. QED
      BY <1>1, <2>4, <3>2 DEF During
  <2>5. CASE k = n
    BY <2>2, <2>5 DEF During
  <2>6. k < n \/ n < k \/ k = n
    <3>1. n \in Nat
      BY <1>1
    <3>2. QED
      BY <3>1
  <2>7. QED
    BY <2>3, <2>4, <2>5, <2>6
<1>3. \A k \in DOMAIN metrics : k[3] \in Nat
  BY DEF RowsFit
<1>4. QED
  BY <1>2, <1>3 DEF RowsIn, MonthRows

\* The dependencies of a repository only grow.
LEMMA DependStep ==
  ASSUME DependFits(dependencies), [Next]_vars
  PROVE  /\ DependFits(dependencies')
         /\ \A r \in Repos : dependencies[r].all \subseteq dependencies'[r].all
<1>1. ASSUME NEW r \in Repos, StoreDependencies(r)
      PROVE  /\ DependFits(dependencies')
             /\ \A q \in Repos : dependencies[q].all \subseteq dependencies'[q].all
  <2>1. PICK use \in Usage : dependencies' = [dependencies EXCEPT ![r] =
          [all |-> dependencies[r].all \cup use.all,
           exposed |-> (dependencies[r].exposed \ use.all) \cup use.exposed]]
    BY <1>1 DEF StoreDependencies
  <2>2. IsFiniteSet(use.all) /\ use.exposed \subseteq use.all
    OBVIOUS
  <2>3. \A q \in Repos : IsFiniteSet(dependencies[q].all) /\ dependencies[q].exposed \subseteq dependencies[q].all
    BY DEF DependFits
  <2>4. IsFiniteSet(dependencies[r].all \cup use.all)
    BY <2>2, <2>3, FS_Union
  <2>5. dependencies = [q \in Repos |-> dependencies[q]]
    BY DEF DependFits
  <2>6. /\ dependencies' = [q \in Repos |-> dependencies'[q]]
        /\ dependencies'[r].all = dependencies[r].all \cup use.all
        /\ dependencies'[r].exposed = (dependencies[r].exposed \ use.all) \cup use.exposed
        /\ \A q \in Repos \ {r} : dependencies'[q] = dependencies[q]
    BY <2>1, <2>5
  <2>7. QED
    BY <2>2, <2>3, <2>4, <2>6 DEF DependFits
<1>2. CASE UNCHANGED dependencies
  BY <1>2
<1>3. QED
  BY <1>1, <1>2 DEF Next, vars, NextDay, StoreActivity, BeginCount, FinishCount, FailCount,
     StartTask, StartService, RunStatement, FinishTask, FailTask, AddContributorToTeam,
     RemoveContributorFromTeam, contentVars

\* Rows of contributor_metrics are never removed, and a month of a repository
\* with commits keeps some unless nobody's commit is among them.
LEMMA RowsStay ==
  ASSUME CountInvariant, [Next]_vars
  PROVE  /\ DOMAIN metrics \subseteq DOMAIN metrics'
         /\ \A r, n : HasCommits(metrics, r, n) /\ ~Nobodys(stored', r, n) => HasCommits(metrics', r, n)
<1>1. ASSUME NEW w \in Workers, FinishCount(w)
      PROVE  /\ DOMAIN metrics \subseteq DOMAIN metrics'
             /\ \A r, n : HasCommits(metrics, r, n) /\ ~Nobodys(stored', r, n) => HasCommits(metrics', r, n)
  <2> DEFINE c == counting[w]
             keys == {<<c.repo, p, c.month>> : p \in DOMAIN c.stats}
  <2>1. /\ DOMAIN metrics' = DOMAIN metrics \cup keys
        /\ \A k \in DOMAIN metrics' : metrics'[k] = IF k \in keys THEN c.stats[k[2]] ELSE metrics[k]
    BY <1>1 DEF FinishCount, StoreContributorMetrics
  <2>2. CountFits(stored, c) /\ c # Idle /\ stored' = stored
    BY <1>1 DEF FinishCount, CountInvariant, contentVars
  <2>3. ASSUME NEW r, NEW n, HasCommits(metrics, r, n), ~Nobodys(stored', r, n)
        PROVE  HasCommits(metrics', r, n)
    <3>1. CASE c.repo = r /\ c.month = n
      <4>1. PICK p \in DOMAIN c.stats : c.stats[p].commits > 0
        BY <2>2, <2>3, <3>1 DEF CountFits
      <4>2. <<c.repo, p, c.month>> \in keys
        OBVIOUS
      <4> DEFINE k == <<c.repo, p, c.month>>
      <4>3. k \in DOMAIN metrics' /\ metrics'[k] = c.stats[p]
        BY <2>1, <4>2
      <4>4. k[1] = r /\ k[3] = n
        BY <3>1
      <4> HIDE DEF k
      <4>5. QED
        BY <4>1, <4>3, <4>4 DEF HasCommits
    <3>2. CASE ~(c.repo = r /\ c.month = n)
      <4>1. PICK k \in DOMAIN metrics : k[1] = r /\ k[3] = n /\ metrics[k].commits > 0
        BY <2>3 DEF HasCommits
      <4>2. k \notin keys
        BY <3>2, <4>1
      <4>3. k \in DOMAIN metrics' /\ metrics'[k] = metrics[k]
        BY <2>1, <4>2
      <4>4. QED
        BY <4>1, <4>3 DEF HasCommits
    <3>3. QED
      BY <3>1, <3>2
  <2>4. QED
    BY <2>1, <2>3
<1>2. CASE UNCHANGED metrics
  BY <1>2
<1>3. QED
  BY <1>1, <1>2 DEF Next, vars, NextDay, StoreActivity, StoreDependencies, BeginCount, FailCount,
     StartTask, StartService, RunStatement, FinishTask, FailTask, AddContributorToTeam,
     RemoveContributorFromTeam, taskVars, countVars

\* What a task has read goes on to hold while the others go on.
LEMMA ReadStays ==
  ASSUME TaskInvariant, [Next]_vars
  PROVE  /\ \A row : RowAddsUp(stored, row) => RowAddsUp(stored', row)
         /\ \A rows : RowsAddUp(stored, rows) => RowsAddUp(stored', rows)
         /\ \A t : TaskFits(stored, metrics, dependencies, t) => TaskFits(stored', metrics', dependencies', t)
<1>1. stored \subseteq stored' /\ Stored(stored')
  BY StoredGrows DEF TaskInvariant
<1>2. \A row : AttributedIn(stored', row) => AttributedIn(stored, row)
  BY <1>1 DEF AttributedIn
<1>3. \A row : RowAddsUp(stored, row) => RowAddsUp(stored', row)
  BY <1>2 DEF RowAddsUp
<1>4. /\ DependFits(dependencies) /\ DependFits(dependencies')
      /\ \A r \in Repos : dependencies[r].all \subseteq dependencies'[r].all
  BY DependStep DEF TaskInvariant
<1>5. ASSUME NEW row, row.service \in Names, row.vulnerable \in Nat, NEW n,
             Begun(stored, metrics, dependencies, row, n)
      PROVE  Begun(stored', metrics', dependencies', row, n)
  <2>1. MonthRows(metrics, row) \subseteq MonthRows(metrics', row)
    BY RowsStay DEF TaskInvariant, MonthRows
  <2>2. AttributedIn(stored', row) =>
          \A r \in Services[row.service] : ~Nobodys(stored', r, MonthOf(row.period.start))
    BY DEF AttributedIn, Nobodys
  <2>3. \A r, k : HasCommits(metrics, r, k) /\ ~Nobodys(stored', r, k) => HasCommits(metrics', r, k)
    BY RowsStay DEF TaskInvariant
  <2>4. row.commits > 0 /\ AttributedIn(stored', row) =>
          \E r \in Services[row.service] : HasCommits(metrics', r, MonthOf(row.period.start))
    BY <1>2, <1>5, <2>2, <2>3 DEF Begun
  <2>5. /\ Total(dependencies, Services[row.service]) <= Total(dependencies', Services[row.service])
        /\ Total(dependencies, Services[row.service]) \in Nat
        /\ Total(dependencies', Services[row.service]) \in Nat
    BY <1>4, <1>5, TotalGrows, TotalIsNumber
  <2>6. n <= 4 => row.vulnerable <= Total(dependencies', Services[row.service])
    BY <1>5, <2>5 DEF Begun
  <2>7. row.commits > 0 => MonthRows(metrics', row) # {}
    BY <1>5, <2>1 DEF Begun
  <2>8. QED
    BY <1>5, <2>4, <2>6, <2>7 DEF Begun
<1>6. ASSUME NEW t, TaskFits(stored, metrics, dependencies, t)
      PROVE  TaskFits(stored', metrics', dependencies', t)
  <2>1. SUFFICES ASSUME t # NoTask PROVE TaskFits(stored', metrics', dependencies', t)
    BY DEF TaskFits
  <2>2. TaskTyped(t) /\ InOneMonth(t.period) /\ \A i \in DOMAIN t.rows : RowAddsUp(stored', t.rows[i])
    BY <1>3, <1>6, <2>1 DEF TaskFits
  <2>3. t.row.vulnerable \in Nat
    BY <2>2 DEF TaskTyped, ServiceRow, OpenRow
  <2>4. t.next > 0 => t.row.service \in Names /\ t.row.period = t.period
                      /\ Begun(stored, metrics, dependencies, t.row, t.next)
    BY <1>6, <2>1 DEF TaskFits
  <2>5. t.next > 0 => Begun(stored', metrics', dependencies', t.row, t.next)
    BY <1>5, <2>3, <2>4
  <2>6. QED
    BY <2>2, <2>4, <2>5 DEF TaskFits
<1>7. \A rows : RowsAddUp(stored, rows) => RowsAddUp(stored', rows)
  BY <1>3 DEF RowsAddUp
<1>8. QED
  BY <1>3, <1>6, <1>7

\* What the statements return.
LEMMA SumsAreNumbers ==
  ASSUME RowsFit(stored, metrics), Stored(stored), DependFits(dependencies), NEW n \in Names, NEW p
  PROVE  /\ AggregateContributorMetrics(Services[n], p).commits \in Nat
         /\ AggregateContributorMetrics(Services[n], p).created \in Nat
         /\ AggregateContributorMetrics(Services[n], p).commits > 0 =>
              \E k \in RowsIn(Services[n], p) : metrics[k].commits > 0
         /\ AggregatePrMetrics(Services[n], p) \in Nat
         /\ CountUniqueContributors(Services[n], p) \in Nat
         /\ RowsIn(Services[n], p) # {} => CountUniqueContributors(Services[n], p) > 0
         /\ CountActiveRepositories(Services[n], p) \in Nat
         /\ CountActiveRepositories(Services[n], p) <= Cardinality(Services[n])
         /\ (\E k \in RowsIn(Services[n], p) : metrics[k].commits > 0) =>
              CountActiveRepositories(Services[n], p) > 0
<1> DEFINE rows == RowsIn(Services[n], p)
<1>1. IsFiniteSet(rows) /\ rows \subseteq DOMAIN metrics /\ \A k \in rows : k[1] \in Services[n]
  BY FS_Subset DEF RowsFit, RowsIn
<1>2. \A k \in rows : /\ CommitCount[k] = metrics[k].commits /\ CommitCount[k] \in Nat
                      /\ PrCreated[k] \in Nat
  BY <1>1 DEF RowsFit, RowFits, CommitCount, PrCreated
<1>3. /\ AggregateContributorMetrics(Services[n], p).commits = SumFunctionOnSet(CommitCount, rows)
      /\ AggregateContributorMetrics(Services[n], p).created = SumFunctionOnSet(PrCreated, rows)
  BY DEF AggregateContributorMetrics
<1>4. /\ SumFunctionOnSet(CommitCount, rows) \in Nat /\ SumFunctionOnSet(PrCreated, rows) \in Nat
      /\ SumFunctionOnSet(CommitCount, rows) > 0 => \E k \in rows : metrics[k].commits > 0
  <2> HIDE DEF rows
  <2>1. SumFunctionOnSet(CommitCount, rows) \in Nat /\ SumFunctionOnSet(PrCreated, rows) \in Nat
    BY <1>1, <1>2, SumType
  <2>2. SumFunctionOnSet(CommitCount, rows) > 0 => \E k \in rows : CommitCount[k] > 0
    BY <1>1, <1>2, SumPositive
  <2>3. QED
    BY <1>2, <2>1, <2>2
<1>5. AggregatePrMetrics(Services[n], p) \in Nat
  <2> DEFINE merged == {a \in stored : /\ a.kind = "pull" /\ a.repo \in Services[n]
                                       /\ During(p, a.day) /\ a.merged}
  <2>1. IsFiniteSet(merged)
    BY StoredFinite, FS_Subset
  <2>2. AggregatePrMetrics(Services[n], p) = Cardinality(merged)
    BY DEF AggregatePrMetrics
  <2> HIDE DEF merged
  <2>3. QED
    BY <2>1, <2>2, FS_CardinalityType
<1>6. /\ CountUniqueContributors(Services[n], p) \in Nat
      /\ rows # {} => CountUniqueContributors(Services[n], p) > 0
  <2> DEFINE f == [k \in rows |-> k[2]]
             S == {f[k] : k \in rows}
  <2>1. DOMAIN f = rows /\ CountUniqueContributors(Services[n], p) = Cardinality(S)
    BY DEF CountUniqueContributors
  <2>2. IsFiniteSet(S)
    <3> HIDE DEF f, rows
    <3> QED
      BY <1>1, <2>1, FiniteImage
  <2>3. rows # {} => S # {}
    OBVIOUS
  <2> HIDE DEF S, rows
  <2>4. QED
    BY <2>1, <2>2, <2>3, FS_CardinalityType, FS_EmptySet
<1>7. /\ CountActiveRepositories(Services[n], p) \in Nat
      /\ CountActiveRepositories(Services[n], p) <= Cardinality(Services[n])
      /\ (\E k \in rows : metrics[k].commits > 0) => CountActiveRepositories(Services[n], p) > 0
  <2> DEFINE S == {k[1] : k \in {j \in rows : metrics[j].commits > 0}}
  <2>1. CountActiveRepositories(Services[n], p) = Cardinality(S)
    BY DEF CountActiveRepositories
  <2>2. S \subseteq Services[n]
    BY <1>1
  <2>3. (\E k \in rows : metrics[k].commits > 0) => S # {}
    OBVIOUS
  <2>4. IsFiniteSet(Services[n])
    BY RepositoriesFinite
  <2> HIDE DEF S
  <2>5. IsFiniteSet(S) /\ Cardinality(S) <= Cardinality(Services[n]) /\ Cardinality(S) \in Nat
    BY <2>2, <2>4, FS_Subset, FS_CardinalityType
  <2>6. S # {} => Cardinality(S) # 0
    BY <2>5, FS_EmptySet
  <2>7. QED
    BY <2>1, <2>3, <2>5, <2>6
<1>8. QED
  BY <1>3, <1>4, <1>5, <1>6, <1>7

\* One more statement.
LEMMA FilledFits ==
  ASSUME TaskInvariant, NEW n \in 1..6, NEW row \in OpenRow,
         row.service \in Names, InOneMonth(row.period),
         Begun(stored, metrics, dependencies, row, n)
  PROVE  LET new == Filled(row, Statements[n])
         IN  /\ new \in ServiceRow(Names) /\ new.service = row.service /\ new.period = row.period
             /\ n < 6 => Begun(stored, metrics, dependencies, new, n + 1)
             /\ n = 6 => RowAddsUp(stored, new)
<1> DEFINE new == Filled(row, Statements[n])
           repos == Services[row.service]
           p == row.period
<1>1. /\ RowsFit(stored, metrics) /\ Stored(stored) /\ DependFits(dependencies)
  BY DEF TaskInvariant, CountInvariant
<1>2. /\ row \in ServiceRow(Names) /\ p \in Period
  BY DEF ServiceRow, OpenRow
<1>3. RowsIn(repos, p) = MonthRows(metrics, row)
  BY <1>1, <1>2, RowsAreOfMonth
<1>4. /\ AggregateContributorMetrics(repos, p).commits \in Nat
      /\ AggregateContributorMetrics(repos, p).created \in Nat
      /\ AggregateContributorMetrics(repos, p).commits > 0 =>
           \E k \in MonthRows(metrics, row) : metrics[k].commits > 0
      /\ AggregatePrMetrics(repos, p) \in Nat
      /\ CountUniqueContributors(repos, p) \in Nat
      /\ MonthRows(metrics, row) # {} => CountUniqueContributors(repos, p) > 0
      /\ CountActiveRepositories(repos, p) \in Nat
      /\ CountActiveRepositories(repos, p) <= Cardinality(repos)
      /\ (\E k \in MonthRows(metrics, row) : metrics[k].commits > 0) => CountActiveRepositories(repos, p) > 0
  BY <1>1, <1>3, SumsAreNumbers
<1>5. /\ VulnerableDependencies(repos) \in Nat
      /\ VulnerableDependencies(repos) <= Total(dependencies, repos)
      /\ Total(dependencies, repos) \in Nat
      /\ TotalDependencies(repos) = Total(dependencies, repos)
  BY <1>1, ExposedAreThere, TotalIsNumber DEF TotalDependencies, Total
<1>6. (\E k \in MonthRows(metrics, row) : metrics[k].commits > 0) <=>
        \E r \in repos : HasCommits(metrics, r, MonthOf(p.start))
  BY DEF MonthRows, HasCommits
<1>7. /\ row.repositories \in Nat /\ row.commits \in Nat /\ row.vulnerable \in Nat
      /\ row.dependencies \in Nat /\ row.contributors \in Nat /\ row.active \in Nat
  BY DEF ServiceRow, OpenRow
<1> HIDE DEF new
<1>8. CASE n = 1
  <2>1. new = [row EXCEPT !.commits = AggregateContributorMetrics(repos, p).commits,
                          !.created = AggregateContributorMetrics(repos, p).created]
    BY <1>8 DEF new, Filled, Statements
  <2>2. /\ new \in ServiceRow(Names) /\ new.service = row.service /\ new.period = p
        /\ new.repositories = row.repositories /\ new.vulnerable = row.vulnerable
        /\ new.commits = AggregateContributorMetrics(repos, p).commits
    BY <1>2, <1>4, <2>1 DEF ServiceRow
  <2>3. MonthRows(metrics, new) = MonthRows(metrics, row)
    BY <2>2 DEF MonthRows
  <2>4. Begun(stored, metrics, dependencies, new, 2)
    BY <1>4, <1>6, <1>8, <2>2, <2>3 DEF Begun
  <2>5. QED
    BY <1>8, <2>2, <2>4 DEF new
<1>9. CASE n = 2
  <2>1. new = [row EXCEPT !.merged = AggregatePrMetrics(repos, p)]
    BY <1>9 DEF new, Filled, Statements
  <2>2. /\ new \in ServiceRow(Names) /\ new.service = row.service /\ new.period = p
        /\ new.repositories = row.repositories /\ new.vulnerable = row.vulnerable
        /\ new.commits = row.commits
    BY <1>2, <1>4, <2>1 DEF ServiceRow
  <2>3. MonthRows(metrics, new) = MonthRows(metrics, row) /\ AttributedIn(stored, new) = AttributedIn(stored, row)
    BY <2>2 DEF MonthRows, AttributedIn
  <2>4. Begun(stored, metrics, dependencies, new, 3)
    BY <1>9, <2>2, <2>3 DEF Begun
  <2>5. QED
    BY <1>9, <2>2, <2>4 DEF new
<1>10. CASE n = 3
  <2>1. new = [row EXCEPT !.vulnerable = VulnerableDependencies(repos)]
    BY <1>10 DEF new, Filled, Statements
  <2>2. /\ new \in ServiceRow(Names) /\ new.service = row.service /\ new.period = p
        /\ new.repositories = row.repositories /\ new.vulnerable = VulnerableDependencies(repos)
        /\ new.commits = row.commits
    BY <1>2, <1>5, <2>1 DEF ServiceRow
  <2>3. MonthRows(metrics, new) = MonthRows(metrics, row) /\ AttributedIn(stored, new) = AttributedIn(stored, row)
    BY <2>2 DEF MonthRows, AttributedIn
  <2>4. Begun(stored, metrics, dependencies, new, 4)
    BY <1>5, <1>10, <2>2, <2>3 DEF Begun
  <2>5. QED
    BY <1>10, <2>2, <2>4 DEF new
<1>11. CASE n = 4
  <2>1. new = [row EXCEPT !.dependencies = TotalDependencies(repos)]
    BY <1>11 DEF new, Filled, Statements
  <2>2. /\ new \in ServiceRow(Names) /\ new.service = row.service /\ new.period = p
        /\ new.repositories = row.repositories /\ new.vulnerable = row.vulnerable
        /\ new.commits = row.commits /\ new.dependencies = Total(dependencies, repos)
    BY <1>2, <1>5, <2>1 DEF ServiceRow
  <2>3. MonthRows(metrics, new) = MonthRows(metrics, row) /\ AttributedIn(stored, new) = AttributedIn(stored, row)
    BY <2>2 DEF MonthRows, AttributedIn
  <2>4. Begun(stored, metrics, dependencies, new, 5)
    BY <1>11, <2>2, <2>3 DEF Begun
  <2>5. QED
    BY <1>11, <2>2, <2>4 DEF new
<1>12. CASE n = 5
  <2>1. new = [row EXCEPT !.contributors = CountUniqueContributors(repos, p)]
    BY <1>12 DEF new, Filled, Statements
  <2>2. /\ new \in ServiceRow(Names) /\ new.service = row.service /\ new.period = p
        /\ new.repositories = row.repositories /\ new.vulnerable = row.vulnerable
        /\ new.commits = row.commits /\ new.dependencies = row.dependencies
        /\ new.contributors = CountUniqueContributors(repos, p)
    BY <1>2, <1>4, <2>1 DEF ServiceRow
  <2>3. MonthRows(metrics, new) = MonthRows(metrics, row) /\ AttributedIn(stored, new) = AttributedIn(stored, row)
    BY <2>2 DEF MonthRows, AttributedIn
  <2>4. Begun(stored, metrics, dependencies, new, 6)
    BY <1>4, <1>12, <2>2, <2>3 DEF Begun
  <2>5. QED
    BY <1>12, <2>2, <2>4 DEF new
<1>13. CASE n = 6
  <2>1. new = [row EXCEPT !.active = CountActiveRepositories(repos, p)]
    BY <1>13 DEF new, Filled, Statements
  <2>2. /\ new \in ServiceRow(Names) /\ new.service = row.service /\ new.period = p
        /\ new.repositories = row.repositories /\ new.vulnerable = row.vulnerable
        /\ new.commits = row.commits /\ new.dependencies = row.dependencies
        /\ new.contributors = row.contributors /\ new.active = CountActiveRepositories(repos, p)
    BY <1>2, <1>4, <2>1 DEF ServiceRow
  <2>3. AttributedIn(stored, new) = AttributedIn(stored, row)
    BY <2>2 DEF AttributedIn
  <2>4. row.commits > 0 /\ AttributedIn(stored, row) => CountActiveRepositories(repos, p) > 0
    BY <1>4, <1>6 DEF Begun
  <2>5. RowAddsUp(stored, new)
    BY <1>4, <1>13, <2>2, <2>3, <2>4 DEF Begun, RowAddsUp
  <2>6. QED
    BY <1>13, <2>2, <2>5 DEF new
<1>14. QED
  BY <1>8, <1>9, <1>10, <1>11, <1>12, <1>13

\* What the task changes, it changes within its invariant.
TaskKept == TaskFits(stored, metrics, dependencies, task)' /\ RowsAddUp(stored, snapshots)'

LEMMA ServicesInOrder == SetToSeq(Names) \in ServiceSeq
<1>1. IsFiniteSet(Names)
  BY DEF Names
<1>2. Cardinality(Names) \in Nat /\ Bijection(1..Cardinality(Names), Names) # {}
  BY <1>1, FS_CardinalityType DEF ExistsBijection
<1>3. \E f \in [1..Cardinality(Names) -> Names] : IsInjective(f)
  BY <1>2 DEF Bijection, Injection
<1>4. SetToSeq(Names) \in [1..Cardinality(Names) -> Names]
  BY <1>3 DEF SetToSeq
<1>5. QED
  BY <1>2, <1>4 DEF ServiceSeq

LEMMA EmptyRow ==
  ASSUME NEW n, NEW p \in Period
  PROVE  /\ EmptyServiceMetric(n, p) \in ServiceRow({n})
         /\ EmptyServiceMetric(n, p).service = n /\ EmptyServiceMetric(n, p).period = p
         /\ EmptyServiceMetric(n, p).commits = 0 /\ EmptyServiceMetric(n, p).vulnerable = 0
         /\ EmptyServiceMetric(n, p).dependencies = 0 /\ EmptyServiceMetric(n, p).active = 0
         /\ EmptyServiceMetric(n, p).repositories = 0
BY DEF EmptyServiceMetric, ServiceRow

LEMMA StartTaskStep ==
  ASSUME TaskInvariant, StartTask
  PROVE  TaskKept
<1> DEFINE m == MonthOf(today)
           p == [start |-> Month(m).start, end |-> today + 1]
<1>1. today \in Nat /\ m \in Nat /\ m * MonthDays <= today /\ today < (m + 1) * MonthDays
  BY DaysInMonth DEF TaskInvariant, CountInvariant
<1>2. m * MonthDays \in Nat /\ (m + 1) * MonthDays \in Nat
      /\ (m + 1) * MonthDays = m * MonthDays + MonthDays /\ 1 * MonthDays = MonthDays
  BY <1>1, MonthDaysAreNumbers
<1>3. p \in Period /\ p.start = m * MonthDays /\ p.end = today + 1
  BY <1>1, <1>2 DEF Month, Period
<1>4. MonthOf(p.start) = m
  <2>1. During(Month(m), m * MonthDays)
    BY <1>2 DEF During, Month
  <2>2. QED
    BY <1>1, <1>2, <1>3, <2>1, DuringMonth
<1>5. InOneMonth(p)
  <2> HIDE DEF p, m
  <2> QED
    BY <1>1, <1>2, <1>3, <1>4 DEF InOneMonth
<1> DEFINE row == EmptyServiceMetric("none", Month(0))
<1>6. row \in OpenRow
  <2>1. Month(0) \in Period
    BY DEF Month, Period
  <2>2. row \in ServiceRow({"none"})
    BY <2>1, EmptyRow
  <2>3. QED
    BY <2>2 DEF ServiceRow, OpenRow
<1>7. PICK services \in {SetToSeq(Names)} \cup {<<n>> : n \in Names} :
        task' = [at |-> "computing", services |-> services, period |-> p, rows |-> <<>>,
                 row |-> row, next |-> 0]
  BY DEF StartTask, Names
<1>8. services \in ServiceSeq
  <2>1. \A n \in Names : <<n>> \in ServiceSeq
    BY DEF ServiceSeq
  <2>2. QED
    BY <2>1, ServicesInOrder
<1> HIDE DEF p, row
<1>9. /\ TaskTyped(task') /\ task'.period = p /\ task'.rows = <<>> /\ task'.next = 0
  <2>1. <<>> \in RowSeq
    BY DEF RowSeq
  <2>2. QED
    BY <1>3, <1>6, <1>7, <1>8, <2>1 DEF TaskTyped
<1>10. TaskFits(stored, metrics, dependencies, task)'
  BY <1>5, <1>9 DEF TaskFits
<1>11. RowsAddUp(stored, snapshots)'
  BY DEF StartTask, TaskInvariant, contentVars
<1>12. QED
  BY <1>10, <1>11 DEF TaskKept

LEMMA StartServiceStep ==
  ASSUME TaskInvariant, StartService
  PROVE  TaskKept
<1>1. /\ task # NoTask /\ task.next = 0 /\ Len(task.rows) < Len(task.services)
      /\ UNCHANGED <<stored, metrics, dependencies, snapshots>>
  BY DEF StartService, contentVars, countVars
<1>2. /\ TaskTyped(task) /\ InOneMonth(task.period) /\ \A i \in DOMAIN task.rows : RowAddsUp(stored, task.rows[i])
  BY <1>1 DEF TaskInvariant, TaskFits
<1> DEFINE service == task.services[Len(task.rows) + 1]
           row == EmptyServiceMetric(service, task.period)
<1>3. service \in Names /\ task.period \in Period /\ task.rows \in RowSeq
  BY <1>1, <1>2 DEF TaskTyped, RowSeq, ServiceSeq
<1> HIDE DEF service
<1>4. /\ row \in ServiceRow(Names) /\ row.service = service /\ row.period = task.period /\ row.commits = 0
      /\ row.vulnerable = 0 /\ row.dependencies = 0 /\ row.active = 0 /\ row.repositories = 0
  <2>1. ServiceRow({service}) \subseteq ServiceRow(Names)
    BY <1>3 DEF ServiceRow
  <2>2. QED
    BY <1>3, <2>1, EmptyRow
<1>5. CASE Services[service] = {}
  <2>1. task' = [task EXCEPT !.rows = Append(task.rows, row)]
    BY <1>5 DEF StartService, service
  <2>2. RowAddsUp(stored, row)
    BY <1>4 DEF RowAddsUp
  <2> HIDE DEF row
  <2>3. /\ Append(task.rows, row) \in RowSeq
        /\ \A i \in DOMAIN Append(task.rows, row) : RowAddsUp(stored, Append(task.rows, row)[i])
    BY <1>2, <1>3, <1>4, <2>2 DEF RowSeq
  <2>4. /\ TaskTyped(task') /\ task'.rows = Append(task.rows, row) /\ task'.next = 0
        /\ task'.period = task.period
    BY <1>1, <1>2, <2>1, <2>3 DEF TaskTyped
  <2>5. TaskFits(stored, metrics, dependencies, task)'
    BY <1>1, <1>2, <2>3, <2>4 DEF TaskFits
  <2>6. QED
    BY <1>1, <2>5 DEF TaskKept, TaskInvariant
<1>6. CASE Services[service] # {}
  <2> DEFINE new == [row EXCEPT !.repositories = Cardinality(Services[service])]
  <2>1. task' = [task EXCEPT !.next = 1, !.row = new]
    BY <1>6 DEF StartService, service
  <2>2. Cardinality(Services[service]) \in Nat
    BY <1>3, RepositoriesFinite
  <2>3. /\ new \in ServiceRow(Names) /\ new.service = service /\ new.period = task.period
        /\ new.commits = 0 /\ new.vulnerable = 0 /\ new.repositories = Cardinality(Services[service])
    <3> HIDE DEF row
    <3> QED
      BY <1>4, <2>2 DEF ServiceRow
  <2>4. Total(dependencies, Services[service]) \in Nat
    BY <1>3, TotalIsNumber DEF TaskInvariant
  <2> HIDE DEF new
  <2>5. Begun(stored, metrics, dependencies, new, 1)
    BY <2>3, <2>4 DEF Begun
  <2>6. new \in OpenRow
    BY <2>3 DEF ServiceRow, OpenRow
  <2>7. /\ TaskTyped(task') /\ task'.rows = task.rows /\ task'.next = 1
        /\ task'.period = task.period /\ task'.row = new
    <3>1. task' = [at |-> "computing", services |-> task.services, period |-> task.period,
                   rows |-> task.rows, row |-> new, next |-> 1]
      BY <1>2, <2>1 DEF TaskTyped
    <3>2. QED
      BY <1>2, <2>6, <3>1 DEF TaskTyped
  <2>8. TaskFits(stored, metrics, dependencies, task)'
    BY <1>1, <1>2, <1>3, <2>3, <2>5, <2>7 DEF TaskFits
  <2>9. QED
    BY <1>1, <2>8 DEF TaskKept, TaskInvariant
<1>7. QED
  BY <1>5, <1>6

LEMMA RunStatementStep ==
  ASSUME TaskInvariant, RunStatement
  PROVE  TaskKept
<1>1. /\ task # NoTask /\ task.next \in 1..6
      /\ UNCHANGED <<stored, metrics, dependencies, snapshots>>
  BY DEF RunStatement, Statements, contentVars, countVars
<1>2. /\ TaskTyped(task) /\ InOneMonth(task.period) /\ \A i \in DOMAIN task.rows : RowAddsUp(stored, task.rows[i])
      /\ task.row.service \in Names /\ task.row.period = task.period
      /\ Begun(stored, metrics, dependencies, task.row, task.next)
  BY <1>1 DEF TaskInvariant, TaskFits
<1>3. /\ task.row \in OpenRow /\ task.period \in Period
      /\ task.rows \in RowSeq
  BY <1>2 DEF TaskTyped
<1> DEFINE new == Filled(task.row, Statements[task.next])
<1>4. /\ new \in ServiceRow(Names) /\ new.service = task.row.service /\ new.period = task.row.period
      /\ task.next < 6 => Begun(stored, metrics, dependencies, new, task.next + 1)
      /\ task.next = 6 => RowAddsUp(stored, new)
  BY <1>1, <1>2, <1>3, FilledFits
<1>5. task' = IF task.next < 6 THEN [task EXCEPT !.row = new, !.next = @ + 1]
              ELSE [task EXCEPT !.rows = Append(@, new), !.next = 0]
  <2>1. Len(Statements) = 6
    BY DEF Statements
  <2>2. QED
    BY <2>1 DEF RunStatement
<1> HIDE DEF new
<1>6. CASE task.next < 6
  <2>1. new \in OpenRow
    BY <1>4 DEF ServiceRow, OpenRow
  <2>2. /\ TaskTyped(task') /\ task'.rows = task.rows /\ task'.next = task.next + 1
        /\ task'.period = task.period /\ task'.row = new
    <3>1. task' = [at |-> "computing", services |-> task.services, period |-> task.period,
                   rows |-> task.rows, row |-> new, next |-> task.next + 1]
      BY <1>2, <1>5, <1>6 DEF TaskTyped
    <3>2. task.next + 1 \in 0..6
      BY <1>1, <1>6
    <3>3. QED
      BY <1>2, <2>1, <3>1, <3>2 DEF TaskTyped
  <2>3. TaskFits(stored, metrics, dependencies, task)'
    BY <1>1, <1>2, <1>4, <1>6, <2>2 DEF TaskFits
  <2>4. QED
    BY <1>1, <2>3 DEF TaskKept, TaskInvariant
<1>7. CASE task.next = 6
  <2>1. /\ Append(task.rows, new) \in RowSeq
        /\ \A i \in DOMAIN Append(task.rows, new) : RowAddsUp(stored, Append(task.rows, new)[i])
    BY <1>2, <1>3, <1>4, <1>7 DEF RowSeq
  <2>2. /\ TaskTyped(task') /\ task'.rows = Append(task.rows, new) /\ task'.next = 0
        /\ task'.period = task.period
    <3> DEFINE more == Append(task.rows, new)
    <3>1. task' = [task EXCEPT !.rows = more, !.next = 0]
      BY <1>5, <1>7
    <3>2. more \in RowSeq
      BY <2>1
    <3> HIDE DEF more
    <3>3. task' = [at |-> "computing", services |-> task.services, period |-> task.period,
                   rows |-> more, row |-> task.row, next |-> 0]
      BY <1>2, <3>1 DEF TaskTyped
    <3>4. TaskTyped(task') /\ task'.rows = more /\ task'.next = 0 /\ task'.period = task.period
      BY <1>2, <3>2, <3>3 DEF TaskTyped
    <3>5. QED
      BY <3>4 DEF more
  <2>3. TaskFits(stored, metrics, dependencies, task)'
    BY <1>1, <1>2, <2>1, <2>2 DEF TaskFits
  <2>4. QED
    BY <1>1, <2>3 DEF TaskKept, TaskInvariant
<1>8. QED
  BY <1>1, <1>6, <1>7

LEMMA FinishTaskStep ==
  ASSUME TaskInvariant, FinishTask
  PROVE  TaskKept
<1>1. /\ task # NoTask /\ task' = NoTask /\ snapshots' = snapshots \o task.rows
      /\ UNCHANGED stored
  BY DEF FinishTask, contentVars
<1>2. /\ task.rows \in RowSeq /\ \A i \in DOMAIN task.rows : RowAddsUp(stored, task.rows[i])
      /\ snapshots \in RowSeq /\ \A i \in DOMAIN snapshots : RowAddsUp(stored, snapshots[i])
  BY <1>1 DEF TaskInvariant, TaskFits, TaskTyped, RowsAddUp
<1>3. /\ snapshots' \in RowSeq
      /\ \A i \in DOMAIN snapshots' : RowAddsUp(stored, snapshots'[i])
  BY <1>1, <1>2 DEF RowSeq
<1>4. QED
  BY <1>1, <1>3 DEF TaskKept, TaskFits, RowsAddUp

LEMMA TaskInit == Init => TaskInvariant
<1> SUFFICES ASSUME Init PROVE TaskInvariant
  OBVIOUS
<1>1. DependFits(dependencies)
  BY FS_EmptySet DEF Init, DependFits
<1>2. RowsAddUp(stored, snapshots)
  BY DEF Init, RowsAddUp, RowSeq
<1>3. QED
  BY <1>1, <1>2, CountInit DEF Init, TaskInvariant, TaskFits

LEMMA TaskStep == TaskInvariant /\ [Next]_vars => TaskInvariant'
<1> SUFFICES ASSUME TaskInvariant, [Next]_vars PROVE TaskInvariant'
  OBVIOUS
<1>1. CountInvariant'
  BY CountStep DEF TaskInvariant
<1>2. DependFits(dependencies')
  BY DependStep DEF TaskInvariant
<1>3. CASE StartTask \/ StartService \/ RunStatement \/ FinishTask
  BY <1>1, <1>2, <1>3, StartTaskStep, StartServiceStep, RunStatementStep, FinishTaskStep
     DEF TaskInvariant, TaskKept
<1>4. CASE UNCHANGED <<task, snapshots>>
  BY <1>1, <1>2, <1>4, ReadStays DEF TaskInvariant
<1>5. CASE FailTask
  <2>1. task' = NoTask /\ UNCHANGED <<snapshots, stored>>
    BY <1>5 DEF FailTask, contentVars
  <2>2. QED
    BY <1>1, <1>2, <2>1 DEF TaskInvariant, TaskFits
<1>6. QED
  BY <1>3, <1>4, <1>5 DEF Next, vars, NextDay, StoreActivity, StoreDependencies, BeginCount, FinishCount,
     FailCount, AddContributorToTeam, RemoveContributorFromTeam, taskVars

LEMMA TaskHolds == Spec => []TaskInvariant
BY TaskInit, TaskStep, PTL DEF Spec

\* AnalyticsTypeOK: the tables keep their types, scores belong to messages,
\* and no row has more judged commits, or better ones, than it counts.
THEOREM AnalyticsTypes == Spec => []AnalyticsTypeOK
<1>1. ASSUME TaskInvariant PROVE AnalyticsTypeOK
  <2>1. \A i \in DOMAIN snapshots : snapshots[i].service \in DOMAIN Services
    <3>1. snapshots \in RowSeq
      BY <1>1 DEF TaskInvariant, RowsAddUp
    <3>2. \A row \in ServiceRow(Names) : row.service \in DOMAIN Services
      BY DEF ServiceRow, Names
    <3>3. QED
      BY <3>1, <3>2 DEF RowSeq
  <2>2. CountInvariant
    BY <1>1 DEF TaskInvariant
  <2>3. QED
    BY <2>1, <2>2 DEF CountInvariant, Stored, Scorable, RowsFit, RowFits, AnalyticsTypeOK
<1>2. QED
  BY <1>1, TaskHolds, PTL

\* SnapshotsAddUp: what the six statements of a service read at different
\* times fits together.
THEOREM StatementsFit == Spec => []SnapshotsAddUp
<1>1. TaskInvariant => SnapshotsAddUp
  BY DEF TaskInvariant, RowsAddUp, RowAddsUp, SnapshotsAddUp, AttributedIn, Attributed
<1>2. QED
  BY <1>1, TaskHolds, PTL

-----------------------------------------------------------------------------
(* Teams.                                                                  *)

Membership == [start : Nat, end : Nat \cup {Never}]

TeamInvariant ==
  /\ CountInvariant
  /\ membership = [c \in DOMAIN membership |-> membership[c]]
  /\ \A c \in DOMAIN membership : membership[c] \in Membership

LEMMA TeamInit == Init => TeamInvariant
BY CountInit DEF Init, TeamInvariant

LEMMA TeamStep == TeamInvariant /\ [Next]_vars => TeamInvariant'
<1> SUFFICES ASSUME TeamInvariant, [Next]_vars PROVE TeamInvariant'
  OBVIOUS
<1>1. CountInvariant' /\ today \in Nat
  BY CountStep DEF TeamInvariant, CountInvariant
<1>2. ASSUME NEW c \in People, AddContributorToTeam(c) PROVE TeamInvariant'
  <2>1. /\ DOMAIN membership' = DOMAIN membership \cup {c}
        /\ membership' = [d \in DOMAIN membership' |-> membership'[d]]
        /\ \A d \in DOMAIN membership' :
              membership'[d] = IF d \in DOMAIN membership THEN membership[d]
                               ELSE [start |-> today, end |-> Never]
    BY <1>2 DEF AddContributorToTeam
  <2>2. [start |-> today, end |-> Never] \in Membership
    BY <1>1 DEF Membership
  <2>3. QED
    BY <1>1, <2>1, <2>2 DEF TeamInvariant
<1>3. ASSUME NEW c \in People, RemoveContributorFromTeam(c) PROVE TeamInvariant'
  <2>1. c \in DOMAIN membership /\ membership' = [membership EXCEPT ![c].end = today]
    BY <1>3 DEF RemoveContributorFromTeam
  <2>2. [membership[c] EXCEPT !.end = today] \in Membership
    BY <1>1, <2>1 DEF Membership, TeamInvariant
  <2>3. /\ DOMAIN membership' = DOMAIN membership
        /\ membership' = [d \in DOMAIN membership |->
             IF d = c THEN [membership[c] EXCEPT !.end = today] ELSE membership[d]]
    BY <2>1 DEF TeamInvariant
  <2>4. QED
    BY <1>1, <2>2, <2>3 DEF TeamInvariant
<1>4. CASE UNCHANGED membership
  BY <1>1, <1>4 DEF TeamInvariant
<1>5. QED
  BY <1>2, <1>3, <1>4 DEF Next, vars, NextDay, StoreActivity, StoreDependencies, BeginCount, FinishCount,
     FailCount, StartTask, StartService, RunStatement, FinishTask, FailTask

\* The periods up to today are the months so far.
LEMMA MonthsSoFar ==
  ASSUME today \in Nat
  PROVE  ToSet(GetMonthlyPeriods(0, today + 1)) = {Month(j) : j \in 0..MonthOf(today)}
<1> DEFINE n == MonthOf(today)
<1>1. MonthOf(0) = 0 /\ n \in Nat
  BY DaysInMonth DEF MonthOf
<1>2. GetMonthlyPeriods(0, today + 1) = [i \in 1..(n + 1) |-> Month(i - 1)]
  <2>1. ~(today + 1 <= MonthOf(0) * MonthDays)
    BY <1>1
  <2>2. (today + 1 - 1) \div MonthDays = n
    BY DEF MonthOf
  <2>3. (today + 1 - 1) \div MonthDays - MonthOf(0) + 1 = n + 1
    BY <1>1, <2>2
  <2>4. GetMonthlyPeriods(0, today + 1) = [i \in 1..(n + 1) |-> Month(MonthOf(0) + i - 1)]
    BY <2>1, <2>3 DEF GetMonthlyPeriods
  <2>5. \A i \in 1..(n + 1) : MonthOf(0) + i - 1 = i - 1
    BY <1>1
  <2>6. QED
    BY <2>4, <2>5
<1>3. ToSet(GetMonthlyPeriods(0, today + 1)) = {Month(i - 1) : i \in 1..(n + 1)}
  BY <1>2 DEF ToSet
<1>4. \A i \in 1..(n + 1) : i - 1 \in 0..n
  BY <1>1
<1>5. \A j \in 0..n : j + 1 \in 1..(n + 1) /\ (j + 1) - 1 = j
  BY <1>1
<1>6. QED
  BY <1>3, <1>4, <1>5

\* What a team has in a month are rows of that month, and of members who
\* have been so on some day up to its end.
TeamRows(p) ==
  {k \in DOMAIN metrics : /\ k[2] \in MembersDuring(p)
                          /\ k[3] * MonthDays >= p.start
                          /\ metrics[k].end <= p.end}

LEMMA RowsOfOneMonth ==
  ASSUME TeamInvariant, NEW j \in Nat, NEW k \in DOMAIN metrics
  PROVE  k \in TeamRows(Month(j)) <=> k[3] = j /\ k[2] \in MembersDuring(Month(j))
<1>1. k[3] \in Nat /\ metrics[k].end = (k[3] + 1) * MonthDays
  BY DEF TeamInvariant, CountInvariant, RowsFit, RowFits
<1>2. Month(j).start = j * MonthDays /\ Month(j).end = (j + 1) * MonthDays
  BY DEF Month
<1>3. /\ j * MonthDays \in Nat /\ (j + 1) * MonthDays \in Nat
      /\ (j + 1) * MonthDays = j * MonthDays + MonthDays
      /\ k[3] * MonthDays \in Nat /\ (k[3] + 1) * MonthDays \in Nat
      /\ (k[3] + 1) * MonthDays = k[3] * MonthDays + MonthDays
  BY <1>1, MonthDaysAreNumbers
<1>4. k[3] * MonthDays >= j * MonthDays /\ (k[3] + 1) * MonthDays <= (j + 1) * MonthDays <=> k[3] = j
  <2> DEFINE i == k[3]
  <2> HIDE DEF i
  <2>0. i \in Nat /\ j \in Nat
    BY <1>1 DEF i
  <2>1. CASE i < j
    <3>1. (i + 1) * MonthDays <= j * MonthDays
      BY <2>0, <2>1, LaterMonth
    <3>2. QED
      BY <1>3, <2>1, <3>1 DEF i
  <2>2. CASE j < i
    <3>1. (j + 1) * MonthDays <= i * MonthDays
      BY <2>0, <2>2, LaterMonth
    <3>2. QED
      BY <1>3, <2>2, <3>1 DEF i
  <2>3. CASE i = j
    BY <1>3, <2>3 DEF i
  <2>4. QED
    BY <2>0, <2>1, <2>2, <2>3
<1>5. QED
  BY <1>1, <1>2, <1>4 DEF TeamRows

\* TeamMonthsWithinPeriod: the months of a period have no row in common, and
\* each only rows that the whole period has.
THEOREM TeamMonthsAddUp == Spec => []TeamMonthsWithinPeriod
<1>1. ASSUME TeamInvariant PROVE TeamMonthsWithinPeriod
  <2> DEFINE n == MonthOf(today)
             months == {Month(j) : j \in 0..n}
             whole == [start |-> 0, end |-> Month(n).end]
  <2>1. today \in Nat /\ n \in Nat
    BY <1>1, DaysInMonth DEF TeamInvariant, CountInvariant
  <2>2. ToSet(GetMonthlyPeriods(0, today + 1)) = months
    BY <2>1, MonthsSoFar
  <2>3. /\ IsFiniteSet(DOMAIN metrics) /\ \A k \in DOMAIN metrics : CommitCount[k] \in Nat
    BY <1>1 DEF TeamInvariant, CountInvariant, RowsFit, RowFits, CommitCount
  <2>4. \A p : /\ IsFiniteSet(TeamRows(p)) /\ TeamRows(p) \subseteq DOMAIN metrics
               /\ ComputeTeamMetrics(p).commits = SumFunctionOnSet(CommitCount, TeamRows(p))
               /\ ComputeTeamMetrics(p).contributors = {k[2] : k \in TeamRows(p)}
    BY <2>3, FS_Subset DEF TeamRows, ComputeTeamMetrics
  <2>5. IsFiniteSet(months)
    <3> DEFINE f == [j \in 0..n |-> Month(j)]
    <3>0. 0 \in Int /\ n \in Int
      BY <2>1
    <3>1. IsFiniteSet(0..n)
      <4> HIDE DEF n
      <4>1. QED
        BY <3>0, FS_Interval
    <3>2. DOMAIN f = 0..n /\ months = {f[j] : j \in DOMAIN f}
      OBVIOUS
    <3> HIDE DEF f, months
    <3>3. QED
      BY <3>1, <3>2, FiniteImage
  <2>6. ASSUME NEW j \in 0..n PROVE TeamRows(Month(j)) \subseteq TeamRows(whole)
    <3>1. /\ j * MonthDays \in Nat /\ (j + 1) * MonthDays \in Nat /\ (n + 1) * MonthDays \in Nat
      BY <2>1, MonthDaysAreNumbers
    <3>2. (j + 1) * MonthDays <= (n + 1) * MonthDays
      <4>1. CASE j = n
        BY <3>1, <4>1
      <4>2. CASE j < n
        <5>1. (j + 1) * MonthDays <= n * MonthDays /\ (n + 1) * MonthDays = n * MonthDays + MonthDays
              /\ n * MonthDays \in Nat
          BY <2>1, <4>2, LaterMonth, MonthDaysAreNumbers
        <5>2. QED
          BY <3>1, <5>1
      <4>3. QED
        BY <2>1, <4>1, <4>2
    <3>3. /\ Month(j).start = j * MonthDays /\ Month(j).end = (j + 1) * MonthDays
          /\ whole.start = 0 /\ whole.end = (n + 1) * MonthDays
      BY DEF Month
    <3>4. MembersDuring(Month(j)) \subseteq MembersDuring(whole)
      <4>1. \A c \in DOMAIN membership : membership[c].start \in Nat /\ membership[c].end \in Nat \cup {Never}
        BY <1>1 DEF TeamInvariant, Membership
      <4> HIDE DEF whole
      <4>2. QED
        BY <3>1, <3>2, <3>3, <4>1 DEF MembersDuring, Never
    <3>5. \A k \in DOMAIN metrics : /\ k[3] * MonthDays \in Nat /\ metrics[k].end \in Nat
      <4>1. \A k \in DOMAIN metrics : k[3] \in Nat /\ metrics[k].end = (k[3] + 1) * MonthDays
        BY <1>1 DEF TeamInvariant, CountInvariant, RowsFit, RowFits
      <4>2. QED
        BY <4>1, MonthDaysAreNumbers
    <3> HIDE DEF whole
    <3>6. QED
      BY <3>1, <3>2, <3>3, <3>4, <3>5 DEF TeamRows
  <2>7. ASSUME NEW p \in months, NEW q \in months, p # q PROVE TeamRows(p) \cap TeamRows(q) = {}
    <3>1. PICK i \in 0..n : p = Month(i)
      OBVIOUS
    <3>2. PICK j \in 0..n : q = Month(j)
      OBVIOUS
    <3>3. \A k \in TeamRows(p) : k \in DOMAIN metrics /\ k[3] = i
      BY <1>1, <3>1, <2>4, RowsOfOneMonth
    <3>4. \A k \in TeamRows(q) : k[3] = j
      BY <1>1, <3>2, <2>4, RowsOfOneMonth
    <3>5. QED
      BY <2>7, <3>1, <3>2, <3>3, <3>4
  <2>8. SumFunction([m \in months |-> ComputeTeamMetrics(m).commits]) <= ComputeTeamMetrics(whole).commits
    <3> DEFINE f == [m \in months |-> ComputeTeamMetrics(m).commits]
               part == [m \in months |-> TeamRows(m)]
               U == TeamRows(whole)
    <3>1. /\ DOMAIN f = months
          /\ \A m \in months : part[m] \subseteq U /\ f[m] = SumFunctionOnSet(CommitCount, part[m])
      BY <2>4, <2>6
    <3>2. \A p, q \in months : p # q => part[p] \cap part[q] = {}
      BY <2>7
    <3>3. IsFiniteSet(U) /\ \A u \in U : CommitCount[u] \in Nat
      BY <2>3, <2>4
    <3>4. ComputeTeamMetrics(whole).commits = SumFunctionOnSet(CommitCount, U)
      BY <2>4
    <3> HIDE DEF f, part, U, months
    <3>5. SumFunctionOnSet(f, months) <= SumFunctionOnSet(CommitCount, U)
      BY <2>5, <3>1, <3>2, <3>3, SumOfSums
    <3>6. SumFunction(f) = SumFunctionOnSet(f, months)
      BY <3>1 DEF SumFunction
    <3>7. QED
      BY <3>4, <3>5, <3>6 DEF f
  <2>9. ASSUME NEW m \in months, NEW day \in m.start..(m.end - 1), NEW k \in DOMAIN metrics,
               k[2] \in GetActiveTeamMembers(day), k[3] = MonthOf(day)
        PROVE  k[2] \in ComputeTeamMetrics(m).contributors
    <3>1. PICK j \in 0..n : m = Month(j)
      OBVIOUS
    <3>2. /\ j \in Nat /\ j * MonthDays \in Nat /\ (j + 1) * MonthDays \in Nat
          /\ m.start = j * MonthDays /\ m.end = (j + 1) * MonthDays
      BY <2>1, <3>1, MonthDaysAreNumbers DEF Month
    <3>3. day \in Nat /\ m.start <= day /\ day < m.end
      BY <3>2
    <3>4. MonthOf(day) = j
      BY <3>1, <3>2, <3>3, DuringMonth DEF During
    <3>5. k[2] \in MembersDuring(m)
      <4>1. \A c \in DOMAIN membership : membership[c].start \in Nat /\ membership[c].end \in Nat \cup {Never}
        BY <1>1 DEF TeamInvariant, Membership
      <4>2. QED
        BY <2>9, <3>2, <3>3, <4>1 DEF GetActiveTeamMembers, MembersDuring, Never
    <3>6. k \in TeamRows(m)
      BY <1>1, <2>9, <3>1, <3>2, <3>4, <3>5, RowsOfOneMonth
    <3>7. QED
      BY <2>4, <3>6
  <2>10. QED
    BY <2>2, <2>8, <2>9 DEF TeamMonthsWithinPeriod
<1>2. Spec => []TeamInvariant
  BY TeamInit, TeamStep, PTL DEF Spec
<1>3. QED
  BY <1>1, <1>2, PTL

=============================================================================
