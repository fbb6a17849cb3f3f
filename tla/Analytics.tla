------------------------------- MODULE Analytics -------------------------------
(***************************************************************************)
(* What is computed from the stored activity: the metrics of contributors  *)
(* by month (analyzers/contributor_analyzer.py), of services               *)
(* (database/service_analytics.py, with the Celery task that stores them)  *)
(* and of teams (database/team_analytics.py), over months of MonthDays     *)
(* days.                                                                   *)
(*                                                                         *)
(* Each computation reads with several statements while extractions store  *)
(* and other computations commit: a statement sees what is committed when  *)
(* it starts.  The workflows do not call the contributor metrics at        *)
(* present (_process_contributor_metrics is commented out); they are       *)
(* modelled as whoever calls them gets them.                               *)
(***************************************************************************)
EXTENDS Integers, Sequences, FiniteSets, TLC, SequencesExt, FiniteSetsExt

CONSTANTS
    Repos, People,
    Services,       \* services, each with the repositories linked to it
    Activity,       \* what happens, of records [kind, repo, by, day, ...]
    Usage,          \* what an analysis finds: dependencies, those exposed among them
    MonthDays,
    BatchSize,      \* commits scored at once (500)
    Workers,        \* who computes contributor metrics
    MaxDay,         \* bound: last day
    MaxCalls        \* bound: computations of metrics and changes to the team

NoOne == "none"     \* an author who is gone
Never == -1         \* no date

ASSUME AnalyticsAssumption ==
    /\ {MonthDays, BatchSize} \subseteq Nat \ {0}
    /\ {MaxDay, MaxCalls} \subseteq Nat
    /\ IsFiniteSet(Repos) /\ IsFiniteSet(DOMAIN Services) /\ IsFiniteSet(Activity)
    /\ \A s \in DOMAIN Services : Services[s] \subseteq Repos
    /\ \A use \in Usage : IsFiniteSet(use.all) /\ use.exposed \subseteq use.all
    /\ \A a \in Activity : a.repo \in Repos /\ a.by \in People \cup {NoOne} /\ a.day \in Nat

VARIABLES
    today,
    stored,         \* the activity that extractions have stored
    scored,         \* commits with a message_quality_score
    dependencies,   \* dependencies[r]: the dependencies of r, those exposed
    metrics,        \* rows of contributor_metrics by <<repo, contributor, month>>
    counting,       \* counting[w]: the computation of contributor metrics by w
    task,           \* the task that computes service metrics
    snapshots,      \* rows of service_metrics, in the order of insertion
    membership,     \* rows of team_contributors by contributor
    calls           \* bounded: how many computations and changes so far

vars == <<today, stored, scored, dependencies, metrics, counting, task, snapshots,
          membership, calls>>
contentVars == <<stored, dependencies>>
countVars   == <<scored, metrics, counting>>
taskVars    == <<task, snapshots>>

-----------------------------------------------------------------------------
(* Commit messages: a score in half points.                                *)

\* A message is known by what the analyzer looks at: the length of the
\* subject (0: empty), whether that is trivial ("wip", a hash), the length of
\* the body, whether an issue is named, and the form of the subject.
MessageScore(m) ==
    LET points(n, condition) == IF condition THEN 2 * n ELSE 0
        length == IF m.subject \in 20..72 THEN 2 ELSE IF m.subject \in 10..100 THEN 1 ELSE 0
    IN  IF m.subject = 0 THEN 0
        ELSE points(2, TRUE) + length + points(1, ~m.trivial) + points(2, m.body > 20)
             + points(1, m.issue) + points(1, m.imperative) + points(1, m.conventional)

-----------------------------------------------------------------------------
(* Periods.  A period is [start, end), in days.                            *)

MonthOf(day) == day \div MonthDays
Month(n) == [start |-> n * MonthDays, end |-> (n + 1) * MonthDays]

\* From the month of the first day on, as long as a month begins before the end.
GetMonthlyPeriods(start, end) ==
    [i \in 1..(IF end <= MonthOf(start) * MonthDays THEN 0
               ELSE (end - 1) \div MonthDays - MonthOf(start) + 1) |-> Month(MonthOf(start) + i - 1)]

During(period, day) == period.start <= day /\ day < period.end

-----------------------------------------------------------------------------
(* Contributor metrics.                                                    *)

Commits == {a \in Activity : a.kind = "commit"}

InPeriod(kind, repo, period) ==
    {a \in stored : a.kind = kind /\ a.repo = repo /\ a.by # NoOne /\ During(period, a.day)}

CalculateContributorMetrics(repo, period) ==
    LET of(kind, c) == {a \in InPeriod(kind, repo, period) : a.by = c}
        kinds == {"commit", "pull", "review", "comment"}
        active(c) == UNION {of(kind, c) : kind \in kinds}
    IN  [c \in {d \in People : active(d) # {}} |->
           [end |-> period.end,
            commits   |-> Cardinality(of("commit", c)),
            pulls     |-> Cardinality(of("pull", c)),
            reviews   |-> Cardinality(of("review", c)),
            approvals |-> Cardinality({a \in of("review", c) : a.approved}),
            days      |-> Cardinality({a.day : a \in active(c)}),
            quality   |-> SumFunction([a \in of("commit", c) \cap scored |-> MessageScore(a.message)]),
            judged    |-> Cardinality(of("commit", c) \cap scored)]]

\* Mutant of ScoreMessages: an empty message has a score as well.
ScoreMessagesEmpty(repo) ==
    LET open == {a \in stored \cap Commits : a.repo = repo /\ a \notin scored}
    IN  {scored \cup batch : batch \in kSubset(Min({BatchSize, Cardinality(open)}), open)}

\* No more than a batch of the commits that have no score, in no order; one
\* whose message is empty is taken again and again, and never scored.
ScoreMessages(repo) ==
    LET open == {a \in stored \cap Commits : a.repo = repo /\ a \notin scored}
        n == Min({BatchSize, Cardinality(open)})
    IN  {scored \cup {a \in batch : a.message.subject > 0} : batch \in kSubset(n, open)}

Idle == [at |-> "idle"]

\* The commits are scored, then counted: a month without commits is skipped.
\* The session does not flush the scores before it counts (autoflush=False), so
\* that those of this computation are not in its own averages.
BeginCount(w, r) ==
    /\ counting[w] = Idle
    /\ calls < MaxCalls
    /\ calls' = calls + 1
    /\ LET month == MonthOf(today)
       IN  /\ \E a \in stored \cap Commits : a.repo = r /\ MonthOf(a.day) = month
           /\ \E scores \in ScoreMessages(r) :
                counting' = [counting EXCEPT ![w] =
                   [at |-> "counted", repo |-> r, month |-> month, scores |-> scores,
                    stats |-> CalculateContributorMetrics(r, Month(month))]]
    /\ UNCHANGED <<today, contentVars, scored, metrics, taskVars, membership>>

\* Mutant of StoreContributorMetrics: what is counted is added to what is there.
StoreContributorMetricsAdding(c) ==
    LET key(p) == <<c.repo, p, c.month>>
        keys == {key(p) : p \in DOMAIN c.stats}
    IN  [k \in DOMAIN metrics \cup keys |->
           IF k \notin keys THEN metrics[k]
           ELSE IF k \in DOMAIN metrics
                THEN [c.stats[k[2]] EXCEPT !.commits = @ + metrics[k].commits]
                ELSE c.stats[k[2]]]

StoreContributorMetrics(c) ==
    LET keys == {<<c.repo, p, c.month>> : p \in DOMAIN c.stats}
    IN  [k \in DOMAIN metrics \cup keys |-> IF k \in keys THEN c.stats[k[2]] ELSE metrics[k]]

\* Rows are looked up, updated or inserted, and the scores kept.
FinishCount(w) ==
    /\ counting[w] # Idle
    /\ metrics' = StoreContributorMetrics(counting[w])
    /\ scored' = scored \cup counting[w].scores
    /\ counting' = [counting EXCEPT ![w] = Idle]
    /\ UNCHANGED <<today, contentVars, taskVars, membership, calls>>

\* The key of another worker's row, or any error: nothing is kept.
FailCount(w) ==
    /\ counting[w] # Idle
    /\ counting' = [counting EXCEPT ![w] = Idle]
    /\ UNCHANGED <<today, contentVars, scored, metrics, taskVars, membership, calls>>

-----------------------------------------------------------------------------
(* Service metrics: the statements of compute_service_metrics.             *)

RowsIn(repos, period) ==
    {k \in DOMAIN metrics : k[1] \in repos /\ During(period, k[3] * MonthDays)}

CommitCount == [k \in DOMAIN metrics |-> metrics[k].commits]
PrCreated   == [k \in DOMAIN metrics |-> metrics[k].pulls]

AggregateContributorMetrics(repos, period) ==
    [commits |-> SumFunctionOnSet(CommitCount, RowsIn(repos, period)),
     created |-> SumFunctionOnSet(PrCreated, RowsIn(repos, period))]

\* Merged pull requests by the day they were created, whoever the author.
AggregatePrMetrics(repos, period) ==
    Cardinality({a \in stored : /\ a.kind = "pull" /\ a.repo \in repos
                                /\ During(period, a.day) /\ a.merged})

VulnerableDependencies(repos) ==
    SumFunction([r \in repos |-> Cardinality(dependencies[r].exposed)])
TotalDependencies(repos) ==
    SumFunction([r \in repos |-> Cardinality(dependencies[r].all)])

CountUniqueContributors(repos, period) == Cardinality({k[2] : k \in RowsIn(repos, period)})
CountActiveRepositories(repos, period) ==
    Cardinality({k[1] : k \in {j \in RowsIn(repos, period) : metrics[j].commits > 0}})

EmptyServiceMetric(service, period) ==
    [service |-> service, period |-> period, repositories |-> 0, commits |-> 0, created |-> 0,
     merged |-> 0, vulnerable |-> 0, dependencies |-> 0, contributors |-> 0, active |-> 0]

\* Mutant of Statements: what is active is counted first.
StatementsActiveFirst == <<"active", "contributors", "pulls", "vulnerable", "dependencies", "unique">>

Statements == <<"contributors", "pulls", "vulnerable", "dependencies", "unique", "active">>

\* The row after one more statement.
Filled(row, statement) ==
    LET repos == Services[row.service]
        sums  == AggregateContributorMetrics(repos, row.period)
    IN  CASE statement = "contributors" -> [row EXCEPT !.commits = sums.commits, !.created = sums.created]
          [] statement = "pulls"        -> [row EXCEPT !.merged = AggregatePrMetrics(repos, row.period)]
          [] statement = "vulnerable"   -> [row EXCEPT !.vulnerable = VulnerableDependencies(repos)]
          [] statement = "dependencies" -> [row EXCEPT !.dependencies = TotalDependencies(repos)]
          [] statement = "unique"       -> [row EXCEPT !.contributors = CountUniqueContributors(repos, row.period)]
          [] statement = "active"       -> [row EXCEPT !.active = CountActiveRepositories(repos, row.period)]

NoTask == [at |-> "none"]

\* One service or all of them, by default from the first of the month to the
\* end of today.
StartTask ==
    /\ task = NoTask
    /\ calls < MaxCalls
    /\ calls' = calls + 1
    /\ \E services \in {SetToSeq(DOMAIN Services)} \cup {<<s>> : s \in DOMAIN Services} :
         task' = [at |-> "computing", services |-> services,
                  period |-> [start |-> Month(MonthOf(today)).start, end |-> today + 1],
                  rows |-> <<>>, row |-> EmptyServiceMetric("none", Month(0)), next |-> 0]
    /\ UNCHANGED <<today, contentVars, countVars, snapshots, membership>>

\* The next service: without repositories its metric is empty.
StartService ==
    /\ task # NoTask /\ task.next = 0 /\ Len(task.rows) < Len(task.services)
    /\ LET service == task.services[Len(task.rows) + 1]
           row == EmptyServiceMetric(service, task.period)
       IN  task' = IF Services[service] = {}
                   THEN [task EXCEPT !.rows = Append(@, row)]
                   ELSE [task EXCEPT !.next = 1,
                           !.row = [row EXCEPT !.repositories = Cardinality(Services[service])]]
    /\ UNCHANGED <<today, contentVars, countVars, snapshots, membership, calls>>

RunStatement ==
    /\ task # NoTask /\ task.next \in DOMAIN Statements
    /\ LET row == Filled(task.row, Statements[task.next])
       IN  task' = IF task.next < Len(Statements)
                   THEN [task EXCEPT !.row = row, !.next = @ + 1]
                   ELSE [task EXCEPT !.rows = Append(@, row), !.next = 0]
    /\ UNCHANGED <<today, contentVars, countVars, snapshots, membership, calls>>

\* The rows are inserted, whatever there is already.
FinishTask ==
    /\ task # NoTask /\ task.next = 0 /\ Len(task.rows) = Len(task.services)
    /\ snapshots' = snapshots \o task.rows
    /\ task' = NoTask
    /\ UNCHANGED <<today, contentVars, countVars, membership, calls>>

\* A statement fails, and in its transaction all that follow: the other
\* services are skipped and the insert fails as well.
FailTask ==
    /\ task # NoTask
    /\ task' = NoTask
    /\ UNCHANGED <<today, contentVars, countVars, snapshots, membership, calls>>

-----------------------------------------------------------------------------
(* Teams.  A contributor has one row in a team, with two dates.            *)

\* A contributor who has a row, also one that has ended, keeps it.
AddContributorToTeam(c) ==
    /\ calls < MaxCalls
    /\ calls' = calls + 1
    /\ membership' = [d \in DOMAIN membership \cup {c} |->
                        IF d \in DOMAIN membership THEN membership[d]
                        ELSE [start |-> today, end |-> Never]]
    /\ UNCHANGED <<today, contentVars, countVars, taskVars>>

RemoveContributorFromTeam(c) ==
    /\ calls < MaxCalls
    /\ c \in DOMAIN membership
    /\ calls' = calls + 1
    /\ membership' = [membership EXCEPT ![c].end = today]
    /\ UNCHANGED <<today, contentVars, countVars, taskVars>>

GetActiveTeamMembers(day) ==
    {c \in DOMAIN membership : /\ membership[c].start <= day
                               /\ membership[c].end = Never \/ membership[c].end > day}

\* Mutant of MembersDuring: members of the first day only.
MembersDuringFirstDay(period) ==
    {c \in DOMAIN membership : /\ membership[c].start <= period.start
                               /\ membership[c].end = Never \/ membership[c].end > period.start}

MembersDuring(period) ==
    {c \in DOMAIN membership : /\ membership[c].start < period.end
                               /\ membership[c].end = Never \/ membership[c].end > period.start}

\* What the members have in the months that lie in the period, also from
\* days on which they were not members.
ComputeTeamMetrics(period) ==
    LET rows == {k \in DOMAIN metrics : /\ k[2] \in MembersDuring(period)
                                        /\ k[3] * MonthDays >= period.start
                                        /\ metrics[k].end <= period.end}
    IN  [commits |-> SumFunctionOnSet(CommitCount, rows),
         contributors |-> {k[2] : k \in rows}]

-----------------------------------------------------------------------------
(* The rest of the system, and time.                                       *)

NextDay ==
    /\ today < MaxDay
    /\ today' = today + 1
    /\ UNCHANGED <<contentVars, countVars, taskVars, membership, calls>>

\* An extraction stores what has happened in the repository so far.
StoreActivity(r) ==
    /\ stored' = stored \cup {a \in Activity : a.repo = r /\ a.day <= today}
    /\ stored' # stored
    /\ UNCHANGED <<today, dependencies, countVars, taskVars, membership, calls>>

\* Dependencies are added and flagged or not, and never removed (Portfolio).
StoreDependencies(r) ==
    /\ \E use \in Usage : dependencies' = [dependencies EXCEPT ![r] =
          [all |-> @.all \cup use.all, exposed |-> (@.exposed \ use.all) \cup use.exposed]]
    /\ dependencies' # dependencies
    /\ UNCHANGED <<today, stored, countVars, taskVars, membership, calls>>

Init ==
    /\ today = 0
    /\ stored = {} /\ scored = {}
    /\ dependencies = [r \in Repos |-> [all |-> {}, exposed |-> {}]]
    /\ metrics = <<>>
    /\ counting = [w \in Workers |-> Idle]
    /\ task = NoTask
    /\ snapshots = <<>>
    /\ membership = <<>>
    /\ calls = 0

Next ==
    \/ NextDay
    \/ \E r \in Repos : StoreActivity(r) \/ StoreDependencies(r)
    \/ \E w \in Workers : (\E r \in Repos : BeginCount(w, r)) \/ FinishCount(w) \/ FailCount(w)
    \/ StartTask \/ StartService \/ RunStatement \/ FinishTask \/ FailTask
    \/ \E c \in People : AddContributorToTeam(c) \/ RemoveContributorFromTeam(c)

Spec == Init /\ [][Next]_vars

-----------------------------------------------------------------------------
(* Properties.                                                             *)

AnalyticsTypeOK ==
    /\ today \in 0..MaxDay
    /\ stored \subseteq Activity
    /\ scored \subseteq {a \in stored \cap Commits : a.message.subject > 0}
    /\ \A k \in DOMAIN metrics :
         /\ k \in Repos \X People \X Nat
         /\ metrics[k].judged <= metrics[k].commits
         /\ metrics[k].quality <= 20 * metrics[k].judged
    /\ \A i \in DOMAIN snapshots : snapshots[i].service \in DOMAIN Services

\* A month counted again, and by two workers at once, and commits stored long
\* after they were made: the metrics of a repository never add up to more
\* commits than are stored, so no commit is in two months or counted twice.
NoActivityCountedTwice ==
    \A r \in Repos :
        SumFunctionOnSet(CommitCount, {k \in DOMAIN metrics : k[1] = r})
          <= Cardinality({a \in stored \cap Commits : a.repo = r /\ a.by # NoOne})

\* Every commit of the service in the month of the row has an author.
Attributed(row) ==
    \A a \in stored \cap Commits :
        a.repo \in Services[row.service] /\ MonthOf(a.day) = MonthOf(row.period.start) => a.by # NoOne

\* The numbers of a snapshot come from statements between which other
\* transactions commit, and still fit together: a service with commits has a
\* contributor and an active repository, no more dependencies are vulnerable
\* than there are, and no more repositories active than there are.  The active
\* repository may be missing when a commit of the month has no author: such a
\* commit lets a computation begin that finds no author's commits, and that
\* computation, when it ends late, sets a count back to 0.
SnapshotsAddUp ==
    \A i \in DOMAIN snapshots :
        LET row == snapshots[i]
        IN  /\ row.commits > 0 => row.contributors > 0
            /\ row.commits > 0 /\ Attributed(row) => row.active > 0
            /\ row.vulnerable <= row.dependencies
            /\ row.active <= row.repositories

\* The months of a period account for no more of a team's commits than the
\* period as a whole, although the team changes from month to month; and who
\* is a member on any day of the period is counted in it.
TeamMonthsWithinPeriod ==
    LET months == ToSet(GetMonthlyPeriods(0, today + 1))
        whole  == [start |-> 0, end |-> Month(MonthOf(today)).end]
    IN  /\ SumFunction([m \in months |-> ComputeTeamMetrics(m).commits])
             <= ComputeTeamMetrics(whole).commits
        /\ \A m \in months : \A day \in m.start..(m.end - 1) :
             \A k \in DOMAIN metrics :
                k[2] \in GetActiveTeamMembers(day) /\ k[3] = MonthOf(day) =>
                    k[2] \in ComputeTeamMetrics(m).contributors

=============================================================================
