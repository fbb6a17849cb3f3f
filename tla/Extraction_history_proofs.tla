---------------------- MODULE Extraction_history_proofs ----------------------
(***************************************************************************)
(* What the tables of Extraction say about the past: digests that count    *)
(* their runs, an extraction behind every last_analyzed_at and behind      *)
(* every skip, and forced rescans that stay in force; then what holds only *)
(* while something does not happen.                                        *)
(***************************************************************************)
EXTENDS Extraction_proofs

\* A completed run has a digest; a digest belongs to a run that has ended and
\* counts its metric rows.
DigestFits(id) ==
  /\ runs[id].status = "completed" => summaries[id] # None
  /\ summaries[id] # None => /\ runs[id].ended > 0
                             /\ summaries[id].scanned = Membership(metrics, id)

DigestsFit == \A id \in RunIds : DigestFits(id)

\* A run that has not ended has no digest, and gets none but by CompleteRun.
LEMMA RunningHasNoDigest ==
  ASSUME RunInvariant, NEW w \in Workers, WorkerStep(w),
         NEW id \in RunIds, runs[id].ended = 0, summaries[id] = None,
         ~ CompleteRun(w)
  PROVE  summaries'[id] = None /\ runs'[id].status # "completed"
<1>1. /\ TypeOK /\ runs[id].status \in {"absent", "running"}
  BY DEF RunInvariant, RowIsConsistent, TypeOK, RunRow, RunStatus
<1> USE DEF tables, locals
<1>2. CASE StoreScope(w) \/ FinishTask(w) \/ StoreRepo(w) \/ StampAnalyzed(w)
           \/ ExtractContent(w) \/ ListRepositories(w) \/ CheckInterval(w)
           \/ StartMetric(w) \/ CompleteMetric(w) \/ FailMetric(w)
  BY <1>1, <1>2 DEF StoreScope, FinishTask, StoreRepo, StampAnalyzed,
     ExtractContent, ListRepositories, CheckInterval, StartMetric,
     CompleteMetric, FailMetric
<1>3. CASE StartRun(w)
  <2>1. CASE runs' = runs
    BY <1>1, <1>3, <2>1 DEF StartRun
  <2>2. CASE runs' # runs
    <3>1. PICK i \in RunIds :
            runs' = [runs EXCEPT ![i] =
                       [NoRow EXCEPT !.status = "running",
                                     !.platform = platform[w],
                                     !.scope = Head(scopes[w]),
                                     !.total = Len(listing[w])]]
      BY <1>3, <2>2 DEF StartRun
    <3>2. QED
      BY <1>1, <1>3, <3>1 DEF StartRun, NoRow, TypeOK
  <2>3. QED
    BY <2>1, <2>2
<1>4. CASE BeginRepo(w) \/ EndRepo(w)
  <2>1. summaries' = summaries /\ run[w] \in RunIds
    BY <1>4 DEF BeginRepo, EndRepo, RunInvariant, OwnRun, InRun
  <2>2. CASE runs' = runs
    BY <1>1, <2>1, <2>2
  <2>3. ASSUME NEW n, NEW r, SetProgress(run[w], n, r)
        PROVE  runs'[id].status = runs[id].status
    BY <1>1, <2>1, <2>3 DEF SetProgress, TypeOK, RunRow
  <2>4. QED
    BY <1>1, <1>4, <2>1, <2>2, <2>3 DEF BeginRepo, EndRepo
<1>5. CASE FailRun(w)
  <2>1. run[w] \in RunIds /\ runs[run[w]] \in RunRow
    BY <1>1, <1>5 DEF FailRun, RunInvariant, OwnRun, InRun, TypeOK
  <2>2. Ended(runs[run[w]], "failed").status = "failed"
    BY <2>1 DEF Ended, RunRow
  <2>3. \/ runs' = [runs EXCEPT ![run[w]] = Ended(runs[run[w]], "failed")]
        \/ runs' = runs
    BY <1>5 DEF FailRun
  <2>4. runs'[id].status \in {runs[id].status, "failed"}
    BY <1>1, <2>1, <2>2, <2>3 DEF TypeOK
  <2>5. QED
    BY <1>1, <1>5, <2>4 DEF FailRun
<1>6. CASE RecordTaskFailure(w)
  <2>1. CASE runs' = runs
    BY <1>1, <1>6, <2>1 DEF RecordTaskFailure
  <2>2. CASE runs' # runs
    <3>1. PICK i \in RunIds :
            runs' = [runs EXCEPT ![i] =
                       Ended([NoRow EXCEPT !.platform = platform[w],
                                           !.scope = TaskLevel], "failed")]
      BY <1>6, <2>2 DEF RecordTaskFailure
    <3>2. QED
      BY <1>1, <1>6, <3>1 DEF RecordTaskFailure, Ended, NoRow, TypeOK
  <2>3. QED
    BY <2>1, <2>2
<1>7. QED
  BY <1>2, <1>3, <1>4, <1>5, <1>6 DEF WorkerStep

\* The transaction that completes a run writes its digest.
LEMMA CompletionWritesDigest ==
  ASSUME RunInvariant, RunInvariant', NEW w \in Workers, CompleteRun(w),
         NEW id \in RunIds, DigestFits(id)
  PROVE  DigestFits(id)'
<1>1. /\ TypeOK /\ TypeOK' /\ run[w] \in RunIds /\ metrics' = metrics
      /\ runs[run[w]] \in RunRow
  BY DEF RunInvariant, OwnRun, CompleteRun, InRun, TypeOK
<1> DEFINE ended == [runs EXCEPT ![run[w]] = Ended(@, "completed")]
<1>2. CASE UNCHANGED <<runs, summaries>>
  BY <1>1, <1>2 DEF DigestFits, Membership
<1>3. CASE /\ runs' = ended
           /\ summaries' = [summaries EXCEPT ![run[w]] =
                              SummaryRow(ended, metrics, dependencies, run[w])]
  <2>1. CASE id # run[w]
    BY <1>1, <1>3, <2>1 DEF DigestFits, TypeOK, Membership
  <2>2. CASE id = run[w]
    <3>1. runs'[id].status = "completed" /\ runs'[id].ended > 0
      <4>1. runs'[id].status = "completed"
        BY <1>1, <1>3, <2>2 DEF Ended, TypeOK, RunRow
      <4>2. QED
        BY <4>1 DEF RunInvariant, RowIsConsistent
    <3>2. SummaryRow(ended, metrics, dependencies, id) \in Digest
      BY <1>1, DigestType DEF TypeOK
    <3>3. SummaryRow(ended, metrics, dependencies, id).scanned = Membership(metrics, id)
      BY DEF SummaryRow
    <3>4. summaries'[id] = SummaryRow(ended, metrics, dependencies, id)
      BY <1>1, <1>3, <2>2 DEF TypeOK
    <3> HIDE DEF ended
    <3>5. summaries'[id] # None
      BY <3>2, <3>4, NoneAssumption
    <3>6. QED
      BY <1>1, <3>1, <3>3, <3>4, <3>5 DEF DigestFits, Membership
  <2>3. QED
    BY <2>1, <2>2
<1>4. QED
  BY <1>2, <1>3 DEF CompleteRun

\* The backfill counts the metric rows of every run that has ended.
LEMMA BackfillFits ==
  ASSUME TypeOK, Backfill, NEW id \in RunIds, DigestFits(id)
  PROVE  DigestFits(id)'
<1>1. runs' = runs /\ metrics' = metrics
  BY DEF Backfill
<1>2. CASE runs[id].ended > 0
  <2>1. summaries'[id] = BackfillRow(runs, metrics, dependencies, id)
    BY <1>2 DEF Backfill, BackfilledRuns, TypeOK
  <2>2. summaries'[id] # None
    BY <2>1, BackfillType, NoneAssumption
  <2>3. BackfillRow(runs, metrics, dependencies, id).scanned = Membership(metrics, id)
    BY DEF BackfillRow
  <2>4. QED
    BY <1>1, <1>2, <2>1, <2>2, <2>3 DEF DigestFits, Membership
<1>3. CASE ~ runs[id].ended > 0
  <2>1. summaries'[id] = summaries[id]
    BY <1>3 DEF Backfill, BackfilledRuns
  <2>2. QED
    BY <1>1, <2>1 DEF DigestFits, Membership
<1>4. QED
  BY <1>2, <1>3

LEMMA DigestStep ==
  ASSUME RunInvariant, DigestsFit, [Next]_vars
  PROVE  DigestsFit'
<1>1. RunInvariant' /\ TypeOK
  BY NextInvariant DEF RunInvariant
<1>2. ASSUME NEW id \in RunIds PROVE DigestFits(id)'
  <2>1. DigestFits(id)
    BY DEF DigestsFit
  <2>2. CASE Backfill
    BY <1>1, <2>1, <2>2, BackfillFits
  <2>3. CASE runs[id].ended > 0 /\ ~ Backfill
    BY <2>1, <2>3, EndedStaysEnded DEF DigestFits, Untouched, Membership
  <2>4. CASE ~ runs[id].ended > 0 /\ ~ Backfill
    <3>1. runs[id].ended = 0 /\ runs[id].status # "completed"
      BY <1>1, <2>4 DEF RunInvariant, RowIsConsistent, TypeOK, RunRow
    <3>2. summaries[id] = None
      BY <2>1, <3>1 DEF DigestFits
    <3>3. CASE \E w \in Workers : WorkerStep(w)
      <4>1. PICK w \in Workers : WorkerStep(w)
        BY <3>3
      <4>2. CASE CompleteRun(w)
        BY <1>1, <2>1, <4>2, CompletionWritesDigest
      <4>3. CASE ~ CompleteRun(w)
        <5>1. summaries'[id] = None /\ runs'[id].status # "completed"
          BY <3>1, <3>2, <4>1, <4>3, RunningHasNoDigest
        <5>2. QED
          BY <5>1 DEF DigestFits
      <4>4. QED
        BY <4>2, <4>3
    <3>4. CASE \/ UNCHANGED vars
               \/ \E p \in Platforms : Request(p)
               \/ Tick
               \/ \E r \in Repos : ForceRescan(r)
               \/ \E w \in Workers : Kill(w)
               \/ \E w \in Workers, p \in Platforms : StartTask(w, p)
      <4>1. summaries' = summaries /\ runs' = runs
        BY <3>4 DEF vars, tables, Request, Tick, ForceRescan, Kill, StartTask
      <4>2. QED
        BY <3>1, <3>2, <4>1 DEF DigestFits
    <3>5. QED
      BY <2>4, <3>3, <3>4 DEF Next
  <2>5. QED
    BY <2>2, <2>3, <2>4
<1>3. QED
  BY <1>2 DEF DigestsFit

\* DigestsCountTheirRuns: complete_extraction_run and the digest are one
\* transaction, nothing adds to the metrics of a run that has ended, and the
\* backfill of migration 022 counts the same rows.
THEOREM DigestOfCompletedRuns == Spec => []DigestsCountTheirRuns
<1>1. Init => DigestsFit
  BY DEF Init, DigestsFit, DigestFits, NoRow
<1>2. RunInvariant /\ DigestsFit /\ [Next]_vars => DigestsFit'
  BY DigestStep
<1>3. RunInvariant /\ DigestsFit => DigestsCountTheirRuns
  BY MembershipType DEF RunInvariant, DigestsFit, DigestFits, DigestsCountTheirRuns
<1>4. QED
  BY <1>1, <1>2, <1>3, Invariance, PTL DEF Spec

-----------------------------------------------------------------------------
(* Extractions behind stamps and skips.                                    *)

\* Labels at which the current repository of a run has no metric yet.
BeforeMetric == {"next_repo", "check", "store", "start_metric"}

\* The repositories the worker has not reached have no metric of its run, and
\* the one it extracts has an open one.
Place(w) ==
  /\ \A i, j \in DOMAIN listing[w] : listing[w][i] = listing[w][j] => i = j
  /\ pc[w] \in InMetric => metrics[run[w]][CurrentRepo(w)].status = "started"
  /\ pc[w] \in InRun \ {"fail_run"} =>
       \A i \in DOMAIN listing[w] :
         i > index[w] \/ (i = index[w] /\ pc[w] \in BeforeMetric) =>
           metrics[run[w]][listing[w][i]].status = "absent"

Places == \A w \in Workers : Place(w)

\* What a step does to one metric row: it writes it once, as a skip or an
\* open extraction, and closes an open one.
Advances(id, r) ==
  \/ metrics'[id][r] = metrics[id][r]
  \/ /\ metrics[id][r].status = "absent"
     /\ metrics'[id][r].status \in {"skipped", "started"}
     /\ metrics'[id][r].at = clock
  \/ /\ metrics[id][r].status = "started"
     /\ metrics'[id][r].status \in {"completed", "failed"}
     /\ metrics'[id][r].at = metrics[id][r].at

\* A step of w touches at most the metric of its current repository.
OwnMetricOnly(w) ==
  \A id \in RunIds, r \in Repos :
    metrics'[id][r] # metrics[id][r] => id = run[w] /\ r = CurrentRepo(w)

LEMMA WriteOpens ==
  ASSUME TypeOK, NEW w \in Workers, run[w] \in RunIds, CurrentRepo(w) \in Repos,
         NEW s \in {"skipped", "started"},
         metrics[run[w]][CurrentRepo(w)].status = "absent",
         NewMetric(run[w], CurrentRepo(w), s)
  PROVE  /\ OwnMetricOnly(w)
         /\ \A id \in RunIds, r \in Repos : Advances(id, r)
         /\ metrics'[run[w]][CurrentRepo(w)].status = s
BY DEF NewMetric, TypeOK, OwnMetricOnly, Advances

LEMMA WriteCloses ==
  ASSUME TypeOK, NEW w \in Workers, run[w] \in RunIds, CurrentRepo(w) \in Repos,
         NEW s \in {"completed", "failed"},
         metrics[run[w]][CurrentRepo(w)].status = "started",
         SetMetric(run[w], CurrentRepo(w), s)
  PROVE  /\ OwnMetricOnly(w)
         /\ \A id \in RunIds, r \in Repos : Advances(id, r)
<1> DEFINE m == [metrics[run[w]][CurrentRepo(w)] EXCEPT !.status = s]
<1>1. metrics[run[w]][CurrentRepo(w)] \in [status : MetricStatus, at : Nat]
  BY DEF TypeOK
<1>2. m.status = s /\ m.at = metrics[run[w]][CurrentRepo(w)].at
  BY <1>1
<1>3. metrics' = [metrics EXCEPT ![run[w]] =
                    [metrics[run[w]] EXCEPT ![CurrentRepo(w)] = m]]
  BY DEF SetMetric, TypeOK
<1> HIDE DEF m
<1>4. QED
  BY <1>2, <1>3 DEF TypeOK, OwnMetricOnly, Advances

\* A worker that stays in its run and in its repository keeps its place.
LEMMA PlaceKept ==
  ASSUME RunInvariant, Places, NEW w \in Workers,
         SelfKeeps(w), OwnMetricOnly(w),
         pc[w] \in AtRepo \cup {"next_repo"}, pc'[w] \in InRun,
         pc'[w] \in BeforeMetric => pc[w] \in BeforeMetric /\ metrics' = metrics,
         pc'[w] \in InMetric =>
           metrics'[run[w]][CurrentRepo(w)].status = "started"
  PROVE  Place(w)'
<1>1. /\ Place(w) /\ OwnRun(w) /\ TypeOK /\ pc[w] \in InRun \ {"fail_run"}
      /\ run[w] \in RunIds
  BY DEF Places, RunInvariant, OwnRun, AtRepo, InRun
<1>2. run'[w] = run[w] /\ listing'[w] = listing[w] /\ index'[w] = index[w]
  BY DEF SelfKeeps
<1>3. ASSUME NEW i \in DOMAIN listing[w],
             i > index[w] \/ (i = index[w] /\ pc'[w] \in BeforeMetric)
      PROVE  metrics'[run[w]][listing[w][i]].status = "absent"
  <2>1. metrics[run[w]][listing[w][i]].status = "absent"
    BY <1>1, <1>3 DEF Place
  <2>2. CASE pc'[w] \in BeforeMetric
    BY <2>1, <2>2
  <2>3. CASE i > index[w] /\ pc'[w] \notin BeforeMetric
    <3>1. listing[w][i] \in Repos /\ i \in Nat /\ index[w] \in Nat
      BY <1>1 DEF TypeOK
    <3>2. pc[w] = "next_repo" => pc'[w] \in AtRepo \cup {"next_repo", "fail_run"}
      BY DEF AtRepo, InRun
    <3>3. index[w] \in DOMAIN listing[w]
      BY <1>1, <2>3 DEF TypeOK
    <3>4. listing[w][i] # CurrentRepo(w)
      BY <1>1, <2>3, <3>1, <3>3 DEF Place, CurrentRepo
    <3>5. metrics'[run[w]][listing[w][i]] = metrics[run[w]][listing[w][i]]
      BY <1>1, <3>1, <3>4 DEF OwnMetricOnly
    <3>6. QED
      BY <2>1, <3>5
  <2>4. QED
    BY <1>3, <2>2, <2>3
<1>4. QED
  BY <1>1, <1>2, <1>3 DEF Place, CurrentRepo

\* A step of w: the other workers keep their places.
LEMMA OthersKeepPlace ==
  ASSUME RunInvariant, RunInvariant', Places, NEW w \in Workers, OthersKeep(w),
         (pc[w] \in InRun /\ OwnMetricOnly(w)) \/ metrics' = metrics,
         NEW v \in Workers, v # w
  PROVE  Place(v)'
<1>1. /\ Place(v) /\ OwnRun(v) /\ TypeOK
      /\ pc'[v] = pc[v] /\ run'[v] = run[v] /\ listing'[v] = listing[v]
      /\ index'[v] = index[v]
  BY DEF Places, RunInvariant, OthersKeep
<1>2. CASE pc[v] \in InRun
  <2>1. run[v] \in RunIds /\ (pc[w] \in InRun => run[v] # run[w])
    BY <1>1, <1>2 DEF RunInvariant, OwnRun, RunsHaveOneWriter
  <2>2. \A r \in Repos : metrics'[run[v]][r] = metrics[run[v]][r]
    BY <2>1 DEF OwnMetricOnly
  <2>3. \A i \in DOMAIN listing[v] : listing[v][i] \in Repos
    BY <1>1 DEF TypeOK
  <2>4. pc[v] \in InMetric => CurrentRepo(v) \in Repos
    BY <1>1, CurrentRepoType DEF InMetric, AtRepo, InRun
  <2>5. \A i \in DOMAIN listing[v] : metrics'[run[v]][listing[v][i]] = metrics[run[v]][listing[v][i]]
    BY <2>2, <2>3
  <2>6. pc[v] \in InMetric => metrics'[run[v]][CurrentRepo(v)] = metrics[run[v]][CurrentRepo(v)]
    BY <2>2, <2>4
  <2>7. CurrentRepo(v)' = CurrentRepo(v)
    BY <1>1 DEF CurrentRepo
  <2>8. QED
    BY <1>1, <2>5, <2>6, <2>7 DEF Place
<1>3. CASE pc[v] \notin InRun
  BY <1>1, <1>3 DEF Place, InRun, InMetric
<1>4. QED
  BY <1>2, <1>3

\* What a worker's step does to places and metrics.
Effect(w) ==
  /\ OthersKeep(w)
  /\ (pc[w] \in InRun /\ OwnMetricOnly(w)) \/ metrics' = metrics
  /\ \A id \in RunIds, r \in Repos : Advances(id, r)
  /\ Place(w)'

\* Steps outside a run, or out of it, write no metric.
LEMMA OutsideEffect ==
  ASSUME RunInvariant, RunInvariant', Places, NEW w \in Workers,
         \/ StoreScope(w) \/ ListRepositories(w) \/ CompleteRun(w)
         \/ FailRun(w) \/ FinishTask(w) \/ RecordTaskFailure(w)
  PROVE  Effect(w)
<1> USE DEF tables, locals
<1>1. TypeOK /\ TypeOK' /\ Place(w) /\ HasScope(w)
  BY DEF RunInvariant, Places
<1>2. pc'[w] \notin InRun \ {"fail_run"}
  <2>1. pc'[w] \in {"idle", "scope", "list", "start_run", "summary", "record"}
    <3>1. LeaveScope(w) => pc'[w] \in {"summary", "scope"}
      BY <1>1 DEF LeaveScope, Goto, TypeOK
    <3>2. CASE StoreScope(w) \/ ListRepositories(w)
      BY <1>1, <3>1, <3>2 DEF StoreScope, ListRepositories, Goto, TypeOK
    <3>3. CASE CompleteRun(w) \/ FailRun(w)
      BY <1>1, <3>1, <3>3 DEF CompleteRun, FailRun, Goto, TypeOK
    <3>4. CASE FinishTask(w) \/ RecordTaskFailure(w)
      BY <1>1, <3>4 DEF FinishTask, RecordTaskFailure, Goto, TypeOK
    <3>5. QED
      BY <3>2, <3>3, <3>4
  <2>2. QED
    BY <2>1 DEF InRun
<1>3. OthersKeep(w)
  <2>1. \A l : Goto(w, l) => \A v \in Workers \ {w} : pc'[v] = pc[v]
    BY <1>1 DEF Goto, TypeOK
  <2>2. LeaveScope(w) => OthersKeep(w)
    <3>1. ASSUME LeaveScope(w) PROVE \A v \in Workers \ {w} : pc'[v] = pc[v]
      BY <2>1, <3>1 DEF LeaveScope
    <3>2. QED
      BY <1>1, <3>1 DEF LeaveScope, OthersKeep, TypeOK
  <2>3. ClearLocals(w) => \A v \in Workers \ {w} : /\ scopes'[v] = scopes[v]
                                                   /\ run'[v] = run[v]
                                                   /\ listing'[v] = listing[v]
                                                   /\ index'[v] = index[v]
    BY <1>1 DEF ClearLocals, TypeOK
  <2>4. CASE StoreScope(w)
    BY <2>1, <2>4 DEF StoreScope, OthersKeep
  <2>5. CASE ListRepositories(w)
    <3>1. CASE LeaveScope(w)
      BY <2>2, <3>1
    <3>2. CASE ~LeaveScope(w)
      <4>1. \A v \in Workers \ {w} : pc'[v] = pc[v]
        BY <2>1, <2>5, <3>2 DEF ListRepositories
      <4>2. \A v \in Workers \ {w} : listing'[v] = listing[v]
        BY <1>1, <2>5, <3>2 DEF ListRepositories, TypeOK
      <4>3. QED
        BY <2>5, <3>2, <4>1, <4>2 DEF ListRepositories, OthersKeep
    <3>3. QED
      BY <3>1, <3>2
  <2>6. CASE CompleteRun(w)
    <3>1. CASE LeaveScope(w)
      BY <2>2, <3>1
    <3>2. CASE ~LeaveScope(w)
      BY <2>1, <2>6, <3>2 DEF CompleteRun, OthersKeep
    <3>3. QED
      BY <3>1, <3>2
  <2>7. CASE FailRun(w)
    BY <2>1, <2>7 DEF FailRun, OthersKeep
  <2>8. CASE FinishTask(w)
    BY <2>1, <2>3, <2>8 DEF FinishTask, OthersKeep
  <2>9. CASE RecordTaskFailure(w)
    BY <2>1, <2>3, <2>9 DEF RecordTaskFailure, OthersKeep
  <2>10. QED
    BY <2>4, <2>5, <2>6, <2>7, <2>8, <2>9
<1>4. metrics' = metrics
  BY DEF StoreScope, ListRepositories, CompleteRun, FailRun, FinishTask,
     RecordTaskFailure
<1>5. \A i, j \in DOMAIN listing'[w] : listing'[w][i] = listing'[w][j] => i = j
  <2>1. CASE listing'[w] = listing[w]
    BY <1>1, <2>1 DEF Place
  <2>2. CASE listing'[w] = <<>>
    BY <2>2
  <2>3. CASE ListRepositories(w)
    <3>1. Head(scopes[w]) \in Scopes
      <4>1. scopes[w] \in Seq(Scopes) /\ scopes[w] # <<>>
        BY <1>1, <2>3 DEF ListRepositories, HasScope, InScope, TypeOK
      <4>2. QED
        BY <4>1
    <3>2. \/ listing'[w] \in {listing[w], <<>>}
          \/ listing'[w] \in Listings[Head(scopes[w])]
      BY <1>1, <2>3 DEF ListRepositories, LeaveScope, TypeOK
    <3>3. QED
      BY <2>1, <2>2, <3>1, <3>2, ListingsAssumption
  <2>4. CASE ~ ListRepositories(w)
    <3>1. listing'[w] \in {listing[w], <<>>}
      BY <1>1, <2>4 DEF StoreScope, CompleteRun, FailRun, FinishTask,
         RecordTaskFailure, LeaveScope, ClearLocals, TypeOK
    <3>2. QED
      BY <2>1, <2>2, <3>1
  <2>5. QED
    BY <2>3, <2>4
<1>6. Place(w)'
  BY <1>2, <1>5 DEF Place, InMetric, InRun
<1>7. QED
  BY <1>3, <1>4, <1>6 DEF Effect, Advances

\* A new run has no metrics yet.
LEMMA StartRunEffect ==
  ASSUME RunInvariant, RunInvariant', Places, NEW w \in Workers, StartRun(w)
  PROVE  Effect(w)
<1>1. /\ TypeOK /\ Place(w) /\ metrics' = metrics /\ listing' = listing
      /\ OthersKeep(w)
  BY DEF RunInvariant, Places, StartRun, OthersKeep, Goto, TypeOK
<1>2. CASE \E id \in RunIds : /\ runs[id].status = "absent"
                              /\ run' = [run EXCEPT ![w] = id]
  <2>1. PICK id \in RunIds : runs[id].status = "absent" /\ run'[w] = id
    BY <1>1, <1>2 DEF TypeOK
  <2>2. \A r \in Repos : metrics[id][r].status = "absent"
    BY <2>1 DEF RunInvariant, RowIsConsistent
  <2>3. \A i \in DOMAIN listing[w] : listing[w][i] \in Repos
    BY <1>1 DEF TypeOK
  <2>4. pc'[w] \notin InMetric
    BY <1>1 DEF StartRun, Goto, InMetric, TypeOK
  <2>5. QED
    BY <1>1, <2>1, <2>2, <2>3, <2>4 DEF Effect, Place, Advances
<1>3. CASE pc'[w] = "record"
  BY <1>1, <1>3 DEF Effect, Place, Advances, InRun, InMetric
<1>4. CASE May("db") /\ Goto(w, "record")
  BY <1>1, <1>3, <1>4 DEF Goto, TypeOK
<1>5. QED
  BY <1>2, <1>4 DEF StartRun

\* Steps of a run that write no metric and stay with their repository.
LEMMA QuietEffect ==
  ASSUME RunInvariant, RunInvariant', Places, NEW w \in Workers,
         metrics' = metrics,
         \/ BeginRepo(w) \/ CheckInterval(w) \/ StoreRepo(w) \/ StartMetric(w)
         \/ ExtractContent(w) \/ StampAnalyzed(w) \/ CompleteMetric(w)
         \/ FailMetric(w)
  PROVE  Effect(w)
<1> USE DEF tables, locals
<1>1. TypeOK /\ Place(w) /\ OwnRun(w)
  BY DEF RunInvariant, Places
<1>2. OthersKeep(w) /\ SelfKeeps(w)
  BY <1>1 DEF BeginRepo, CheckInterval, StoreRepo, StartMetric, ExtractContent,
     StampAnalyzed, CompleteMetric, FailMetric, Goto, OthersKeep, SelfKeeps, TypeOK
<1>3. /\ pc[w] \in AtRepo \cup {"next_repo"} /\ pc'[w] \in InRun
      /\ pc'[w] \in BeforeMetric => pc[w] \in BeforeMetric
  BY <1>1 DEF BeginRepo, CheckInterval, StoreRepo, StartMetric, ExtractContent,
     StampAnalyzed, CompleteMetric, FailMetric, Goto, AtRepo, InRun,
     BeforeMetric, TypeOK
<1>4. OwnMetricOnly(w) /\ \A id \in RunIds, r \in Repos : Advances(id, r)
  BY DEF OwnMetricOnly, Advances
<1>5. ASSUME pc'[w] \in InMetric
      PROVE  metrics'[run[w]][CurrentRepo(w)].status = "started"
  <2>1. CASE pc[w] \in InMetric
    BY <1>1, <2>1 DEF Place
  <2>2. CASE pc[w] \notin InMetric
    <3>1. StartMetric(w)
      BY <1>1, <1>5, <2>2 DEF BeginRepo, CheckInterval, StoreRepo, StartMetric,
         ExtractContent, StampAnalyzed, CompleteMetric, FailMetric, Goto,
         InMetric, TypeOK
    <3>2. NewMetric(run[w], CurrentRepo(w), "started")
      BY <1>1, <1>5, <3>1 DEF StartMetric, Goto, InMetric, TypeOK
    <3>3. CurrentRepo(w) \in Repos /\ run[w] \in RunIds
      BY <3>1, CurrentRepoType DEF StartMetric, AtRepo, InRun
    <3>4. QED
      BY <1>1, <3>2, <3>3 DEF NewMetric, TypeOK
  <2>3. QED
    BY <2>1, <2>2
<1>6. Place(w)'
  BY <1>2, <1>3, <1>4, <1>5, PlaceKept
<1>7. QED
  BY <1>2, <1>4, <1>6 DEF Effect

\* Steps that write the metric of the current repository.
LEMMA WriteEffect ==
  ASSUME RunInvariant, RunInvariant', Places, NEW w \in Workers,
         metrics' # metrics,
         CheckInterval(w) \/ StartMetric(w) \/ CompleteMetric(w) \/ FailMetric(w)
  PROVE  Effect(w)
<1> USE DEF locals
<1>1. /\ TypeOK /\ Place(w) /\ OwnRun(w) /\ pc[w] \in AtRepo
      /\ pc[w] \in InRun \ {"fail_run"}
  BY DEF RunInvariant, Places, CheckInterval, StartMetric, CompleteMetric,
     FailMetric, AtRepo, InRun
<1>2. CurrentRepo(w) \in Repos /\ run[w] \in RunIds
  BY <1>1, CurrentRepoType
<1>3. OthersKeep(w) /\ SelfKeeps(w)
  BY <1>1 DEF CheckInterval, StartMetric, CompleteMetric, FailMetric, Goto,
     OthersKeep, SelfKeeps, TypeOK
<1>4. CASE CheckInterval(w) \/ StartMetric(w)
  <2>1. metrics[run[w]][CurrentRepo(w)].status = "absent"
    <3>1. index[w] \in DOMAIN listing[w] /\ pc[w] \in BeforeMetric
      BY <1>1, <1>4 DEF OwnRun, AtRepo, InRun, TypeOK, CheckInterval,
         StartMetric, BeforeMetric
    <3>2. QED
      BY <1>1, <3>1 DEF Place, CurrentRepo
  <2>2. PICK s \in {"skipped", "started"} :
          /\ NewMetric(run[w], CurrentRepo(w), s)
          /\ pc'[w] = IF s = "started" THEN "content" ELSE "end_repo"
    BY <1>1, <1>4 DEF CheckInterval, StartMetric, Goto, TypeOK
  <2>3. /\ OwnMetricOnly(w)
        /\ \A id \in RunIds, r \in Repos : Advances(id, r)
        /\ metrics'[run[w]][CurrentRepo(w)].status = s
    BY <1>1, <1>2, <2>1, <2>2, WriteOpens
  <2>4. /\ pc'[w] \in InRun \ BeforeMetric
        /\ pc'[w] \in InMetric => s = "started"
    BY <2>2 DEF InRun, BeforeMetric, InMetric
  <2>5. Place(w)'
    BY <1>1, <1>3, <2>3, <2>4, PlaceKept
  <2>6. QED
    BY <1>1, <1>3, <2>3, <2>5 DEF Effect
<1>5. CASE CompleteMetric(w) \/ FailMetric(w)
  <2>1. metrics[run[w]][CurrentRepo(w)].status = "started"
    BY <1>1, <1>5 DEF Place, CompleteMetric, FailMetric, InMetric
  <2>2. PICK s \in {"completed", "failed"} :
          SetMetric(run[w], CurrentRepo(w), s) /\ pc'[w] = "end_repo"
    BY <1>1, <1>5 DEF CompleteMetric, FailMetric, Goto, TypeOK
  <2>3. /\ OwnMetricOnly(w)
        /\ \A id \in RunIds, r \in Repos : Advances(id, r)
    BY <1>1, <1>2, <2>1, <2>2, WriteCloses
  <2>4. pc'[w] \in InRun \ (BeforeMetric \cup InMetric)
    BY <2>2 DEF InRun, BeforeMetric, InMetric
  <2>5. Place(w)'
    BY <1>1, <1>3, <2>3, <2>4, PlaceKept
  <2>6. QED
    BY <1>1, <1>3, <2>3, <2>5 DEF Effect
<1>6. QED
  BY <1>4, <1>5

\* The loop over repositories goes on to one that has no metric.
LEMMA EndRepoEffect ==
  ASSUME RunInvariant, RunInvariant', Places, NEW w \in Workers, EndRepo(w)
  PROVE  Effect(w)
<1>1. /\ TypeOK /\ Place(w) /\ pc[w] = "end_repo" /\ metrics' = metrics
      /\ OthersKeep(w) /\ run' = run /\ listing' = listing
      /\ pc[w] \in InRun \ {"fail_run"}
  BY DEF RunInvariant, Places, EndRepo, OthersKeep, Goto, TypeOK, InRun
<1>2. CASE index' = [index EXCEPT ![w] = @ + 1] /\ Goto(w, "next_repo")
  <2>1. index'[w] = index[w] + 1 /\ index[w] \in Nat /\ pc'[w] = "next_repo"
    BY <1>1, <1>2 DEF Goto, TypeOK
  <2>2. \A i \in DOMAIN listing[w] : i \in Nat
    BY <1>1 DEF TypeOK
  <2>3. \A i \in DOMAIN listing[w] : i >= index'[w] =>
          metrics[run[w]][listing[w][i]].status = "absent"
    BY <1>1, <2>1, <2>2 DEF Place
  <2>4. Place(w)'
    BY <1>1, <2>1, <2>2, <2>3 DEF Place, InMetric
  <2>5. QED
    BY <1>1, <2>4 DEF Effect, Advances
<1>3. CASE Goto(w, "fail_run")
  <2>1. pc'[w] = "fail_run"
    BY <1>1, <1>3 DEF Goto, TypeOK
  <2>2. QED
    BY <1>1, <2>1 DEF Effect, Place, Advances, InMetric
<1>4. QED
  BY <1>2, <1>3 DEF EndRepo

LEMMA WorkerEffect ==
  ASSUME RunInvariant, RunInvariant', Places, NEW w \in Workers, WorkerStep(w)
  PROVE  Effect(w)
<1>1. CASE \/ StoreScope(w) \/ ListRepositories(w) \/ CompleteRun(w)
           \/ FailRun(w) \/ FinishTask(w) \/ RecordTaskFailure(w)
  BY <1>1, OutsideEffect
<1>2. CASE StartRun(w)
  BY <1>2, StartRunEffect
<1>3. CASE EndRepo(w)
  BY <1>3, EndRepoEffect
<1>4. CASE BeginRepo(w) \/ StoreRepo(w) \/ ExtractContent(w) \/ StampAnalyzed(w)
  <2>1. metrics' = metrics
    BY <1>4 DEF BeginRepo, StoreRepo, ExtractContent, StampAnalyzed, tables
  <2>2. QED
    BY <1>4, <2>1, QuietEffect
<1>5. CASE CheckInterval(w) \/ StartMetric(w) \/ CompleteMetric(w) \/ FailMetric(w)
  BY <1>5, QuietEffect, WriteEffect
<1>6. QED
  BY <1>1, <1>2, <1>3, <1>4, <1>5 DEF WorkerStep

\* Every step keeps every place, and metrics only advance.
LEMMA PlacesStep ==
  ASSUME RunInvariant, Places, [Next]_vars
  PROVE  Places' /\ \A id \in RunIds, r \in Repos : Advances(id, r)
<1>1. RunInvariant' /\ TypeOK
  BY NextInvariant DEF RunInvariant
<1>2. CASE \E w \in Workers : WorkerStep(w)
  <2>1. PICK w \in Workers : WorkerStep(w)
    BY <1>2
  <2>2. Effect(w)
    BY <1>1, <2>1, WorkerEffect
  <2>3. \A v \in Workers \ {w} : Place(v)'
    BY <1>1, <2>2, OthersKeepPlace DEF Effect
  <2>4. QED
    BY <2>2, <2>3 DEF Effect, Places
<1>3. CASE \/ UNCHANGED vars
           \/ \E p \in Platforms : Request(p)
           \/ Tick
           \/ Backfill
           \/ \E r \in Repos : ForceRescan(r)
  <2>1. UNCHANGED <<pc, run, listing, index, metrics>>
    BY <1>3 DEF vars, tables, locals, Request, Tick, ForceRescan, Backfill
  <2>2. QED
    BY <2>1 DEF Places, Place, CurrentRepo, Advances
<1>4. CASE \/ \E w \in Workers : Kill(w)
           \/ \E w \in Workers, p \in Platforms : StartTask(w, p)
  <2>1. PICK w \in Workers : Kill(w) \/ \E p \in Platforms : StartTask(w, p)
    BY <1>4
  <2>2. /\ metrics' = metrics /\ OthersKeep(w) /\ pc'[w] \notin InRun
        /\ listing'[w] \in {listing[w], <<>>}
    <3>1. CASE Kill(w)
      BY <1>1, <3>1 DEF Kill, ClearLocals, tables, OthersKeep, Goto, InRun, TypeOK
    <3>2. ASSUME NEW p \in Platforms, StartTask(w, p)
          PROVE  /\ metrics' = metrics /\ OthersKeep(w) /\ pc'[w] \notin InRun
                 /\ listing'[w] \in {listing[w], <<>>}
      BY <1>1, <3>2 DEF StartTask, tables, OthersKeep, Goto, InRun, TypeOK
    <3>3. QED
      BY <2>1, <3>1, <3>2
  <2>3. Place(w)'
    <3>1. Place(w)
      BY DEF Places
    <3>2. QED
      BY <2>2, <3>1 DEF Place, InRun, InMetric
  <2>4. \A v \in Workers \ {w} : Place(v)'
    BY <1>1, <2>2, OthersKeepPlace
  <2>5. QED
    BY <2>2, <2>3, <2>4 DEF Places, Advances
<1>5. QED
  BY <1>2, <1>3, <1>4 DEF Next

Extracted(id, r) == metrics[id][r].status \in {"started", "completed", "failed"}

\* The inductive invariant of the history: places, times and their causes.
History ==
  /\ Places
  /\ \A id \in RunIds, r \in Repos : metrics[id][r].at <= clock
  /\ \A r \in Repos : lastAnalyzed[r] # None => lastAnalyzed[r] <= clock
  /\ StampHasExtraction
  /\ SkipsAreBacked

LEMMA InitHistory == Init => History
BY DEF Init, History, Places, Place, InRun, InMetric, NoMetric,
   StampHasExtraction, SkipsAreBacked

\* An extraction on record stays on record, with its time.
LEMMA ExtractionStays ==
  ASSUME NEW id \in RunIds, NEW r \in Repos, Advances(id, r), Extracted(id, r)
  PROVE  Extracted(id, r)' /\ metrics'[id][r].at = metrics[id][r].at
BY DEF Advances, Extracted

\* Only StampAnalyzed sets last_analyzed_at.
LEMMA StampedBy ==
  ASSUME RunInvariant, [Next]_vars, NEW r \in Repos
  PROVE  \/ lastAnalyzed'[r] \in {lastAnalyzed[r], None}
         \/ \E w \in Workers : /\ pc[w] = "stamp" /\ CurrentRepo(w) = r
                               /\ lastAnalyzed'[r] = clock
<1>1. TypeOK
  BY DEF RunInvariant
<1>2. CASE \E w \in Workers : StampAnalyzed(w)
  <2>1. PICK w \in Workers : StampAnalyzed(w)
    BY <1>2
  <2>2. CurrentRepo(w) \in Repos
    BY <2>1, CurrentRepoType DEF StampAnalyzed, AtRepo, InRun
  <2>3. QED
    BY <1>1, <2>1, <2>2 DEF StampAnalyzed, TypeOK
<1>3. CASE \E q \in Repos : ForceRescan(q)
  BY <1>1, <1>3 DEF ForceRescan, TypeOK
<1>4. ASSUME NEW w \in Workers, WorkerStep(w), ~ StampAnalyzed(w)
      PROVE  lastAnalyzed' = lastAnalyzed
  BY <1>4 DEF WorkerStep, StoreScope, ListRepositories, StartRun, BeginRepo,
     CheckInterval, StoreRepo, StartMetric, ExtractContent, CompleteMetric,
     FailMetric, EndRepo, CompleteRun, FailRun, FinishTask, RecordTaskFailure,
     tables
<1>5. CASE \/ UNCHANGED vars
           \/ \E p \in Platforms : Request(p)
           \/ Tick
           \/ Backfill
           \/ \E w \in Workers : Kill(w)
           \/ \E w \in Workers, p \in Platforms : StartTask(w, p)
  BY <1>5 DEF vars, tables, Request, Tick, Backfill, Kill, StartTask
<1>6. QED
  BY <1>2, <1>3, <1>4, <1>5 DEF Next

\* A metric becomes a skip only where the repository counts as analyzed.
LEMMA SkippedBy ==
  ASSUME RunInvariant, [Next]_vars, NEW id \in RunIds, NEW r \in Repos,
         metrics[id][r].status # "skipped", metrics'[id][r].status = "skipped"
  PROVE  lastAnalyzed[r] # None
<1>1. TypeOK
  BY DEF RunInvariant
<1>2. metrics' # metrics
  OBVIOUS
<1>3. PICK w \in Workers : WorkerStep(w)
  BY <1>2 DEF Next, vars, tables, Request, Tick, ForceRescan, Backfill, Kill, StartTask
<1>4. \/ CheckInterval(w) \/ StartMetric(w) \/ CompleteMetric(w) \/ FailMetric(w)
  BY <1>2, <1>3 DEF WorkerStep, StoreScope, ListRepositories, StartRun,
     BeginRepo, StoreRepo, ExtractContent, StampAnalyzed, EndRepo, CompleteRun,
     FailRun, FinishTask, RecordTaskFailure, tables
<1>5. CurrentRepo(w) \in Repos /\ run[w] \in RunIds
  BY <1>4, CurrentRepoType DEF CheckInterval, StartMetric, CompleteMetric,
     FailMetric, AtRepo, InRun
<1>6. CASE CheckInterval(w)
  <2>1. NewMetric(run[w], CurrentRepo(w), "skipped") /\ ~ ShouldScan(CurrentRepo(w))
    BY <1>2, <1>6 DEF CheckInterval
  <2>2. r = CurrentRepo(w)
    BY <1>1, <1>5, <2>1 DEF NewMetric, TypeOK
  <2>3. QED
    BY <2>1, <2>2 DEF ShouldScan
<1>7. CASE StartMetric(w) \/ CompleteMetric(w) \/ FailMetric(w)
  <2>1. PICK s \in {"started", "completed", "failed"} :
          NewMetric(run[w], CurrentRepo(w), s) \/ SetMetric(run[w], CurrentRepo(w), s)
    BY <1>2, <1>7 DEF StartMetric, CompleteMetric, FailMetric
  <2>2. s \in MetricStatus
    BY DEF MetricStatus
  <2>3. QED
    BY <1>1, <1>5, <2>1, <2>2, NewMetricWrites
<1>8. QED
  BY <1>4, <1>6, <1>7

LEMMA HistoryStep ==
  ASSUME RunInvariant, History, [Next]_vars
  PROVE  History'
<1>1. /\ TypeOK /\ TypeOK' /\ Places /\ Places'
      /\ \A id \in RunIds, r \in Repos : Advances(id, r)
  BY NextInvariant, PlacesStep DEF RunInvariant, History
<1>2. clock' >= clock /\ clock \in Nat /\ clock' \in Nat
  <2>1. clock \in Nat /\ clock' \in Nat
    BY <1>1 DEF TypeOK
  <2>2. clock' = clock \/ clock' = clock + 1
    <3>1. ASSUME NEW w \in Workers, WorkerStep(w) PROVE clock' = clock
      BY <3>1 DEF WorkerStep, StoreScope, ListRepositories, StartRun, BeginRepo,
         CheckInterval, StoreRepo, StartMetric, ExtractContent, StampAnalyzed,
         CompleteMetric, FailMetric, EndRepo, CompleteRun, FailRun, FinishTask,
         RecordTaskFailure
    <3>2. QED
      BY <3>1 DEF Next, vars, Request, Tick, ForceRescan, Backfill, Kill, StartTask
  <2>3. QED
    BY <2>1, <2>2
<1>3. ASSUME NEW id \in RunIds, NEW r \in Repos
      PROVE  /\ metrics[id][r].at \in Nat /\ metrics[id][r].at <= clock
             /\ metrics'[id][r].at \in Nat
             /\ metrics'[id][r].at <= clock'
  <2>1. /\ metrics[id][r].at \in Nat /\ metrics'[id][r].at \in Nat
        /\ metrics[id][r].at <= clock
    BY <1>1 DEF TypeOK, History
  <2>2. metrics'[id][r].at \in {metrics[id][r].at, clock}
    BY <1>1 DEF Advances
  <2>3. QED
    BY <1>2, <2>1, <2>2
<1>4. ASSUME NEW r \in Repos, lastAnalyzed'[r] # None
      PROVE  /\ lastAnalyzed'[r] <= clock'
             /\ \E id \in RunIds : Extracted(id, r)'
                                   /\ metrics'[id][r].at <= lastAnalyzed'[r]
  <2>1. CASE lastAnalyzed'[r] = lastAnalyzed[r]
    <3>1. PICK id \in RunIds : Extracted(id, r) /\ metrics[id][r].at <= lastAnalyzed[r]
      BY <1>4, <2>1 DEF History, StampHasExtraction, Extracted
    <3>2. Extracted(id, r)' /\ metrics'[id][r].at <= lastAnalyzed'[r]
      BY <1>1, <2>1, <3>1, ExtractionStays
    <3>3. lastAnalyzed[r] \in Nat /\ lastAnalyzed[r] <= clock
      BY <1>1, <1>4, <2>1 DEF History, TypeOK
    <3>4. QED
      BY <1>2, <2>1, <3>2, <3>3
  <2>2. ASSUME NEW w \in Workers, pc[w] = "stamp", CurrentRepo(w) = r,
               lastAnalyzed'[r] = clock
        PROVE  \E id \in RunIds : Extracted(id, r)'
                                  /\ metrics'[id][r].at <= lastAnalyzed'[r]
    <3>1. run[w] \in RunIds /\ metrics[run[w]][r].status = "started"
      BY <1>1, <2>2, CurrentRepoType DEF Places, Place, InMetric, AtRepo, InRun
    <3>2. PICK id \in RunIds : metrics[id][r].status = "started"
      BY <3>1
    <3>3. Extracted(id, r)' /\ metrics'[id][r].at = metrics[id][r].at
      BY <1>1, <3>2, ExtractionStays DEF Extracted
    <3>4. QED
      BY <1>3, <2>2, <3>3
  <2>3. QED
    BY <1>2, <1>4, <2>1, <2>2, StampedBy
<1>5. ASSUME NEW id \in RunIds, NEW r \in Repos, metrics'[id][r].status = "skipped"
      PROVE  \E other \in RunIds : Extracted(other, r)'
                                   /\ metrics'[other][r].at <= metrics'[id][r].at
  <2>1. CASE metrics[id][r].status = "skipped"
    <3>1. PICK other \in RunIds : Extracted(other, r)
                                  /\ metrics[other][r].at <= metrics[id][r].at
      BY <2>1 DEF History, SkipsAreBacked, Extracted
    <3>2. metrics'[id][r].at = metrics[id][r].at
      BY <1>1, <2>1 DEF Advances
    <3>3. QED
      BY <1>1, <3>1, <3>2, ExtractionStays
  <2>2. CASE metrics[id][r].status # "skipped"
    <3>1. lastAnalyzed[r] # None
      BY <1>5, <2>2, SkippedBy
    <3>2. PICK other \in RunIds : Extracted(other, r)
                                  /\ metrics[other][r].at <= lastAnalyzed[r]
      BY <3>1 DEF History, StampHasExtraction, Extracted
    <3>3. metrics'[id][r].at = clock
      BY <1>1, <1>5, <2>2 DEF Advances
    <3>4. metrics'[other][r].at <= metrics'[id][r].at
      BY <1>1, <1>3, <3>2, <3>3, ExtractionStays
    <3>5. QED
      BY <1>1, <3>2, <3>4, ExtractionStays
  <2>3. QED
    BY <2>1, <2>2
<1>6. QED
  BY <1>1, <1>3, <1>4, <1>5 DEF History, StampHasExtraction, SkipsAreBacked, Extracted

LEMMA HistoryHolds == Spec => []History
<1>1. RunInvariant /\ History /\ [Next]_vars => History'
  BY HistoryStep
<1>2. QED
  BY <1>1, InitHistory, Invariance, PTL DEF Spec

\* StampHasExtraction: last_analyzed_at is set by an extraction that opened a
\* metric row before, whichever workers overlap and whatever fails.
THEOREM StampsAreExtractions == Spec => []StampHasExtraction
<1>1. History => StampHasExtraction
  BY DEF History
<1>2. QED
  BY <1>1, HistoryHolds, PTL

\* SkipsAreBacked: should_scan_repository skips only what another run has
\* begun to extract.
THEOREM SkipsHaveExtractions == Spec => []SkipsAreBacked
<1>1. History => SkipsAreBacked
  BY DEF History
<1>2. QED
  BY <1>1, HistoryHolds, PTL

-----------------------------------------------------------------------------
\* A step that keeps last_analyzed_at and the request, and extracts nothing
\* new, keeps a pending rescan.
LEMMA PendingKept ==
  ASSUME RunInvariant, PendingRescanHonoured, [Next]_vars,
         NEW r \in Repos, forced'[r] = "pending"
  PROVE  lastAnalyzed'[r] = None /\ ~BeingExtracted(r)'
<1>1. TypeOK
  BY DEF RunInvariant
<1>2. CASE \E q \in Repos : ForceRescan(q)
  <2>1. PICK q \in Repos : ForceRescan(q)
    BY <1>2
  <2>2. BeingExtracted(r)' <=> BeingExtracted(r)
    BY <2>1 DEF ForceRescan, BeingExtracted, CurrentRepo, locals
  <2>3. CASE q = r
    BY <1>1, <2>1, <2>2, <2>3 DEF ForceRescan, TypeOK
  <2>4. CASE q # r
    BY <1>1, <2>1, <2>2, <2>4 DEF ForceRescan, TypeOK, PendingRescanHonoured
  <2>5. QED
    BY <2>3, <2>4
<1>3. CASE \/ UNCHANGED vars
           \/ \E p \in Platforms : Request(p)
           \/ Tick
           \/ Backfill
  BY <1>3 DEF vars, tables, locals, Request, Tick, Backfill, PendingRescanHonoured,
     BeingExtracted, CurrentRepo
<1>4. CASE \/ \E w \in Workers : Kill(w)
           \/ \E w \in Workers, p \in Platforms : StartTask(w, p)
  <2>1. PICK w \in Workers : Kill(w) \/ \E p \in Platforms : StartTask(w, p)
    BY <1>4
  <2>2. /\ forced' = forced /\ lastAnalyzed' = lastAnalyzed
        /\ pc'[w] \notin {"content", "stamp"} /\ OthersKeep(w)
    <3>1. CASE Kill(w)
      BY <1>1, <3>1 DEF Kill, ClearLocals, Goto, tables, OthersKeep, TypeOK
    <3>2. CASE \E p \in Platforms : StartTask(w, p)
      BY <1>1, <3>2 DEF StartTask, Goto, tables, OthersKeep, TypeOK
    <3>3. QED
      BY <2>1, <3>1, <3>2
  <2>3. QED
    BY <2>2 DEF PendingRescanHonoured, BeingExtracted, CurrentRepo, OthersKeep
<1>5. ASSUME NEW w \in Workers, WorkerStep(w), ~ StartMetric(w)
      PROVE  lastAnalyzed'[r] = None /\ ~BeingExtracted(r)'
  <2>1. forced' = forced
    BY <1>5 DEF WorkerStep, StoreScope, ListRepositories, StartRun, BeginRepo,
       CheckInterval, StoreRepo, ExtractContent, StampAnalyzed, CompleteMetric,
       FailMetric, EndRepo, CompleteRun, FailRun, FinishTask, RecordTaskFailure
  <2>2. lastAnalyzed[r] = None /\ ~BeingExtracted(r)
    BY <2>1 DEF PendingRescanHonoured
  <2>3. lastAnalyzed'[r] = None
    BY <2>2, StampedBy DEF BeingExtracted
  <2>4. ASSUME pc'[w] \in {"content", "stamp"}
        PROVE  pc[w] \in {"content", "stamp"} /\ CurrentRepo(w)' = CurrentRepo(w)
    <3>1. ExtractContent(w)
      BY <1>1, <1>5, <2>4 DEF WorkerStep, StoreScope, ListRepositories,
         LeaveScope, ClearLocals, StartRun, BeginRepo, CheckInterval, StoreRepo,
         ExtractContent, StampAnalyzed, CompleteMetric, FailMetric, EndRepo,
         CompleteRun, FailRun, FinishTask, RecordTaskFailure, Goto, TypeOK
    <3>2. QED
      BY <3>1 DEF ExtractContent, CurrentRepo
  <2>5. OthersKeep(w)
    BY <1>1, <1>5 DEF WorkerStep, StoreScope, ListRepositories,
       LeaveScope, ClearLocals, StartRun, BeginRepo, CheckInterval, StoreRepo,
       ExtractContent, StampAnalyzed, CompleteMetric, FailMetric, EndRepo,
       CompleteRun, FailRun, FinishTask, RecordTaskFailure, Goto, TypeOK,
       OthersKeep, locals
  <2>6. QED
    BY <2>2, <2>3, <2>4, <2>5 DEF BeingExtracted, CurrentRepo, OthersKeep
<1>6. ASSUME NEW w \in Workers, StartMetric(w)
      PROVE  lastAnalyzed'[r] = None /\ ~BeingExtracted(r)'
  <2>1. CurrentRepo(w) \in Repos /\ OthersKeep(w) /\ CurrentRepo(w)' = CurrentRepo(w)
    BY <1>1, <1>6, CurrentRepoType DEF StartMetric, AtRepo, InRun, Goto,
       OthersKeep, CurrentRepo, TypeOK
  <2>2. lastAnalyzed' = lastAnalyzed
    BY <1>6 DEF StartMetric
  <2>3. CASE pc'[w] = "content" /\ forced' = [forced EXCEPT ![CurrentRepo(w)] = "no"]
    <3>1. r # CurrentRepo(w) /\ forced[r] = "pending"
      BY <1>1, <2>1, <2>3 DEF TypeOK
    <3>2. QED
      BY <2>1, <2>2, <3>1 DEF PendingRescanHonoured, BeingExtracted,
         CurrentRepo, OthersKeep
  <2>4. CASE pc'[w] = "end_repo" /\ forced' = forced
    BY <2>1, <2>2, <2>4 DEF PendingRescanHonoured, BeingExtracted,
       CurrentRepo, OthersKeep
  <2>5. QED
    BY <1>1, <1>6, <2>3, <2>4 DEF StartMetric, Goto, TypeOK
<1>7. QED
  BY <1>2, <1>3, <1>4, <1>5, <1>6 DEF Next

\* PendingRescanHonoured: a forced rescan is undone by no scan that began
\* after it, until the repository is extracted.
THEOREM ForcedRescansStay == Spec => []PendingRescanHonoured
<1>1. Init => PendingRescanHonoured
  BY DEF Init, PendingRescanHonoured
<1>2. RunInvariant /\ PendingRescanHonoured /\ [Next]_vars
        => PendingRescanHonoured'
  BY PendingKept DEF PendingRescanHonoured
<1>3. QED
  BY <1>1, <1>2, Invariance, PTL DEF Spec

-----------------------------------------------------------------------------
(* Digests and their backfill.                                             *)

HasEnded == {id \in RunIds : runs[id].ended > 0}

\* Every completed_at so far is below the next one.
StampsBelow == \A id \in RunIds : runs[id].ended < EndStamp

\* A digest counts the repositories its run would be counted by now, and no
\* library that it would not.
Stands(digest, row) ==
  /\ digest.scanned = row.scanned
  /\ digest.new = row.new
  /\ digest.retired = row.retired
  /\ digest.libraries \subseteq row.libraries
  /\ digest.vulnerabilities \subseteq row.libraries

DigestsCurrent ==
  \A id \in RunIds : summaries[id] # None =>
    /\ runs[id].ended > 0
    /\ Stands(summaries[id], SummaryRow(runs, metrics, dependencies, id))

LEMMA EndStampIs ==
  ASSUME TypeOK
  PROVE  /\ IsFiniteSet(HasEnded) /\ Cardinality(HasEnded) \in Nat
         /\ EndStamp = 1 + Cardinality(HasEnded)
         /\ HasEnded \subseteq RunIds
<1>1. IsFiniteSet(HasEnded) /\ HasEnded \subseteq RunIds
  <2>1. HasEnded \in SUBSET RunIds
    BY DEF HasEnded
  <2>2. QED
    BY <2>1, FS_Subset, ConstantsAssumption
<1>2. QED
  BY <1>1, FS_CardinalityType DEF EndStamp, HasEnded

\* A step either ends one run, at EndStamp, or leaves every completed_at.
LEMMA EndsAtMostOne ==
  ASSUME RunInvariant, [Next]_vars
  PROVE  \/ \A id \in RunIds : runs'[id].ended = runs[id].ended
         \/ \E ending \in RunIds :
              /\ runs[ending].ended = 0 /\ runs'[ending].ended = EndStamp
              /\ \A id \in RunIds \ {ending} : runs'[id].ended = runs[id].ended
<1>1. TypeOK
  BY DEF RunInvariant
<1>2. ASSUME NEW w \in Workers, CompleteRun(w) \/ FailRun(w), runs' # runs
      PROVE  \E ending \in RunIds :
              /\ runs[ending].ended = 0 /\ runs'[ending].ended = EndStamp
              /\ \A id \in RunIds \ {ending} : runs'[id].ended = runs[id].ended
  <2>1. run[w] \in RunIds /\ runs[run[w]].status = "running"
    BY <1>2 DEF RunInvariant, OwnRun, InRun, CompleteRun, FailRun
  <2>2. runs[run[w]] \in RunRow /\ runs[run[w]].ended = 0
    <3>1. runs[run[w]] \in RunRow /\ runs[run[w]].ended \in Nat
      BY <1>1, <2>1 DEF TypeOK, RunRow
    <3>2. runs[run[w]].ended > 0 => runs[run[w]].status \in {"completed", "failed"}
      BY <2>1 DEF RunInvariant, RowIsConsistent
    <3>3. QED
      BY <2>1, <3>1, <3>2
  <2>3. PICK status \in {"completed", "failed"} :
          runs' = [runs EXCEPT ![run[w]] = Ended(runs[run[w]], status)]
    BY <1>2 DEF CompleteRun, FailRun
  <2>4. Ended(runs[run[w]], status).ended = EndStamp
    BY <1>1, <2>2, EndedType
  <2>5. PICK ending \in RunIds : ending = run[w]
    BY <2>1
  <2>6. runs' = [runs EXCEPT ![ending] = Ended(runs[ending], status)]
    BY <2>3, <2>5
  <2>7. QED
    BY <1>1, <2>2, <2>4, <2>5, <2>6 DEF TypeOK
<1>3. ASSUME NEW w \in Workers, RecordTaskFailure(w), runs' # runs
      PROVE  \E ending \in RunIds :
              /\ runs[ending].ended = 0 /\ runs'[ending].ended = EndStamp
              /\ \A id \in RunIds \ {ending} : runs'[id].ended = runs[id].ended
  <2>1. PICK ending \in RunIds :
          /\ runs[ending].status = "absent"
          /\ runs' = [runs EXCEPT ![ending] =
                        Ended([NoRow EXCEPT !.platform = platform[w],
                                            !.scope = TaskLevel], "failed")]
    BY <1>3 DEF RecordTaskFailure
  <2>2. runs[ending].ended = 0
    BY <1>1, <2>1 DEF RunInvariant, RowIsConsistent, NoRow
  <2>3. QED
    BY <1>1, <2>1, <2>2 DEF Ended, NoRow, TypeOK
<1>4. ASSUME NEW w \in Workers, StartRun(w), NEW id \in RunIds
      PROVE  runs'[id].ended = runs[id].ended
  <2>1. CASE runs' = runs
    BY <2>1
  <2>2. CASE runs' # runs
    <3>1. PICK i \in RunIds :
            /\ runs[i].status = "absent"
            /\ runs' = [runs EXCEPT ![i] =
                          [NoRow EXCEPT !.status = "running",
                                        !.platform = platform[w],
                                        !.scope = Head(scopes[w]),
                                        !.total = Len(listing[w])]]
      BY <1>4, <2>2 DEF StartRun
    <3>2. runs[i].ended = 0
      BY <1>1, <3>1 DEF RunInvariant, RowIsConsistent, NoRow
    <3>3. QED
      BY <1>1, <3>1, <3>2 DEF NoRow, TypeOK
  <2>3. QED
    BY <2>1, <2>2
<1>5. ASSUME NEW w \in Workers, BeginRepo(w) \/ EndRepo(w), NEW id \in RunIds
      PROVE  runs'[id].ended = runs[id].ended
  <2>1. run[w] \in RunIds
    BY <1>5 DEF BeginRepo, EndRepo, RunInvariant, OwnRun, InRun
  <2>2. ASSUME NEW n, NEW r, SetProgress(run[w], n, r)
        PROVE  runs'[id].ended = runs[id].ended
    BY <1>1, <2>1, <2>2 DEF SetProgress, TypeOK, RunRow
  <2>3. QED
    BY <1>5, <2>2 DEF BeginRepo, EndRepo
<1>6. ASSUME NEW w \in Workers,
             \/ StoreScope(w) \/ FinishTask(w) \/ StoreRepo(w) \/ StampAnalyzed(w)
             \/ ExtractContent(w) \/ ListRepositories(w) \/ CheckInterval(w)
             \/ StartMetric(w) \/ CompleteMetric(w) \/ FailMetric(w)
      PROVE  runs' = runs
  BY <1>6 DEF StoreScope, FinishTask, StoreRepo, StampAnalyzed,
     ExtractContent, ListRepositories, CheckInterval, StartMetric,
     CompleteMetric, FailMetric, tables
<1>7. CASE \E w \in Workers : WorkerStep(w)
  BY <1>2, <1>3, <1>4, <1>5, <1>6, <1>7 DEF WorkerStep
<1>8. CASE ~ \E w \in Workers : WorkerStep(w)
  BY <1>8 DEF Next, vars, tables, Request, Tick, ForceRescan, Backfill, Kill, StartTask
<1>9. QED
  BY <1>7, <1>8

LEMMA StampsStep ==
  ASSUME RunInvariant, StampsBelow, [Next]_vars
  PROVE  StampsBelow'
<1>1. TypeOK /\ TypeOK'
  BY NextInvariant DEF RunInvariant
<1>2. /\ \A id \in RunIds : runs[id].ended \in Nat
      /\ IsFiniteSet(HasEnded) /\ Cardinality(HasEnded) \in Nat
      /\ EndStamp = 1 + Cardinality(HasEnded)
      /\ EndStamp' = 1 + Cardinality(HasEnded')
  <2>1. EndStamp' = 1 + Cardinality(HasEnded')
    BY DEF EndStamp, HasEnded
  <2>2. QED
    BY <1>1, <2>1, EndStampIs DEF TypeOK, RunRow
<1>3. CASE \A id \in RunIds : runs'[id].ended = runs[id].ended
  <2>1. HasEnded' = HasEnded
    BY <1>3 DEF HasEnded
  <2>2. QED
    BY <1>2, <1>3, <2>1 DEF StampsBelow
<1>4. ASSUME NEW ending \in RunIds,
             runs[ending].ended = 0, runs'[ending].ended = EndStamp,
             \A id \in RunIds \ {ending} : runs'[id].ended = runs[id].ended
      PROVE  StampsBelow'
  <2>1. HasEnded' = HasEnded \cup {ending} /\ ending \notin HasEnded
    BY <1>2, <1>4 DEF HasEnded
  <2>2. EndStamp' = EndStamp + 1
    <3>1. Cardinality(HasEnded \cup {ending}) = Cardinality(HasEnded) + 1
      BY <1>2, <2>1, FS_AddElement
    <3>2. QED
      BY <1>2, <2>1, <3>1
  <2>3. QED
    BY <1>2, <1>4, <2>2 DEF StampsBelow
<1>5. QED
  BY <1>3, <1>4, EndsAtMostOne

\* first_seen_at is written once.
LEMMA SeenStays ==
  ASSUME RunInvariant, [Next]_vars
  PROVE  /\ DOMAIN dependencies' = DOMAIN dependencies
         /\ \A k \in DOMAIN dependencies :
              dependencies[k].seen > 0 => dependencies'[k].seen = dependencies[k].seen
<1>1. CASE UNCHANGED dependencies
  BY <1>1
<1>2. ASSUME NEW w \in Workers, ExtractContent(w), ~ UNCHANGED dependencies
      PROVE  /\ DOMAIN dependencies' = DOMAIN dependencies
             /\ \A k \in DOMAIN dependencies :
                  dependencies[k].seen > 0 => dependencies'[k].seen = dependencies[k].seen
  <2>1. PICK used \in SUBSET Libraries, now \in since[w]..EndStamp :
               \E exposed \in SUBSET used :
                 StoreRepoDependencies(w, used, exposed, now)
    BY <1>2 DEF ExtractContent
  <2>2. PICK exposed \in SUBSET used : StoreRepoDependencies(w, used, exposed, now)
    BY <2>1
  <2>3. QED
    BY <2>2 DEF StoreRepoDependencies
<1>3. ASSUME NEW w \in Workers, WorkerStep(w), ~ ExtractContent(w)
      PROVE  UNCHANGED dependencies
  BY <1>3 DEF WorkerStep, StoreScope, ListRepositories, StartRun, BeginRepo,
     CheckInterval, StoreRepo, StartMetric, StampAnalyzed, CompleteMetric,
     FailMetric, EndRepo, CompleteRun, FailRun, FinishTask, RecordTaskFailure,
     tables
<1>4. CASE ~ \E w \in Workers : WorkerStep(w)
  BY <1>1, <1>4 DEF Next, vars, tables, Request, Tick, ForceRescan, Backfill,
     Kill, StartTask
<1>5. QED
  BY <1>1, <1>2, <1>3, <1>4

\* What a digest compares with was written before its run ended, so that a
\* step changes none of it, but for libraries that are added.
LEMMA SummaryStands ==
  ASSUME RunInvariant, StampsBelow, [Next]_vars,
         NEW id \in RunIds, runs[id].ended > 0
  PROVE  LET row == SummaryRow(runs, metrics, dependencies, id)
             next == SummaryRow(runs', metrics', dependencies', id)
         IN  /\ next.scanned = row.scanned /\ next.new = row.new
             /\ next.retired = row.retired
             /\ row.libraries \subseteq next.libraries
<1>1. TypeOK /\ TypeOK'
  BY NextInvariant DEF RunInvariant
<1>2. DOMAIN runs = RunIds /\ DOMAIN runs' = RunIds /\ runs'[id] = runs[id]
  BY <1>1, EndedRowStays DEF TypeOK
<1>3. ASSUME NEW p \in RunIds
      PROVE  /\ runs[p].ended \in Nat
             /\ runs[p].ended > 0 => /\ runs'[p] = runs[p]
                                     /\ metrics'[p] = metrics[p]
             /\ runs'[p].ended > 0 /\ runs'[p].ended < runs[id].ended
                  => runs[p].ended > 0
  <2>1. runs[p].ended \in Nat /\ runs[id].ended \in Nat
    BY <1>1 DEF TypeOK, RunRow
  <2>2. runs[p].ended > 0 => runs'[p] = runs[p] /\ metrics'[p] = metrics[p]
    BY EndedRowStays
  <2>3. runs[id].ended < EndStamp /\ EndStamp \in Nat
    BY <1>1, EndStampType DEF StampsBelow
  <2>4. runs'[p].ended \in {runs[p].ended, EndStamp}
    BY EndsAtMostOne
  <2>5. QED
    BY <2>1, <2>2, <2>3, <2>4
<1> DEFINE Earlier(rr) == {p \in RunIds : /\ rr[p].platform = rr[id].platform
                                          /\ rr[p].ended > 0
                                          /\ rr[p].ended < rr[id].ended}
<1>4. Earlier(runs') = Earlier(runs)
  BY <1>2, <1>3
<1>5. \A p \in Earlier(runs) : runs'[p] = runs[p] /\ metrics'[p] = metrics[p]
  BY <1>3
<1>6. PreviousRun(runs', id) = PreviousRun(runs, id)
  <2>1. /\ PreviousRun(runs, id) =
             {p \in Earlier(runs) : \A q \in Earlier(runs) : runs[q].ended <= runs[p].ended}
        /\ PreviousRun(runs', id) =
             {p \in Earlier(runs') : \A q \in Earlier(runs') : runs'[q].ended <= runs'[p].ended}
    BY <1>2 DEF PreviousRun
  <2> HIDE DEF Earlier
  <2>2. QED
    BY <1>4, <1>5, <2>1
<1>7. PreviousRun(runs, id) \subseteq Earlier(runs)
  BY <1>2 DEF PreviousRun
<1> HIDE DEF Earlier
<1>8. /\ Membership(metrics', id) = Membership(metrics, id)
      /\ \A p \in PreviousRun(runs, id) : Membership(metrics', p) = Membership(metrics, p)
  BY <1>3, <1>5, <1>7 DEF Membership
<1>9. UNION {Membership(metrics', p) : p \in PreviousRun(runs, id)}
        = UNION {Membership(metrics, p) : p \in PreviousRun(runs, id)}
  BY <1>8
<1>10. NewLibraries(runs, dependencies, id, Membership(metrics, id), PreviousRun(runs, id))
         \subseteq
       NewLibraries(runs', dependencies', id, Membership(metrics, id), PreviousRun(runs, id))
  <2> SUFFICES ASSUME NEW k \in NewLibraries(runs, dependencies, id,
                                  Membership(metrics, id), PreviousRun(runs, id))
               PROVE  k \in NewLibraries(runs', dependencies', id,
                                  Membership(metrics, id), PreviousRun(runs, id))
    OBVIOUS
  <2>1. /\ k \in DOMAIN dependencies /\ k[1] \in Membership(metrics, id)
        /\ dependencies[k].seen \in 1..runs[id].ended
        /\ \A p \in PreviousRun(runs, id) : dependencies[k].seen > runs[p].ended
    BY DEF NewLibraries
  <2>2. dependencies[k].seen > 0
    BY <1>1, <2>1 DEF TypeOK, RunRow
  <2>3. k \in DOMAIN dependencies' /\ dependencies'[k].seen = dependencies[k].seen
    BY <2>1, <2>2, SeenStays
  <2>4. \A p \in PreviousRun(runs, id) : runs'[p] = runs[p]
    BY <1>5, <1>7
  <2>5. QED
    BY <1>2, <2>1, <2>3, <2>4 DEF NewLibraries
<1>11. QED
  BY <1>6, <1>8, <1>9, <1>10 DEF SummaryRow

\* The window of migration 022 finds the run that the digest's subquery finds:
\* as many runs of the platform end up to the previous one as end before id.
LEMMA LagIsPrevious ==
  ASSUME TypeOK, NEW id \in RunIds
  PROVE  LET peers == {p \in DOMAIN runs : /\ runs[p].platform = runs[id].platform
                                           /\ runs[p].ended > 0}
         IN  {p \in peers :
                Cardinality({q \in peers : runs[q].ended < runs[id].ended})
                = Cardinality({q \in peers : runs[q].ended <= runs[p].ended})}
             = PreviousRun(runs, id)
<1> DEFINE peers == {p \in DOMAIN runs : /\ runs[p].platform = runs[id].platform
                                         /\ runs[p].ended > 0}
           before == {q \in peers : runs[q].ended < runs[id].ended}
           upTo(p) == {q \in peers : runs[q].ended <= runs[p].ended}
<1>1. DOMAIN runs = RunIds /\ \A p \in RunIds : runs[p].ended \in Nat
  BY DEF TypeOK, RunRow
<1>2. peers \subseteq RunIds /\ IsFiniteSet(peers)
  <2>1. peers \in SUBSET RunIds
    BY <1>1
  <2> HIDE DEF peers
  <2>2. QED
    BY <2>1, FS_Subset, ConstantsAssumption
<1>3. PreviousRun(runs, id) =
        {p \in before : \A q \in before : runs[q].ended <= runs[p].ended}
  BY DEF PreviousRun
<1> HIDE DEF peers
<1>4. IsFiniteSet(before) /\ \A p \in peers : IsFiniteSet(upTo(p))
  <2>1. before \in SUBSET peers /\ \A p \in peers : upTo(p) \in SUBSET peers
    OBVIOUS
  <2>2. QED
    BY <1>2, <2>1, FS_Subset
<1>5. ASSUME NEW p \in peers
      PROVE  Cardinality(before) = Cardinality(upTo(p)) <=> before = upTo(p)
  <2>1. before \subseteq upTo(p) \/ upTo(p) \subseteq before
    BY <1>1, <1>2
  <2> HIDE DEF before, upTo
  <2>2. QED
    BY <1>4, <2>1, FS_Subset
<1>6. ASSUME NEW p \in peers
      PROVE  before = upTo(p) <=>
               p \in before /\ \A q \in before : runs[q].ended <= runs[p].ended
  <2>1. ASSUME before = upTo(p)
        PROVE  p \in before /\ \A q \in before : runs[q].ended <= runs[p].ended
    <3>1. p \in upTo(p)
      BY <1>1, <1>2
    <3>2. \A q \in upTo(p) : runs[q].ended <= runs[p].ended
      OBVIOUS
    <3> HIDE DEF before, upTo
    <3>3. QED
      BY <2>1, <3>1, <3>2
  <2>2. ASSUME p \in before, \A q \in before : runs[q].ended <= runs[p].ended
        PROVE  before = upTo(p)
    BY <1>1, <1>2, <2>2
  <2>3. QED
    BY <2>1, <2>2
<1>7. {p \in peers : Cardinality(before) = Cardinality(upTo(p))}
        = {p \in before : \A q \in before : runs[q].ended <= runs[p].ended}
  <2>1. before \subseteq peers
    OBVIOUS
  <2> HIDE DEF before, upTo
  <2>2. QED
    BY <1>5, <1>6, <2>1
<1>8. QED
  BY <1>3, <1>7 DEF peers

\* ... so that the backfill computes the digest that a run would get now.
LEMMA BackfillIsSummary ==
  ASSUME TypeOK, NEW id \in RunIds
  PROVE  BackfillRow(runs, metrics, dependencies, id) =
           SummaryRow(runs, metrics, dependencies, id)
BY LagIsPrevious DEF BackfillRow, SummaryRow

LEMMA RowStands ==
  ASSUME NEW rr, NEW mm, NEW dd, NEW id
  PROVE  Stands(SummaryRow(rr, mm, dd, id), SummaryRow(rr, mm, dd, id))
BY DEF Stands, SummaryRow, Vulnerable

LEMMA DigestsCurrentStep ==
  ASSUME RunInvariant, StampsBelow, DigestsFit, DigestsCurrent, [Next]_vars
  PROVE  DigestsCurrent'
<1>1. /\ TypeOK /\ RunInvariant' /\ TypeOK' /\ DigestsFit'
  BY NextInvariant, DigestStep DEF RunInvariant
<1>2. ASSUME NEW id \in RunIds, summaries'[id] # None
      PROVE  /\ runs'[id].ended > 0
             /\ Stands(summaries'[id], SummaryRow(runs', metrics', dependencies', id))
  <2>1. runs'[id].ended > 0
    BY <1>1, <1>2 DEF DigestsFit, DigestFits
  <2>2. CASE summaries'[id] = summaries[id]
    <3>1. runs[id].ended > 0
      BY <1>2, <2>2 DEF DigestsCurrent
    <3>2. QED
      BY <1>2, <2>1, <2>2, <3>1, SummaryStands DEF DigestsCurrent, Stands
  <2>3. CASE summaries'[id] # summaries[id]
    <3>1. CASE Backfill
      <4>1. UNCHANGED <<runs, metrics, dependencies>>
        BY <3>1 DEF Backfill
      <4>2. summaries'[id] = SummaryRow(runs, metrics, dependencies, id)
        BY <1>1, <2>3, <3>1, BackfillIsSummary DEF Backfill
      <4>3. QED
        BY <2>1, <4>1, <4>2, RowStands
    <3>2. ASSUME NEW w \in Workers, CompleteRun(w), runs' # runs, run[w] = id
          PROVE  Stands(summaries'[id], SummaryRow(runs', metrics', dependencies', id))
      <4>1. /\ metrics' = metrics /\ dependencies' = dependencies
            /\ summaries' = [summaries EXCEPT ![id] =
                               SummaryRow(runs', metrics, dependencies, id)]
        BY <3>2 DEF CompleteRun
      <4>2. summaries'[id] = SummaryRow(runs', metrics', dependencies', id)
        BY <1>1, <4>1 DEF TypeOK
      <4>3. QED
        BY <4>2, RowStands
    <3>3. QED
      BY <2>1, <2>3, <3>1, <3>2, DigestIsWritten
  <2>4. QED
    BY <2>2, <2>3
<1>3. QED
  BY <1>2 DEF DigestsCurrent

LEMMA DigestsCurrentHold == Spec => [](StampsBelow /\ DigestsFit /\ DigestsCurrent)
<1> DEFINE Inv == StampsBelow /\ DigestsFit /\ DigestsCurrent
<1>1. Init => Inv
  <2> SUFFICES ASSUME Init PROVE Inv
    OBVIOUS
  <2>1. TypeOK /\ \A id \in RunIds : runs[id].ended = 0
    BY InitInvariant DEF RunInvariant, Init, NoRow
  <2>2. EndStamp \in Nat \ {0}
    BY <2>1, EndStampType
  <2>3. QED
    BY <2>1, <2>2 DEF Init, NoRow, StampsBelow, DigestsFit, DigestFits, DigestsCurrent
<1>2. RunInvariant /\ Inv /\ [Next]_vars => Inv'
  BY StampsStep, DigestStep, DigestsCurrentStep
<1> HIDE DEF Inv
<1>3. Spec => []Inv
  BY <1>1, <1>2, Invariance, PTL DEF Spec
<1>4. QED
  BY <1>3 DEF Inv

\* BackfillLosesNothing: what migration 022 computes when it is run again, at
\* any time, leaves the repositories that upsert_scan_summary_for_run counted
\* when each run ended as they are, and drops none of its new libraries.
THEOREM BackfillKeepsCounts == Spec => []BackfillLosesNothing
<1> DEFINE Inv == StampsBelow /\ DigestsFit /\ DigestsCurrent
<1>1. RunInvariant /\ Inv => BackfillLosesNothing
  <2> SUFFICES ASSUME RunInvariant, DigestsCurrent,
                      NEW id \in BackfilledRuns(runs), summaries[id] # None
               PROVE  Stands(summaries[id], BackfillRow(runs, metrics, dependencies, id))
    BY DEF BackfillLosesNothing, Stands
  <2>1. TypeOK /\ id \in RunIds
    BY DEF RunInvariant, TypeOK, BackfilledRuns
  <2>2. Stands(summaries[id], SummaryRow(runs, metrics, dependencies, id))
    BY <2>1 DEF DigestsCurrent
  <2>3. QED
    BY <2>1, <2>2, BackfillIsSummary
<1>2. Spec => []Inv
  BY DigestsCurrentHold
<1> HIDE DEF Inv
<1>3. QED
  BY <1>1, <1>2, Invariance, PTL

-----------------------------------------------------------------------------
(* What the account of Extraction promises only while something does not   *)
(* happen: without database errors every listed repository is recorded;    *)
(* with one worker, so that requests do not overlap, and without forced    *)
(* rescans, extractions keep their distance; and where a platform has one  *)
(* scope, a digest retires repositories of that scope only.                *)

-----------------------------------------------------------------------------
(* Without database errors: what is listed is recorded.                    *)

\* The positions of the listing that have their metric.
Behind(w, i) == i < index[w] \/ (i = index[w] /\ pc[w] \notin BeforeMetric)

\* The metrics of a worker's run are those of the repositories behind it.
Recorded(w) ==
  pc[w] \in InRun \ {"fail_run"} =>
    /\ \A i \in DOMAIN listing[w] :
         Behind(w, i) => metrics[run[w]][listing[w][i]].status # "absent"
    /\ \A r \in Repos : metrics[run[w]][r].status # "absent" =>
         \E i \in DOMAIN listing[w] : listing[w][i] = r

RecordInvariant ==
  /\ Places
  /\ \A w \in Workers : Recorded(w)
  /\ EveryListedRepoIsRecorded

\* A metric that is there stays there.
LEMMA RecordsStay ==
  ASSUME NEW id \in RunIds, NEW r \in Repos, Advances(id, r)
  PROVE  metrics[id][r].status # "absent" => metrics'[id][r].status # "absent"
BY DEF Advances

\* A step of w leaves the records of the other workers as they are.
LEMMA OthersStayRecorded ==
  ASSUME RunInvariant, NEW w \in Workers, OthersKeep(w),
         (pc[w] \in InRun /\ OwnMetricOnly(w)) \/ metrics' = metrics,
         NEW v \in Workers, v # w, Recorded(v)
  PROVE  Recorded(v)'
<1>1. /\ OwnRun(v) /\ TypeOK
      /\ pc'[v] = pc[v] /\ run'[v] = run[v] /\ listing'[v] = listing[v]
      /\ index'[v] = index[v]
  BY DEF RunInvariant, OthersKeep
<1>2. CASE pc[v] \in InRun
  <2>1. run[v] \in RunIds /\ (pc[w] \in InRun => run[v] # run[w])
    BY <1>1, <1>2 DEF RunInvariant, OwnRun, RunsHaveOneWriter
  <2>2. \A r \in Repos : metrics'[run[v]][r] = metrics[run[v]][r]
    BY <2>1 DEF OwnMetricOnly
  <2>3. \A i \in DOMAIN listing[v] : listing[v][i] \in Repos
    BY <1>1 DEF TypeOK
  <2>4. QED
    BY <1>1, <1>2, <2>2, <2>3 DEF Recorded, Behind
<1>3. CASE pc[v] \notin InRun
  BY <1>1, <1>3 DEF Recorded
<1>4. QED
  BY <1>2, <1>3

\* The step of a worker within its run, without database errors.
LEMMA InRunRecorded ==
  ASSUME RunInvariant, Places, "db" \notin Disturbances,
         NEW w \in Workers, Recorded(w), Effect(w),
         \/ BeginRepo(w) \/ CheckInterval(w) \/ StoreRepo(w) \/ StartMetric(w)
         \/ ExtractContent(w) \/ StampAnalyzed(w) \/ CompleteMetric(w)
         \/ FailMetric(w)
  PROVE  Recorded(w)'
<1> USE DEF tables, locals
<1>1. TypeOK /\ OwnRun(w) /\ ~ May("db")
  BY DEF RunInvariant, May
<1>2. SelfKeeps(w) /\ pc[w] \in AtRepo \cup {"next_repo"} /\ pc[w] \in InRun \ {"fail_run"}
  BY <1>1 DEF BeginRepo, CheckInterval, StoreRepo, StartMetric, ExtractContent,
     StampAnalyzed, CompleteMetric, FailMetric, Goto, SelfKeeps, TypeOK, AtRepo, InRun
<1>3. /\ index[w] \in DOMAIN listing[w] /\ CurrentRepo(w) \in Repos /\ run[w] \in RunIds
      /\ \A i \in DOMAIN listing[w] : listing[w][i] \in Repos
  <2>1. index[w] \in Nat \ {0} /\ index[w] <= Len(listing[w]) /\ listing[w] \in Seq(Repos)
    BY <1>1, <1>2 DEF BeginRepo, CheckInterval, StoreRepo, StartMetric, ExtractContent,
       StampAnalyzed, CompleteMetric, FailMetric, OwnRun, AtRepo, InRun, TypeOK
  <2>2. run[w] \in RunIds
    BY <1>1, <1>2 DEF OwnRun
  <2>3. QED
    BY <2>1, <2>2 DEF CurrentRepo
<1>4. /\ OwnMetricOnly(w) \/ metrics' = metrics
      /\ \A r \in Repos : metrics[run[w]][r].status # "absent" =>
                            metrics'[run[w]][r].status # "absent"
  BY <1>3, RecordsStay DEF Effect
<1>5. pc[w] \in BeforeMetric /\ pc'[w] \notin BeforeMetric =>
        metrics'[run[w]][CurrentRepo(w)].status # "absent"
  <2>1. CASE CheckInterval(w) \/ StartMetric(w)
    <3>1. \/ pc'[w] \in BeforeMetric
          \/ \E s \in {"skipped", "started"} : NewMetric(run[w], CurrentRepo(w), s)
      BY <1>1, <2>1 DEF CheckInterval, StartMetric, Goto, BeforeMetric, TypeOK
    <3>2. QED
      BY <1>1, <1>3, <3>1 DEF NewMetric, TypeOK
  <2>2. CASE ~ (CheckInterval(w) \/ StartMetric(w))
    BY <1>1, <2>2 DEF BeginRepo, StoreRepo, ExtractContent, StampAnalyzed,
       CompleteMetric, FailMetric, Goto, BeforeMetric, TypeOK
  <2>3. QED
    BY <2>1, <2>2
<1>6. \A i \in DOMAIN listing[w] :
        (i < index[w] \/ (i = index[w] /\ pc'[w] \notin BeforeMetric)) =>
          metrics'[run[w]][listing[w][i]].status # "absent"
  BY <1>2, <1>3, <1>4, <1>5 DEF Recorded, Behind, CurrentRepo
<1>7. \A r \in Repos : metrics'[run[w]][r].status # "absent" =>
        \E i \in DOMAIN listing[w] : listing[w][i] = r
  BY <1>2, <1>3, <1>4 DEF Recorded, OwnMetricOnly, CurrentRepo
<1>8. QED
  BY <1>2, <1>6, <1>7 DEF Recorded, Behind, SelfKeeps

\* The other steps of a worker: it begins a run, leaves one repository
\* behind, or leaves the run.
LEMMA AroundRunRecorded ==
  ASSUME RunInvariant, "db" \notin Disturbances,
         NEW w \in Workers, Recorded(w),
         \/ StoreScope(w) \/ ListRepositories(w) \/ StartRun(w) \/ EndRepo(w)
         \/ CompleteRun(w) \/ FailRun(w) \/ FinishTask(w) \/ RecordTaskFailure(w)
  PROVE  Recorded(w)'
<1> USE DEF tables, locals
<1>1. TypeOK /\ OwnRun(w) /\ ~ May("db")
  BY DEF RunInvariant, May
<1>2. CASE StartRun(w)
  <2>1. PICK id \in RunIds : runs[id].status = "absent" /\ run'[w] = id /\ index'[w] = 1
    BY <1>1, <1>2 DEF StartRun, TypeOK
  <2>2. \A r \in Repos : metrics[id][r].status = "absent"
    BY <2>1 DEF RunInvariant, RowIsConsistent
  <2>3. /\ metrics' = metrics /\ listing' = listing /\ pc'[w] = "next_repo"
        /\ \A i \in DOMAIN listing[w] : i \in Nat /\ ~ i < 1
    BY <1>1, <1>2 DEF StartRun, Goto, TypeOK
  <2>4. QED
    BY <2>1, <2>2, <2>3 DEF Recorded, Behind, BeforeMetric
<1>3. CASE EndRepo(w)
  <2>1. /\ pc[w] = "end_repo" /\ pc'[w] = "next_repo" /\ metrics' = metrics
        /\ run' = run /\ listing' = listing /\ index'[w] = index[w] + 1
        /\ index[w] \in Nat /\ \A i \in DOMAIN listing[w] : i \in Nat
    BY <1>1, <1>3 DEF EndRepo, Goto, TypeOK
  <2>2. pc[w] \in InRun \ {"fail_run"} /\ pc[w] \notin BeforeMetric
    BY <2>1 DEF InRun, BeforeMetric
  <2>3. QED
    BY <2>1, <2>2 DEF Recorded, Behind, BeforeMetric
<1>4. CASE \/ StoreScope(w) \/ ListRepositories(w) \/ CompleteRun(w)
           \/ FailRun(w) \/ FinishTask(w) \/ RecordTaskFailure(w)
  <2>1. LeaveScope(w) => pc'[w] \in {"summary", "scope"}
    BY <1>1 DEF LeaveScope, Goto, TypeOK
  <2>2. pc'[w] \in {"idle", "scope", "list", "start_run", "summary", "record"}
    BY <1>1, <1>4, <2>1 DEF StoreScope, ListRepositories, CompleteRun, FailRun,
       FinishTask, RecordTaskFailure, Goto, TypeOK
  <2>3. QED
    BY <2>2 DEF Recorded, InRun
<1>5. QED
  BY <1>2, <1>3, <1>4

\* A sequence without duplicates has as many elements as it is long.
LEMMA ElementsOfSequence ==
  ASSUME NEW S, NEW l \in Seq(S), \A i, j \in DOMAIN l : l[i] = l[j] => i = j
  PROVE  Cardinality({l[i] : i \in DOMAIN l}) = Len(l)
<1> DEFINE T == {l[i] : i \in DOMAIN l}
           n == Len(l)
<1>1. n \in Nat /\ DOMAIN l = 1..n /\ l \in [1..n -> S]
  BY LenProperties
<1>2. l \in [1..n -> T]
  BY <1>1
<1>3. l \in Bijection(1..n, T)
  BY <1>1, <1>2 DEF Bijection, Injection, IsInjective, Surjection
<1>4. ExistsBijection(1..n, T)
  BY <1>3 DEF ExistsBijection
<1>5. QED
  BY <1>1, <1>4, FS_CountingElements

\* A worker at the end of its listing has recorded all of it.
LEMMA CompletedIsRecorded ==
  ASSUME RunInvariant, Places, NEW w \in Workers, Recorded(w),
         pc[w] = "next_repo", index[w] > Len(listing[w])
  PROVE  Cardinality(Membership(metrics, run[w])) = runs[run[w]].total
<1>1. /\ TypeOK /\ OwnRun(w) /\ Place(w) /\ pc[w] \in InRun \ {"fail_run"}
      /\ run[w] \in RunIds
  BY DEF RunInvariant, Places, OwnRun, InRun
<1>2. /\ listing[w] \in Seq(Repos) /\ index[w] \in Nat
      /\ \A i \in DOMAIN listing[w] : i < index[w] /\ listing[w][i] \in Repos
  BY <1>1 DEF TypeOK
<1>3. Membership(metrics, run[w]) = {listing[w][i] : i \in DOMAIN listing[w]}
  BY <1>1, <1>2, MembershipType DEF Recorded, Behind
<1>4. Cardinality({listing[w][i] : i \in DOMAIN listing[w]}) = Len(listing[w])
  BY <1>1, <1>2, ElementsOfSequence DEF Place
<1>5. runs[run[w]].total = Len(listing[w])
  BY <1>1 DEF OwnRun
<1>6. QED
  BY <1>3, <1>4, <1>5

\* A run becomes completed by CompleteRun only.
LEMMA CompletedBy ==
  ASSUME RunInvariant, [Next]_vars, NEW id \in RunIds,
         runs[id].status # "completed", runs'[id].status = "completed"
  PROVE  \E w \in Workers : /\ CompleteRun(w) /\ id = run[w]
                            /\ metrics' = metrics
                            /\ runs'[id].total = runs[id].total
                            /\ runs'[id].scope = runs[id].scope
                            /\ runs'[id].platform = runs[id].platform
                            /\ summaries'[id] = SummaryRow(runs', metrics, dependencies, id)
<1>1. TypeOK /\ runs' # runs
  BY DEF RunInvariant
<1>2. PICK w \in Workers : WorkerStep(w)
  BY <1>1 DEF Next, vars, tables, Request, Tick, ForceRescan, Backfill, Kill, StartTask
<1>3. CASE CompleteRun(w)
  <2>1. run[w] \in RunIds /\ runs[run[w]] \in RunRow
    BY <1>1, <1>3 DEF CompleteRun, RunInvariant, OwnRun, InRun, TypeOK
  <2>2. /\ runs' = [runs EXCEPT ![run[w]] = Ended(runs[run[w]], "completed")]
        /\ summaries' = [summaries EXCEPT ![run[w]] =
                           SummaryRow(runs', metrics, dependencies, run[w])]
        /\ metrics' = metrics
    BY <1>1, <1>3, <2>1 DEF CompleteRun, TypeOK
  <2>3. id = run[w]
    BY <1>1, <2>1, <2>2 DEF TypeOK
  <2>4. /\ runs'[id].total = runs[id].total /\ runs'[id].scope = runs[id].scope
        /\ runs'[id].platform = runs[id].platform
    BY <1>1, <2>1, <2>2, <2>3 DEF Ended, RunRow, TypeOK
  <2>5. summaries'[id] = SummaryRow(runs', metrics, dependencies, id)
    BY <1>1, <2>2, <2>3 DEF TypeOK
  <2>6. QED
    BY <1>3, <2>2, <2>3, <2>4, <2>5
<1>4. CASE StartRun(w) \/ RecordTaskFailure(w)
  <2>1. PICK i \in RunIds : \E row :
          runs' = [runs EXCEPT ![i] = row] /\ row.status # "completed"
    <3>1. CASE StartRun(w)
      <4> DEFINE row == [NoRow EXCEPT !.status = "running", !.platform = platform[w],
                                      !.scope = Head(scopes[w]), !.total = Len(listing[w])]
      <4>1. \E i \in RunIds : runs' = [runs EXCEPT ![i] = row]
        BY <1>1, <3>1 DEF StartRun
      <4>2. row.status = "running"
        BY DEF NoRow
      <4> HIDE DEF row
      <4>3. QED
        BY <4>1, <4>2
    <3>2. CASE RecordTaskFailure(w)
      <4> DEFINE row == Ended([NoRow EXCEPT !.platform = platform[w],
                                            !.scope = TaskLevel], "failed")
      <4>1. \E i \in RunIds : runs' = [runs EXCEPT ![i] = row]
        BY <1>1, <3>2 DEF RecordTaskFailure
      <4>2. row.status = "failed"
        BY DEF NoRow, Ended
      <4> HIDE DEF row
      <4>3. QED
        BY <4>1, <4>2
    <3>3. QED
      BY <1>4, <3>1, <3>2
  <2>2. QED
    BY <1>1, <2>1 DEF TypeOK
<1>5. CASE BeginRepo(w) \/ EndRepo(w)
  <2>1. run[w] \in RunIds
    BY <1>5 DEF BeginRepo, EndRepo, RunInvariant, OwnRun, InRun
  <2>2. ASSUME NEW n, NEW r, SetProgress(run[w], n, r)
        PROVE  runs'[id].status = runs[id].status
    BY <1>1, <2>1, <2>2 DEF SetProgress, TypeOK, RunRow
  <2>3. QED
    BY <1>1, <1>5, <2>2 DEF BeginRepo, EndRepo
<1>6. CASE FailRun(w)
  <2>1. run[w] \in RunIds /\ runs[run[w]] \in RunRow
    BY <1>1, <1>6 DEF FailRun, RunInvariant, OwnRun, InRun, TypeOK
  <2>2. Ended(runs[run[w]], "failed").status = "failed"
    BY <2>1 DEF Ended, RunRow
  <2>3. runs' = [runs EXCEPT ![run[w]] = Ended(runs[run[w]], "failed")]
    BY <1>1, <1>6 DEF FailRun
  <2>4. QED
    BY <1>1, <2>1, <2>2, <2>3 DEF TypeOK
<1>7. QED
  BY <1>1, <1>2, <1>3, <1>4, <1>5, <1>6 DEF WorkerStep, StoreScope,
     ListRepositories, CheckInterval, StoreRepo, StartMetric, ExtractContent,
     StampAnalyzed, CompleteMetric, FailMetric, FinishTask, tables

LEMMA RecordStep ==
  ASSUME RunInvariant, RecordInvariant, "db" \notin Disturbances, [Next]_vars
  PROVE  RecordInvariant'
<1>1. /\ RunInvariant' /\ TypeOK /\ Places /\ Places'
      /\ \A w \in Workers : Recorded(w)
  BY NextInvariant, PlacesStep DEF RunInvariant, RecordInvariant
<1>2. \A v \in Workers : Recorded(v)'
  <2>1. CASE \E w \in Workers : WorkerStep(w)
    <3>1. PICK w \in Workers : WorkerStep(w)
      BY <2>1
    <3>2. Effect(w)
      BY <1>1, <3>1, WorkerEffect
    <3>3. Recorded(w)'
      BY <1>1, <3>1, <3>2, InRunRecorded, AroundRunRecorded DEF WorkerStep
    <3>4. \A v \in Workers \ {w} : Recorded(v)'
      BY <1>1, <3>2, OthersStayRecorded DEF Effect
    <3>5. QED
      BY <3>3, <3>4
  <2>2. CASE \/ UNCHANGED vars
             \/ \E p \in Platforms : Request(p)
             \/ Tick
             \/ Backfill
             \/ \E r \in Repos : ForceRescan(r)
    <3>1. UNCHANGED <<pc, run, listing, index, metrics>>
      BY <2>2 DEF vars, tables, locals, Request, Tick, ForceRescan, Backfill
    <3>2. QED
      BY <1>1, <3>1 DEF Recorded, Behind
  <2>3. CASE \/ \E w \in Workers : Kill(w)
             \/ \E w \in Workers, p \in Platforms : StartTask(w, p)
    <3>1. PICK w \in Workers : Kill(w) \/ \E p \in Platforms : StartTask(w, p)
      BY <2>3
    <3>2. metrics' = metrics /\ OthersKeep(w) /\ pc'[w] \notin InRun
      BY <1>1, <3>1 DEF Kill, ClearLocals, StartTask, tables, OthersKeep, Goto, InRun, TypeOK
    <3>3. \A v \in Workers \ {w} : Recorded(v)'
      BY <1>1, <3>2, OthersStayRecorded
    <3>4. QED
      BY <3>2, <3>3 DEF Recorded
  <2>4. QED
    BY <2>1, <2>2, <2>3 DEF Next
<1>3. ASSUME NEW id \in RunIds, runs'[id].status = "completed"
      PROVE  Cardinality(Membership(metrics, id)') = runs'[id].total
  <2>1. CASE runs[id].status = "completed"
    <3>1. runs[id].ended > 0
      BY <2>1 DEF RunInvariant, RowIsConsistent
    <3>2. runs'[id] = runs[id] /\ metrics'[id] = metrics[id]
      BY <3>1, EndedRowStays
    <3>3. QED
      BY <2>1, <3>2 DEF RecordInvariant, EveryListedRepoIsRecorded, Membership
  <2>2. CASE runs[id].status # "completed"
    <3>1. PICK w \in Workers : /\ CompleteRun(w) /\ id = run[w]
                               /\ metrics' = metrics
                               /\ runs'[id].total = runs[id].total
      BY <1>3, <2>2, CompletedBy
    <3>2. Cardinality(Membership(metrics, run[w])) = runs[run[w]].total
      BY <1>1, <3>1, CompletedIsRecorded DEF CompleteRun
    <3>3. QED
      BY <3>1, <3>2 DEF Membership
  <2>3. QED
    BY <2>1, <2>2
<1>4. EveryListedRepoIsRecorded'
  BY <1>3 DEF EveryListedRepoIsRecorded
<1>5. QED
  BY <1>1, <1>2, <1>4 DEF RecordInvariant

\* EveryListedRepoIsRecorded: as long as the database does not fail, each
\* repository of the listing has its row in extraction_metrics when the run
\* completes (_process_repositories), however many workers extract, whichever
\* are killed and whatever the platforms refuse.
THEOREM ListedIsRecorded ==
  ASSUME "db" \notin Disturbances
  PROVE  Spec => []EveryListedRepoIsRecorded
<1>1. Init => RecordInvariant
  BY InitHistory DEF Init, History, RecordInvariant, Recorded, InRun,
     EveryListedRepoIsRecorded, NoRow
<1>2. RunInvariant /\ RecordInvariant /\ [Next]_vars => RecordInvariant'
  BY RecordStep
<1>3. RecordInvariant => EveryListedRepoIsRecorded
  BY DEF RecordInvariant
<1>4. QED
  BY <1>1, <1>2, <1>3, Invariance, PTL DEF Spec

-----------------------------------------------------------------------------
(* One worker, no forced rescans: extractions keep their distance.         *)

AtMostOneWorker == \A v, w \in Workers : v = w

Completed(id, r) == metrics[id][r].status = "completed"

\* Every completed extraction of r began more than the interval before t.
LongBefore(r, t) ==
  \A id \in RunIds : Completed(id, r) => metrics[id][r].at + MinInterval < t

\* What a worker knows of its repository, from the check of the interval to
\* the end of the extraction.
Distance(w) ==
  /\ pc[w] \in {"start_metric"} \cup InMetric => CurrentRepo(w) \in stored
  /\ pc[w] \in {"store", "start_metric"} => LongBefore(CurrentRepo(w), clock)
  /\ pc[w] \in InMetric => LongBefore(CurrentRepo(w), metrics[run[w]][CurrentRepo(w)].at)
  /\ pc[w] = "complete_metric" =>
       /\ lastAnalyzed[CurrentRepo(w)] # None
       /\ metrics[run[w]][CurrentRepo(w)].at <= lastAnalyzed[CurrentRepo(w)]

\* A completed extraction has left its stamp, or a later one has.
StampsCover ==
  \A r \in Repos :
    /\ lastAnalyzed[r] # None => r \in stored
    /\ \A id \in RunIds : Completed(id, r) =>
         lastAnalyzed[r] # None /\ metrics[id][r].at <= lastAnalyzed[r]

IntervalInvariant ==
  /\ History
  /\ \A w \in Workers : Distance(w)
  /\ StampsCover
  /\ ScansRespectInterval

\* Without forced rescans a stamp gives way to a later one only.
LEMMA StampsGrow ==
  ASSUME RunInvariant, History, "force" \notin Disturbances, [Next]_vars, NEW r \in Repos
  PROVE  /\ lastAnalyzed[r] # None =>
              lastAnalyzed'[r] # None /\ lastAnalyzed[r] <= lastAnalyzed'[r]
         /\ \/ lastAnalyzed'[r] = lastAnalyzed[r]
            \/ \E w \in Workers : pc[w] = "stamp" /\ CurrentRepo(w) = r
<1>1. TypeOK /\ ~ May("force")
  BY DEF RunInvariant, May
<1>2. CASE \E w \in Workers : StampAnalyzed(w)
  <2>1. PICK w \in Workers : StampAnalyzed(w)
    BY <1>2
  <2>2. CurrentRepo(w) \in Repos /\ pc[w] = "stamp"
    BY <2>1, CurrentRepoType DEF StampAnalyzed, AtRepo, InRun
  <2>3. clock # None
    BY <1>1, ConstantsAssumption DEF TypeOK, ConstantsAssumption
  <2>4. lastAnalyzed'[r] = lastAnalyzed[r] \/ (r = CurrentRepo(w) /\ lastAnalyzed'[r] = clock)
    BY <1>1, <2>1, <2>2 DEF StampAnalyzed, TypeOK
  <2>5. lastAnalyzed[r] # None => lastAnalyzed[r] <= clock /\ lastAnalyzed[r] \in Nat
    BY <1>1 DEF History, TypeOK
  <2>6. QED
    BY <2>2, <2>3, <2>4, <2>5
<1>3. CASE ~ \E w \in Workers : StampAnalyzed(w)
  <2>1. ASSUME NEW w \in Workers, WorkerStep(w)
        PROVE  lastAnalyzed' = lastAnalyzed
    BY <1>3, <2>1 DEF WorkerStep, StoreScope, ListRepositories, StartRun, BeginRepo,
       CheckInterval, StoreRepo, StartMetric, ExtractContent, CompleteMetric,
       FailMetric, EndRepo, CompleteRun, FailRun, FinishTask, RecordTaskFailure,
       tables
  <2>2. lastAnalyzed' = lastAnalyzed
    BY <1>1, <2>1 DEF Next, vars, tables, Request, Tick, ForceRescan, Backfill, Kill, StartTask
  <2>3. lastAnalyzed[r] # None => lastAnalyzed[r] \in Nat
    BY <1>1 DEF TypeOK
  <2>4. QED
    BY <2>2, <2>3
<1>4. QED
  BY <1>2, <1>3

\* A metric becomes completed by the worker that extracts its repository.
LEMMA MetricCompletedBy ==
  ASSUME RunInvariant, History, [Next]_vars, NEW id \in RunIds, NEW r \in Repos,
         ~ Completed(id, r), Completed(id, r)'
  PROVE  \E w \in Workers : /\ CompleteMetric(w) /\ id = run[w] /\ r = CurrentRepo(w)
                            /\ metrics'[id][r].at = metrics[id][r].at
<1>1. TypeOK /\ Places /\ RunInvariant' /\ Advances(id, r)
  BY NextInvariant, PlacesStep DEF RunInvariant, History
<1>2. metrics' # metrics /\ metrics'[id][r] # metrics[id][r]
  BY DEF Completed
<1>3. PICK w \in Workers : WorkerStep(w)
  BY <1>2 DEF Next, vars, tables, Request, Tick, ForceRescan, Backfill, Kill, StartTask
<1>4. \/ CheckInterval(w) \/ StartMetric(w) \/ CompleteMetric(w) \/ FailMetric(w)
  BY <1>2, <1>3 DEF WorkerStep, StoreScope, ListRepositories, StartRun,
     BeginRepo, StoreRepo, ExtractContent, StampAnalyzed, EndRepo, CompleteRun,
     FailRun, FinishTask, RecordTaskFailure, tables
<1>5. CurrentRepo(w) \in Repos /\ run[w] \in RunIds
  BY <1>4, CurrentRepoType DEF CheckInterval, StartMetric, CompleteMetric,
     FailMetric, AtRepo, InRun
<1>6. CASE CompleteMetric(w)
  <2>1. id = run[w] /\ r = CurrentRepo(w)
    BY <1>1, <1>2, <1>3, WorkerEffect DEF Effect, OwnMetricOnly
  <2>2. metrics'[id][r].at = metrics[id][r].at
    BY <1>1 DEF Advances, Completed
  <2>3. QED
    BY <1>6, <2>1, <2>2
<1>7. CASE CheckInterval(w) \/ StartMetric(w) \/ FailMetric(w)
  <2>1. PICK s \in {"started", "skipped", "failed"} :
          NewMetric(run[w], CurrentRepo(w), s) \/ SetMetric(run[w], CurrentRepo(w), s)
    BY <1>2, <1>7 DEF CheckInterval, StartMetric, FailMetric
  <2>2. s \in MetricStatus
    BY DEF MetricStatus
  <2>3. QED
    BY <1>1, <1>5, <2>1, <2>2, NewMetricWrites DEF Completed
<1>8. QED
  BY <1>4, <1>6, <1>7

\* Rows of repositories are never deleted, and time does not go back.
LEMMA StoredGrows ==
  ASSUME RunInvariant, [Next]_vars
  PROVE  stored \subseteq stored' /\ clock \in Nat /\ clock' \in Nat /\ clock <= clock'
<1>1. TypeOK /\ TypeOK'
  BY NextInvariant DEF RunInvariant
<1>2. ASSUME NEW w \in Workers, WorkerStep(w)
      PROVE  clock' = clock /\ stored \subseteq stored'
  BY <1>2 DEF WorkerStep, StoreScope, ListRepositories, StartRun, BeginRepo,
     CheckInterval, StoreRepo, StartMetric, ExtractContent, StampAnalyzed,
     CompleteMetric, FailMetric, EndRepo, CompleteRun, FailRun, FinishTask,
     RecordTaskFailure, tables
<1>3. stored \subseteq stored' /\ (clock' = clock \/ clock' = clock + 1)
  BY <1>2 DEF Next, vars, tables, Request, Tick, ForceRescan, Backfill, Kill, StartTask
<1>4. QED
  BY <1>1, <1>3 DEF TypeOK

\* Where metrics stay as they are, so does what is known of the past.
LEMMA LongBeforeStays ==
  ASSUME NEW r, NEW t \in Nat, NEW u \in Nat, t <= u, TypeOK, r \in Repos,
         LongBefore(r, t), metrics' = metrics
  PROVE  \A id \in RunIds : Completed(id, r)' => metrics'[id][r].at + MinInterval < u
<1>1. MinInterval \in Nat /\ \A id \in RunIds : metrics[id][r].at \in Nat
  BY ConstantsAssumption DEF TypeOK, ConstantsAssumption
<1>2. QED
  BY <1>1 DEF LongBefore, Completed

\* A worker that passes the check begins more than the interval after every
\* completed extraction.
LEMMA CheckedIsLongAfter ==
  ASSUME TypeOK, StampsCover, NEW r \in Repos, ShouldScan(r)
  PROVE  LongBefore(r, clock)
<1>1. ASSUME NEW id \in RunIds, Completed(id, r)
      PROVE  metrics[id][r].at + MinInterval < clock
  <2>1. /\ lastAnalyzed[r] # None /\ metrics[id][r].at <= lastAnalyzed[r]
        /\ r \in stored
    BY <1>1 DEF StampsCover
  <2>2. lastAnalyzed[r] + MinInterval < clock
    BY <2>1 DEF ShouldScan
  <2>3. /\ lastAnalyzed[r] \in Nat /\ metrics[id][r].at \in Nat
        /\ MinInterval \in Nat /\ clock \in Nat
    BY <2>1, ConstantsAssumption DEF TypeOK, ConstantsAssumption
  <2>4. QED
    BY <2>1, <2>2, <2>3
<1>2. QED
  BY <1>1 DEF LongBefore

\* A step of a worker keeps what it knows of its repository.
LEMMA DistanceStep ==
  ASSUME RunInvariant, IntervalInvariant, NEW w \in Workers, WorkerStep(w)
  PROVE  Distance(w)'
<1> USE DEF tables, locals
<1>1. /\ TypeOK /\ Distance(w) /\ StampsCover /\ clock' = clock /\ clock \in Nat
      /\ Place(w) /\ OwnRun(w)
  <2>1. TypeOK /\ Distance(w) /\ StampsCover /\ Place(w) /\ OwnRun(w)
    BY DEF RunInvariant, IntervalInvariant, History, Places
  <2>2. clock' = clock
    BY DEF WorkerStep, StoreScope, ListRepositories, StartRun, BeginRepo,
     CheckInterval, StoreRepo, StartMetric, ExtractContent, StampAnalyzed,
     CompleteMetric, FailMetric, EndRepo, CompleteRun, FailRun, FinishTask,
     RecordTaskFailure
  <2>3. QED
    BY <2>1, <2>2 DEF TypeOK
<1>2. CASE pc'[w] \notin {"store", "start_metric"} \cup InMetric
  BY <1>2 DEF Distance, InMetric
<1>3. CASE pc'[w] \in {"store", "start_metric"} \cup InMetric
  <2>1. \/ CheckInterval(w) \/ StoreRepo(w) \/ StartMetric(w) \/ ExtractContent(w)
        \/ StampAnalyzed(w) \/ CompleteMetric(w)
    <3>1. LeaveScope(w) => pc'[w] \in {"summary", "scope"}
      BY <1>1 DEF LeaveScope, Goto, TypeOK
    <3>2. CASE StoreScope(w) \/ ListRepositories(w) \/ StartRun(w) \/ BeginRepo(w) \/ EndRepo(w)
      BY <1>1, <1>3, <3>1, <3>2 DEF StoreScope, ListRepositories, StartRun, BeginRepo,
         EndRepo, Goto, InMetric, TypeOK
    <3>3. CASE \/ FailMetric(w) \/ CompleteRun(w) \/ FailRun(w) \/ FinishTask(w)
               \/ RecordTaskFailure(w)
      BY <1>1, <1>3, <3>1, <3>3 DEF FailMetric, CompleteRun, FailRun, FinishTask,
         RecordTaskFailure, Goto, InMetric, TypeOK
    <3>4. QED
      BY <3>2, <3>3 DEF WorkerStep
  <2>2. /\ run' = run /\ listing' = listing /\ index' = index
        /\ CurrentRepo(w)' = CurrentRepo(w)
    BY <2>1 DEF CheckInterval, StoreRepo, StartMetric, ExtractContent,
       StampAnalyzed, CompleteMetric, CurrentRepo
  <2>3. PICK q \in Repos : q = CurrentRepo(w)
    BY <2>1, CurrentRepoType DEF CheckInterval, StoreRepo, StartMetric, ExtractContent,
       StampAnalyzed, CompleteMetric, AtRepo, InRun
  <2>4. PICK id \in RunIds : id = run[w]
    BY <2>1, CurrentRepoType DEF CheckInterval, StoreRepo, StartMetric, ExtractContent,
       StampAnalyzed, CompleteMetric, AtRepo, InRun
  <2>5. CurrentRepo(w)' = q /\ run'[w] = id
    BY <2>2, <2>3, <2>4
  <2>6. metrics[id][q].at \in Nat
    BY <1>1 DEF TypeOK
  <2>7. CASE CheckInterval(w)
    <3>1. pc'[w] = "store" /\ metrics' = metrics /\ ShouldScan(q)
      BY <1>1, <1>3, <2>3, <2>7 DEF CheckInterval, Goto, InMetric, TypeOK
    <3>2. LongBefore(q, clock)
      BY <1>1, <3>1, CheckedIsLongAfter
    <3>3. QED
      BY <1>1, <2>5, <3>1, <3>2 DEF Distance, LongBefore, Completed, InMetric
  <2>8. CASE StoreRepo(w)
    <3>1. pc[w] = "store" /\ pc'[w] = "start_metric" /\ metrics' = metrics /\ q \in stored'
      BY <1>1, <1>3, <2>3, <2>8 DEF StoreRepo, Goto, InMetric, TypeOK
    <3>2. LongBefore(q, clock)
      BY <1>1, <2>3, <3>1 DEF Distance
    <3>3. QED
      BY <1>1, <2>5, <3>1, <3>2 DEF Distance, LongBefore, Completed, InMetric
  <2>9. CASE StartMetric(w)
    <3>1. /\ pc[w] = "start_metric" /\ pc'[w] = "content" /\ stored' = stored
          /\ NewMetric(id, q, "started")
      BY <1>1, <1>3, <2>3, <2>4, <2>9 DEF StartMetric, Goto, InMetric, TypeOK
    <3>2. LongBefore(q, clock) /\ q \in stored
      BY <1>1, <2>3, <3>1 DEF Distance
    <3>3. /\ metrics'[id][q] = [status |-> "started", at |-> clock]
          /\ \A o \in RunIds : o # id => metrics'[o][q] = metrics[o][q]
      BY <1>1, <3>1 DEF NewMetric, TypeOK
    <3>4. \A o \in RunIds : Completed(o, q)' => metrics'[o][q].at + MinInterval < metrics'[id][q].at
      BY <3>2, <3>3 DEF LongBefore, Completed
    <3>5. QED
      BY <2>5, <3>1, <3>2, <3>4 DEF Distance, LongBefore
  <2>10. CASE ExtractContent(w) \/ StampAnalyzed(w) \/ CompleteMetric(w)
    <3>1. /\ pc[w] \in InMetric /\ pc'[w] \in InMetric /\ metrics' = metrics /\ stored' = stored
          /\ pc'[w] = "complete_metric" => StampAnalyzed(w) /\ lastAnalyzed'[q] = clock
      BY <1>1, <1>3, <2>3, <2>10 DEF ExtractContent, StampAnalyzed, CompleteMetric, Goto,
         InMetric, TypeOK
    <3>2. LongBefore(q, metrics[id][q].at) /\ q \in stored
      BY <1>1, <2>3, <2>4, <3>1 DEF Distance
    <3>3. pc'[w] = "complete_metric" => lastAnalyzed'[q] # None /\ metrics[id][q].at <= lastAnalyzed'[q]
      BY <1>1, <3>1, ConstantsAssumption DEF IntervalInvariant, History, ConstantsAssumption
    <3>4. QED
      BY <2>5, <3>1, <3>2, <3>3 DEF Distance, LongBefore, Completed, InMetric
  <2>11. QED
    BY <2>1, <2>7, <2>8, <2>9, <2>10
<1>4. QED
  BY <1>2, <1>3

LEMMA IntervalStep ==
  ASSUME RunInvariant, IntervalInvariant, AtMostOneWorker, "force" \notin Disturbances,
         [Next]_vars
  PROVE  IntervalInvariant'
<1>1. /\ TypeOK /\ History /\ History' /\ StampsCover
      /\ \A id \in RunIds, r \in Repos : Advances(id, r)
      /\ \A w \in Workers : Distance(w)
  BY HistoryStep, PlacesStep DEF RunInvariant, IntervalInvariant, History
<1>2. stored \subseteq stored' /\ clock \in Nat /\ clock' \in Nat /\ clock <= clock'
  BY StoredGrows
<1>3. \A id \in RunIds, r \in Repos : Completed(id, r) =>
        Completed(id, r)' /\ metrics'[id][r].at = metrics[id][r].at
  BY <1>1 DEF Advances, Completed
<1>4. \A r \in Repos : lastAnalyzed[r] # None =>
        /\ lastAnalyzed[r] \in Nat /\ lastAnalyzed'[r] \in Nat
        /\ lastAnalyzed'[r] # None /\ lastAnalyzed[r] <= lastAnalyzed'[r]
  <2>1. TypeOK'
    BY NextInvariant DEF RunInvariant
  <2>2. QED
    BY <1>1, <2>1, StampsGrow DEF TypeOK
<1>5. ASSUME NEW w \in Workers PROVE Distance(w)'
  <2>1. \A v \in Workers : v = w
    BY DEF AtMostOneWorker
  <2>2. CASE WorkerStep(w)
    BY <2>2, DistanceStep
  <2>3. CASE Kill(w) \/ \E p \in Platforms : StartTask(w, p)
    <3>1. pc'[w] \in {"idle", "scope", "summary", "record"}
      BY <1>1, <2>3 DEF Kill, StartTask, Goto, TypeOK
    <3>2. QED
      BY <3>1 DEF Distance, InMetric
  <2>4. CASE \/ UNCHANGED vars
             \/ \E p \in Platforms : Request(p)
             \/ Tick
             \/ Backfill
             \/ \E r \in Repos : ForceRescan(r)
    <3>1. UNCHANGED <<pc, run, listing, index, metrics>>
      BY <2>4 DEF vars, tables, locals, Request, Tick, ForceRescan, Backfill
    <3>2. CASE pc[w] \notin {"store", "start_metric"} \cup InMetric
      BY <3>1, <3>2 DEF Distance, InMetric
    <3>3. CASE pc[w] \in {"store", "start_metric"} \cup InMetric
      <4>1. PICK q \in Repos, id \in RunIds : q = CurrentRepo(w) /\ id = run[w]
        BY <3>3, CurrentRepoType DEF InMetric, AtRepo, InRun
      <4>2. CurrentRepo(w)' = q /\ run'[w] = id /\ metrics[id][q].at \in Nat
        BY <1>1, <3>1, <4>1 DEF CurrentRepo, TypeOK
      <4>3. LongBefore(q, clock) =>
              \A o \in RunIds : Completed(o, q)' => metrics'[o][q].at + MinInterval < clock'
        BY <1>1, <1>2, <3>1, LongBeforeStays
      <4>4. LongBefore(q, metrics[id][q].at) =>
              \A o \in RunIds :
                 Completed(o, q)' => metrics'[o][q].at + MinInterval < metrics'[id][q].at
        BY <3>1 DEF LongBefore, Completed
      <4>5. pc[w] = "complete_metric" =>
              lastAnalyzed'[q] # None /\ metrics[id][q].at <= lastAnalyzed'[q]
        BY <1>1, <1>4, <4>1, <4>2 DEF Distance
      <4>6. QED
        BY <1>1, <1>2, <3>1, <4>1, <4>2, <4>3, <4>4, <4>5 DEF Distance, LongBefore
    <3>4. QED
      BY <3>2, <3>3
  <2>5. QED
    BY <2>1, <2>2, <2>3, <2>4 DEF Next
<1>6. ASSUME NEW id \in RunIds, NEW r \in Repos, ~ Completed(id, r), Completed(id, r)'
      PROVE  \E w \in Workers : /\ pc[w] = "complete_metric" /\ id = run[w]
                                /\ r = CurrentRepo(w)
                                /\ metrics'[id][r].at = metrics[id][r].at
  BY <1>1, <1>6, MetricCompletedBy DEF CompleteMetric
<1>7. StampsCover'
  <2>1. ASSUME NEW r \in Repos, lastAnalyzed'[r] # None PROVE r \in stored'
    <3>1. \/ lastAnalyzed'[r] = lastAnalyzed[r]
          \/ \E w \in Workers : pc[w] = "stamp" /\ CurrentRepo(w) = r
      BY <1>1, StampsGrow
    <3>2. QED
      BY <1>1, <1>2, <2>1, <3>1 DEF StampsCover, Distance, InMetric
  <2>2. ASSUME NEW r \in Repos, NEW id \in RunIds, Completed(id, r)'
        PROVE  lastAnalyzed'[r] # None /\ metrics'[id][r].at <= lastAnalyzed'[r]
    <3>1. metrics[id][r].at \in Nat
      BY <1>1 DEF TypeOK
    <3>2. CASE Completed(id, r)
      BY <1>1, <1>3, <1>4, <3>1, <3>2 DEF StampsCover
    <3>3. CASE ~ Completed(id, r)
      <4>1. PICK w \in Workers : /\ pc[w] = "complete_metric" /\ id = run[w]
                                 /\ r = CurrentRepo(w)
                                 /\ metrics'[id][r].at = metrics[id][r].at
        BY <1>6, <2>2, <3>3
      <4>2. lastAnalyzed[r] # None /\ metrics[id][r].at <= lastAnalyzed[r]
        BY <1>1, <4>1 DEF Distance
      <4>3. QED
        BY <1>4, <3>1, <4>1, <4>2
    <3>4. QED
      BY <3>2, <3>3
  <2>3. QED
    BY <2>1, <2>2 DEF StampsCover, Completed
<1>8. ScansRespectInterval'
  <2> DEFINE apart(a, b, r) ==
        \/ metrics'[a][r].at + MinInterval < metrics'[b][r].at
        \/ metrics'[b][r].at + MinInterval < metrics'[a][r].at
  <2>1. ASSUME NEW a \in RunIds, NEW b \in RunIds, NEW r \in Repos, a # b,
               ~ Completed(a, r), Completed(a, r)', Completed(b, r)'
        PROVE  apart(a, b, r)
    <3>1. PICK w \in Workers : /\ pc[w] = "complete_metric" /\ a = run[w]
                               /\ r = CurrentRepo(w)
                               /\ metrics'[a][r].at = metrics[a][r].at
      BY <1>6, <2>1
    <3>2. Completed(b, r)
      <4>1. SUFFICES ASSUME ~ Completed(b, r) PROVE FALSE
        OBVIOUS
      <4>2. PICK v \in Workers : b = run[v]
        BY <1>6, <2>1, <4>1
      <4>3. QED
        BY <2>1, <3>1, <4>2 DEF AtMostOneWorker
    <3>3. metrics[b][r].at + MinInterval < metrics[a][r].at
      BY <1>1, <3>1, <3>2 DEF Distance, InMetric, LongBefore
    <3>4. QED
      BY <1>3, <3>1, <3>2, <3>3
  <2>2. ASSUME NEW a \in RunIds, NEW b \in RunIds, NEW r \in Repos, a # b,
               Completed(a, r)', Completed(b, r)'
        PROVE  apart(a, b, r)
    <3>1. CASE Completed(a, r) /\ Completed(b, r)
      BY <1>3, <2>2, <3>1 DEF IntervalInvariant, ScansRespectInterval, Completed
    <3>2. CASE ~ Completed(a, r)
      BY <2>1, <2>2, <3>2
    <3>3. CASE ~ Completed(b, r)
      BY <2>1, <2>2, <3>3
    <3>4. QED
      BY <3>1, <3>2, <3>3
  <2>3. QED
    BY <2>2 DEF ScansRespectInterval, Completed
<1>9. QED
  BY <1>1, <1>5, <1>7, <1>8 DEF IntervalInvariant

\* ScansRespectInterval: with one worker and without forced rescans two
\* completed extractions of a repository begin further apart than
\* min_scan_interval_hours (should_scan_repository), whatever fails or is
\* killed in between; where workers overlap they need not.
THEOREM IntervalIsRespected ==
  ASSUME AtMostOneWorker, "force" \notin Disturbances
  PROVE  Spec => []ScansRespectInterval
<1>1. Init => IntervalInvariant
  BY InitHistory DEF Init, IntervalInvariant, Distance, StampsCover, ScansRespectInterval,
     Completed, NoMetric, InMetric
<1>2. RunInvariant /\ IntervalInvariant /\ [Next]_vars => IntervalInvariant'
  BY IntervalStep
<1>3. IntervalInvariant => ScansRespectInterval
  BY DEF IntervalInvariant
<1>4. QED
  BY <1>1, <1>2, <1>3, Invariance, PTL DEF Spec

-----------------------------------------------------------------------------
(* One scope: what a digest calls retired was listed there.                *)

OneScope == \A p \in Platforms : Len(ScopesOf[p]) <= 1

ListedIn(s) == UNION {{l[i] : i \in DOMAIN l} : l \in Listings[s]}

\* A worker is in the scope of its platform and holds one of its listings,
\* and its run says so.
InItsScope(w) ==
  /\ pc[w] \in InScope => platform[w] \in Platforms /\ scopes[w] = ScopesOf[platform[w]]
  /\ pc[w] \in InRun \cup {"start_run"} => listing[w] \in Listings[Head(scopes[w])]
  /\ pc[w] \in InRun => /\ runs[run[w]].scope = Head(scopes[w])
                        /\ runs[run[w]].platform = platform[w]

\* Repositories with a metric were listed in the scope of the run.
MembersInScope ==
  \A id \in RunIds, r \in Repos : metrics[id][r].status # "absent" =>
    /\ runs[id].scope = Head(ScopesOf[runs[id].platform])
    /\ r \in ListedIn(runs[id].scope)

ScopeInvariant ==
  /\ Places
  /\ StampsBelow /\ DigestsFit /\ DigestsCurrent
  /\ \A w \in Workers : InItsScope(w)
  /\ MembersInScope
  /\ RetiredWithinScope

\* A row keeps its platform and its scope.
LEMMA RowsKeepScope ==
  ASSUME RunInvariant, [Next]_vars, NEW id \in RunIds, runs[id].status # "absent"
  PROVE  runs'[id].scope = runs[id].scope /\ runs'[id].platform = runs[id].platform
<1>1. TypeOK
  BY DEF RunInvariant
<1>2. CASE runs' = runs
  BY <1>2
<1>3. CASE runs' # runs
  <2>1. PICK w \in Workers : WorkerStep(w)
    BY <1>3 DEF Next, vars, tables, Request, Tick, ForceRescan, Backfill, Kill, StartTask
  <2>2. CASE StartRun(w) \/ RecordTaskFailure(w)
    <3>1. PICK i \in RunIds : \E row : runs[i].status = "absent" /\ runs' = [runs EXCEPT ![i] = row]
      BY <1>3, <2>2 DEF StartRun, RecordTaskFailure
    <3>2. QED
      BY <1>1, <3>1 DEF TypeOK
  <2>3. CASE BeginRepo(w) \/ EndRepo(w)
    <3>1. run[w] \in RunIds
      BY <2>3 DEF BeginRepo, EndRepo, RunInvariant, OwnRun, InRun
    <3>2. ASSUME NEW n, NEW r, SetProgress(run[w], n, r)
          PROVE  runs'[id].scope = runs[id].scope /\ runs'[id].platform = runs[id].platform
      BY <1>1, <3>1, <3>2 DEF SetProgress, TypeOK, RunRow
    <3>3. QED
      BY <1>3, <2>3, <3>2 DEF BeginRepo, EndRepo
  <2>4. CASE CompleteRun(w) \/ FailRun(w)
    <3>1. run[w] \in RunIds /\ runs[run[w]] \in RunRow
      BY <1>1, <2>4 DEF CompleteRun, FailRun, RunInvariant, OwnRun, InRun, TypeOK
    <3>2. PICK st \in {"completed", "failed"} :
            runs' = [runs EXCEPT ![run[w]] = Ended(runs[run[w]], st)]
      BY <1>1, <1>3, <2>4, <3>1 DEF CompleteRun, FailRun, TypeOK
    <3>3. QED
      BY <1>1, <3>1, <3>2 DEF Ended, RunRow, TypeOK
  <2>5. QED
    BY <1>3, <2>1, <2>2, <2>3, <2>4 DEF WorkerStep, StoreScope,
       ListRepositories, CheckInterval, StoreRepo, StartMetric, ExtractContent,
       StampAnalyzed, CompleteMetric, FailMetric, FinishTask, tables
<1>4. QED
  BY <1>2, <1>3

\* Another worker's step leaves a worker in its scope.
LEMMA OthersInScope ==
  ASSUME RunInvariant, [Next]_vars, NEW v \in Workers, InItsScope(v),
         pc'[v] = pc[v], scopes'[v] = scopes[v], run'[v] = run[v], listing'[v] = listing[v],
         platform'[v] = platform[v]
  PROVE  InItsScope(v)'
<1>1. CASE pc[v] \in InRun
  <2>1. run[v] \in RunIds /\ runs[run[v]].status = "running"
    BY <1>1 DEF RunInvariant, OwnRun
  <2>2. PICK id \in RunIds : id = run[v]
    BY <2>1
  <2>3. runs'[id].scope = runs[id].scope /\ runs'[id].platform = runs[id].platform
    BY <2>1, <2>2, RowsKeepScope
  <2>4. QED
    BY <2>2, <2>3 DEF InItsScope
<1>2. CASE pc[v] \notin InRun
  BY <1>2 DEF InItsScope
<1>3. QED
  BY <1>1, <1>2

\* A worker leaves its only scope for the summary.
LEMMA LeavesForSummary ==
  ASSUME RunInvariant, OneScope, NEW w \in Workers, InItsScope(w), pc[w] \in InScope,
         LeaveScope(w)
  PROVE  pc'[w] = "summary"
<1>1. /\ scopes[w] = ScopesOf[platform[w]] /\ scopes[w] # <<>> /\ platform[w] \in Platforms
      /\ scopes[w] \in Seq(Scopes) /\ pc \in [Workers -> Labels]
  BY DEF InItsScope, RunInvariant, HasScope, TypeOK
<1>2. Len(scopes[w]) = 1
  <2>1. Len(scopes[w]) \in Nat /\ Len(scopes[w]) # 0
    BY <1>1, EmptySeq
  <2>2. Len(scopes[w]) <= 1
    BY <1>1 DEF OneScope
  <2>3. \A n \in Nat : n # 0 /\ n <= 1 => n = 1
    OBVIOUS
  <2>4. QED
    BY <2>1, <2>2, <2>3
<1>3. QED
  BY <1>1, <1>2 DEF LeaveScope, Goto

\* A worker's own step leaves it in its scope, or out of it.
LEMMA SelfInScope ==
  ASSUME RunInvariant, OneScope, NEW w \in Workers, InItsScope(w), WorkerStep(w)
  PROVE  InItsScope(w)'
<1> USE DEF tables, locals
<1>1. TypeOK /\ OwnRun(w) /\ HasScope(w) /\ [Next]_vars
  BY DEF RunInvariant, Next
<1>2. CASE ListRepositories(w)
  <2>1. pc[w] = "list" /\ pc[w] \in InScope
    BY <1>2 DEF ListRepositories, InScope
  <2>2. CASE LeaveScope(w)
    BY <2>1, <2>2, LeavesForSummary DEF InItsScope, InScope, InRun
  <2>3. CASE Goto(w, "record")
    BY <1>1, <2>3 DEF Goto, InItsScope, InScope, InRun, TypeOK
  <2>4. CASE /\ \E l \in Listings[Head(scopes[w])] : listing' = [listing EXCEPT ![w] = l]
             /\ Goto(w, "start_run")
             /\ UNCHANGED <<platform, scopes, run, index, step, since>>
    BY <1>1, <2>1, <2>4 DEF Goto, InItsScope, InScope, InRun, TypeOK
  <2>5. QED
    BY <1>2, <2>2, <2>3, <2>4 DEF ListRepositories
<1>3. CASE StartRun(w)
  <2>1. pc[w] = "start_run" /\ pc[w] \in InScope
    BY <1>3 DEF StartRun, InScope
  <2>2. CASE Goto(w, "record")
    BY <1>1, <2>2 DEF Goto, InItsScope, InScope, InRun, TypeOK
  <2>3. CASE ~ Goto(w, "record")
    <3>1. PICK id \in RunIds :
            /\ runs' = [runs EXCEPT ![id] = [NoRow EXCEPT !.status = "running",
                                                        !.platform = platform[w],
                                                        !.scope = Head(scopes[w]),
                                                        !.total = Len(listing[w])]]
            /\ run' = [run EXCEPT ![w] = id]
            /\ UNCHANGED <<platform, scopes, listing>>
      BY <1>3, <2>3 DEF StartRun
    <3>2. /\ run'[w] = id /\ runs'[id].scope = Head(scopes[w])
          /\ runs'[id].platform = platform[w]
      BY <1>1, <3>1 DEF NoRow, TypeOK
    <3>3. QED
      BY <2>1, <3>1, <3>2 DEF InItsScope
  <2>4. QED
    BY <2>2, <2>3
<1>4. CASE CompleteRun(w)
  <2>1. pc[w] \in InScope
    BY <1>4 DEF CompleteRun, InScope, InRun
  <2>2. CASE LeaveScope(w)
    BY <2>1, <2>2, LeavesForSummary DEF InItsScope, InScope, InRun
  <2>3. CASE Goto(w, "record")
    BY <1>1, <2>3 DEF Goto, InItsScope, InScope, InRun, TypeOK
  <2>4. QED
    BY <1>4, <2>2, <2>3 DEF CompleteRun
<1>5. CASE FinishTask(w) \/ RecordTaskFailure(w) \/ FailRun(w)
  <2>1. pc'[w] \in {"idle", "record"}
    BY <1>1, <1>5 DEF FinishTask, RecordTaskFailure, FailRun, Goto, TypeOK
  <2>2. QED
    BY <2>1 DEF InItsScope, InScope, InRun
<1>6. CASE StoreScope(w)
  <2>1. /\ pc[w] = "scope" /\ pc'[w] \in {"list", "record"} /\ scopes' = scopes
        /\ platform' = platform
    BY <1>1, <1>6 DEF StoreScope, Goto, TypeOK
  <2>2. QED
    BY <2>1 DEF InItsScope, InScope, InRun
<1>7. CASE \/ BeginRepo(w) \/ CheckInterval(w) \/ StoreRepo(w) \/ StartMetric(w)
           \/ ExtractContent(w) \/ StampAnalyzed(w) \/ CompleteMetric(w)
           \/ FailMetric(w) \/ EndRepo(w)
  <2>1. pc[w] \in InRun /\ UNCHANGED <<platform, scopes, run, listing>>
    BY <1>7 DEF BeginRepo, CheckInterval, StoreRepo, StartMetric, ExtractContent,
       StampAnalyzed, CompleteMetric, FailMetric, EndRepo, InRun
  <2>2. PICK id \in RunIds : id = run[w] /\ runs[id].status = "running"
    BY <1>1, <2>1 DEF OwnRun
  <2>3. runs'[id].scope = runs[id].scope /\ runs'[id].platform = runs[id].platform
    BY <1>1, <2>2, RowsKeepScope
  <2>4. pc[w] \in InScope
    BY <2>1 DEF InScope
  <2>5. QED
    BY <2>1, <2>2, <2>3, <2>4 DEF InItsScope
<1>8. QED
  BY <1>2, <1>3, <1>4, <1>5, <1>6, <1>7 DEF WorkerStep

\* Metrics are added for repositories of the worker's listing only.
LEMMA MembersStep ==
  ASSUME RunInvariant, ScopeInvariant, [Next]_vars
  PROVE  MembersInScope'
<1>1. /\ TypeOK /\ Places /\ MembersInScope
      /\ RunInvariant' /\ \A id \in RunIds, r \in Repos : Advances(id, r)
  BY NextInvariant, PlacesStep DEF RunInvariant, ScopeInvariant
<1>2. ASSUME NEW id \in RunIds, NEW r \in Repos, metrics'[id][r].status # "absent"
      PROVE  /\ runs'[id].scope = Head(ScopesOf[runs'[id].platform])
             /\ r \in ListedIn(runs'[id].scope)
  <2>1. CASE metrics[id][r].status # "absent"
    <3>1. runs[id].status # "absent"
      BY <2>1 DEF RunInvariant, RowIsConsistent
    <3>2. runs'[id].scope = runs[id].scope /\ runs'[id].platform = runs[id].platform
      BY <3>1, RowsKeepScope
    <3>3. QED
      BY <1>1, <2>1, <3>2 DEF MembersInScope
  <2>2. CASE metrics[id][r].status = "absent"
    <3>1. metrics' # metrics
      BY <1>2, <2>2
    <3>2. PICK w \in Workers : WorkerStep(w)
      BY <3>1 DEF Next, vars, tables, Request, Tick, ForceRescan, Backfill, Kill, StartTask
    <3>3. \/ CheckInterval(w) \/ StartMetric(w) \/ CompleteMetric(w) \/ FailMetric(w)
      BY <3>1, <3>2 DEF WorkerStep, StoreScope, ListRepositories, StartRun,
         BeginRepo, StoreRepo, ExtractContent, StampAnalyzed, EndRepo, CompleteRun,
         FailRun, FinishTask, RecordTaskFailure, tables
    <3>4. pc[w] \in AtRepo /\ pc[w] \in InRun /\ pc[w] \in InScope
      BY <3>3 DEF CheckInterval, StartMetric, CompleteMetric, FailMetric, AtRepo, InRun, InScope
    <3>5. id = run[w] /\ r = CurrentRepo(w)
      <4>1. OwnMetricOnly(w)
        BY <1>1, <3>1, <3>2, WorkerEffect DEF Effect
      <4>2. QED
        BY <1>2, <2>2, <4>1 DEF OwnMetricOnly
    <3>6. /\ runs[id].scope = Head(scopes[w]) /\ runs[id].platform = platform[w]
          /\ scopes[w] = ScopesOf[platform[w]]
          /\ listing[w] \in Listings[Head(scopes[w])]
      BY <3>4, <3>5 DEF ScopeInvariant, InItsScope
    <3>7. index[w] \in DOMAIN listing[w]
      BY <1>1, <3>4 DEF RunInvariant, OwnRun, TypeOK
    <3>8. r \in ListedIn(runs[id].scope)
      BY <3>5, <3>6, <3>7 DEF ListedIn, CurrentRepo
    <3>9. runs'[id].scope = runs[id].scope /\ runs'[id].platform = runs[id].platform
      <4>1. runs[id].status # "absent"
        BY <3>4, <3>5 DEF RunInvariant, OwnRun
      <4>2. QED
        BY <4>1, RowsKeepScope
    <3>10. QED
      BY <3>6, <3>8, <3>9
  <2>3. QED
    BY <2>1, <2>2
<1>3. QED
  BY <1>2 DEF MembersInScope, ListedIn

\* The run before, on the same platform, was of the same scope.
LEMMA RetiredStep ==
  ASSUME RunInvariant, ScopeInvariant, MembersInScope', DigestsFit', [Next]_vars
  PROVE  RetiredWithinScope'
<1>1. TypeOK /\ TypeOK' /\ DigestsFit
  BY NextInvariant DEF RunInvariant, ScopeInvariant
<1>2. ASSUME NEW id \in RunIds, runs'[id].status = "completed"
      PROVE  summaries'[id].retired \subseteq ListedIn(runs'[id].scope)
  <2>1. runs'[id].status = "completed"
    BY <1>2
  <2>2. CASE runs[id].status = "completed"
    <3>1. runs[id].ended > 0 /\ summaries[id] # None
      BY <1>1, <2>2 DEF RunInvariant, RowIsConsistent, DigestsFit, DigestFits
    <3>2. runs'[id] = runs[id]
      BY <3>1, EndedRowStays
    <3>3. CASE Backfill
      <4>1. summaries'[id] = SummaryRow(runs, metrics, dependencies, id)
        BY <1>1, <3>1, <3>3, BackfillIsSummary
           DEF Backfill, BackfilledRuns, TypeOK
      <4>2. summaries'[id].retired = summaries[id].retired
        BY <3>1, <4>1 DEF ScopeInvariant, DigestsCurrent, Stands
      <4>3. QED
        BY <2>2, <3>2, <4>2 DEF ScopeInvariant, RetiredWithinScope, ListedIn
    <3>4. CASE ~ Backfill
      <4>1. summaries'[id] = summaries[id]
        BY <3>1, <3>4, EndedStaysEnded DEF Untouched
      <4>2. QED
        BY <2>2, <3>2, <4>1 DEF ScopeInvariant, RetiredWithinScope, ListedIn
    <3>5. QED
      BY <3>3, <3>4
  <2>3. CASE runs[id].status # "completed"
    <3>1. PICK w \in Workers : /\ CompleteRun(w) /\ id = run[w]
                               /\ metrics' = metrics
                               /\ runs'[id].scope = runs[id].scope
                               /\ runs'[id].platform = runs[id].platform
                               /\ summaries'[id] = SummaryRow(runs', metrics, dependencies, id)
      BY <2>1, <2>3, CompletedBy
    <3>2. runs'[id].scope = Head(ScopesOf[runs'[id].platform])
      <4>1. pc[w] \in InRun /\ pc[w] \in InScope
        BY <3>1 DEF CompleteRun, InRun, InScope
      <4>2. QED
        BY <3>1, <4>1 DEF ScopeInvariant, InItsScope
    <3>3. ASSUME NEW r \in SummaryRow(runs', metrics, dependencies, id).retired
          PROVE  r \in ListedIn(runs'[id].scope)
      <4>1. PICK p \in PreviousRun(runs', id) : r \in Membership(metrics, p)
        BY <3>3 DEF SummaryRow
      <4>2. p \in RunIds /\ runs'[p].platform = runs'[id].platform
        BY <1>1, <4>1 DEF PreviousRun, TypeOK
      <4>3. r \in Repos /\ metrics'[p][r].status # "absent"
        BY <1>1, <3>1, <4>1, <4>2 DEF Membership, TypeOK
      <4>4. /\ runs'[p].scope = Head(ScopesOf[runs'[p].platform])
            /\ r \in ListedIn(runs'[p].scope)
        BY <4>2, <4>3 DEF MembersInScope, ListedIn
      <4>5. QED
        BY <3>2, <4>2, <4>4
    <3>4. QED
      BY <3>1, <3>3
  <2>4. QED
    BY <2>2, <2>3
<1>3. QED
  BY <1>2 DEF RetiredWithinScope, ListedIn

LEMMA ScopeStep ==
  ASSUME RunInvariant, ScopeInvariant, OneScope, [Next]_vars
  PROVE  ScopeInvariant'
<1>1. /\ RunInvariant' /\ TypeOK /\ Places'
      /\ StampsBelow' /\ DigestsFit' /\ DigestsCurrent'
      /\ \A w \in Workers : InItsScope(w)
  BY NextInvariant, PlacesStep, StampsStep, DigestStep, DigestsCurrentStep
     DEF RunInvariant, ScopeInvariant
<1>2. MembersInScope' /\ RetiredWithinScope'
  BY <1>1, MembersStep, RetiredStep
<1>3. ASSUME NEW v \in Workers PROVE InItsScope(v)'
  <2> DEFINE same(u) == /\ pc'[u] = pc[u] /\ scopes'[u] = scopes[u] /\ run'[u] = run[u]
                        /\ listing'[u] = listing[u] /\ platform'[u] = platform[u]
  <2>1. CASE same(v)
    BY <1>1, <2>1, OthersInScope
  <2>2. CASE WorkerStep(v)
    BY <1>1, <2>2, SelfInScope
  <2>3. CASE Kill(v)
    <3>1. pc'[v] = "idle"
      BY <1>1, <2>3 DEF Kill, Goto, TypeOK
    <3>2. QED
      BY <3>1 DEF InItsScope, InScope, InRun
  <2>4. ASSUME NEW p \in Platforms, StartTask(v, p) PROVE InItsScope(v)'
    <3>1. /\ platform'[v] = p /\ pc'[v] \in {"summary", "scope", "record"}
          /\ pc'[v] # "record" => scopes'[v] = ScopesOf[p]
      BY <1>1, <2>4 DEF StartTask, Goto, TypeOK
    <3>2. QED
      BY <3>1 DEF InItsScope, InScope, InRun
  <2>5. ASSUME NEW w \in Workers, w # v, WorkerStep(w) PROVE same(v)
    BY <1>1, <2>5 DEF WorkerStep, StoreScope, ListRepositories, StartRun, BeginRepo,
       CheckInterval, StoreRepo, StartMetric, ExtractContent, StampAnalyzed,
       CompleteMetric, FailMetric, EndRepo, CompleteRun, FailRun, FinishTask,
       RecordTaskFailure, LeaveScope, ClearLocals, Goto, locals, TypeOK
  <2>6. ASSUME NEW w \in Workers, w # v, Kill(w) \/ \E p \in Platforms : StartTask(w, p)
        PROVE  same(v)
    BY <1>1, <2>6 DEF Kill, StartTask, ClearLocals, Goto, TypeOK
  <2>7. CASE \/ UNCHANGED vars
             \/ \E p \in Platforms : Request(p)
             \/ Tick
             \/ Backfill
             \/ \E r \in Repos : ForceRescan(r)
    BY <2>1, <2>7 DEF vars, locals, Request, Tick, ForceRescan, Backfill
  <2> HIDE DEF same
  <2>8. CASE \E w \in Workers : WorkerStep(w)
    BY <2>1, <2>2, <2>5, <2>8
  <2>9. CASE \E w \in Workers : Kill(w) \/ \E p \in Platforms : StartTask(w, p)
    BY <2>1, <2>3, <2>4, <2>6, <2>9
  <2>10. QED
    BY <2>7, <2>8, <2>9 DEF Next
<1>4. QED
  BY <1>1, <1>2, <1>3 DEF ScopeInvariant

\* RetiredWithinScope: where every platform has one scope at most, the digest of
\* a completed run calls only repositories retired that its scope has listed
\* (upsert_scan_summary_for_run); with two, the run before is another scope's.
THEOREM RetiredWereListed ==
  ASSUME OneScope
  PROVE  Spec => []RetiredWithinScope
<1>1. Init => ScopeInvariant
  <2> SUFFICES ASSUME Init PROVE ScopeInvariant
    OBVIOUS
  <2>1. StampsBelow
    <3>1. EndStamp \in Nat \ {0}
      BY InitInvariant, EndStampType DEF RunInvariant
    <3>2. QED
      BY <3>1 DEF Init, StampsBelow, NoRow
  <2>2. QED
    BY <2>1, InitHistory DEF Init, History, ScopeInvariant, InItsScope,
       MembersInScope, RetiredWithinScope, DigestsFit, DigestFits,
       DigestsCurrent, NoRow, NoMetric, InScope, InRun
<1>2. RunInvariant /\ ScopeInvariant /\ [Next]_vars => ScopeInvariant'
  BY ScopeStep
<1>3. ScopeInvariant => RetiredWithinScope
  BY DEF ScopeInvariant
<1>4. QED
  BY <1>1, <1>2, <1>3, Invariance, PTL DEF Spec

=============================================================================
