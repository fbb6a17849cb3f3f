-------------------------- MODULE Extraction_proofs --------------------------
(***************************************************************************)
(* The inductive invariant of Extraction, for any set of workers, scopes,  *)
(* repositories and requests, and the refinement of RunLifecycle.          *)
(***************************************************************************)
EXTENDS Extraction, FiniteSetTheorems, SequenceTheorems, TLAPS

USE ConstantsAssumption DEF ConstantsAssumption

\* A row that ends gets a completed_at after all others.
LEMMA EndStampType ==
  ASSUME TypeOK
  PROVE  EndStamp \in Nat \ {0}
<1>1. IsFiniteSet({id \in RunIds : runs[id].ended > 0})
  BY FS_Subset, IsFiniteSet(RunIds)
<1>2. Cardinality({id \in RunIds : runs[id].ended > 0}) \in Nat
  BY <1>1, FS_CardinalityType
<1>3. QED
  BY <1>2 DEF EndStamp

\* New libraries are libraries of repositories, whatever they are counted for.
LEMMA LibrariesType ==
  ASSUME TypeOK, NEW rr, NEW id, NEW current, NEW previous
  PROVE  NewLibraries(rr, dependencies, id, current, previous)
           \subseteq Repos \X Libraries
<1>1. DOMAIN dependencies = Repos \X Libraries
  BY DEF TypeOK
<1>2. QED
  BY <1>1 DEF NewLibraries

LEMMA MembershipType ==
  ASSUME TypeOK, NEW p \in RunIds
  PROVE  Membership(metrics, p) = {r \in Repos : metrics[p][r].status # "absent"}
BY DEF Membership, TypeOK

\* A digest counts repositories, and their libraries, only.
LEMMA DigestType ==
  ASSUME TypeOK, NEW rr, NEW id \in RunIds, DOMAIN rr = RunIds
  PROVE  SummaryRow(rr, metrics, dependencies, id) \in Digest
<1> DEFINE current   == Membership(metrics, id)
           previous  == UNION {Membership(metrics, p) : p \in PreviousRun(rr, id)}
           libraries == NewLibraries(rr, dependencies, id, current, PreviousRun(rr, id))
<1>1. current \subseteq Repos
  BY MembershipType
<1>2. PreviousRun(rr, id) \subseteq RunIds
  BY DEF PreviousRun
<1>3. previous \subseteq Repos
  BY <1>2, MembershipType
<1>4. libraries \subseteq Repos \X Libraries
  BY LibrariesType
<1>5. Vulnerable(dependencies, libraries) \subseteq Repos \X Libraries
  BY <1>4 DEF Vulnerable
<1>6. SummaryRow(rr, metrics, dependencies, id) =
        [scanned |-> current, new |-> current \ previous,
         retired |-> previous \ current, libraries |-> libraries,
         vulnerabilities |-> Vulnerable(dependencies, libraries)]
  BY DEF SummaryRow
<1> HIDE DEF current, previous, libraries
<1>7. QED
  BY <1>1, <1>3, <1>4, <1>5, <1>6 DEF Digest

LEMMA BackfillType ==
  ASSUME TypeOK, NEW id \in RunIds
  PROVE  BackfillRow(runs, metrics, dependencies, id) \in Digest
<1> DEFINE peers     == {p \in DOMAIN runs : /\ runs[p].platform = runs[id].platform
                                             /\ runs[p].ended > 0}
           lag       == {p \in peers :
                           Cardinality({q \in peers : runs[q].ended < runs[id].ended})
                           = Cardinality({q \in peers : runs[q].ended <= runs[p].ended})}
           current   == Membership(metrics, id)
           previous  == UNION {Membership(metrics, p) : p \in lag}
           libraries == NewLibraries(runs, dependencies, id, current, lag)
<1>1. current \subseteq Repos
  BY MembershipType
<1>2. lag \subseteq RunIds
  <2>1. peers \subseteq RunIds
    BY DEF TypeOK
  <2> HIDE DEF peers
  <2>2. QED
    BY <2>1
<1>3. previous \subseteq Repos
  <2> HIDE DEF lag
  <2>1. QED
    BY <1>2, MembershipType
<1>4. libraries \subseteq Repos \X Libraries
  <2> HIDE DEF lag, current
  <2>1. QED
    BY LibrariesType
<1>5. Vulnerable(dependencies, libraries) \subseteq Repos \X Libraries
  BY <1>4 DEF Vulnerable
<1>6. BackfillRow(runs, metrics, dependencies, id) =
        [scanned |-> current, new |-> {r \in current : r \notin previous},
         retired |-> {r \in previous : r \notin current}, libraries |-> libraries,
         vulnerabilities |-> Vulnerable(dependencies, libraries)]
  BY DEF BackfillRow
<1> HIDE DEF peers, lag, current, previous, libraries
<1>7. QED
  BY <1>1, <1>3, <1>4, <1>5, <1>6 DEF Digest

\* The initial state satisfies the invariant.
LEMMA InitInvariant == Init => RunInvariant
<1> SUFFICES ASSUME Init PROVE RunInvariant
  OBVIOUS
<1> USE DEF Init
<1>1. TypeOK
  BY EmptySeq
     DEF TypeOK, RunRow, NoRow, NoMetric, NoLibrary, RunStatus, MetricStatus, Labels
<1>2. \A w \in Workers : HasScope(w) /\ OwnRun(w) /\ OpenMetricIsCurrent(w)
  BY DEF HasScope, OwnRun, OpenMetricIsCurrent, InScope, InRun
<1>3. RunsHaveOneWriter /\ CompletedRunsAreWhole
  BY DEF RunsHaveOneWriter, CompletedRunsAreWhole, InRun, NoRow
<1>4. \A id \in RunIds : RowIsConsistent(id)
  BY DEF RowIsConsistent, NoRow, NoMetric
<1>5. QED
  BY <1>1, <1>2, <1>3, <1>4 DEF RunInvariant

\* Reading a worker's current repository.
LEMMA CurrentRepoType ==
  ASSUME RunInvariant, NEW w \in Workers, pc[w] \in AtRepo
  PROVE  /\ CurrentRepo(w) \in Repos
         /\ run[w] \in RunIds
BY DEF RunInvariant, TypeOK, OwnRun, AtRepo, InRun, CurrentRepo

\* A step of w that leaves the other workers' runs alone.
OthersKeep(w) ==
  \A v \in Workers \ {w} : /\ pc'[v] = pc[v]
                           /\ scopes'[v] = scopes[v]
                           /\ run'[v] = run[v]
                           /\ listing'[v] = listing[v]
                           /\ index'[v] = index[v]

SelfKeeps(w) ==
  run'[w] = run[w] /\ listing'[w] = listing[w] /\ index'[w] = index[w]

\* Steps that leave the workers and both tables alone.
LEMMA KeepEverything ==
  ASSUME RunInvariant, TypeOK',
         UNCHANGED <<runs, metrics, pc, scopes, run, listing, index>>
  PROVE  RunInvariant'
<1>1. \A v \in Workers : HasScope(v)' /\ OwnRun(v)'
  BY DEF RunInvariant, HasScope, OwnRun
<1>2. RunsHaveOneWriter'
  BY DEF RunInvariant, RunsHaveOneWriter
<1>3. \A v \in Workers : OpenMetricIsCurrent(v)'
  BY DEF RunInvariant, OpenMetricIsCurrent, CurrentRepo
<1>4. (\A id \in RunIds : RowIsConsistent(id)') /\ CompletedRunsAreWhole'
  BY DEF RunInvariant, RowIsConsistent, CompletedRunsAreWhole
<1>5. QED
  BY <1>1, <1>2, <1>3, <1>4 DEF RunInvariant

\* Steps of a worker that write to neither table: it leaves its run behind,
\* or moves on in it without leaving an open metric.
LEMMA MoveOn ==
  ASSUME RunInvariant, TypeOK', NEW w \in Workers,
         UNCHANGED <<runs, metrics>>, OthersKeep(w),
         pc'[w] \in InScope => scopes'[w] # <<>>,
         \/ pc'[w] \notin InRun
         \/ /\ pc[w] \in InRun \ {"fail_run"}
            /\ SelfKeeps(w)
            /\ pc'[w] \in AtRepo => pc[w] \in AtRepo
            /\ pc[w] \in InMetric => pc'[w] \in InMetric \cup {"fail_run"}
  PROVE  RunInvariant'
<1>1. ASSUME NEW v \in Workers PROVE OwnRun(v)'
  <2>1. CASE v # w
    BY <2>1 DEF RunInvariant, OwnRun, OthersKeep
  <2>2. CASE v = w
    BY <2>2 DEF RunInvariant, OwnRun, SelfKeeps
  <2>3. QED
    BY <2>1, <2>2
<1>2. \A v \in Workers : HasScope(v)'
  BY DEF RunInvariant, HasScope, OthersKeep
<1>3. RunsHaveOneWriter'
  BY DEF RunInvariant, RunsHaveOneWriter, OthersKeep, SelfKeeps
<1>4. ASSUME NEW v \in Workers PROVE OpenMetricIsCurrent(v)'
  <2>1. CASE v # w
    <3>1. /\ pc'[v] = pc[v]
          /\ CurrentRepo(v)' = CurrentRepo(v)
          /\ metrics'[run'[v]] = metrics[run[v]]
      BY <2>1 DEF OthersKeep, CurrentRepo
    <3>2. QED
      BY <3>1 DEF RunInvariant, OpenMetricIsCurrent
  <2>2. CASE v = w /\ pc'[w] \in InRun \ {"fail_run"}
    <3>1. SelfKeeps(w) /\ pc[w] \in InRun \ {"fail_run"}
      BY <2>2
    <3>2. pc[w] \in InMetric => pc'[w] \in InMetric
      BY <2>2
    <3>3. CurrentRepo(w)' = CurrentRepo(w) /\ metrics'[run'[w]] = metrics[run[w]]
      BY <3>1 DEF SelfKeeps, CurrentRepo
    <3>4. QED
      BY <2>2, <3>1, <3>2, <3>3 DEF RunInvariant, OpenMetricIsCurrent
  <2>3. CASE v = w /\ pc'[w] \notin InRun \ {"fail_run"}
    BY <2>3 DEF OpenMetricIsCurrent
  <2>4. QED
    BY <2>1, <2>2, <2>3
<1>5. (\A id \in RunIds : RowIsConsistent(id)') /\ CompletedRunsAreWhole'
  BY DEF RunInvariant, RowIsConsistent, CompletedRunsAreWhole
<1>6. QED
  BY <1>2, <1>1, <1>3, <1>4, <1>5 DEF RunInvariant

LEMMA StampAnalyzedStep ==
  ASSUME RunInvariant, NEW w \in Workers, StampAnalyzed(w)
  PROVE  RunInvariant'
<1>1. CurrentRepo(w) \in Repos
  BY CurrentRepoType DEF StampAnalyzed, AtRepo, InRun
<1>2. TypeOK'
  <2>1. pc' \in [Workers -> Labels]
    <3>1. pc \in [Workers -> Labels]
      BY DEF RunInvariant, TypeOK
    <3>2. {"complete_metric", "fail_metric"} \subseteq Labels
      BY DEF Labels, InRun
    <3>3. \E l \in {"complete_metric", "fail_metric"} : pc' = [pc EXCEPT ![w] = l]
      BY DEF StampAnalyzed, Goto
    <3>4. QED
      BY <3>1, <3>2, <3>3
  <2>2. lastAnalyzed' \in [Repos -> Nat \cup {None}]
    BY <1>1 DEF StampAnalyzed, RunInvariant, TypeOK
  <2>3. QED
    BY <2>1, <2>2 DEF StampAnalyzed, locals, RunInvariant, TypeOK
<1>3. /\ pc[w] = "stamp" /\ pc'[w] \in {"complete_metric", "fail_metric"}
      /\ \A v \in Workers \ {w} : pc'[v] = pc[v]
  <2>1. pc \in [Workers -> Labels]
    BY DEF RunInvariant, TypeOK
  <2>2. pc[w] = "stamp" /\ \E l \in {"complete_metric", "fail_metric"} : pc' = [pc EXCEPT ![w] = l]
    BY DEF StampAnalyzed, Goto
  <2>3. QED
    BY <2>1, <2>2
<1>4. UNCHANGED <<runs, metrics, scopes, run, listing, index>>
  BY DEF StampAnalyzed, locals
<1>5. OthersKeep(w) /\ SelfKeeps(w)
  BY <1>3, <1>4 DEF OthersKeep, SelfKeeps
<1>6. scopes'[w] # <<>>
  <2>1. pc[w] \in InScope
    BY <1>3 DEF InScope, InRun
  <2>2. QED
    BY <1>4, <2>1 DEF RunInvariant, HasScope
<1>7. /\ pc[w] \in InRun \ {"fail_run"} /\ pc[w] \in AtRepo
      /\ pc'[w] \in InMetric
  BY <1>3 DEF InRun, AtRepo, InMetric
<1>8. QED
  BY <1>2, <1>4, <1>5, <1>6, <1>7, MoveOn

\* Requests, time, forced rescans and backfills.
LEMMA EnvironmentStep ==
  ASSUME RunInvariant,
         \/ \E p \in Platforms : Request(p)
         \/ Tick
         \/ \E r \in Repos : ForceRescan(r)
         \/ Backfill
  PROVE  RunInvariant'
<1> USE DEF tables, locals
<1>1. CASE \E p \in Platforms : Request(p)
  <2>1. TypeOK'
    BY <1>1 DEF Request, RunInvariant, TypeOK
  <2>2. QED
    BY <1>1, <2>1, KeepEverything DEF Request
<1>2. CASE Tick
  <2>1. TypeOK'
    BY <1>2 DEF Tick, RunInvariant, TypeOK
  <2>2. QED
    BY <1>2, <2>1, KeepEverything DEF Tick
<1>3. CASE \E r \in Repos : ForceRescan(r)
  <2>1. TypeOK'
    BY <1>3 DEF ForceRescan, RunInvariant, TypeOK
  <2>2. QED
    BY <1>3, <2>1, KeepEverything DEF ForceRescan
<1>4. CASE Backfill
  <2>1. TypeOK
    BY DEF RunInvariant
  <2>2. summaries' \in [RunIds -> Digest \cup {None}]
    BY <1>4, <2>1, BackfillType DEF Backfill, TypeOK
  <2>3. TypeOK'
    BY <1>4, <2>1, <2>2 DEF Backfill, TypeOK
  <2>4. QED
    BY <1>4, <2>3, KeepEverything DEF Backfill
<1>5. QED
  BY <1>1, <1>2, <1>3, <1>4

LEMMA KillStep ==
  ASSUME RunInvariant, NEW w \in Workers, Kill(w)
  PROVE  RunInvariant'
<1> USE DEF Kill, ClearLocals, tables
<1>1. TypeOK'
  <2>1. pc' \in [Workers -> Labels]
    BY DEF Goto, RunInvariant, TypeOK, Labels
  <2>2. /\ platform' \in [Workers -> Platforms \cup {None}]
        /\ scopes' \in [Workers -> Seq(Scopes)]
        /\ run' \in [Workers -> RunIds \cup {None}]
        /\ listing' \in [Workers -> Seq(Repos)]
        /\ index' \in [Workers -> Nat \ {0}]
        /\ step' \in [Workers -> Nat \ {0}]
        /\ since' \in [Workers -> Nat]
    BY EmptySeq DEF RunInvariant, TypeOK
  <2>3. QED
    BY <2>1, <2>2 DEF RunInvariant, TypeOK
<1>2. OthersKeep(w) /\ pc'[w] \notin InRun
    /\ (pc'[w] \in InScope => scopes'[w] # <<>>)
  BY DEF Goto, OthersKeep, InRun, InScope, HasScope, RunInvariant, TypeOK
<1>3. QED
  BY <1>1, <1>2, MoveOn

LEMMA StartTaskStep ==
  ASSUME RunInvariant, NEW w \in Workers, NEW p \in Platforms, StartTask(w, p)
  PROVE  RunInvariant'
<1> USE DEF StartTask, tables
<1>1. TypeOK'
  <2>1. pc' \in [Workers -> Labels]
    BY DEF Goto, RunInvariant, TypeOK, Labels
  <2>2. queue' \in [Platforms -> Nat]
    BY DEF RunInvariant, TypeOK
  <2>3. platform' \in [Workers -> Platforms \cup {None}]
    BY DEF RunInvariant, TypeOK
  <2>4. scopes' \in [Workers -> Seq(Scopes)]
    BY DEF RunInvariant, TypeOK
  <2>5. QED
    BY <2>1, <2>2, <2>3, <2>4 DEF RunInvariant, TypeOK
<1>2. OthersKeep(w) /\ pc'[w] \notin InRun
    /\ (pc'[w] \in InScope => scopes'[w] # <<>>)
  BY DEF Goto, OthersKeep, InRun, InScope, HasScope, RunInvariant, TypeOK
<1>3. QED
  BY <1>1, <1>2, MoveOn

LEMMA StoreScopeStep ==
  ASSUME RunInvariant, NEW w \in Workers, StoreScope(w)
  PROVE  RunInvariant'
<1> USE DEF StoreScope, tables, locals
<1>1. TypeOK'
  <2>1. pc' \in [Workers -> Labels]
    BY DEF Goto, RunInvariant, TypeOK, Labels
  <2>2. QED
    BY <2>1 DEF RunInvariant, TypeOK
<1>2. OthersKeep(w) /\ pc'[w] \notin InRun
    /\ (pc'[w] \in InScope => scopes'[w] # <<>>)
  BY DEF Goto, OthersKeep, InRun, InScope, HasScope, RunInvariant, TypeOK
<1>3. QED
  BY <1>1, <1>2, MoveOn

\* Leaving a scope clears the locals of the run.
LEMMA LeaveScopeType ==
  ASSUME TypeOK, NEW w \in Workers, LeaveScope(w), scopes[w] # <<>>
  PROVE  /\ scopes' \in [Workers -> Seq(Scopes)]
         /\ run' \in [Workers -> RunIds \cup {None}]
         /\ listing' \in [Workers -> Seq(Repos)]
         /\ index' \in [Workers -> Nat \ {0}]
         /\ pc' \in [Workers -> Labels]
         /\ pc'[w] \in {"summary", "scope"}
         /\ pc'[w] \in InScope => scopes'[w] # <<>>
         /\ OthersKeep(w)
<1> USE DEF LeaveScope, Goto, TypeOK
<1>1. scopes' \in [Workers -> Seq(Scopes)]
  <2>1. scopes[w] \in Seq(Scopes) /\ Tail(scopes[w]) \in Seq(Scopes)
    OBVIOUS
  <2>2. QED
    BY <2>1
<1>2. run' \in [Workers -> RunIds \cup {None}]
  OBVIOUS
<1>3. listing' \in [Workers -> Seq(Repos)]
  BY EmptySeq
<1>4. index' \in [Workers -> Nat \ {0}]
  OBVIOUS
<1>5. pc' \in [Workers -> Labels] /\ pc'[w] \in {"summary", "scope"}
  BY DEF Labels
<1>6. pc'[w] \in InScope => scopes'[w] # <<>>
  <2>1. scopes[w] \in Seq(Scopes) /\ scopes'[w] = Tail(scopes[w])
    OBVIOUS
  <2>2. CASE Len(scopes[w]) = 1
    BY <2>2 DEF InScope, InRun
  <2>3. CASE Len(scopes[w]) # 1
    <3>1. Len(scopes'[w]) = Len(scopes[w]) - 1 /\ Len(scopes'[w]) # 0
      BY <2>1, <2>3, HeadTailProperties
    <3>2. QED
      BY <3>1
  <2>4. QED
    BY <2>2, <2>3
<1>7. OthersKeep(w)
  BY DEF OthersKeep
<1>8. QED
  BY <1>1, <1>2, <1>3, <1>4, <1>5, <1>6, <1>7

LEMMA ListRepositoriesStep ==
  ASSUME RunInvariant, NEW w \in Workers, ListRepositories(w)
  PROVE  RunInvariant'
<1> USE DEF tables
<1>1. pc[w] = "list" /\ scopes[w] # <<>> /\ TypeOK
  BY DEF ListRepositories, RunInvariant, HasScope, InScope
<1>2. CASE LeaveScope(w)
  <2>1. TypeOK'
    BY <1>1, <1>2, LeaveScopeType DEF ListRepositories, LeaveScope, TypeOK
  <2>2. QED
    BY <1>1, <1>2, <2>1, LeaveScopeType, MoveOn DEF ListRepositories, InRun
<1>3. CASE ~LeaveScope(w)
  <2>1. pc' \in [Workers -> Labels]
    BY <1>1, <1>3 DEF ListRepositories, Goto, TypeOK, Labels
  <2>2. listing' \in [Workers -> Seq(Repos)]
    <3>1. scopes[w] \in Seq(Scopes) /\ Head(scopes[w]) \in Scopes
      BY <1>1, HeadTailProperties DEF TypeOK
    <3>2. Listings[Head(scopes[w])] \subseteq Seq(Repos)
      BY <3>1
    <3>3. \/ \E l \in Seq(Repos) : listing' = [listing EXCEPT ![w] = l]
          \/ listing' = listing
      BY <1>3, <3>2 DEF ListRepositories, locals
    <3>4. QED
      BY <1>1, <3>3 DEF TypeOK
  <2>3. TypeOK'
    BY <1>1, <1>3, <2>1, <2>2 DEF ListRepositories, locals, TypeOK
  <2>4. OthersKeep(w) /\ pc'[w] \notin InRun /\ scopes'[w] # <<>>
    BY <1>1, <1>3 DEF ListRepositories, Goto, locals, OthersKeep, InRun, TypeOK
  <2>5. QED
    BY <2>3, <2>4, MoveOn DEF ListRepositories
<1>4. QED
  BY <1>2, <1>3

\* The owner of a run writes the metric of its current repository.
LEMMA MetricWrite ==
  ASSUME RunInvariant, TypeOK', NEW w \in Workers, NEW s \in MetricStatus,
         pc[w] \in AtRepo, pc'[w] \in AtRepo,
         s = "started" => pc'[w] \in InMetric,
         UNCHANGED runs, OthersKeep(w), SelfKeeps(w), UNCHANGED scopes,
         \A id \in RunIds, r \in Repos :
           metrics'[id][r].status =
             IF id = run[w] /\ r = CurrentRepo(w) THEN s
                                                  ELSE metrics[id][r].status
  PROVE  RunInvariant'
<1> DEFINE here == CurrentRepo(w)
<1>1. /\ pc[w] \in InRun \ {"fail_run"} /\ pc'[w] \in InRun
      /\ pc[w] \in InScope /\ pc'[w] \in InScope
  BY DEF AtRepo, InRun, InScope
<1>2. here \in Repos /\ run[w] \in RunIds
  BY CurrentRepoType
<1>3. runs[run[w]].status = "running"
  BY <1>1 DEF RunInvariant, OwnRun
<1>4. ASSUME NEW v \in Workers PROVE HasScope(v)' /\ OwnRun(v)'
  <2>1. CASE v # w
    BY <2>1 DEF RunInvariant, HasScope, OwnRun, OthersKeep
  <2>2. CASE v = w
    BY <1>1, <2>2 DEF RunInvariant, HasScope, OwnRun, SelfKeeps
  <2>3. QED
    BY <2>1, <2>2
<1>5. RunsHaveOneWriter'
  BY <1>1 DEF RunInvariant, RunsHaveOneWriter, OthersKeep, SelfKeeps
<1>6. ASSUME NEW v \in Workers PROVE OpenMetricIsCurrent(v)'
  <2>1. CASE v # w /\ pc'[v] \in InRun \ {"fail_run"}
    <3>1. pc'[v] = pc[v] /\ run'[v] = run[v] /\ CurrentRepo(v)' = CurrentRepo(v)
      BY <2>1 DEF OthersKeep, CurrentRepo
    <3>2. run[v] # run[w] /\ run[v] \in RunIds
      BY <1>1, <2>1, <3>1 DEF RunInvariant, RunsHaveOneWriter, OwnRun
    <3>3. \A r \in Repos : metrics'[run'[v]][r].status = metrics[run[v]][r].status
      BY <3>1, <3>2
    <3>4. QED
      BY <2>1, <3>1, <3>3 DEF RunInvariant, OpenMetricIsCurrent
  <2>2. CASE v = w
    <3>1. run'[w] = run[w] /\ CurrentRepo(w)' = here
      BY DEF SelfKeeps, CurrentRepo
    <3>2. \A r \in Repos : r # here => metrics[run[w]][r].status # "started"
      BY <1>1 DEF RunInvariant, OpenMetricIsCurrent
    <3>3. \A r \in Repos : metrics'[run'[w]][r].status = "started"
                             => r = here /\ s = "started"
      BY <1>2, <3>1, <3>2
    <3>4. QED
      BY <2>2, <3>1, <3>3 DEF OpenMetricIsCurrent
  <2>3. CASE v # w /\ pc'[v] \notin InRun \ {"fail_run"}
    BY <2>3 DEF OpenMetricIsCurrent
  <2>4. QED
    BY <2>1, <2>2, <2>3
<1>7. \A id \in RunIds : runs[id].status # "running" =>
        \A r \in Repos : metrics'[id][r].status = metrics[id][r].status
  BY <1>3
<1>8. ASSUME NEW id \in RunIds PROVE RowIsConsistent(id)'
  <2>1. runs'[id] = runs[id] /\ RowIsConsistent(id)
    BY DEF RunInvariant
  <2>2. runs[id].status = "absent" =>
          \A r \in Repos : metrics'[id][r].status = "absent"
    BY <1>7, <2>1 DEF RowIsConsistent
  <2>3. QED
    BY <2>1, <2>2 DEF RowIsConsistent
<1>9. CompletedRunsAreWhole'
  <2>1. ASSUME NEW id \in RunIds, runs'[id].status = "completed"
        PROVE  /\ runs[id].status = "completed"
               /\ \A r \in Repos : metrics'[id][r].status # "started"
    BY <1>7, <2>1 DEF RunInvariant, CompletedRunsAreWhole
  <2>2. QED
    BY <2>1 DEF RunInvariant, CompletedRunsAreWhole
<1>10. QED
  BY <1>4, <1>5, <1>6, <1>8, <1>9 DEF RunInvariant

\* The owner of a run writes its row and goes on with the run.
LEMMA RowWrite ==
  ASSUME RunInvariant, TypeOK', NEW w \in Workers, NEW row,
         pc[w] \in InRun \ (InMetric \cup {"fail_run"}), pc'[w] \in InRun,
         runs' = [runs EXCEPT ![run[w]] = row],
         row.status = "running", row.total = Len(listing[w]), row.ended = 0,
         row.processed = index'[w] - 1,
         index'[w] <= Len(listing[w]) + 1,
         pc'[w] \in AtRepo => index'[w] <= Len(listing[w]),
         run'[w] = run[w], listing'[w] = listing[w],
         UNCHANGED <<metrics, scopes>>, OthersKeep(w)
  PROVE  RunInvariant'
<1>1. /\ run[w] \in RunIds /\ runs[run[w]].status = "running"
      /\ runs \in [RunIds -> RunRow] /\ pc[w] \in InScope
      /\ index'[w] \in Nat \ {0} /\ Len(listing[w]) \in Nat
  <2>1. pc[w] \in InRun \ {"fail_run"} /\ pc[w] \in InScope
    BY DEF InScope
  <2>2. run[w] \in RunIds /\ runs[run[w]].status = "running"
    BY <2>1 DEF RunInvariant, OwnRun, TypeOK
  <2>3. runs \in [RunIds -> RunRow] /\ index'[w] \in Nat \ {0} /\ Len(listing[w]) \in Nat
    BY DEF RunInvariant, TypeOK
  <2>4. QED
    BY <2>1, <2>2, <2>3
<1>2. runs'[run[w]] = row /\ \A id \in RunIds \ {run[w]} : runs'[id] = runs[id]
  BY <1>1
<1>3. \A v \in Workers \ {w} : pc[v] \in InRun => run[v] # run[w]
  BY DEF RunInvariant, RunsHaveOneWriter
<1>4. ASSUME NEW v \in Workers PROVE HasScope(v)' /\ OwnRun(v)'
  <2>1. CASE v # w
    <3>1. /\ pc'[v] = pc[v] /\ scopes'[v] = scopes[v] /\ run'[v] = run[v]
          /\ listing'[v] = listing[v] /\ index'[v] = index[v]
      BY <2>1 DEF OthersKeep
    <3>2. pc[v] \in InRun => runs'[run[v]] = runs[run[v]]
      BY <1>2, <1>3, <2>1 DEF RunInvariant, OwnRun
    <3>3. QED
      BY <3>1, <3>2 DEF RunInvariant, HasScope, OwnRun
  <2>2. CASE v = w
    BY <1>1, <1>2, <2>2 DEF RunInvariant, HasScope, OwnRun
  <2>3. QED
    BY <2>1, <2>2
<1>5. RunsHaveOneWriter'
  BY DEF RunInvariant, RunsHaveOneWriter, OthersKeep
<1>6. ASSUME NEW v \in Workers PROVE OpenMetricIsCurrent(v)'
  <2>1. CASE v # w
    <3>1. /\ pc'[v] = pc[v] /\ run'[v] = run[v]
          /\ CurrentRepo(v)' = CurrentRepo(v)
      BY <2>1 DEF OthersKeep, CurrentRepo
    <3>2. QED
      BY <3>1 DEF RunInvariant, OpenMetricIsCurrent
  <2>2. CASE v = w
    <3>1. \A r \in Repos : metrics[run[w]][r].status # "started"
      BY DEF RunInvariant, OpenMetricIsCurrent
    <3>2. QED
      BY <2>2, <3>1 DEF OpenMetricIsCurrent
  <2>3. QED
    BY <2>1, <2>2
<1>7. ASSUME NEW id \in RunIds PROVE RowIsConsistent(id)'
  BY <1>1, <1>2 DEF RunInvariant, RowIsConsistent
<1>8. CompletedRunsAreWhole'
  BY <1>1, <1>2 DEF RunInvariant, CompletedRunsAreWhole
<1>9. QED
  BY <1>4, <1>5, <1>6, <1>7, <1>8 DEF RunInvariant

\* The owner of a run ends it and leaves it behind.
LEMMA RowEnds ==
  ASSUME RunInvariant, TypeOK', NEW w \in Workers, pc[w] \in InRun,
         NEW status \in {"completed", "failed"},
         runs' = [runs EXCEPT ![run[w]] = Ended(@, status)],
         status = "completed" => /\ pc[w] = "next_repo"
                                 /\ index[w] > Len(listing[w]),
         pc'[w] \notin InRun, pc'[w] \in InScope => scopes'[w] # <<>>,
         UNCHANGED metrics, OthersKeep(w)
  PROVE  RunInvariant'
<1>1. /\ run[w] \in RunIds /\ runs[run[w]].status = "running"
      /\ runs \in [RunIds -> RunRow] /\ runs[run[w]] \in RunRow
  BY DEF RunInvariant, OwnRun, TypeOK
<1>2. \A id \in RunIds \ {run[w]} : runs'[id] = runs[id]
  BY <1>1
<1>3. /\ runs'[run[w]].status = status /\ runs'[run[w]].current = None
      /\ runs'[run[w]].ended = EndStamp /\ EndStamp > 0
      /\ runs'[run[w]].total = runs[run[w]].total
      /\ runs'[run[w]].processed = runs[run[w]].processed
  BY <1>1, EndStampType DEF Ended, RunRow, RunInvariant
<1>4. \A v \in Workers \ {w} : pc[v] \in InRun => run[v] # run[w]
  BY DEF RunInvariant, RunsHaveOneWriter
<1>5. status = "completed" =>
        /\ runs[run[w]].processed = runs[run[w]].total
        /\ \A r \in Repos : metrics[run[w]][r].status # "started"
  <2> SUFFICES ASSUME status = "completed"
               PROVE  /\ runs[run[w]].processed = runs[run[w]].total
                      /\ \A r \in Repos : metrics[run[w]][r].status # "started"
    OBVIOUS
  <2>1. pc[w] \in InRun \ ({"fail_run"} \cup InMetric)
    BY DEF InRun, InMetric
  <2>2. /\ runs[run[w]].processed = index[w] - 1
        /\ runs[run[w]].total = Len(listing[w])
        /\ index[w] <= Len(listing[w]) + 1
    BY <2>1 DEF RunInvariant, OwnRun
  <2>3. index[w] \in Nat /\ Len(listing[w]) \in Nat
    BY DEF RunInvariant, TypeOK
  <2>4. \A r \in Repos : metrics[run[w]][r].status # "started"
    BY <2>1 DEF RunInvariant, OpenMetricIsCurrent
  <2>5. index[w] > Len(listing[w])
    OBVIOUS
  <2>6. index[w] - 1 = Len(listing[w])
    <3> DEFINE i == index[w]
               n == Len(listing[w])
    <3>1. i \in Nat /\ n \in Nat /\ i <= n + 1 /\ i > n
      BY <2>2, <2>3, <2>5
    <3> HIDE DEF i, n
    <3>2. i - 1 = n
      BY <3>1
    <3>3. QED
      BY <3>2 DEF i, n
  <2>7. QED
    BY <2>2, <2>4, <2>6
<1>6. ASSUME NEW v \in Workers PROVE HasScope(v)' /\ OwnRun(v)'
  <2>1. CASE v # w
    <3>1. /\ pc'[v] = pc[v] /\ scopes'[v] = scopes[v] /\ run'[v] = run[v]
          /\ listing'[v] = listing[v] /\ index'[v] = index[v]
      BY <2>1 DEF OthersKeep
    <3>2. pc[v] \in InRun => runs'[run[v]] = runs[run[v]]
      BY <1>2, <1>4, <2>1 DEF RunInvariant, OwnRun
    <3>3. QED
      BY <3>1, <3>2 DEF RunInvariant, HasScope, OwnRun
  <2>2. CASE v = w
    BY <2>2 DEF HasScope, OwnRun
  <2>3. QED
    BY <2>1, <2>2
<1>7. RunsHaveOneWriter'
  BY DEF RunInvariant, RunsHaveOneWriter, OthersKeep
<1>8. ASSUME NEW v \in Workers PROVE OpenMetricIsCurrent(v)'
  <2>1. CASE v # w
    <3>1. /\ pc'[v] = pc[v] /\ run'[v] = run[v]
          /\ CurrentRepo(v)' = CurrentRepo(v)
      BY <2>1 DEF OthersKeep, CurrentRepo
    <3>2. QED
      BY <3>1 DEF RunInvariant, OpenMetricIsCurrent
  <2>2. CASE v = w
    BY <2>2 DEF OpenMetricIsCurrent
  <2>3. QED
    BY <2>1, <2>2
<1>9. ASSUME NEW id \in RunIds PROVE RowIsConsistent(id)'
  <2>1. CASE id = run[w]
    BY <1>1, <1>3, <1>5, <2>1 DEF RunInvariant, RowIsConsistent
  <2>2. CASE id # run[w]
    BY <1>2, <2>2 DEF RunInvariant, RowIsConsistent
  <2>3. QED
    BY <2>1, <2>2
<1>10. CompletedRunsAreWhole'
  BY <1>2, <1>3, <1>5 DEF RunInvariant, CompletedRunsAreWhole
<1>11. QED
  BY <1>6, <1>7, <1>8, <1>9, <1>10 DEF RunInvariant

\* What update_extraction_run_progress makes of a row.
ProgressRow(id, n, r) == [runs[id] EXCEPT !.processed = n, !.current = r]

LEMMA SetProgressRow ==
  ASSUME TypeOK, NEW id \in RunIds, NEW n \in Nat, NEW r \in Repos \cup {None},
         SetProgress(id, n, r)
  PROVE  /\ runs' = [runs EXCEPT ![id] = ProgressRow(id, n, r)]
         /\ runs' \in [RunIds -> RunRow]
         /\ ProgressRow(id, n, r).status = runs[id].status
         /\ ProgressRow(id, n, r).total = runs[id].total
         /\ ProgressRow(id, n, r).ended = runs[id].ended
         /\ ProgressRow(id, n, r).processed = n
<1>1. runs \in [RunIds -> RunRow] /\ runs[id] \in RunRow
  BY DEF TypeOK
<1>2. ProgressRow(id, n, r) \in RunRow
  BY <1>1 DEF ProgressRow, RunRow
<1>3. runs' = [runs EXCEPT ![id] = ProgressRow(id, n, r)]
  BY <1>1 DEF SetProgress, ProgressRow
<1>4. runs' \in [RunIds -> RunRow]
  BY <1>1, <1>2, <1>3
<1>5. QED
  BY <1>1, <1>3, <1>4 DEF ProgressRow, RunRow

LEMMA BeginRepoStep ==
  ASSUME RunInvariant, NEW w \in Workers, BeginRepo(w)
  PROVE  RunInvariant'
<1> USE DEF BeginRepo, locals
<1>1. /\ TypeOK /\ pc[w] = "next_repo" /\ run[w] \in RunIds
      /\ OwnRun(w) /\ HasScope(w) /\ RowIsConsistent(run[w])
      /\ runs[run[w]] \in RunRow
  BY DEF RunInvariant, OwnRun, InRun, TypeOK
<1>2. pc' \in [Workers -> Labels] /\ pc'[w] \in {"check", "fail_run"}
  BY <1>1 DEF Goto, TypeOK, Labels, InRun
<1>3. OthersKeep(w)
  BY <1>1 DEF Goto, OthersKeep, TypeOK
<1>4. CASE SetProgress(run[w], index[w] - 1, CurrentRepo(w)) /\ Goto(w, "check")
  <2> DEFINE row == ProgressRow(run[w], index[w] - 1, CurrentRepo(w))
  <2>1. CurrentRepo(w) \in Repos /\ index[w] - 1 \in Nat
    BY <1>1 DEF CurrentRepo, TypeOK
  <2>2. /\ runs' = [runs EXCEPT ![run[w]] = row]
        /\ runs' \in [RunIds -> RunRow]
        /\ row.status = runs[run[w]].status /\ row.total = runs[run[w]].total
        /\ row.ended = runs[run[w]].ended /\ row.processed = index[w] - 1
    BY <1>1, <1>4, <2>1, SetProgressRow
  <2> HIDE DEF row
  <2>3. TypeOK'
    BY <1>1, <1>2, <2>2 DEF TypeOK
  <2>4. /\ row.status = "running" /\ row.total = Len(listing[w])
        /\ row.ended = 0 /\ row.processed = index[w] - 1
    BY <1>1, <2>2 DEF OwnRun, RowIsConsistent, RunRow, InRun
  <2>5. /\ pc[w] \in InRun \ (InMetric \cup {"fail_run"})
        /\ pc'[w] \in InRun /\ index[w] <= Len(listing[w]) + 1
    BY <1>1, <1>2 DEF InRun, InMetric, TypeOK
  <2>6. QED
    BY <1>3, <2>2, <2>3, <2>4, <2>5, RowWrite
<1>5. CASE Goto(w, "fail_run") /\ UNCHANGED runs
  <2>1. TypeOK'
    BY <1>1, <1>2, <1>5 DEF TypeOK
  <2>2. pc'[w] = "fail_run" /\ scopes'[w] # <<>> /\ SelfKeeps(w)
    BY <1>1, <1>5 DEF Goto, TypeOK, HasScope, InScope, InRun, SelfKeeps
  <2>3. QED
    BY <1>1, <1>3, <1>5, <2>1, <2>2, MoveOn DEF InRun, AtRepo, InMetric
<1>6. QED
  BY <1>4, <1>5

LEMMA EndRepoStep ==
  ASSUME RunInvariant, NEW w \in Workers, EndRepo(w)
  PROVE  RunInvariant'
<1> USE DEF EndRepo
<1>1. /\ TypeOK /\ pc[w] = "end_repo" /\ run[w] \in RunIds
      /\ OwnRun(w) /\ HasScope(w) /\ RowIsConsistent(run[w])
      /\ runs[run[w]] \in RunRow
  BY DEF RunInvariant, OwnRun, InRun, TypeOK
<1>2. pc' \in [Workers -> Labels] /\ pc'[w] \in {"next_repo", "fail_run"}
  BY <1>1 DEF Goto, TypeOK, Labels, InRun
<1>3. OthersKeep(w)
  BY <1>1 DEF Goto, OthersKeep, TypeOK
<1>4. CASE /\ SetProgress(run[w], index[w], None)
           /\ index' = [index EXCEPT ![w] = @ + 1]
           /\ Goto(w, "next_repo")
  <2> DEFINE row == ProgressRow(run[w], index[w], None)
  <2>1. index' \in [Workers -> Nat \ {0}] /\ index'[w] = index[w] + 1
    BY <1>1, <1>4 DEF TypeOK
  <2>2. /\ runs' = [runs EXCEPT ![run[w]] = row]
        /\ runs' \in [RunIds -> RunRow]
        /\ row.status = runs[run[w]].status /\ row.total = runs[run[w]].total
        /\ row.ended = runs[run[w]].ended /\ row.processed = index[w]
    <3>1. index[w] \in Nat /\ None \in Repos \cup {None}
      BY <1>1 DEF TypeOK
    <3>2. QED
      BY <1>1, <1>4, <3>1, SetProgressRow
  <2> HIDE DEF row
  <2>3. TypeOK'
    BY <1>1, <1>2, <2>1, <2>2 DEF TypeOK
  <2>4. index[w] \in Nat /\ Len(listing[w]) \in Nat
    BY <1>1 DEF TypeOK
  <2>5. /\ row.status = "running" /\ row.total = Len(listing[w])
        /\ row.ended = 0 /\ row.processed = index'[w] - 1
    <3>1. /\ runs[run[w]].status = "running"
          /\ runs[run[w]].total = Len(listing[w])
      BY <1>1 DEF OwnRun, InRun
    <3>2. runs[run[w]].ended = 0
      BY <1>1, <3>1 DEF RowIsConsistent, RunRow
    <3>3. index'[w] - 1 = index[w]
      BY <2>1, <2>4
    <3>4. QED
      BY <2>2, <3>1, <3>2, <3>3
  <2>6. /\ pc[w] \in InRun \ (InMetric \cup {"fail_run"})
        /\ pc'[w] = "next_repo" /\ index'[w] <= Len(listing[w]) + 1
    BY <1>1, <1>4, <2>1, <2>4 DEF Goto, InRun, InMetric, AtRepo, OwnRun, TypeOK
  <2>7. pc'[w] \in InRun /\ pc'[w] \notin AtRepo
    BY <2>6 DEF InRun, AtRepo
  <2>8. QED
    BY <1>3, <2>2, <2>3, <2>5, <2>6, <2>7, RowWrite
<1>5. CASE Goto(w, "fail_run") /\ UNCHANGED <<runs, index>>
  <2>1. TypeOK'
    BY <1>1, <1>2, <1>5 DEF TypeOK
  <2>2. pc'[w] = "fail_run" /\ scopes'[w] # <<>> /\ SelfKeeps(w)
    BY <1>1, <1>5 DEF Goto, TypeOK, HasScope, InScope, InRun, SelfKeeps
  <2>3. QED
    BY <1>1, <1>3, <1>5, <2>1, <2>2, MoveOn DEF InRun, AtRepo, InMetric
<1>6. QED
  BY <1>4, <1>5

\* The steps that write the metric of the current repository.
LEMMA NewMetricWrites ==
  ASSUME TypeOK, NEW id \in RunIds, NEW r \in Repos, NEW s \in MetricStatus,
         NewMetric(id, r, s) \/ SetMetric(id, r, s)
  PROVE  /\ metrics' \in [RunIds -> [Repos -> [status : MetricStatus, at : Nat]]]
         /\ \A i \in RunIds, q \in Repos :
              metrics'[i][q].status = IF i = id /\ q = r THEN s
                                                        ELSE metrics[i][q].status
<1>1. /\ metrics \in [RunIds -> [Repos -> [status : MetricStatus, at : Nat]]]
      /\ clock \in Nat
  BY DEF TypeOK
<1>2. CASE NewMetric(id, r, s)
  BY <1>1, <1>2 DEF NewMetric
<1>3. CASE SetMetric(id, r, s)
  <2> DEFINE m == [metrics[id][r] EXCEPT !.status = s]
  <2>1. metrics[id][r] \in [status : MetricStatus, at : Nat]
    BY <1>1
  <2>2. m \in [status : MetricStatus, at : Nat] /\ m.status = s
    BY <2>1
  <2>3. metrics' = [metrics EXCEPT ![id] = [metrics[id] EXCEPT ![r] = m]]
    BY <1>1, <1>3 DEF SetMetric
  <2> HIDE DEF m
  <2>4. QED
    BY <1>1, <2>2, <2>3
<1>4. QED
  BY <1>2, <1>3

LEMMA CheckIntervalStep ==
  ASSUME RunInvariant, NEW w \in Workers, CheckInterval(w)
  PROVE  RunInvariant'
<1> USE DEF CheckInterval, locals
<1>1. /\ TypeOK /\ pc[w] = "check" /\ HasScope(w) /\ pc[w] \in AtRepo
      /\ pc[w] \in InScope
  BY DEF RunInvariant, InRun, AtRepo, InScope
<1>2. pc' \in [Workers -> Labels] /\ pc'[w] \in {"store", "end_repo", "fail_run"}
  BY <1>1 DEF Goto, TypeOK, Labels, InRun
<1>3. OthersKeep(w) /\ SelfKeeps(w) /\ scopes'[w] # <<>>
  BY <1>1 DEF Goto, OthersKeep, SelfKeeps, TypeOK, HasScope
<1>4. CASE NewMetric(run[w], CurrentRepo(w), "skipped") /\ Goto(w, "end_repo")
  <2>1. CurrentRepo(w) \in Repos /\ run[w] \in RunIds /\ "skipped" \in MetricStatus
    BY <1>1, CurrentRepoType DEF MetricStatus
  <2>2. /\ metrics' \in [RunIds -> [Repos -> [status : MetricStatus, at : Nat]]]
        /\ \A i \in RunIds, q \in Repos :
             metrics'[i][q].status = IF i = run[w] /\ q = CurrentRepo(w)
                                     THEN "skipped" ELSE metrics[i][q].status
    BY <1>1, <1>4, <2>1, NewMetricWrites
  <2>3. TypeOK'
    BY <1>1, <1>2, <2>2 DEF TypeOK
  <2>4. pc'[w] \in AtRepo
    BY <1>1, <1>4 DEF Goto, AtRepo, InRun, TypeOK
  <2>5. QED
    BY <1>1, <1>3, <2>1, <2>2, <2>3, <2>4, MetricWrite
<1>5. CASE UNCHANGED metrics
  <2>1. TypeOK'
    BY <1>1, <1>2, <1>5 DEF TypeOK
  <2>2. QED
    BY <1>1, <1>2, <1>3, <1>5, <2>1, MoveOn DEF InRun, AtRepo, InMetric
<1>6. QED
  BY <1>4, <1>5

LEMMA StoreRepoStep ==
  ASSUME RunInvariant, NEW w \in Workers, StoreRepo(w)
  PROVE  RunInvariant'
<1> USE DEF StoreRepo, locals
<1>1. /\ TypeOK /\ pc[w] = "store" /\ HasScope(w) /\ pc[w] \in AtRepo
      /\ pc[w] \in InScope
  BY DEF RunInvariant, InRun, AtRepo, InScope
<1>2. pc' \in [Workers -> Labels] /\ pc'[w] \in {"start_metric", "end_repo"}
  BY <1>1 DEF Goto, TypeOK, Labels, InRun
<1>3. OthersKeep(w) /\ SelfKeeps(w) /\ scopes'[w] # <<>>
  BY <1>1 DEF Goto, OthersKeep, SelfKeeps, TypeOK, HasScope
<1>4. stored' \in SUBSET Repos
  BY <1>1, CurrentRepoType DEF TypeOK
<1>5. TypeOK'
  BY <1>1, <1>2, <1>4 DEF TypeOK
<1>6. QED
  BY <1>1, <1>2, <1>3, <1>5, MoveOn DEF InRun, AtRepo, InMetric

LEMMA StartMetricStep ==
  ASSUME RunInvariant, NEW w \in Workers, StartMetric(w)
  PROVE  RunInvariant'
<1> USE DEF StartMetric
<1>1. /\ TypeOK /\ pc[w] = "start_metric" /\ HasScope(w) /\ pc[w] \in AtRepo
      /\ pc[w] \in InScope
  BY DEF RunInvariant, InRun, AtRepo, InScope
<1>2. pc' \in [Workers -> Labels] /\ pc'[w] \in {"content", "end_repo"}
  BY <1>1 DEF Goto, TypeOK, Labels, InRun
<1>3. OthersKeep(w) /\ SelfKeeps(w) /\ scopes'[w] # <<>>
  BY <1>1 DEF Goto, OthersKeep, SelfKeeps, TypeOK, HasScope
<1>4. CurrentRepo(w) \in Repos /\ run[w] \in RunIds /\ "started" \in MetricStatus
  BY <1>1, CurrentRepoType DEF MetricStatus
<1>5. /\ step' \in [Workers -> Nat \ {0}]
      /\ since' \in [Workers -> Nat]
      /\ forced' \in [Repos -> {"no", "pending", "raced"}]
  <2>1. step \in [Workers -> Nat \ {0}] /\ 1 \in Nat \ {0}
    BY <1>1 DEF TypeOK
  <2>2. forced \in [Repos -> {"no", "pending", "raced"}]
    BY <1>1 DEF TypeOK
  <2>3. step' = step \/ step' = [step EXCEPT ![w] = 1]
    OBVIOUS
  <2>4. forced' = forced \/ forced' = [forced EXCEPT ![CurrentRepo(w)] = "no"]
    OBVIOUS
  <2>5. step' \in [Workers -> Nat \ {0}]
    BY <2>1, <2>3
  <2>6. since' \in [Workers -> Nat]
    <3>1. since \in [Workers -> Nat] /\ EndStamp \in Nat
      BY <1>1, EndStampType DEF TypeOK
    <3>2. since' = since \/ since' = [since EXCEPT ![w] = EndStamp]
      OBVIOUS
    <3>3. QED
      BY <3>1, <3>2
  <2>7. QED
    BY <2>2, <2>4, <2>5, <2>6
<1>6. CASE NewMetric(run[w], CurrentRepo(w), "started") /\ Goto(w, "content")
  <2>1. /\ metrics' \in [RunIds -> [Repos -> [status : MetricStatus, at : Nat]]]
        /\ \A i \in RunIds, q \in Repos :
             metrics'[i][q].status = IF i = run[w] /\ q = CurrentRepo(w)
                                     THEN "started" ELSE metrics[i][q].status
    BY <1>1, <1>4, <1>6, NewMetricWrites
  <2>2. TypeOK'
    BY <1>1, <1>2, <1>5, <2>1 DEF TypeOK
  <2>3. pc'[w] \in AtRepo /\ pc'[w] \in InMetric
    BY <1>1, <1>6 DEF Goto, AtRepo, InRun, InMetric, TypeOK
  <2>4. QED
    BY <1>1, <1>3, <1>4, <2>1, <2>2, <2>3, MetricWrite
<1>7. CASE UNCHANGED metrics
  <2>1. TypeOK'
    BY <1>1, <1>2, <1>5, <1>7 DEF TypeOK
  <2>2. QED
    BY <1>1, <1>2, <1>3, <1>7, <2>1, MoveOn DEF InRun, AtRepo, InMetric
<1>8. QED
  BY <1>6, <1>7

LEMMA StoreRepoDependenciesType ==
  ASSUME TypeOK, NEW w, NEW used, NEW exposed, NEW now \in Nat,
         StoreRepoDependencies(w, used, exposed, now)
  PROVE  dependencies' \in [Repos \X Libraries -> [seen : Nat, exposed : BOOLEAN]]
<1>1. dependencies \in [Repos \X Libraries -> [seen : Nat, exposed : BOOLEAN]]
  BY DEF TypeOK
<1>2. QED
  BY <1>1 DEF StoreRepoDependencies

LEMMA ExtractContentStep ==
  ASSUME RunInvariant, NEW w \in Workers, ExtractContent(w)
  PROVE  RunInvariant'
<1> USE DEF ExtractContent
<1>1. /\ TypeOK /\ pc[w] = "content" /\ HasScope(w) /\ pc[w] \in AtRepo
      /\ pc[w] \in InScope
  BY DEF RunInvariant, InRun, AtRepo, InScope
<1>2. pc' \in [Workers -> Labels] /\ pc'[w] \in {"content", "stamp"}
  BY <1>1 DEF Goto, TypeOK, Labels, InRun
<1>3. OthersKeep(w) /\ SelfKeeps(w) /\ scopes'[w] # <<>>
  BY <1>1 DEF Goto, OthersKeep, SelfKeeps, TypeOK, HasScope
<1>4. step' \in [Workers -> Nat \ {0}]
  <2>1. step \in [Workers -> Nat \ {0}] /\ step[w] + 1 \in Nat \ {0}
    BY <1>1 DEF TypeOK
  <2>2. step' = step \/ step' = [step EXCEPT ![w] = step[w] + 1]
    OBVIOUS
  <2>3. QED
    BY <2>1, <2>2
<1>5. since' \in [Workers -> Nat]
  <2>1. since \in [Workers -> Nat] /\ EndStamp \in Nat
    BY <1>1, EndStampType DEF TypeOK
  <2>2. \E n \in {0, EndStamp} : since' = [since EXCEPT ![w] = n]
    OBVIOUS
  <2>3. QED
    BY <2>1, <2>2
<1>6. dependencies' \in [Repos \X Libraries -> [seen : Nat, exposed : BOOLEAN]]
  <2>1. since[w] \in Nat /\ EndStamp \in Nat
    BY <1>1, EndStampType DEF TypeOK
  <2>2. CASE UNCHANGED dependencies
    BY <1>1, <2>2 DEF TypeOK
  <2>3. CASE \E used \in SUBSET Libraries, now \in since[w]..EndStamp :
               \E exposed \in SUBSET used :
                 StoreRepoDependencies(w, used, exposed, now)
    <3>1. PICK used \in SUBSET Libraries, now \in since[w]..EndStamp :
                 \E exposed \in SUBSET used :
                   StoreRepoDependencies(w, used, exposed, now)
      BY <2>3
    <3>2. PICK exposed \in SUBSET used : StoreRepoDependencies(w, used, exposed, now)
      BY <3>1
    <3>3. now \in Nat
      BY <2>1
    <3>4. QED
      BY <1>1, <3>2, <3>3, StoreRepoDependenciesType
  <2>4. QED
    BY <2>2, <2>3
<1>7. TypeOK'
  BY <1>1, <1>2, <1>4, <1>5, <1>6 DEF TypeOK
<1>8. QED
  BY <1>1, <1>2, <1>3, <1>7, MoveOn DEF InRun, AtRepo, InMetric

LEMMA CompleteMetricStep ==
  ASSUME RunInvariant, NEW w \in Workers, CompleteMetric(w)
  PROVE  RunInvariant'
<1> USE DEF CompleteMetric, locals
<1>1. /\ TypeOK /\ pc[w] = "complete_metric" /\ HasScope(w)
      /\ pc[w] \in AtRepo /\ pc[w] \in InScope
  BY DEF RunInvariant, InRun, AtRepo, InScope
<1>2. pc' \in [Workers -> Labels] /\ pc'[w] \in {"end_repo", "fail_metric"}
  BY <1>1 DEF Goto, TypeOK, Labels, InRun
<1>3. OthersKeep(w) /\ SelfKeeps(w) /\ scopes'[w] # <<>>
  BY <1>1 DEF Goto, OthersKeep, SelfKeeps, TypeOK, HasScope
<1>4. CASE SetMetric(run[w], CurrentRepo(w), "completed") /\ Goto(w, "end_repo")
  <2>1. CurrentRepo(w) \in Repos /\ run[w] \in RunIds /\ "completed" \in MetricStatus
    BY <1>1, CurrentRepoType DEF MetricStatus
  <2>2. /\ metrics' \in [RunIds -> [Repos -> [status : MetricStatus, at : Nat]]]
        /\ \A i \in RunIds, q \in Repos :
             metrics'[i][q].status = IF i = run[w] /\ q = CurrentRepo(w)
                                     THEN "completed" ELSE metrics[i][q].status
    BY <1>1, <1>4, <2>1, NewMetricWrites
  <2>3. TypeOK'
    BY <1>1, <1>2, <2>2 DEF TypeOK
  <2>4. pc'[w] \in AtRepo
    BY <1>1, <1>4 DEF Goto, AtRepo, InRun, TypeOK
  <2>5. QED
    BY <1>1, <1>3, <2>1, <2>2, <2>3, <2>4, MetricWrite
<1>5. CASE Goto(w, "fail_metric") /\ UNCHANGED metrics
  <2>1. TypeOK'
    BY <1>1, <1>2, <1>5 DEF TypeOK
  <2>2. pc'[w] = "fail_metric"
    BY <1>1, <1>5 DEF Goto, TypeOK
  <2>3. QED
    BY <1>1, <1>3, <1>5, <2>1, <2>2, MoveOn DEF InRun, AtRepo, InMetric
<1>6. QED
  BY <1>4, <1>5

LEMMA FailMetricStep ==
  ASSUME RunInvariant, NEW w \in Workers, FailMetric(w)
  PROVE  RunInvariant'
<1> USE DEF FailMetric, locals
<1>1. /\ TypeOK /\ pc[w] = "fail_metric" /\ HasScope(w)
      /\ pc[w] \in AtRepo /\ pc[w] \in InScope
  BY DEF RunInvariant, InRun, AtRepo, InScope
<1>2. pc' \in [Workers -> Labels] /\ pc'[w] \in {"end_repo", "fail_run"}
  BY <1>1 DEF Goto, TypeOK, Labels, InRun
<1>3. OthersKeep(w) /\ SelfKeeps(w) /\ scopes'[w] # <<>>
  BY <1>1 DEF Goto, OthersKeep, SelfKeeps, TypeOK, HasScope
<1>4. CASE SetMetric(run[w], CurrentRepo(w), "failed") /\ Goto(w, "end_repo")
  <2>1. CurrentRepo(w) \in Repos /\ run[w] \in RunIds /\ "failed" \in MetricStatus
    BY <1>1, CurrentRepoType DEF MetricStatus
  <2>2. /\ metrics' \in [RunIds -> [Repos -> [status : MetricStatus, at : Nat]]]
        /\ \A i \in RunIds, q \in Repos :
             metrics'[i][q].status = IF i = run[w] /\ q = CurrentRepo(w)
                                     THEN "failed" ELSE metrics[i][q].status
    BY <1>1, <1>4, <2>1, NewMetricWrites
  <2>3. TypeOK'
    BY <1>1, <1>2, <2>2 DEF TypeOK
  <2>4. pc'[w] \in AtRepo
    BY <1>1, <1>4 DEF Goto, AtRepo, InRun, TypeOK
  <2>5. QED
    BY <1>1, <1>3, <2>1, <2>2, <2>3, <2>4, MetricWrite
<1>5. CASE Goto(w, "fail_run") /\ UNCHANGED metrics
  <2>1. TypeOK'
    BY <1>1, <1>2, <1>5 DEF TypeOK
  <2>2. pc'[w] = "fail_run"
    BY <1>1, <1>5 DEF Goto, TypeOK
  <2>3. QED
    BY <1>1, <1>3, <1>5, <2>1, <2>2, MoveOn DEF InRun, AtRepo, InMetric
<1>6. QED
  BY <1>4, <1>5

\* A run begins: its row is new, so no other worker holds it.
LEMMA StartRunStep ==
  ASSUME RunInvariant, NEW w \in Workers, StartRun(w)
  PROVE  RunInvariant'
<1> USE DEF StartRun
<1>1. /\ TypeOK /\ pc[w] = "start_run" /\ HasScope(w) /\ scopes[w] # <<>>
  BY DEF RunInvariant, InRun, InScope, HasScope
<1>2. pc' \in [Workers -> Labels] /\ pc'[w] \in {"next_repo", "record"}
  BY <1>1 DEF Goto, TypeOK, Labels, InRun
<1>3. OthersKeep(w) /\ scopes'[w] # <<>>
  BY <1>1 DEF Goto, OthersKeep, TypeOK
<1>4. CASE Goto(w, "record") /\ UNCHANGED <<runs, run, index>>
  <2>1. TypeOK'
    BY <1>1, <1>2, <1>4 DEF TypeOK
  <2>2. pc'[w] = "record"
    BY <1>1, <1>4 DEF Goto, TypeOK
  <2>3. QED
    BY <1>3, <1>4, <2>1, <2>2, MoveOn DEF InRun
<1>5. ASSUME NEW id \in RunIds, runs[id].status = "absent",
             runs' = [runs EXCEPT ![id] =
               [NoRow EXCEPT !.status = "running",
                             !.platform = platform[w],
                             !.scope = Head(scopes[w]),
                             !.total = Len(listing[w])]],
             run' = [run EXCEPT ![w] = id],
             index' = [index EXCEPT ![w] = 1],
             Goto(w, "next_repo")
      PROVE  RunInvariant'
  <2> DEFINE row == [NoRow EXCEPT !.status = "running",
                                  !.platform = platform[w],
                                  !.scope = Head(scopes[w]),
                                  !.total = Len(listing[w])]
  <2>1. /\ Head(scopes[w]) \in Scopes /\ platform[w] \in Platforms \cup {None}
        /\ listing[w] \in Seq(Repos) /\ Len(listing[w]) \in Nat
    BY <1>1, HeadTailProperties DEF TypeOK
  <2>2. /\ row \in RunRow /\ row.status = "running" /\ row.processed = 0
        /\ row.total = Len(listing[w]) /\ row.ended = 0
    BY <2>1 DEF RunRow, NoRow, RunStatus
  <2>3. runs' = [runs EXCEPT ![id] = row]
    BY <1>5
  <2> HIDE DEF row
  <2>4. runs' \in [RunIds -> RunRow]
    BY <1>1, <2>2, <2>3 DEF TypeOK
  <2>5. run' \in [Workers -> RunIds \cup {None}]
        /\ index' \in [Workers -> Nat \ {0}]
    BY <1>1, <1>5 DEF TypeOK
  <2>6. TypeOK'
    BY <1>1, <1>2, <2>4, <2>5 DEF TypeOK
  <2>7. /\ runs'[id] = row /\ \A i \in RunIds \ {id} : runs'[i] = runs[i]
        /\ pc'[w] = "next_repo" /\ run'[w] = id /\ index'[w] = 1
        /\ listing' = listing /\ metrics' = metrics
    BY <1>1, <1>5, <2>3 DEF Goto, TypeOK
  <2>8. \A v \in Workers : pc[v] \in InRun => run[v] \in RunIds \ {id}
    BY <1>5 DEF RunInvariant, OwnRun
  <2>9. \A r \in Repos : metrics[id][r].status = "absent"
    BY <1>5 DEF RunInvariant, RowIsConsistent
  <2>10. ASSUME NEW v \in Workers PROVE HasScope(v)' /\ OwnRun(v)'
    <3>1. CASE v # w
      <4>1. /\ pc'[v] = pc[v] /\ scopes'[v] = scopes[v] /\ run'[v] = run[v]
            /\ listing'[v] = listing[v] /\ index'[v] = index[v]
        BY <1>3, <3>1 DEF OthersKeep
      <4>2. pc[v] \in InRun => runs'[run[v]] = runs[run[v]]
        BY <2>7, <2>8
      <4>3. QED
        BY <4>1, <4>2 DEF RunInvariant, HasScope, OwnRun
    <3>2. CASE v = w
      BY <1>3, <2>1, <2>2, <2>7, <3>2 DEF HasScope, OwnRun, AtRepo, InRun
    <3>3. QED
      BY <3>1, <3>2
  <2>11. RunsHaveOneWriter'
    BY <1>3, <2>7, <2>8 DEF RunInvariant, RunsHaveOneWriter, OthersKeep
  <2>12. ASSUME NEW v \in Workers PROVE OpenMetricIsCurrent(v)'
    <3>1. CASE v # w
      <4>1. /\ pc'[v] = pc[v] /\ run'[v] = run[v]
            /\ CurrentRepo(v)' = CurrentRepo(v)
        BY <1>3, <3>1 DEF OthersKeep, CurrentRepo
      <4>2. QED
        BY <2>7, <4>1 DEF RunInvariant, OpenMetricIsCurrent
    <3>2. CASE v = w
      BY <2>7, <2>9, <3>2 DEF OpenMetricIsCurrent
    <3>3. QED
      BY <3>1, <3>2
  <2>13. ASSUME NEW i \in RunIds PROVE RowIsConsistent(i)'
    <3>1. CASE i = id
      BY <2>1, <2>2, <2>7, <3>1 DEF RowIsConsistent
    <3>2. CASE i # id
      BY <2>7, <3>2 DEF RunInvariant, RowIsConsistent
    <3>3. QED
      BY <3>1, <3>2
  <2>14. CompletedRunsAreWhole'
    <3>1. ASSUME NEW i \in RunIds, runs'[i].status = "completed"
          PROVE  runs'[i] = runs[i]
      BY <2>2, <2>7, <3>1
    <3>2. QED
      BY <2>7, <3>1 DEF RunInvariant, CompletedRunsAreWhole
  <2>15. QED
    BY <2>6, <2>10, <2>11, <2>12, <2>13, <2>14 DEF RunInvariant
<1>6. QED
  BY <1>4, <1>5

\* The row of an ended run has its type.
LEMMA EndedType ==
  ASSUME TypeOK, NEW row \in RunRow, NEW status \in {"completed", "failed"}
  PROVE  /\ Ended(row, status) \in RunRow
         /\ Ended(row, status).status = status
         /\ Ended(row, status).current = None
         /\ Ended(row, status).ended = EndStamp
         /\ Ended(row, status).total = row.total
         /\ Ended(row, status).processed = row.processed
<1>1. EndStamp \in Nat
  BY EndStampType
<1>2. QED
  BY <1>1 DEF Ended, RunRow, RunStatus

LEMMA CompleteRunStep ==
  ASSUME RunInvariant, NEW w \in Workers, CompleteRun(w)
  PROVE  RunInvariant'
<1> USE DEF CompleteRun
<1>1. /\ TypeOK /\ pc[w] = "next_repo" /\ run[w] \in RunIds
      /\ scopes[w] # <<>> /\ runs[run[w]] \in RunRow
  BY DEF RunInvariant, OwnRun, HasScope, InScope, InRun, TypeOK
<1>2. CASE /\ runs' = [runs EXCEPT ![run[w]] = Ended(@, "completed")]
           /\ summaries' = [summaries EXCEPT ![run[w]] =
                 SummaryRow([runs EXCEPT ![run[w]] = Ended(@, "completed")],
                            metrics, dependencies, run[w])]
           /\ LeaveScope(w)
  <2> DEFINE ended == [runs EXCEPT ![run[w]] = Ended(@, "completed")]
  <2>1. ended \in [RunIds -> RunRow] /\ DOMAIN ended = RunIds
    BY <1>1, EndedType DEF TypeOK
  <2>2. SummaryRow(ended, metrics, dependencies, run[w]) \in Digest
    BY <1>1, <2>1, DigestType
  <2>3. runs' \in [RunIds -> RunRow]
        /\ summaries' = [summaries EXCEPT ![run[w]] =
                           SummaryRow(ended, metrics, dependencies, run[w])]
    BY <1>2, <2>1
  <2> HIDE DEF ended
  <2>4. summaries' \in [RunIds -> Digest \cup {None}]
    BY <1>1, <2>2, <2>3 DEF TypeOK
  <2>5. /\ scopes' \in [Workers -> Seq(Scopes)]
        /\ run' \in [Workers -> RunIds \cup {None}]
        /\ listing' \in [Workers -> Seq(Repos)]
        /\ index' \in [Workers -> Nat \ {0}]
        /\ pc' \in [Workers -> Labels]
        /\ pc'[w] \in {"summary", "scope"}
        /\ pc'[w] \in InScope => scopes'[w] # <<>>
        /\ OthersKeep(w)
    BY <1>1, <1>2, LeaveScopeType
  <2>6. UNCHANGED <<platform, step, since>>
    BY <1>2 DEF LeaveScope
  <2>7. TypeOK'
    BY <1>1, <2>3, <2>4, <2>5, <2>6 DEF TypeOK
  <2>8. pc[w] \in InRun /\ pc'[w] \notin InRun
    BY <1>1, <2>5 DEF InRun
  <2>9. QED
    BY <1>1, <1>2, <2>5, <2>7, <2>8, RowEnds
<1>3. CASE Goto(w, "record") /\ UNCHANGED <<runs, summaries, locals>>
  <2>1. pc' \in [Workers -> Labels] /\ pc'[w] = "record" /\ OthersKeep(w)
    BY <1>1, <1>3 DEF Goto, TypeOK, Labels, OthersKeep, locals
  <2>2. TypeOK'
    BY <1>1, <1>3, <2>1 DEF TypeOK, locals
  <2>3. QED
    BY <1>1, <1>3, <2>1, <2>2, MoveOn DEF InRun, InScope
<1>4. QED
  BY <1>2, <1>3

LEMMA FailRunStep ==
  ASSUME RunInvariant, NEW w \in Workers, FailRun(w)
  PROVE  RunInvariant'
<1> USE DEF FailRun, locals
<1>1. /\ TypeOK /\ pc[w] = "fail_run" /\ run[w] \in RunIds
      /\ runs[run[w]] \in RunRow /\ pc[w] \in InRun
  BY DEF RunInvariant, OwnRun, InRun, TypeOK
<1>2. /\ pc' \in [Workers -> Labels] /\ pc'[w] = "record" /\ OthersKeep(w)
      /\ pc'[w] \notin InRun /\ pc'[w] \notin InScope
  BY <1>1 DEF Goto, TypeOK, Labels, OthersKeep, InRun, InScope
<1>3. CASE runs' = [runs EXCEPT ![run[w]] = Ended(@, "failed")]
  <2>1. runs' \in [RunIds -> RunRow]
    BY <1>1, <1>3, EndedType DEF TypeOK
  <2>2. TypeOK'
    BY <1>1, <1>2, <2>1 DEF TypeOK
  <2>3. QED
    BY <1>1, <1>2, <1>3, <2>2, RowEnds
<1>4. CASE UNCHANGED runs
  <2>1. TypeOK'
    BY <1>1, <1>2, <1>4 DEF TypeOK
  <2>2. QED
    BY <1>2, <1>4, <2>1, MoveOn
<1>5. QED
  BY <1>3, <1>4

LEMMA ClearLocalsType ==
  ASSUME TypeOK, NEW w \in Workers, ClearLocals(w), Goto(w, "idle")
  PROVE  /\ pc' \in [Workers -> Labels]
         /\ platform' \in [Workers -> Platforms \cup {None}]
         /\ scopes' \in [Workers -> Seq(Scopes)]
         /\ run' \in [Workers -> RunIds \cup {None}]
         /\ listing' \in [Workers -> Seq(Repos)]
         /\ index' \in [Workers -> Nat \ {0}]
         /\ step' \in [Workers -> Nat \ {0}]
         /\ since' \in [Workers -> Nat]
         /\ OthersKeep(w) /\ pc'[w] = "idle"
<1> USE DEF ClearLocals, Goto
<1>1. pc' \in [Workers -> Labels] /\ pc'[w] = "idle"
  BY DEF TypeOK, Labels
<1>2. /\ platform' \in [Workers -> Platforms \cup {None}]
      /\ scopes' \in [Workers -> Seq(Scopes)]
      /\ run' \in [Workers -> RunIds \cup {None}]
      /\ listing' \in [Workers -> Seq(Repos)]
      /\ index' \in [Workers -> Nat \ {0}]
      /\ step' \in [Workers -> Nat \ {0}]
      /\ since' \in [Workers -> Nat]
  BY EmptySeq DEF TypeOK
<1>3. OthersKeep(w)
  BY DEF OthersKeep, TypeOK
<1>4. QED
  BY <1>1, <1>2, <1>3

LEMMA FinishTaskStep ==
  ASSUME RunInvariant, NEW w \in Workers, FinishTask(w)
  PROVE  RunInvariant'
<1> USE DEF FinishTask, tables
<1>1. TypeOK
  BY DEF RunInvariant
<1>2. CASE Goto(w, "idle") /\ ClearLocals(w)
  <2>1. /\ pc' \in [Workers -> Labels]
        /\ platform' \in [Workers -> Platforms \cup {None}]
        /\ scopes' \in [Workers -> Seq(Scopes)]
        /\ run' \in [Workers -> RunIds \cup {None}]
        /\ listing' \in [Workers -> Seq(Repos)]
        /\ index' \in [Workers -> Nat \ {0}]
        /\ step' \in [Workers -> Nat \ {0}]
        /\ since' \in [Workers -> Nat]
        /\ OthersKeep(w) /\ pc'[w] = "idle"
    BY <1>1, <1>2, ClearLocalsType
  <2>2. TypeOK'
    BY <1>1, <2>1 DEF TypeOK
  <2>3. QED
    BY <2>1, <2>2, MoveOn DEF InRun, InScope
<1>3. CASE Goto(w, "record") /\ UNCHANGED locals
  <2>1. pc' \in [Workers -> Labels] /\ pc'[w] = "record" /\ OthersKeep(w)
    BY <1>1, <1>3 DEF Goto, TypeOK, Labels, OthersKeep, locals
  <2>2. TypeOK'
    BY <1>1, <1>3, <2>1 DEF TypeOK, locals
  <2>3. QED
    BY <2>1, <2>2, MoveOn DEF InRun, InScope
<1>4. QED
  BY <1>2, <1>3

\* A task-level failure adds a row that is born ended.
LEMMA RecordTaskFailureStep ==
  ASSUME RunInvariant, NEW w \in Workers, RecordTaskFailure(w)
  PROVE  RunInvariant'
<1> USE DEF RecordTaskFailure
<1>1. TypeOK
  BY DEF RunInvariant
<1>2. /\ pc' \in [Workers -> Labels]
      /\ platform' \in [Workers -> Platforms \cup {None}]
      /\ scopes' \in [Workers -> Seq(Scopes)]
      /\ run' \in [Workers -> RunIds \cup {None}]
      /\ listing' \in [Workers -> Seq(Repos)]
      /\ index' \in [Workers -> Nat \ {0}]
      /\ step' \in [Workers -> Nat \ {0}]
      /\ since' \in [Workers -> Nat]
      /\ OthersKeep(w) /\ pc'[w] = "idle"
  BY <1>1, ClearLocalsType
<1>3. pc'[w] \notin InRun /\ pc'[w] \notin InScope
  BY <1>2 DEF InRun, InScope
<1>4. CASE UNCHANGED runs
  <2>1. TypeOK'
    BY <1>1, <1>2, <1>4 DEF TypeOK
  <2>2. QED
    BY <1>2, <1>3, <1>4, <2>1, MoveOn
<1>5. ASSUME NEW id \in RunIds, runs[id].status = "absent",
             runs' = [runs EXCEPT ![id] =
               Ended([NoRow EXCEPT !.platform = platform[w],
                                   !.scope = TaskLevel], "failed")]
      PROVE  RunInvariant'
  <2> DEFINE new == [NoRow EXCEPT !.platform = platform[w], !.scope = TaskLevel]
             row == Ended(new, "failed")
  <2>1. new \in RunRow /\ new.total = 0 /\ new.processed = 0
    BY <1>1 DEF TypeOK, RunRow, NoRow, RunStatus
  <2>2. runs' = [runs EXCEPT ![id] = row]
    BY <1>5
  <2> HIDE DEF new
  <2>3. /\ row \in RunRow /\ row.status = "failed" /\ row.current = None
        /\ row.ended = EndStamp /\ row.total = 0 /\ row.processed = 0
    BY <1>1, <2>1, EndedType
  <2>4. row.ended > 0
    BY <1>1, <2>3, EndStampType
  <2> HIDE DEF row
  <2>5. runs' \in [RunIds -> RunRow] /\ runs'[id] = row
        /\ \A i \in RunIds \ {id} : runs'[i] = runs[i]
    BY <1>1, <2>2, <2>3 DEF TypeOK
  <2>6. TypeOK'
    BY <1>1, <1>2, <2>5 DEF TypeOK
  <2>7. \A v \in Workers : pc[v] \in InRun => run[v] \in RunIds \ {id}
    BY <1>5 DEF RunInvariant, OwnRun
  <2>8. ASSUME NEW v \in Workers PROVE HasScope(v)' /\ OwnRun(v)'
    <3>1. CASE v # w
      <4>1. /\ pc'[v] = pc[v] /\ scopes'[v] = scopes[v] /\ run'[v] = run[v]
            /\ listing'[v] = listing[v] /\ index'[v] = index[v]
        BY <1>2, <3>1 DEF OthersKeep
      <4>2. pc[v] \in InRun => runs'[run[v]] = runs[run[v]]
        BY <2>5, <2>7
      <4>3. HasScope(v)'
        BY <4>1 DEF RunInvariant, HasScope
      <4>4. OwnRun(v)'
        BY <4>1, <4>2 DEF RunInvariant, OwnRun
      <4>5. QED
        BY <4>3, <4>4
    <3>2. CASE v = w
      BY <1>3, <3>2 DEF HasScope, OwnRun
    <3>3. QED
      BY <3>1, <3>2
  <2>9. RunsHaveOneWriter'
    <3> SUFFICES ASSUME NEW u \in Workers, NEW v \in Workers, u # v,
                        pc'[u] \in InRun, pc'[v] \in InRun
                 PROVE  run'[u] # run'[v]
      BY DEF RunsHaveOneWriter
    <3>1. u # w /\ v # w
      BY <1>3
    <3>2. pc'[u] = pc[u] /\ run'[u] = run[u] /\ pc'[v] = pc[v] /\ run'[v] = run[v]
      BY <1>2, <3>1 DEF OthersKeep
    <3>3. QED
      BY <3>2 DEF RunInvariant, RunsHaveOneWriter
  <2>10. ASSUME NEW v \in Workers PROVE OpenMetricIsCurrent(v)'
    <3>1. CASE v # w
      <4>1. /\ pc'[v] = pc[v] /\ run'[v] = run[v]
            /\ CurrentRepo(v)' = CurrentRepo(v) /\ metrics' = metrics
        BY <1>2, <3>1 DEF OthersKeep, CurrentRepo
      <4>2. QED
        BY <4>1 DEF RunInvariant, OpenMetricIsCurrent
    <3>2. CASE v = w
      BY <1>3, <3>2 DEF OpenMetricIsCurrent
    <3>3. QED
      BY <3>1, <3>2
  <2>11. ASSUME NEW i \in RunIds PROVE RowIsConsistent(i)'
    <3>1. CASE i = id
      BY <2>3, <2>4, <2>5, <3>1 DEF RowIsConsistent
    <3>2. CASE i # id
      BY <2>5, <3>2 DEF RunInvariant, RowIsConsistent
    <3>3. QED
      BY <3>1, <3>2
  <2>12. CompletedRunsAreWhole'
    <3>1. ASSUME NEW i \in RunIds, runs'[i].status = "completed"
          PROVE  runs'[i] = runs[i]
      BY <2>3, <2>5, <3>1
    <3>2. QED
      BY <3>1 DEF RunInvariant, CompletedRunsAreWhole
  <2>13. QED
    BY <2>6, <2>8, <2>9, <2>10, <2>11, <2>12 DEF RunInvariant
<1>6. QED
  BY <1>4, <1>5

-----------------------------------------------------------------------------
\* Every step keeps the invariant.
LEMMA NextInvariant == RunInvariant /\ [Next]_vars => RunInvariant'
<1> SUFFICES ASSUME RunInvariant, [Next]_vars PROVE RunInvariant'
  OBVIOUS
<1>1. CASE UNCHANGED vars
  <2>1. TypeOK'
    BY <1>1 DEF vars, tables, locals, RunInvariant, TypeOK
  <2>2. QED
    BY <1>1, <2>1, KeepEverything DEF vars, tables, locals
<1>2. CASE \/ \E p \in Platforms : Request(p)
           \/ Tick
           \/ \E r \in Repos : ForceRescan(r)
           \/ Backfill
  BY <1>2, EnvironmentStep
<1>3. CASE \E w \in Workers : Kill(w)
  BY <1>3, KillStep
<1>4. CASE \E w \in Workers, p \in Platforms : StartTask(w, p)
  BY <1>4, StartTaskStep
<1>5. ASSUME NEW w \in Workers, WorkerStep(w) PROVE RunInvariant'
  BY <1>5, StoreScopeStep, ListRepositoriesStep, StartRunStep, BeginRepoStep,
     CheckIntervalStep, StoreRepoStep, StartMetricStep, ExtractContentStep,
     StampAnalyzedStep, CompleteMetricStep, FailMetricStep, EndRepoStep,
     CompleteRunStep, FailRunStep, FinishTaskStep, RecordTaskFailureStep
     DEF WorkerStep
<1>6. QED
  BY <1>1, <1>2, <1>3, <1>4, <1>5 DEF Next

\* RunInvariant: the types, one writer per run, rows that count what their
\* worker has left behind, metrics open only where a worker is.
THEOREM Invariance == Spec => []RunInvariant
<1>1. Init => RunInvariant
  BY InitInvariant
<1>2. RunInvariant /\ [Next]_vars => RunInvariant'
  BY NextInvariant
<1>3. QED
  BY <1>1, <1>2, PTL DEF Spec

\* TypeOK: the tables and the locals keep their types.
THEOREM TypeCorrectness == Spec => []TypeOK
<1>1. RunInvariant => TypeOK
  BY DEF RunInvariant
<1>2. QED
  BY <1>1, Invariance, PTL

\* RunsHaveOneWriter: however many requests overlap, no two workers write the
\* same run.
THEOREM OneWriter == Spec => []RunsHaveOneWriter
<1>1. RunInvariant => RunsHaveOneWriter
  BY DEF RunInvariant
<1>2. QED
  BY <1>1, Invariance, PTL

\* CompletedRunsAreWhole: a completed run processed every repository it
\* listed and left no metric open.
THEOREM WholeRuns == Spec => []CompletedRunsAreWhole
<1>1. RunInvariant => CompletedRunsAreWhole
  BY DEF RunInvariant
<1>2. QED
  BY <1>1, Invariance, PTL

-----------------------------------------------------------------------------
\* Nothing is written to a run, to its metrics or to its digest.
Untouched(id) ==
  runs'[id] = runs[id] /\ metrics'[id] = metrics[id] /\ summaries'[id] = summaries[id]

LEMMA WriterLeavesOthers ==
  ASSUME RunInvariant, NEW w \in Workers, WorkerStep(w),
         NEW id \in RunIds, runs[id].status # "absent", pc[w] \in InRun => run[w] # id
  PROVE  Untouched(id)
<1> USE DEF Untouched, tables, locals
<1>1. TypeOK
  BY DEF RunInvariant
<1>2. CASE StoreScope(w) \/ FinishTask(w) \/ StoreRepo(w) \/ StampAnalyzed(w)
           \/ ExtractContent(w) \/ ListRepositories(w)
  BY <1>2 DEF StoreScope, FinishTask, StoreRepo, StampAnalyzed, ExtractContent,
     ListRepositories
<1>3. CASE StartRun(w)
  BY <1>1, <1>3 DEF StartRun, TypeOK
<1>4. CASE BeginRepo(w)
  BY <1>1, <1>4 DEF BeginRepo, SetProgress, TypeOK, InRun
<1>5. CASE EndRepo(w)
  BY <1>1, <1>5 DEF EndRepo, SetProgress, TypeOK, InRun
<1>6. CASE CheckInterval(w)
  BY <1>1, <1>6 DEF CheckInterval, NewMetric, TypeOK, InRun
<1>7. CASE StartMetric(w)
  BY <1>1, <1>7 DEF StartMetric, NewMetric, TypeOK, InRun
<1>8. CASE CompleteMetric(w)
  BY <1>1, <1>8 DEF CompleteMetric, SetMetric, TypeOK, InRun
<1>9. CASE FailMetric(w)
  BY <1>1, <1>9 DEF FailMetric, SetMetric, TypeOK, InRun
<1>10. CASE CompleteRun(w)
  BY <1>1, <1>10 DEF CompleteRun, TypeOK, InRun
<1>11. CASE FailRun(w)
  BY <1>1, <1>11 DEF FailRun, TypeOK, InRun
<1>12. CASE RecordTaskFailure(w)
  BY <1>1, <1>12 DEF RecordTaskFailure, TypeOK
<1>13. QED
  BY <1>2, <1>3, <1>4, <1>5, <1>6, <1>7, <1>8, <1>9, <1>10, <1>11, <1>12
     DEF WorkerStep

LEMMA EndedStaysEnded ==
  ASSUME RunInvariant, [Next]_vars, NEW id \in RunIds, runs[id].ended > 0
  PROVE  Untouched(id) \/ Backfill
<1>1. runs[id].status \in {"completed", "failed"}
  BY DEF RunInvariant, RowIsConsistent
<1>2. \A w \in Workers : pc[w] \in InRun => run[w] # id
  BY <1>1 DEF RunInvariant, OwnRun
<1>3. CASE \E w \in Workers : WorkerStep(w)
  BY <1>1, <1>2, <1>3, WriterLeavesOthers
<1>4. CASE \/ UNCHANGED vars
           \/ \E p \in Platforms : Request(p)
           \/ Tick
           \/ \E r \in Repos : ForceRescan(r)
           \/ \E w \in Workers : Kill(w)
           \/ \E w \in Workers, p \in Platforms : StartTask(w, p)
  BY <1>4 DEF vars, tables, Request, Tick, ForceRescan, Kill, StartTask, Untouched
<1>5. QED
  BY <1>3, <1>4 DEF Next

LEMMA EndedRowStays ==
  ASSUME RunInvariant, [Next]_vars, NEW id \in RunIds, runs[id].ended > 0
  PROVE  runs'[id] = runs[id] /\ metrics'[id] = metrics[id]
<1>1. Backfill => UNCHANGED <<runs, metrics>>
  BY DEF Backfill
<1>2. QED
  BY <1>1, EndedStaysEnded DEF Untouched

\* A digest is written by the step that completes its run, or by a backfill.
LEMMA DigestIsWritten ==
  ASSUME RunInvariant, [Next]_vars, NEW id \in RunIds,
         summaries'[id] # summaries[id]
  PROVE  \/ Backfill
         \/ \E w \in Workers :
              /\ CompleteRun(w) /\ runs' # runs /\ run[w] = id
              /\ runs[id].status = "running" /\ runs'[id].status = "completed"
<1>1. CASE \E w \in Workers : CompleteRun(w)
  <2>1. PICK w \in Workers : CompleteRun(w)
    BY <1>1
  <2>2. /\ run[w] \in RunIds /\ runs[run[w]].status = "running"
        /\ runs \in [RunIds -> RunRow] /\ runs[run[w]] \in RunRow
        /\ DOMAIN summaries = RunIds
    BY <2>1 DEF CompleteRun, RunInvariant, OwnRun, InRun, TypeOK
  <2>3. /\ runs' = [runs EXCEPT ![run[w]] = Ended(@, "completed")]
        /\ \A other \in RunIds \ {run[w]} : summaries'[other] = summaries[other]
    BY <2>1, <2>2 DEF CompleteRun
  <2>4. run[w] = id
    BY <2>3
  <2>5. runs'[id] = Ended(runs[id], "completed")
    BY <2>2, <2>3, <2>4
  <2>6. Ended(runs[id], "completed").status = "completed"
    BY <2>2, <2>4, EndedType DEF RunInvariant
  <2>7. QED
    BY <2>1, <2>2, <2>4, <2>5, <2>6
<1>2. CASE UNCHANGED summaries
  BY <1>2
<1>3. ASSUME NEW w \in Workers, WorkerStep(w), ~CompleteRun(w)
      PROVE  UNCHANGED summaries
  BY <1>3 DEF WorkerStep, StoreScope, ListRepositories, StartRun, BeginRepo,
     CheckInterval, StoreRepo, StartMetric, ExtractContent, StampAnalyzed,
     CompleteMetric, FailMetric, EndRepo, FailRun, FinishTask,
     RecordTaskFailure, tables
<1>4. CASE \/ UNCHANGED vars
           \/ \E p \in Platforms : Request(p)
           \/ Tick
           \/ \E r \in Repos : ForceRescan(r)
           \/ \E w \in Workers : Kill(w)
           \/ \E w \in Workers, p \in Platforms : StartTask(w, p)
  BY <1>2, <1>4 DEF vars, tables, Request, Tick, ForceRescan, Kill, StartTask
<1>5. QED
  BY <1>1, <1>2, <1>3, <1>4 DEF Next

LEMMA StepStandsStill ==
  RunInvariant /\ [Next]_vars => [\A id \in RunIds : StandsStill(id)]_vars
<1> SUFFICES ASSUME RunInvariant, [Next]_vars, NEW id \in RunIds
             PROVE  StandsStill(id)
  OBVIOUS
<1>1. ASSUME runs[id].ended > 0 PROVE UNCHANGED <<runs[id], metrics[id]>>
  BY <1>1, EndedRowStays
<1>2. ASSUME summaries'[id] # summaries[id]
      PROVE  \/ runs[id].status = "running" /\ runs'[id].status = "completed"
             \/ Backfill
  BY <1>2, DigestIsWritten
<1>3. QED
  BY <1>1, <1>2 DEF StandsStill

\* EndedRunsAreFinal: the history the digests compare against stands still, and
\* nothing but the completion of its run and the backfill writes a digest.
THEOREM EndedRunsStandStill == Spec => EndedRunsAreFinal
BY Invariance, StepStandsStill, PTL DEF Spec, EndedRunsAreFinal

-----------------------------------------------------------------------------
(* The runs of Extraction implement RunLifecycle: every step of the        *)
(* pipeline maps, under the refinement mapping RunRows, to a step of the   *)
(* life cycle or to a stutter.  The invariant RunInvariant says where a    *)
(* worker stands when it writes its row; the one fact it lacks is that the *)
(* total of a new run is the length of a listing the scope may have.       *)

\* A worker about to start a run holds a listing of its scope.
HoldsListing(w) ==
  pc[w] = "start_run" => Len(listing[w]) \in ListingLengths

RefinementInvariant == RunInvariant /\ \A w \in Workers : HoldsListing(w)

LEMMA InitHolds == Init => RefinementInvariant
BY InitInvariant DEF Init, RefinementInvariant, HoldsListing

LEMMA ListRepositoriesHolds ==
  ASSUME RunInvariant, NEW w \in Workers, ListRepositories(w)
  PROVE  HoldsListing(w)'
<1>1. /\ TypeOK /\ pc \in [Workers -> Labels] /\ listing \in [Workers -> Seq(Repos)]
      /\ scopes[w] # <<>> /\ scopes[w] \in Seq(Scopes) /\ pc[w] = "list"
  BY DEF RunInvariant, TypeOK, HasScope, ListRepositories, InScope, InRun
<1>2. Head(scopes[w]) \in Scopes
  BY <1>1
<1>3. CASE \E l \in Listings[Head(scopes[w])] :
             listing' = [listing EXCEPT ![w] = l]
  <2>1. PICK l \in Listings[Head(scopes[w])] :
          listing' = [listing EXCEPT ![w] = l]
    BY <1>3
  <2>2. listing'[w] = l /\ l \in UNION {Listings[s] : s \in Scopes}
    BY <1>1, <1>2, <2>1
  <2>3. Len(listing'[w]) \in ListingLengths
    BY <2>2 DEF ListingLengths
  <2>4. ListingLengths' = ListingLengths
    OBVIOUS
  <2>5. QED
    BY <2>3, <2>4 DEF HoldsListing
<1>4. CASE pc'[w] # "start_run"
  BY <1>4 DEF HoldsListing
<1>5. QED
  <2>1. LeaveScope(w) \/ Goto(w, "record") => pc'[w] # "start_run"
    BY <1>1 DEF LeaveScope, Goto
  <2>2. QED
    BY <1>3, <1>4, <2>1 DEF ListRepositories

\* Every other step of a worker leads elsewhere than to the start of a run.
LEMMA OtherStepsHold ==
  ASSUME RunInvariant, NEW w \in Workers,
         \/ \E p \in Platforms : StartTask(w, p)
         \/ Kill(w) \/ StoreScope(w) \/ StartRun(w)
         \/ BeginRepo(w) \/ CheckInterval(w) \/ StoreRepo(w) \/ StartMetric(w)
         \/ ExtractContent(w) \/ StampAnalyzed(w) \/ CompleteMetric(w)
         \/ FailMetric(w) \/ EndRepo(w) \/ CompleteRun(w) \/ FailRun(w)
         \/ FinishTask(w) \/ RecordTaskFailure(w)
  PROVE  pc'[w] # "start_run"
<1>1. pc \in [Workers -> Labels]
  BY DEF RunInvariant, TypeOK
<1>2. QED
  BY <1>1 DEF Kill, StartTask, StoreScope, StartRun, BeginRepo, CheckInterval,
     StoreRepo, StartMetric, ExtractContent, StampAnalyzed, CompleteMetric,
     FailMetric, EndRepo, CompleteRun, FailRun, FinishTask, RecordTaskFailure,
     LeaveScope, Goto

\* A worker's step leaves the other workers where they are.
LEMMA OthersStay ==
  ASSUME RunInvariant, NEW w \in Workers,
         WorkerStep(w) \/ Kill(w) \/ \E p \in Platforms : StartTask(w, p),
         NEW v \in Workers, v # w
  PROVE  pc'[v] = pc[v] /\ listing'[v] = listing[v]
<1>1. pc \in [Workers -> Labels] /\ listing \in [Workers -> Seq(Repos)]
  BY DEF RunInvariant, TypeOK
<1>2. QED
  BY <1>1 DEF WorkerStep, Kill, StartTask, StoreScope, ListRepositories, StartRun,
     BeginRepo, CheckInterval, StoreRepo, StartMetric, ExtractContent,
     StampAnalyzed, CompleteMetric, FailMetric, EndRepo, CompleteRun, FailRun,
     FinishTask, RecordTaskFailure, LeaveScope, ClearLocals, Goto, locals

LEMMA NextHolds ==
  RefinementInvariant /\ [Next]_vars => RefinementInvariant'
<1> SUFFICES ASSUME RefinementInvariant, [Next]_vars
             PROVE  RefinementInvariant'
  OBVIOUS
<1>1. RunInvariant /\ RunInvariant'
  BY NextInvariant DEF RefinementInvariant
<1>2. ASSUME NEW v \in Workers, pc'[v] = pc[v], listing'[v] = listing[v]
      PROVE  HoldsListing(v)'
  <2>1. ListingLengths' = ListingLengths
    OBVIOUS
  <2>2. QED
    BY <1>2, <2>1 DEF HoldsListing, RefinementInvariant
<1>3. CASE \/ UNCHANGED vars
           \/ \E p \in Platforms : Request(p)
           \/ Tick
           \/ \E r \in Repos : ForceRescan(r)
           \/ Backfill
  <2>1. pc' = pc /\ listing' = listing
    BY <1>3 DEF vars, locals, Request, Tick, ForceRescan, Backfill
  <2>2. QED
    BY <1>1, <1>2, <2>1 DEF RefinementInvariant
<1>4. ASSUME NEW w \in Workers,
             WorkerStep(w) \/ Kill(w) \/ \E p \in Platforms : StartTask(w, p)
      PROVE  \A v \in Workers : HoldsListing(v)'
  <2>1. ASSUME NEW v \in Workers, v # w PROVE HoldsListing(v)'
    BY <1>1, <1>2, <1>4, <2>1, OthersStay
  <2>2. HoldsListing(w)'
    <3>1. CASE ListRepositories(w)
      BY <1>1, <3>1, ListRepositoriesHolds
    <3>2. CASE pc'[w] # "start_run"
      BY <3>2 DEF HoldsListing
    <3>3. QED
      BY <1>1, <1>4, <3>1, <3>2, OtherStepsHold DEF WorkerStep
  <2>3. QED
    BY <2>1, <2>2
<1>5. CASE \E w \in Workers :
             WorkerStep(w) \/ Kill(w) \/ \E p \in Platforms : StartTask(w, p)
  BY <1>1, <1>4, <1>5 DEF RefinementInvariant
<1>6. QED
  BY <1>3, <1>5 DEF Next

-----------------------------------------------------------------------------
(* The refinement mapping.                                                 *)

MappedRow(row) ==
  [status |-> row.status, total |-> row.total, processed |-> row.processed]

LEMMA RowMaps ==
  ASSUME TypeOK, NEW id \in RunIds, NEW row, runs' = [runs EXCEPT ![id] = row]
  PROVE  RunRows' = [RunRows EXCEPT ![id] = MappedRow(row)]
BY DEF TypeOK, RunRows, MappedRow

LEMMA RowsMap ==
  /\ \A id \in RunIds : RunRows[id] = MappedRow(runs[id])
  /\ Lifecycle!Absent = MappedRow(NoRow)
BY DEF RunRows, MappedRow, NoRow, Lifecycle!Absent

LEMMA InitMaps == Init => Lifecycle!LifecycleInit
BY DEF Init, RunRows, NoRow, Lifecycle!LifecycleInit, Lifecycle!Absent

\* Starting a run and recording a task's failure take a row that is absent.
LEMMA NewRowMaps ==
  ASSUME RefinementInvariant, NEW w \in Workers, StartRun(w) \/ RecordTaskFailure(w)
  PROVE  Lifecycle!LifecycleNext \/ UNCHANGED RunRows
<1>1. TypeOK /\ \A id \in RunIds : RowIsConsistent(id)
  BY DEF RefinementInvariant, RunInvariant
<1>2. \A id \in RunIds : runs[id].status = "absent" => RunRows[id] = Lifecycle!Absent
  BY <1>1, RowsMap DEF RowIsConsistent
<1>3. CASE StartRun(w)
  <2>1. CASE \E id \in RunIds :
               /\ runs[id].status = "absent"
               /\ runs' = [runs EXCEPT ![id] =
                    [NoRow EXCEPT !.status = "running",
                                  !.platform = platform[w],
                                  !.scope = Head(scopes[w]),
                                  !.total = Len(listing[w])]]
    <3>1. PICK id \in RunIds :
               /\ runs[id].status = "absent"
               /\ runs' = [runs EXCEPT ![id] =
                    [NoRow EXCEPT !.status = "running",
                                  !.platform = platform[w],
                                  !.scope = Head(scopes[w]),
                                  !.total = Len(listing[w])]]
      BY <2>1
    <3>2. RunRows' = [RunRows EXCEPT ![id] =
            [status |-> "running", total |-> Len(listing[w]), processed |-> 0]]
      BY <1>1, <3>1, RowMaps DEF MappedRow, NoRow
    <3>3. Len(listing[w]) \in ListingLengths
      BY <1>3 DEF RefinementInvariant, HoldsListing, StartRun
    <3>4. Lifecycle!Start(id, Len(listing[w]))
      BY <1>2, <3>1, <3>2 DEF Lifecycle!Start
    <3>5. QED
      BY <3>3, <3>4 DEF Lifecycle!LifecycleNext
  <2>2. CASE runs' = runs
    BY <2>2 DEF RunRows
  <2>3. QED
    BY <1>3, <2>1, <2>2 DEF StartRun
<1>4. CASE RecordTaskFailure(w)
  <2>1. CASE \E id \in RunIds :
               /\ runs[id].status = "absent"
               /\ runs' = [runs EXCEPT ![id] =
                    Ended([NoRow EXCEPT !.platform = platform[w],
                                        !.scope = TaskLevel], "failed")]
    <3>1. PICK id \in RunIds :
               /\ runs[id].status = "absent"
               /\ runs' = [runs EXCEPT ![id] =
                    Ended([NoRow EXCEPT !.platform = platform[w],
                                        !.scope = TaskLevel], "failed")]
      BY <2>1
    <3>2. RunRows' = [RunRows EXCEPT ![id] =
            [status |-> "failed", total |-> 0, processed |-> 0]]
      BY <1>1, <3>1, RowMaps DEF MappedRow, NoRow, Ended
    <3>3. Lifecycle!RecordFailure(id)
      BY <1>2, <3>1, <3>2 DEF Lifecycle!RecordFailure
    <3>4. QED
      BY <3>3 DEF Lifecycle!LifecycleNext
  <2>2. CASE runs' = runs
    BY <2>2 DEF RunRows
  <2>3. QED
    BY <1>4, <2>1, <2>2 DEF RecordTaskFailure
<1>5. QED
  BY <1>3, <1>4

\* Beginning a repository restates the count; ending it counts one more.
LEMMA ProgressMaps ==
  ASSUME RefinementInvariant, NEW w \in Workers, BeginRepo(w) \/ EndRepo(w)
  PROVE  Lifecycle!LifecycleNext \/ UNCHANGED RunRows
<1>1. TypeOK /\ OwnRun(w) /\ index[w] \in Nat \ {0} /\ pc[w] \in InRun
      /\ Len(listing[w]) \in Nat /\ pc[w] \in {"next_repo", "end_repo"}
  <2>1. TypeOK /\ OwnRun(w)
    BY DEF RefinementInvariant, RunInvariant
  <2>2. pc[w] \in {"next_repo", "end_repo"}
    BY DEF BeginRepo, EndRepo
  <2>3. pc[w] \in InRun
    BY <2>2 DEF InRun
  <2>4. index[w] \in Nat \ {0} /\ Len(listing[w]) \in Nat
    BY <2>1 DEF TypeOK
  <2>5. QED
    BY <2>1, <2>2, <2>3, <2>4
<1>2. /\ run[w] \in RunIds /\ runs[run[w]].status = "running"
      /\ runs[run[w]].total = Len(listing[w])
      /\ runs[run[w]].processed = index[w] - 1
      /\ pc[w] = "end_repo" => index[w] <= Len(listing[w])
  BY <1>1 DEF OwnRun, AtRepo, InRun
<1>3. runs[run[w]] \in RunRow /\ RunRows[run[w]] = MappedRow(runs[run[w]])
  BY <1>1, <1>2, RowsMap DEF TypeOK
<1>4. CASE runs' = runs
  BY <1>4 DEF RunRows
<1>5. ASSUME NEW n, NEW r, SetProgress(run[w], n, r)
      PROVE  RunRows' = [RunRows EXCEPT ![run[w]] =
               [status |-> "running", total |-> Len(listing[w]), processed |-> n]]
  <2>1. runs' = [runs EXCEPT ![run[w]] = ProgressRow(run[w], n, r)]
    BY <1>1, <1>2, <1>5 DEF SetProgress, ProgressRow, TypeOK
  <2>2. MappedRow(ProgressRow(run[w], n, r)) =
          [status |-> "running", total |-> Len(listing[w]), processed |-> n]
    BY <1>2, <1>3 DEF MappedRow, ProgressRow, RunRow
  <2>3. QED
    BY <1>1, <1>2, <2>1, <2>2, RowMaps
<1>6. CASE SetProgress(run[w], index[w] - 1, CurrentRepo(w))
  <2>1. RunRows' = [RunRows EXCEPT ![run[w]] = RunRows[run[w]]]
    BY <1>2, <1>3, <1>5, <1>6 DEF MappedRow
  <2>2. QED
    BY <2>1 DEF RunRows
<1>7. CASE EndRepo(w) /\ SetProgress(run[w], index[w], None)
  <2>1. RunRows' = [RunRows EXCEPT ![run[w]] = [status |-> "running",
                      total |-> Len(listing[w]), processed |-> index[w]]]
    BY <1>5, <1>7
  <2>2. RunRows[run[w]] = [status |-> "running", total |-> Len(listing[w]),
                           processed |-> index[w] - 1]
    BY <1>2, <1>3 DEF MappedRow
  <2>3. RunRows[run[w]].processed < RunRows[run[w]].total
    BY <1>1, <1>2, <1>7, <2>2 DEF EndRepo
  <2>4. [RunRows[run[w]] EXCEPT !.processed = @ + 1] =
          [status |-> "running", total |-> Len(listing[w]), processed |-> index[w]]
    <3>1. (index[w] - 1) + 1 = index[w]
      BY <1>1
    <3>2. QED
      BY <2>2, <3>1
  <2>5. Lifecycle!Progress(run[w])
    BY <2>1, <2>2, <2>3, <2>4 DEF Lifecycle!Progress
  <2>6. QED
    BY <1>2, <2>5 DEF Lifecycle!LifecycleNext
<1>8. QED
  BY <1>4, <1>6, <1>7 DEF BeginRepo, EndRepo

\* A run is completed where its worker has passed the last repository.
LEMMA EndMaps ==
  ASSUME RefinementInvariant, NEW w \in Workers, CompleteRun(w) \/ FailRun(w)
  PROVE  Lifecycle!LifecycleNext \/ UNCHANGED RunRows
<1>1. TypeOK /\ OwnRun(w) /\ index[w] \in Nat \ {0} /\ pc[w] \in InRun
      /\ Len(listing[w]) \in Nat
  BY DEF RefinementInvariant, RunInvariant, TypeOK, CompleteRun, FailRun, InRun
<1>2. /\ run[w] \in RunIds /\ runs[run[w]].status = "running"
      /\ runs[run[w]].total = Len(listing[w])
      /\ runs[run[w]].processed = index[w] - 1
      /\ index[w] <= Len(listing[w]) + 1
  BY <1>1 DEF OwnRun
<1>3. runs[run[w]] \in RunRow /\ RunRows[run[w]] = MappedRow(runs[run[w]])
  BY <1>1, <1>2, RowsMap DEF TypeOK
<1>4. CASE runs' = runs
  BY <1>4 DEF RunRows
<1>5. ASSUME NEW status,
             runs' = [runs EXCEPT ![run[w]] = Ended(runs[run[w]], status)]
      PROVE  RunRows' = [RunRows EXCEPT ![run[w]].status = status]
  <2>1. MappedRow(Ended(runs[run[w]], status)) =
          [RunRows[run[w]] EXCEPT !.status = status]
    BY <1>3 DEF MappedRow, Ended, RunRow
  <2>2. RunRows' = [RunRows EXCEPT ![run[w]] = MappedRow(Ended(runs[run[w]], status))]
    BY <1>1, <1>2, <1>5, RowMaps
  <2>3. QED
    BY <2>1, <2>2
<1>6. CASE CompleteRun(w) /\ runs' # runs
  <2>1. /\ runs' = [runs EXCEPT ![run[w]] = Ended(runs[run[w]], "completed")]
        /\ index[w] > Len(listing[w])
    BY <1>6 DEF CompleteRun
  <2>2. RunRows' = [RunRows EXCEPT ![run[w]].status = "completed"]
    BY <1>5, <2>1
  <2>3. RunRows[run[w]].status = "running"
        /\ RunRows[run[w]].processed = RunRows[run[w]].total
    BY <1>1, <1>2, <1>3, <2>1 DEF MappedRow
  <2>4. Lifecycle!Complete(run[w])
    BY <2>2, <2>3 DEF Lifecycle!Complete
  <2>5. QED
    BY <1>2, <2>4 DEF Lifecycle!LifecycleNext
<1>7. CASE FailRun(w) /\ runs' # runs
  <2>1. runs' = [runs EXCEPT ![run[w]] = Ended(runs[run[w]], "failed")]
    BY <1>7 DEF FailRun
  <2>2. RunRows' = [RunRows EXCEPT ![run[w]].status = "failed"]
    BY <1>5, <2>1
  <2>3. RunRows[run[w]].status = "running"
    BY <1>2, <1>3 DEF MappedRow
  <2>4. Lifecycle!Fail(run[w])
    BY <2>2, <2>3 DEF Lifecycle!Fail
  <2>5. QED
    BY <1>2, <2>4 DEF Lifecycle!LifecycleNext
<1>8. QED
  BY <1>4, <1>6, <1>7

LEMMA NextMaps ==
  RefinementInvariant /\ [Next]_vars => [Lifecycle!LifecycleNext]_RunRows
<1> SUFFICES ASSUME RefinementInvariant, [Next]_vars
             PROVE  Lifecycle!LifecycleNext \/ UNCHANGED RunRows
  OBVIOUS
<1>1. CASE runs' = runs
  BY <1>1 DEF RunRows
<1>2. ASSUME NEW w \in Workers, WorkerStep(w)
      PROVE  Lifecycle!LifecycleNext \/ UNCHANGED RunRows
  <2>1. CASE \/ StartRun(w) \/ RecordTaskFailure(w) \/ BeginRepo(w) \/ EndRepo(w)
             \/ CompleteRun(w) \/ FailRun(w)
    BY <2>1, NewRowMaps, ProgressMaps, EndMaps
  <2>2. CASE \/ StoreScope(w) \/ ListRepositories(w) \/ CheckInterval(w)
             \/ StoreRepo(w) \/ StartMetric(w) \/ ExtractContent(w)
             \/ StampAnalyzed(w) \/ CompleteMetric(w) \/ FailMetric(w)
             \/ FinishTask(w)
    BY <1>1, <2>2 DEF StoreScope, ListRepositories, CheckInterval, StoreRepo,
       StartMetric, ExtractContent, StampAnalyzed, CompleteMetric, FailMetric,
       FinishTask, tables
  <2>3. QED
    BY <1>2, <2>1, <2>2 DEF WorkerStep
<1>3. CASE \/ UNCHANGED vars
           \/ \E p \in Platforms : Request(p)
           \/ Tick
           \/ \E r \in Repos : ForceRescan(r)
           \/ \E w \in Workers : Kill(w)
           \/ \E w \in Workers, p \in Platforms : StartTask(w, p)
           \/ Backfill
  BY <1>1, <1>3 DEF vars, tables, Request, Tick, ForceRescan, Backfill, Kill,
     StartTask
<1>4. QED
  BY <1>2, <1>3 DEF Next

\* ImplementsLifecycle: whatever fails and whoever overlaps, the rows of
\* extraction_runs go through the life cycle their readers are promised.
THEOREM Refinement == Spec => ImplementsLifecycle
<1>1. Init => RefinementInvariant
  BY InitHolds
<1>2. RefinementInvariant /\ [Next]_vars => RefinementInvariant'
  BY NextHolds
<1>3. Init => Lifecycle!LifecycleInit
  BY InitMaps
<1>4. RefinementInvariant /\ [Next]_vars => [Lifecycle!LifecycleNext]_RunRows
  BY NextMaps
<1>5. QED
  BY <1>1, <1>2, <1>3, <1>4, PTL
     DEF Spec, ImplementsLifecycle, Lifecycle!LifecycleSpec

-----------------------------------------------------------------------------
(* What follows from the life cycle for its readers, whoever writes the    *)
(* rows.                                                                   *)

\* A row counts no further than its total, and is completed only there.
Counts(row) ==
  /\ row = [status |-> row.status, total |-> row.total, processed |-> row.processed]
  /\ row.total \in Nat /\ row.processed \in 0..row.total
  /\ row.status = "completed" => row.processed = row.total

RowsCount == \A id \in RunIds : Counts(RunRows[id])

\* A row that is there changes only while its run goes on, keeps its total
\* and counts up by one.
CountsUp(row, next) ==
  \/ next = row
  \/ row.status = "absent"
  \/ /\ row.status = "running" /\ next.status \in {"running", "completed", "failed"}
     /\ next.total = row.total
     /\ next.processed \in {row.processed, row.processed + 1}

RowsAdvance == \A id \in RunIds : CountsUp(RunRows[id], RunRows'[id])

LEMMA LengthsAre == ListingLengths \subseteq Nat
<1>1. ASSUME NEW s \in Scopes, NEW l \in Listings[s] PROVE Len(l) \in Nat
  <2>1. l \in Seq(Repos)
    BY ConstantsAssumption
  <2>2. QED
    BY <2>1
<1>2. QED
  BY <1>1 DEF ListingLengths

\* The row that a step of the life cycle writes.
LEMMA RowWritten ==
  ASSUME NEW id \in RunIds, Counts(RunRows[id]),
         \/ \E n \in ListingLengths : Lifecycle!Start(id, n)
         \/ Lifecycle!RecordFailure(id) \/ Lifecycle!Progress(id)
         \/ Lifecycle!Complete(id) \/ Lifecycle!Fail(id)
  PROVE  /\ Counts(RunRows'[id]) /\ CountsUp(RunRows[id], RunRows'[id])
         /\ \A other \in RunIds : other # id => RunRows'[other] = RunRows[other]
<1> DEFINE row == RunRows[id]
           next == RunRows'[id]
           others == \A other \in RunIds : other # id => RunRows'[other] = RunRows[other]
<1>1. RunRows = [x \in RunIds |-> RunRows[x]]
  BY DEF RunRows
<1>2. CASE \E n \in ListingLengths : Lifecycle!Start(id, n)
  <2>1. PICK n \in Nat : /\ row.status = "absent" /\ others
                         /\ next = [status |-> "running", total |-> n, processed |-> 0]
    BY <1>1, <1>2, LengthsAre DEF Lifecycle!Start, Lifecycle!Absent
  <2> HIDE DEF row, next, others
  <2>2. Counts(next) /\ CountsUp(row, next) /\ others
    BY <2>1 DEF Counts, CountsUp
  <2>3. QED
    BY <2>2 DEF row, next, others
<1>3. CASE Lifecycle!RecordFailure(id)
  <2>1. /\ row.status = "absent" /\ others
        /\ next = [status |-> "failed", total |-> 0, processed |-> 0]
    BY <1>1, <1>3 DEF Lifecycle!RecordFailure, Lifecycle!Absent
  <2> HIDE DEF row, next, others
  <2>2. Counts(next) /\ CountsUp(row, next) /\ others
    BY <2>1 DEF Counts, CountsUp
  <2>3. QED
    BY <2>2 DEF row, next, others
<1>4. CASE Lifecycle!Progress(id)
  <2>1. /\ row.status = "running" /\ row.processed < row.total /\ others
        /\ next = [row EXCEPT !.processed = row.processed + 1]
    BY <1>1, <1>4 DEF Lifecycle!Progress
  <2>2. Counts(row)
    OBVIOUS
  <2> HIDE DEF row, next, others
  <2>3. next = [status |-> row.status, total |-> row.total, processed |-> row.processed + 1]
    BY <2>1, <2>2 DEF Counts
  <2>4. Counts(next) /\ CountsUp(row, next) /\ others
    BY <2>1, <2>2, <2>3 DEF Counts, CountsUp
  <2>5. QED
    BY <2>4 DEF row, next, others
<1>5. CASE Lifecycle!Complete(id) \/ Lifecycle!Fail(id)
  <2>1. PICK status \in {"completed", "failed"} :
          /\ row.status = "running" /\ (status = "completed" => row.processed = row.total) /\ others
          /\ next = [row EXCEPT !.status = status]
    BY <1>1, <1>5 DEF Lifecycle!Complete, Lifecycle!Fail
  <2>2. Counts(row)
    OBVIOUS
  <2> HIDE DEF row, next, others
  <2>3. next = [status |-> status, total |-> row.total, processed |-> row.processed]
    BY <2>1, <2>2 DEF Counts
  <2>4. Counts(next) /\ CountsUp(row, next) /\ others
    BY <2>1, <2>2, <2>3 DEF Counts, CountsUp
  <2>5. QED
    BY <2>4 DEF row, next, others
<1>6. QED
  BY <1>2, <1>3, <1>4, <1>5

\* What the life cycle means for a reader that polls the rows: the progress
\* it shows never goes back and never passes the total, the total it is shown
\* against does not change, and a run is shown as completed at the total only.
LEMMA LifecycleCounts == Lifecycle!LifecycleSpec => []RowsCount /\ [][RowsAdvance]_RunRows
<1>1. Lifecycle!LifecycleInit => RowsCount
  <2> SUFFICES ASSUME Lifecycle!LifecycleInit, NEW id \in RunIds PROVE Counts(RunRows[id])
    BY DEF RowsCount
  <2>1. RunRows[id] = [status |-> "absent", total |-> 0, processed |-> 0]
    BY DEF Lifecycle!LifecycleInit, Lifecycle!Absent
  <2>2. QED
    BY <2>1 DEF Counts
<1>2. RowsCount /\ [Lifecycle!LifecycleNext]_RunRows => RowsCount' /\ RowsAdvance
  <2> SUFFICES ASSUME RowsCount, [Lifecycle!LifecycleNext]_RunRows PROVE RowsCount' /\ RowsAdvance
    OBVIOUS
  <2>1. CASE UNCHANGED RunRows
    BY <2>1 DEF RowsCount, RowsAdvance, CountsUp
  <2>2. CASE Lifecycle!LifecycleNext
    <3>1. PICK id \in RunIds :
            \/ \E n \in ListingLengths : Lifecycle!Start(id, n)
            \/ Lifecycle!RecordFailure(id) \/ Lifecycle!Progress(id)
            \/ Lifecycle!Complete(id) \/ Lifecycle!Fail(id)
      BY <2>2 DEF Lifecycle!LifecycleNext
    <3>2. /\ Counts(RunRows'[id]) /\ CountsUp(RunRows[id], RunRows'[id])
          /\ \A other \in RunIds : other # id => RunRows'[other] = RunRows[other]
      BY <3>1, RowWritten DEF RowsCount
    <3>3. ASSUME NEW other \in RunIds, other # id
          PROVE  Counts(RunRows'[other]) /\ CountsUp(RunRows[other], RunRows'[other])
      BY <3>2, <3>3 DEF RowsCount, CountsUp
    <3>4. QED
      BY <3>2, <3>3 DEF RowsCount, RowsAdvance
  <2>3. QED
    BY <2>1, <2>2
<1>3. QED
  BY <1>1, <1>2, PTL DEF Lifecycle!LifecycleSpec

\* The progress of extraction_runs is steady, for any number of workers and
\* whatever fails or is run twice: this follows from the life cycle alone,
\* which the extraction implements.
THEOREM ProgressIsSteady == Spec => []RowsCount /\ [][RowsAdvance]_RunRows
<1>1. QED
  BY Refinement, LifecycleCounts, PTL DEF ImplementsLifecycle

=============================================================================
