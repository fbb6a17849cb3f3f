-------------------------- MODULE Migrations_proofs --------------------------
(***************************************************************************)
(* Proofs about Migrations, for any number of runners, starts, files and   *)
(* statements, and with every disturbance.                                 *)
(***************************************************************************)
EXTENDS Migrations, TLAPS

LEMMA InitInvariant == Init => MigrationInvariant
<1> SUFFICES ASSUME Init PROVE MigrationInvariant
  OBVIOUS
<1>1. TypeOK
  <2>1. origin \in {"new", "old"} /\ statements \in 0..SchemaSize
    BY MigrationsAssumption DEF Init
  <2>2. effect \in [Files -> {"none", "begun", "done"}]
    BY DEF Init
  <2>3. released \in 0..MaxFiles /\ starts \in 0..MaxStarts /\ 0 \in 0..MaxFiles
    BY MigrationsAssumption DEF Init
  <2>4. /\ pc \in [Runners -> Labels] /\ next \in [Runners -> Nat \ {0}]
        /\ files \in [Runners -> 0..MaxFiles]
    BY <2>3 DEF Init, Labels, Resting
  <2>5. existing \in [Runners -> BOOLEAN] /\ untracked \in [Runners -> BOOLEAN]
    BY DEF Init
  <2>6. /\ tracking \in BOOLEAN /\ misread \in BOOLEAN
        /\ recorded = {} /\ backfilled = {} /\ covered = 0
    BY DEF Init
  <2>7. QED
    BY <2>1, <2>2, <2>3, <2>4, <2>5, <2>6 DEF TypeOK
<1>2. recorded = {} /\ \A m \in Runners : pc[m] = "idle"
  BY DEF Init
<1>3. RecordedInOrder /\ SuccessIsRecorded /\ RecordedIsExecuted
  BY <1>2 DEF RecordedInOrder, SuccessIsRecorded, RecordedIsExecuted
<1>4. \A m \in Runners : Position(m)
  BY <1>2 DEF Position
<1>5. QED
  BY <1>1, <1>3, <1>4 DEF MigrationInvariant

\* Every step keeps the types.
LEMMA TypeStep == MigrationInvariant /\ [Next]_mvars => TypeOK'
<1> SUFFICES ASSUME MigrationInvariant, [Next]_mvars PROVE TypeOK'
  OBVIOUS
<1> USE DEF Goto, database, script, ghosts
<1>1. TypeOK /\ \A m \in Runners : Position(m)
  BY DEF MigrationInvariant
<1>2. CASE UNCHANGED mvars
  BY <1>1, <1>2 DEF mvars, TypeOK
<1>3. CASE Release
  BY <1>1, <1>3, MigrationsAssumption DEF Release, TypeOK
<1>4. ASSUME NEW m \in Runners, StartRunner(m) \/ KillRunner(m)
      PROVE  TypeOK'
  BY <1>1, <1>4, MigrationsAssumption
     DEF StartRunner, KillRunner, TypeOK, Labels, Resting
<1>5. ASSUME NEW m \in Runners, Detect(m) PROVE TypeOK'
  <2>1. /\ existing' \in [Runners -> BOOLEAN] /\ existing'[m] \in BOOLEAN
    BY <1>1, <1>5 DEF Detect, TypeOK, HasTables
  <2>3. pc' \in [Runners -> Labels]
    BY <1>1, <1>5 DEF Detect, TypeOK, Labels
  <2>4. next' \in [Runners -> Nat \ {0}]
    BY <1>1, <1>5 DEF Detect, TypeOK
  <2>5. QED
    BY <1>1, <1>5, <2>1, <2>3, <2>4 DEF Detect, TypeOK
<1>6. ASSUME NEW m \in Runners, CreateSchema(m) PROVE TypeOK'
  <2>1. next[m] \in Nat \ {0} /\ statements \in 0..SchemaSize /\ SchemaSize \in Nat
    BY <1>1, MigrationsAssumption DEF TypeOK
  <2>2. next' \in [Runners -> Nat \ {0}]
    BY <1>1, <1>6, <2>1 DEF CreateSchema, TypeOK
  <2>3. pc' \in [Runners -> Labels]
    BY <1>1, <1>6 DEF CreateSchema, TypeOK, Labels, Resting
  <2>4. statements' \in 0..SchemaSize
    BY <1>1, <1>6, <2>1 DEF CreateSchema, Position
  <2>5. QED
    BY <1>1, <1>6, <2>2, <2>3, <2>4 DEF CreateSchema, TypeOK
<1>7. ASSUME NEW m \in Runners, Probe(m) PROVE TypeOK'
  BY <1>1, <1>7 DEF Probe, TypeOK, Labels, Resting
<1>8. ASSUME NEW m \in Runners, NEW label \in Labels, Loop(m, label)
      PROVE  /\ pc' \in [Runners -> Labels] /\ files' \in [Runners -> 0..MaxFiles]
             /\ next' \in [Runners -> Nat \ {0}]
  BY <1>1, <1>8 DEF Loop, TypeOK
<1>9. ASSUME NEW m \in Runners, Track(m) PROVE TypeOK'
  <2>1. {"backfill", "apply", "failed"} \subseteq Labels
    BY DEF Labels, Resting
  <2>2. /\ pc' \in [Runners -> Labels] /\ files' \in [Runners -> 0..MaxFiles]
        /\ next' \in [Runners -> Nat \ {0}]
    BY <1>1, <1>8, <1>9, <2>1 DEF Track, TypeOK
  <2>3. tracking' \in BOOLEAN /\ covered' \in 0..MaxFiles
    BY <1>1, <1>9 DEF Track, Cover, TypeOK
  <2>4. QED
    BY <1>1, <1>9, <2>2, <2>3 DEF Track, TypeOK
<1>10. ASSUME NEW m \in Runners, RecordNext(m), next[m] <= files[m]
      PROVE  recorded' \in SUBSET Files /\ next' \in [Runners -> Nat \ {0}]
             /\ next[m] \in Files
  <2>1. next[m] \in Nat \ {0} /\ files[m] \in 0..MaxFiles
    BY <1>1 DEF TypeOK
  <2>2. next[m] \in Files
    BY <1>10, <2>1, MigrationsAssumption DEF Files
  <2>3. QED
    BY <1>1, <1>10, <2>1, <2>2 DEF RecordNext, TypeOK
<1>11. ASSUME NEW m \in Runners, Backfill(m) PROVE TypeOK'
  <2>1. {"apply", "failed"} \subseteq Labels
    BY DEF Labels, Resting
  <2>2. CASE /\ next[m] <= files[m] /\ RecordNext(m) /\ UNCHANGED <<pc, files>>
             /\ backfilled' = backfilled \cup ({next[m]} \ recorded)
    <3>1. backfilled' \in SUBSET Files
      BY <1>1, <1>10, <2>2 DEF TypeOK
    <3>2. QED
      BY <1>1, <1>10, <1>11, <2>2, <3>1 DEF Backfill, TypeOK
  <2>3. CASE Goto(m, "failed") /\ UNCHANGED <<recorded, next, backfilled, files>>
    BY <1>1, <1>11, <2>1, <2>3 DEF Backfill, TypeOK
  <2>4. CASE Loop(m, "apply") /\ UNCHANGED <<recorded, backfilled>>
    BY <1>1, <1>8, <1>11, <2>1, <2>4 DEF Backfill, TypeOK
  <2>5. QED
    BY <1>11, <2>2, <2>3, <2>4 DEF Backfill
<1>12. ASSUME NEW m \in Runners, Check(m) \/ Execute(m) \/ FinishFile(m)
      PROVE  TypeOK'
  BY <1>1, <1>12 DEF Check, Execute, FinishFile, TypeOK, Labels, Resting
<1>13. ASSUME NEW m \in Runners, RecordFile(m) PROVE TypeOK'
  <2>1. {"apply", "failed"} \subseteq Labels /\ next[m] <= files[m]
    BY <1>1, <1>13 DEF Labels, Resting, Position, RecordFile
  <2>2. recorded' \in SUBSET Files /\ next' \in [Runners -> Nat \ {0}]
    BY <1>1, <1>10, <1>13, <2>1 DEF RecordFile, TypeOK
  <2>3. QED
    BY <1>1, <1>13, <2>1, <2>2 DEF RecordFile, TypeOK
<1>14. QED
  BY <1>2, <1>3, <1>4, <1>5, <1>6, <1>7, <1>9, <1>11, <1>12, <1>13 DEF Next

-----------------------------------------------------------------------------
\* What every step of any runner does for the others: versions stay recorded,
\* migrations stay done.
Grows ==
  /\ recorded \subseteq recorded'
  /\ \A i \in Files : effect[i] = "done" => effect'[i] = "done"

\* Runner m stands, after its step, where the recorded versions allow.
Stands(m) ==
  /\ Position(m)'
  /\ pc'[m] = "done" => \A j \in Files : j <= files'[m] => j \in recorded'

LEMMA RunnerStep ==
  ASSUME MigrationInvariant, TypeOK', Grows, RecordedInOrder', RecordedIsExecuted',
         NEW m \in Runners, Stands(m),
         \A v \in Runners \ {m} : pc'[v] = pc[v] /\ next'[v] = next[v]
                                                /\ files'[v] = files[v]
  PROVE  MigrationInvariant'
<1>1. ASSUME NEW v \in Runners PROVE Stands(v)
  <2>1. CASE v = m
    BY <2>1
  <2>2. CASE v # m
    <3>1. /\ pc'[v] = pc[v] /\ next'[v] = next[v] /\ files'[v] = files[v]
          /\ Position(v)
          /\ pc[v] = "done" => \A j \in Files : j <= files[v] => j \in recorded
      BY <2>2 DEF MigrationInvariant, SuccessIsRecorded
    <3>2. pc[v] = "record" => next[v] \in Files
      <4>1. next[v] \in Nat \ {0} /\ files[v] \in 0..MaxFiles
        BY DEF MigrationInvariant, TypeOK
      <4>2. QED
        BY <3>1, <4>1, MigrationsAssumption DEF Position, Files
    <3>3. QED
      BY <3>1, <3>2 DEF Stands, Position, Grows
  <2>3. QED
    BY <2>1, <2>2
<1>2. QED
  BY <1>1 DEF Stands, MigrationInvariant, SuccessIsRecorded

\* Recording the next file of a loop whose earlier files are recorded.
LEMMA RecordNextStep ==
  ASSUME MigrationInvariant, NEW m \in Runners, RecordNext(m), next[m] <= files[m],
         \A j \in Files : j < next[m] => j \in recorded
  PROVE  /\ recorded' = recorded \cup {next[m]} /\ RecordedInOrder'
         /\ next[m] \in Files
         /\ \A j \in Files : j < next'[m] => j \in recorded'
<1>1. next[m] \in Nat \ {0} /\ files[m] \in 0..MaxFiles /\ recorded \in SUBSET Files
      /\ next \in [Runners -> Nat \ {0}] /\ RecordedInOrder
  BY DEF MigrationInvariant, TypeOK
<1>2. next[m] \in Files
  BY <1>1, MigrationsAssumption DEF Files
<1>3. recorded' = recorded \cup {next[m]} /\ next'[m] = next[m] + 1
  BY <1>1 DEF RecordNext
<1>4. RecordedInOrder'
  BY <1>1, <1>2, <1>3 DEF RecordedInOrder
<1>5. ASSUME NEW j \in Files, j < next'[m] PROVE j \in recorded'
  <2>1. j \in Nat
    BY MigrationsAssumption DEF Files
  <2>2. j < next[m] \/ j = next[m]
    BY <1>1, <1>3, <1>5, <2>1
  <2>3. QED
    BY <1>3, <2>2
<1>6. QED
  BY <1>2, <1>3, <1>4, <1>5

\* A step that writes neither versions nor effects.
LEMMA QuietStep ==
  ASSUME MigrationInvariant, TypeOK', recorded' = recorded, effect' = effect,
         backfilled' = backfilled, NEW m \in Runners, Stands(m),
         \A v \in Runners \ {m} : pc'[v] = pc[v] /\ next'[v] = next[v]
                                                /\ files'[v] = files[v]
  PROVE  MigrationInvariant'
<1>1. RecordedInOrder' /\ RecordedIsExecuted' /\ Grows
  BY DEF MigrationInvariant, RecordedInOrder, RecordedIsExecuted, Grows
<1>2. QED
  BY <1>1, RunnerStep

\* A step of runner m that takes it to where it owes nothing.
LEMMA StandsAside ==
  ASSUME NEW m \in Runners, pc'[m] \in {"detect", "probe", "track", "failed"}
  PROVE  Stands(m)
BY DEF Stands, Position

\* A loop that begins has nothing behind it.
LEMMA StandsAtFirst ==
  ASSUME NEW m \in Runners, pc'[m] \in {"backfill", "apply"}, next'[m] = 1
  PROVE  Stands(m)
<1>1. \A j \in Files : ~(j < 1)
  BY MigrationsAssumption DEF Files
<1>2. QED
  BY <1>1 DEF Stands, Position

LEMMA StartAndKillSteps ==
  ASSUME MigrationInvariant, TypeOK', NEW m \in Runners,
         StartRunner(m) \/ KillRunner(m)
  PROVE  MigrationInvariant'
<1> USE DEF StartRunner, KillRunner, Goto, database, script, ghosts
<1>1. pc \in [Runners -> Labels]
  BY DEF MigrationInvariant, TypeOK
<1>2. Stands(m)
  BY <1>1, StandsAside
<1>3. QED
  BY <1>1, <1>2, QuietStep

LEMMA BootstrapSteps ==
  ASSUME MigrationInvariant, TypeOK', NEW m \in Runners,
         Detect(m) \/ CreateSchema(m) \/ Probe(m) \/ Track(m)
  PROVE  MigrationInvariant'
<1> USE DEF Goto, database, script, ghosts
<1>1. /\ pc \in [Runners -> Labels] /\ next \in [Runners -> Nat \ {0}]
      /\ files \in [Runners -> 0..MaxFiles] /\ Position(m)
  BY DEF MigrationInvariant, TypeOK
<1>2. CASE Detect(m)
  <2>1. /\ pc'[m] \in {"probe", "schema"} /\ next'[m] = 1
    BY <1>1, <1>2 DEF Detect
  <2>2. Stands(m)
    <3>1. CASE pc'[m] = "probe"
      BY <3>1, StandsAside
    <3>2. CASE pc'[m] = "schema"
      BY <2>1, <3>2, MigrationsAssumption DEF Stands, Position
    <3>3. QED
      BY <2>1, <3>1, <3>2
  <2>3. QED
    BY <1>1, <1>2, <2>2, QuietStep DEF Detect
<1>3. CASE CreateSchema(m)
  <2>1. \/ pc'[m] \in {"probe", "failed"}
        \/ pc'[m] = "schema" /\ next'[m] = next[m] + 1 /\ next[m] # SchemaSize
    BY <1>1, <1>3 DEF CreateSchema
  <2>2. Stands(m)
    <3>1. CASE pc'[m] \in {"probe", "failed"}
      BY <3>1, StandsAside
    <3>2. CASE pc'[m] = "schema" /\ next'[m] = next[m] + 1 /\ next[m] # SchemaSize
      <4>1. next[m] \in Nat /\ next[m] <= SchemaSize /\ SchemaSize \in Nat
        BY <1>1, <1>3, MigrationsAssumption DEF CreateSchema, Position
      <4>2. next'[m] <= SchemaSize
        BY <3>2, <4>1
      <4>3. QED
        BY <3>2, <4>2 DEF Stands, Position
    <3>3. QED
      BY <2>1, <3>1, <3>2
  <2>3. QED
    BY <1>1, <1>3, <2>2, QuietStep DEF CreateSchema
<1>4. CASE Probe(m)
  <2>1. Stands(m)
    BY <1>1, <1>4, StandsAside DEF Probe
  <2>2. QED
    BY <1>1, <1>4, <2>1, QuietStep DEF Probe
<1>5. CASE Track(m)
  <2>1. Stands(m)
    BY <1>1, <1>5, StandsAside, StandsAtFirst DEF Track, Loop
  <2>2. QED
    BY <1>1, <1>5, <2>1, QuietStep DEF Track, Loop
<1>6. QED
  BY <1>2, <1>3, <1>4, <1>5

LEMMA BackfillStep ==
  ASSUME MigrationInvariant, TypeOK', NEW m \in Runners, Backfill(m)
  PROVE  MigrationInvariant'
<1> USE DEF Goto
<1>1. /\ pc \in [Runners -> Labels] /\ next \in [Runners -> Nat \ {0}]
      /\ files \in [Runners -> 0..MaxFiles] /\ pc[m] = "backfill"
      /\ \A j \in Files : j < next[m] => j \in recorded
  BY DEF MigrationInvariant, TypeOK, Position, Backfill
<1>2. CASE /\ next[m] <= files[m] /\ RecordNext(m) /\ UNCHANGED <<pc, files>>
           /\ backfilled' = backfilled \cup ({next[m]} \ recorded)
  <2>1. effect' = effect
    BY DEF Backfill
  <2>2. /\ recorded' = recorded \cup {next[m]} /\ RecordedInOrder'
        /\ \A j \in Files : j < next'[m] => j \in recorded'
    BY <1>1, <1>2, RecordNextStep
  <2>3. Grows
    BY <2>1, <2>2 DEF Grows
  <2>4. RecordedIsExecuted'
    <3>1. ASSUME NEW i \in recorded' \ backfilled' PROVE i \in recorded \ backfilled
      BY <1>2, <2>2
    <3>2. QED
      BY <2>1, <3>1 DEF MigrationInvariant, RecordedIsExecuted
  <2>5. Stands(m)
    BY <1>1, <1>2, <2>2 DEF Stands, Position
  <2>6. QED
    BY <1>1, <1>2, <2>2, <2>3, <2>4, <2>5, RunnerStep DEF RecordNext
<1>3. CASE Goto(m, "failed") /\ UNCHANGED <<recorded, next, backfilled, files>>
  BY <1>1, <1>3, StandsAside, QuietStep DEF Backfill
<1>4. CASE Loop(m, "apply") /\ UNCHANGED <<recorded, backfilled>>
  <2>1. Stands(m)
    BY <1>1, <1>4, StandsAtFirst DEF Loop
  <2>2. QED
    BY <1>1, <1>4, <2>1, QuietStep DEF Backfill, Loop
<1>5. QED
  BY <1>2, <1>3, <1>4 DEF Backfill

LEMMA CheckStep ==
  ASSUME MigrationInvariant, TypeOK', NEW m \in Runners, Check(m)
  PROVE  MigrationInvariant'
<1> USE DEF Goto, database, ghosts
<1>1. /\ pc \in [Runners -> Labels] /\ next \in [Runners -> Nat \ {0}]
      /\ files \in [Runners -> 0..MaxFiles] /\ pc[m] = "apply"
      /\ \A j \in Files : j < next[m] => j \in recorded
      /\ \A j \in Files : j \in Nat
  BY MigrationsAssumption DEF MigrationInvariant, TypeOK, Position, Check, Files
<1>2. recorded' = recorded /\ effect' = effect /\ backfilled' = backfilled
      /\ files' = files
  BY DEF Check
<1>3. Stands(m)
  <2>1. CASE next[m] \in recorded /\ next' = [next EXCEPT ![m] = @ + 1] /\ pc' = pc
    <3>1. next'[m] = next[m] + 1 /\ pc'[m] = "apply"
      BY <1>1, <2>1
    <3>2. \A j \in Files : j < next'[m] => j < next[m] \/ j = next[m]
      BY <1>1, <3>1
    <3>3. \A j \in Files : j < next'[m] => j \in recorded'
      BY <1>1, <1>2, <2>1, <3>2
    <3>4. QED
      BY <3>1, <3>3 DEF Stands, Position
  <2>2. CASE next[m] <= files[m] /\ Goto(m, "execute") /\ next' = next
    BY <1>1, <1>2, <2>2 DEF Stands, Position
  <2>3. CASE next[m] > files[m] /\ Goto(m, "done") /\ next' = next
    <3>1. \A j \in Files : j <= files[m] => j < next[m]
      BY <1>1, <2>3
    <3>2. pc'[m] = "done"
      BY <1>1, <2>3
    <3>3. QED
      BY <1>1, <1>2, <3>1, <3>2 DEF Stands, Position
  <2>4. QED
    BY <2>1, <2>2, <2>3 DEF Check
<1>4. QED
  BY <1>1, <1>2, <1>3, QuietStep DEF Check

LEMMA ExecuteSteps ==
  ASSUME MigrationInvariant, TypeOK', NEW m \in Runners,
         Execute(m) \/ FinishFile(m)
  PROVE  MigrationInvariant'
<1> USE DEF Goto, script, ghosts
<1>1. /\ pc \in [Runners -> Labels] /\ next[m] \in Nat \ {0}
      /\ files[m] \in 0..MaxFiles /\ Position(m)
      /\ effect \in [Files -> {"none", "begun", "done"}]
      /\ pc[m] \in {"execute", "executing"} /\ recorded \in SUBSET Files
  BY DEF MigrationInvariant, TypeOK, Execute, FinishFile
<1>2. next[m] \in Files /\ next[m] <= files[m]
      /\ \A j \in Files : j < next[m] => j \in recorded
  BY <1>1, MigrationsAssumption DEF Position, Files
<1>3. /\ recorded' = recorded /\ backfilled' = backfilled
      /\ next' = next /\ files' = files
  BY DEF Execute, FinishFile
<1>4. Grows
  BY <1>1, <1>2, <1>3 DEF Grows, Execute, FinishFile
<1>5. RecordedInOrder' /\ RecordedIsExecuted'
  BY <1>1, <1>3, <1>4
     DEF MigrationInvariant, RecordedInOrder, RecordedIsExecuted, Grows
<1>6. CASE pc'[m] = "executing"
  BY <1>1, <1>2, <1>3, <1>4, <1>5, <1>6, RunnerStep
     DEF Stands, Position, Execute, FinishFile
<1>7. CASE pc'[m] = "record" /\ effect'[next[m]] = "done"
  BY <1>1, <1>2, <1>3, <1>4, <1>5, <1>7, RunnerStep
     DEF Stands, Position, Execute, FinishFile
<1>8. CASE pc'[m] = "failed"
  BY <1>1, <1>3, <1>4, <1>5, <1>8, StandsAside, RunnerStep DEF Execute, FinishFile
<1>9. QED
  BY <1>1, <1>2, <1>6, <1>7, <1>8 DEF Execute, FinishFile

LEMMA RecordFileStep ==
  ASSUME MigrationInvariant, TypeOK', NEW m \in Runners, RecordFile(m)
  PROVE  MigrationInvariant'
<1> USE DEF Goto
<1>1. /\ pc \in [Runners -> Labels] /\ next \in [Runners -> Nat \ {0}]
      /\ pc[m] = "record" /\ next[m] <= files[m] /\ effect[next[m]] = "done"
      /\ \A j \in Files : j < next[m] => j \in recorded
  BY DEF MigrationInvariant, TypeOK, Position, RecordFile
<1>2. effect' = effect /\ backfilled' = backfilled /\ files' = files
  BY DEF RecordFile, ghosts
<1>3. CASE RecordNext(m) /\ Goto(m, "apply")
  <2>1. /\ recorded' = recorded \cup {next[m]} /\ RecordedInOrder'
        /\ \A j \in Files : j < next'[m] => j \in recorded'
    BY <1>1, <1>3, RecordNextStep
  <2>2. Grows
    BY <1>2, <2>1 DEF Grows
  <2>3. RecordedIsExecuted'
    BY <1>1, <1>2, <2>1 DEF MigrationInvariant, RecordedIsExecuted
  <2>4. Stands(m)
    BY <1>1, <1>3, <2>1 DEF Stands, Position
  <2>5. QED
    BY <1>1, <1>2, <1>3, <2>1, <2>2, <2>3, <2>4, RunnerStep DEF RecordNext
<1>4. CASE Goto(m, "failed") /\ UNCHANGED <<recorded, next>>
  BY <1>1, <1>2, <1>4, StandsAside, QuietStep
<1>5. QED
  BY <1>3, <1>4 DEF RecordFile

LEMMA NextInvariant == MigrationInvariant /\ [Next]_mvars => MigrationInvariant'
<1> SUFFICES ASSUME MigrationInvariant, [Next]_mvars PROVE MigrationInvariant'
  OBVIOUS
<1>1. TypeOK'
  BY TypeStep
<1>2. CASE UNCHANGED mvars \/ Release
  BY <1>1, <1>2 DEF mvars, Release, database, script, ghosts, MigrationInvariant,
     RecordedInOrder, Position, SuccessIsRecorded, RecordedIsExecuted
<1>3. ASSUME NEW m \in Runners,
             \/ StartRunner(m) \/ KillRunner(m)
             \/ Detect(m) \/ CreateSchema(m) \/ Probe(m) \/ Track(m)
             \/ Backfill(m) \/ Check(m) \/ Execute(m) \/ FinishFile(m)
             \/ RecordFile(m)
      PROVE  MigrationInvariant'
  BY <1>1, <1>3, StartAndKillSteps, BootstrapSteps, BackfillStep, CheckStep,
     ExecuteSteps, RecordFileStep
<1>4. QED
  BY <1>2, <1>3 DEF Next

\* MigrationInvariant: versions are recorded in order and, where no backfill
\* recorded them, only after the migration has been executed to its end.
THEOREM MigrationsInvariance == Spec => []MigrationInvariant
<1>1. Init => MigrationInvariant
  BY InitInvariant
<1>2. MigrationInvariant /\ [Next]_mvars => MigrationInvariant'
  BY NextInvariant
<1>3. QED
  BY <1>1, <1>2, PTL DEF Spec

\* SuccessIsRecorded: whatever failed before and whoever runs beside it, a
\* runner that succeeds leaves every migration of its release recorded.
THEOREM Success == Spec => []SuccessIsRecorded
<1>1. MigrationInvariant => SuccessIsRecorded
  BY DEF MigrationInvariant
<1>2. QED
  BY <1>1, MigrationsInvariance, PTL

-----------------------------------------------------------------------------
LEMMA EffectStep ==
  ASSUME MigrationInvariant, [Next]_mvars, NEW i \in Files, effect'[i] # effect[i]
  PROVE  effect[i] # "done" /\ \A j \in Files : j < i => j \in recorded
<1>1. PICK m \in Runners : Execute(m) \/ FinishFile(m)
  <2>1. effect' # effect
    OBVIOUS
  <2>2. QED
    BY <2>1 DEF Next, mvars, Release, StartRunner, KillRunner, Detect,
       CreateSchema, Probe, Track, Backfill, Check, RecordFile, database
<1>2. /\ effect \in [Files -> {"none", "begun", "done"}] /\ Position(m)
      /\ pc[m] \in {"execute", "executing"}
  BY <1>1 DEF MigrationInvariant, TypeOK, Execute, FinishFile
<1>3. i = next[m]
  BY <1>1, <1>2 DEF Execute, FinishFile
<1>4. effect[i] # "done"
  BY <1>1, <1>2, <1>3 DEF Execute, FinishFile
<1>5. QED
  BY <1>2, <1>3, <1>4 DEF Position

\* MigrationsRunInOrder: a migration writes to the database only when all the
\* earlier ones are recorded, and none is undone.
THEOREM Order == Spec => MigrationsRunInOrder
<1>1. MigrationInvariant /\ [Next]_mvars =>
        [\A i \in Files : effect'[i] # effect[i] =>
           /\ effect[i] # "done"
           /\ \A j \in Files : j < i => j \in recorded]_mvars
  BY EffectStep
<1>2. QED
  BY <1>1, MigrationsInvariance, PTL DEF Spec, MigrationsRunInOrder

-----------------------------------------------------------------------------
\* What a runner that found no tracking table goes by stays so while it works:
\* if another one has created the table since, then for the same release.
Knows(m) ==
  /\ pc[m] = "track" /\ untracked[m] /\ tracking => covered = released
  /\ pc[m] = "backfill" => tracking /\ files[m] <= covered

\* Backfills record no file of a release after the one that brought tracking.
Sound ==
  /\ \A i \in backfilled : i <= covered
  /\ ~tracking => backfilled = {}
  /\ \A m \in Runners : Knows(m)

SoundUnlessMisread == ~misread => Sound

\* A step of runner m after which the others know what they knew: the table
\* stays, and no release comes while a runner is at work.
LEMMA SoundRunnerStep ==
  ASSUME Sound, NEW m \in Runners, Knows(m)', released' = released,
         IF tracking THEN tracking' /\ covered' = covered
                     ELSE tracking' => covered' = released,
         \A i \in backfilled' : i <= covered',
         ~tracking' => backfilled' = {},
         \A v \in Runners \ {m} : /\ pc'[v] = pc[v] /\ files'[v] = files[v]
                                  /\ untracked'[v] = untracked[v]
  PROVE  Sound'
<1>1. ASSUME NEW v \in Runners PROVE Knows(v)'
  <2>1. CASE v = m
    BY <2>1
  <2>2. CASE v # m
    <3>1. Knows(v) /\ pc'[v] = pc[v] /\ files'[v] = files[v]
          /\ untracked'[v] = untracked[v]
      BY <2>2 DEF Sound
    <3>2. QED
      BY <3>1 DEF Knows
  <2>3. QED
    BY <2>1, <2>2
<1>2. QED
  BY <1>1 DEF Sound

\* A step of runner m that takes it neither to the backfill nor before it.
LEMMA SoundAsideStep ==
  ASSUME Sound, NEW m \in Runners, pc'[m] \notin {"track", "backfill"},
         released' = released, tracking' = tracking, covered' = covered, backfilled' = backfilled,
         \A v \in Runners \ {m} : /\ pc'[v] = pc[v] /\ files'[v] = files[v]
                                  /\ untracked'[v] = untracked[v]
  PROVE  Sound'
<1>1. Knows(m)'
  BY DEF Knows
<1>2. /\ \A i \in backfilled' : i <= covered'
      /\ ~tracking' => backfilled' = {}
  BY DEF Sound
<1>3. QED
  BY <1>1, <1>2, SoundRunnerStep

LEMMA SoundStep ==
  ASSUME MigrationInvariant, Sound, [Next]_mvars, ~misread'
  PROVE  Sound'
<1> USE DEF Goto, May, database, script, ghosts
<1>1. /\ TypeOK /\ \A m \in Runners : Position(m) /\ Knows(m)
  BY DEF MigrationInvariant, Sound
<1>2. CASE UNCHANGED mvars
  BY <1>2 DEF mvars, Sound, Knows
<1>3. CASE Release
  <2>1. ASSUME NEW m \in Runners PROVE Knows(m)'
    BY <1>1, <1>3 DEF Release, Knows, Resting
  <2>2. QED
    BY <1>3, <2>1 DEF Release, Sound
<1>4. ASSUME NEW m \in Runners,
             \/ StartRunner(m) \/ KillRunner(m) \/ Detect(m) \/ CreateSchema(m)
             \/ Check(m) \/ Execute(m) \/ FinishFile(m) \/ RecordFile(m)
      PROVE  Sound'
  <2>1. /\ pc'[m] \notin {"track", "backfill"} /\ released' = released
        /\ tracking' = tracking /\ covered' = covered /\ backfilled' = backfilled
    BY <1>1, <1>4 DEF StartRunner, KillRunner, Detect, CreateSchema, Check, Execute,
       FinishFile, RecordFile, TypeOK
  <2>2. \A v \in Runners \ {m} : /\ pc'[v] = pc[v] /\ files'[v] = files[v]
                                 /\ untracked'[v] = untracked[v]
    BY <1>1, <1>4 DEF StartRunner, KillRunner, Detect, CreateSchema, Check, Execute,
       FinishFile, RecordFile, TypeOK
  <2>3. QED
    BY <2>1, <2>2, SoundAsideStep
<1>5. ASSUME NEW m \in Runners, Probe(m) PROVE Sound'
  <2>1. untracked'[m] => ~tracking
    BY <1>1, <1>5 DEF Probe, TypeOK
  <2>2. Knows(m)'
    BY <1>1, <1>5, <2>1 DEF Probe, TypeOK, Knows
  <2>3. QED
    BY <1>1, <1>5, <2>2, SoundRunnerStep DEF Probe, TypeOK, Sound
<1>6. ASSUME NEW m \in Runners, Track(m) PROVE Sound'
  <2>1. CASE pc'[m] = "failed" /\ UNCHANGED <<tracking, files, covered>>
    <3>1. /\ released' = released /\ tracking' = tracking
          /\ covered' = covered /\ backfilled' = backfilled
      BY <1>6, <2>1 DEF Track
    <3>2. \A v \in Runners \ {m} :
             pc'[v] = pc[v] /\ files'[v] = files[v] /\ untracked'[v] = untracked[v]
      BY <1>1, <1>6, <2>1 DEF Track, Loop, TypeOK
    <3>3. QED
      BY <2>1, <3>1, <3>2, SoundAsideStep
  <2>2. CASE /\ tracking' = TRUE /\ Cover
             /\ Loop(m, IF untracked[m] /\ existing[m] THEN "backfill" ELSE "apply")
    <3>1. /\ covered' = IF tracking THEN covered ELSE released
          /\ pc' = [pc EXCEPT ![m] = IF untracked[m] /\ existing[m]
                                       THEN "backfill" ELSE "apply"]
          /\ files' = [files EXCEPT ![m] = released]
      BY <2>2 DEF Cover, Loop
    <3>2. released \in Nat /\ files'[m] = released /\ pc[m] = "track"
      BY <1>1, <1>6, <3>1, MigrationsAssumption DEF TypeOK, Track
    <3>3. pc'[m] = "backfill" => covered' = released
      BY <1>1, <3>1, <3>2 DEF TypeOK, Knows
    <3>4. Knows(m)'
      BY <1>1, <2>2, <3>1, <3>2, <3>3 DEF TypeOK, Knows
    <3>5. /\ \A i \in backfilled' : i <= covered'
          /\ ~tracking' => backfilled' = {}
      BY <1>6, <2>2, <3>1 DEF Track, Sound
    <3>6. released' = released /\ \A v \in Runners \ {m} :
             pc'[v] = pc[v] /\ files'[v] = files[v] /\ untracked'[v] = untracked[v]
      BY <1>1, <1>6, <3>1 DEF Track, TypeOK
    <3>7. QED
      BY <2>2, <3>1, <3>4, <3>5, <3>6, SoundRunnerStep
  <2>3. QED
    BY <1>1, <1>6, <2>1, <2>2 DEF Track, TypeOK
<1>7. ASSUME NEW m \in Runners, Backfill(m) PROVE Sound'
  <2>1. tracking /\ files[m] <= covered /\ released' = released
        /\ tracking' = tracking /\ covered' = covered
    BY <1>1, <1>7 DEF Backfill, Knows
  <2>2. next[m] <= files[m] => next[m] <= covered
    BY <1>1, <2>1, MigrationsAssumption DEF TypeOK
  <2>3. \A i \in backfilled' : i <= covered'
    BY <1>7, <2>1, <2>2 DEF Backfill, RecordNext, Sound
  <2>4. Knows(m)'
    BY <1>1, <1>7, <2>1 DEF Backfill, Loop, RecordNext, TypeOK, Knows
  <2>5. \A v \in Runners \ {m} : /\ pc'[v] = pc[v] /\ files'[v] = files[v]
                                 /\ untracked'[v] = untracked[v]
    BY <1>1, <1>7 DEF Backfill, Loop, RecordNext, TypeOK
  <2>6. QED
    BY <2>1, <2>3, <2>4, <2>5, SoundRunnerStep
<1>8. QED
  BY <1>2, <1>3, <1>4, <1>5, <1>6, <1>7 DEF Next

\* TrackedReleasesAreExecuted: once a deployment has the tracking table, each
\* migration of a later release has been executed to its end when a runner of
\* that release succeeds.  It is the backfills that need the argument: whoever
\* begins one does so for the release that brought the table.
THEOREM LaterReleasesAreExecuted == Spec => []TrackedReleasesAreExecuted
<1>1. Init => SoundUnlessMisread
  BY DEF Init, SoundUnlessMisread, Sound, Knows
<1>2. MigrationInvariant /\ SoundUnlessMisread /\ [Next]_mvars => SoundUnlessMisread'
  <2> SUFFICES ASSUME MigrationInvariant, SoundUnlessMisread, [Next]_mvars, ~misread'
               PROVE  Sound'
    BY DEF SoundUnlessMisread
  <2>1. ~misread
    BY DEF Next, mvars, ghosts, Release, StartRunner, KillRunner, Detect, CreateSchema,
       Probe, Track, Backfill, Check, Execute, FinishFile, RecordFile
  <2>2. QED
    BY <2>1, SoundStep DEF SoundUnlessMisread
<1>3. MigrationInvariant /\ SoundUnlessMisread => TrackedReleasesAreExecuted
  <2> SUFFICES ASSUME MigrationInvariant, Sound,
                      NEW m \in Runners, pc[m] = "done",
                      NEW j \in Files, covered < j, j <= files[m]
               PROVE  effect[j] = "done"
    BY DEF SoundUnlessMisread, TrackedReleasesAreExecuted
  <2>1. j \in recorded
    BY DEF MigrationInvariant, SuccessIsRecorded
  <2>2. j \notin backfilled
    <3>1. j \in Nat /\ covered \in Nat
      BY MigrationsAssumption DEF MigrationInvariant, TypeOK, Files
    <3>2. QED
      BY <3>1 DEF Sound
  <2>3. QED
    BY <2>1, <2>2 DEF MigrationInvariant, RecordedIsExecuted
<1>4. QED
  BY <1>1, <1>2, <1>3, MigrationsInvariance, PTL DEF Spec
=============================================================================
