----------------------------- MODULE Migrations -----------------------------
(***************************************************************************)
(* The migration runner, docker/scripts/run_migrations.sh.  The service    *)
(* db-migrations runs it on every "docker compose up", the script          *)
(* scripts/run_migrations.sh runs it by hand, and nothing keeps two        *)
(* runners apart or restarts one that failed.  Every psql call commits by  *)
(* itself: an action is one call, or one statement of schema.sql.          *)
(*                                                                         *)
(* Migration files are numbered in the order of the shell's glob.  What a  *)
(* file does is a state of its own: not begun, begun, or done.  The        *)
(* extension and the views, whose failure the script ignores, are left out.*)
(***************************************************************************)
EXTENDS Naturals, FiniteSets

CONSTANTS
  Runners,      \* processes that run the script
  MaxFiles,     \* bound: files in database/migrations, ever
  FirstFiles,   \* files at the first start
  SchemaSize,   \* statements of schema.sql
  Origins,      \* which databases there may be at first: "new", "old"
  Disturbances, \* "query" (a failed read, which the script takes for an
                \* answer), "sql" (any other failed call), "kill"
  MaxStarts     \* bound: starts of a runner

ASSUME MigrationsAssumption ==
  /\ MaxFiles \in Nat /\ FirstFiles \in 0..MaxFiles
  /\ SchemaSize \in Nat \ {0}
  /\ Origins \subseteq {"new", "old"}
  /\ MaxStarts \in Nat

Files == 1..MaxFiles

VARIABLES
  released,   \* number of files in database/migrations
  statements, \* statements of schema.sql that the database has executed
  tracking,   \* the table schema_migrations exists
  recorded,   \* its versions
  effect,     \* what each migration has done to the database
  starts,     \* starts so far
  pc,         \* where each runner is
  existing,   \* its PRE_EXISTING_TABLES > 0
  untracked,  \* its TRACKING_TABLE_EXISTED = 0
  files,      \* the files of its current loop
  next,       \* position in schema.sql or in its current loop
  origin,     \* history: what the database was at first
  backfilled, \* history: versions recorded by a backfill
  covered,    \* history: the release that brought the tracking table
  misread     \* history: a runner took a tracked database for an untracked one

database == <<statements, tracking, recorded, effect>>
script   == <<existing, untracked, files, next>>
ghosts   == <<origin, backfilled, covered, misread>>
mvars    == <<released, database, starts, pc, script, ghosts>>

Resting == {"idle", "done", "failed"}

May(d) == d \in Disturbances

Goto(m, label) == pc' = [pc EXCEPT ![m] = label]

\* information_schema.tables has rows for the schema public.
HasTables == statements > 0 \/ tracking

\* A database is new and empty, or that of a release before schema_migrations:
\* it has the migrations of its time, and the checkout may bring further ones.
Init ==
  /\ released = FirstFiles
  /\ origin \in Origins
  /\ statements = IF origin = "old" THEN SchemaSize ELSE 0
  /\ \E old \in 0..FirstFiles :
       effect = [i \in Files |->
                   IF origin = "old" /\ i <= old THEN "done" ELSE "none"]
  /\ tracking = FALSE
  /\ recorded = {}
  /\ starts = 0
  /\ pc = [m \in Runners |-> "idle"]
  /\ existing = [m \in Runners |-> FALSE]
  /\ untracked = [m \in Runners |-> FALSE]
  /\ files = [m \in Runners |-> 0]
  /\ next = [m \in Runners |-> 1]
  /\ backfilled = {}
  /\ covered = 0
  /\ misread = FALSE

-----------------------------------------------------------------------------
\* A new version of the repository brings one more file; nobody pulls it while
\* a runner is at work.
Release ==
  /\ released < MaxFiles
  /\ \A m \in Runners : pc[m] \in Resting
  /\ released' = released + 1
  /\ UNCHANGED <<database, starts, pc, script, ghosts>>

\* A runner starts and waits for PostgreSQL.
StartRunner(m) ==
  /\ pc[m] \in Resting
  /\ starts < MaxStarts
  /\ starts' = starts + 1
  /\ Goto(m, "detect")
  /\ UNCHANGED <<released, database, script, ghosts>>

\* docker stop, or a crash.
KillRunner(m) ==
  /\ May("kill")
  /\ pc[m] \notin Resting
  /\ Goto(m, "failed")
  /\ UNCHANGED <<released, database, starts, script, ghosts>>

\* PRE_EXISTING_TABLES: a failed query counts as no tables.
Detect(m) ==
  /\ pc[m] = "detect"
  /\ \/ existing' = [existing EXCEPT ![m] = HasTables]
     \/ May("query") /\ existing' = [existing EXCEPT ![m] = FALSE]
  /\ Goto(m, IF existing'[m] THEN "probe" ELSE "schema")
  /\ next' = [next EXCEPT ![m] = 1]
  /\ UNCHANGED <<released, database, starts, untracked, files, ghosts>>

\* psql -f schema.sql, statement by statement: its CREATE TABLEs fail on what
\* is there already, and what was executed before a failure stays.
CreateSchema(m) ==
  /\ pc[m] = "schema"
  /\ \/ /\ statements = next[m] - 1
        /\ statements' = next[m]
        /\ next' = [next EXCEPT ![m] = @ + 1]
        /\ Goto(m, IF next[m] = SchemaSize THEN "probe" ELSE "schema")
     \/ /\ statements >= next[m] \/ May("sql")
        /\ Goto(m, "failed")
        /\ UNCHANGED <<statements, next>>
  /\ UNCHANGED <<released, tracking, recorded, effect, starts, existing,
                 untracked, files, ghosts>>

\* TRACKING_TABLE_EXISTED: a failed query counts as no tracking.
Probe(m) ==
  /\ pc[m] = "probe"
  /\ \/ untracked' = [untracked EXCEPT ![m] = ~tracking] /\ UNCHANGED misread
     \/ /\ May("query")
        /\ untracked' = [untracked EXCEPT ![m] = TRUE]
        /\ misread' = (misread \/ tracking)
  /\ Goto(m, "track")
  /\ UNCHANGED <<released, database, starts, existing, files, next, origin,
                 backfilled, covered>>

\* The start of a loop over the files.
Loop(m, label) ==
  /\ Goto(m, label)
  /\ files' = [files EXCEPT ![m] = released]
  /\ next' = [next EXCEPT ![m] = 1]

\* The release that brings the tracking table is the one that creates it.
Cover == covered' = IF tracking THEN covered ELSE released

\* Mutant of Track: whether there was a tracking table is not looked at.
TrackBackfillingAgain(m) ==
  /\ pc[m] = "track"
  /\ tracking' = TRUE
  /\ Loop(m, IF existing[m] THEN "backfill" ELSE "apply")
  /\ Cover
  /\ UNCHANGED <<released, statements, recorded, effect, starts, existing,
                 untracked, origin, backfilled, misread>>

\* CREATE TABLE IF NOT EXISTS schema_migrations.
Track(m) ==
  /\ pc[m] = "track"
  /\ \/ /\ tracking' = TRUE
        /\ Loop(m, IF untracked[m] /\ existing[m] THEN "backfill" ELSE "apply")
        /\ Cover
     \/ /\ May("sql")
        /\ Goto(m, "failed")
        /\ UNCHANGED <<tracking, files, next, covered>>
  /\ UNCHANGED <<released, statements, recorded, effect, starts, existing,
                 untracked, origin, backfilled, misread>>

\* Records the current file and goes on to the next one.
RecordNext(m) ==
  /\ recorded' = recorded \cup {next[m]}
  /\ next' = [next EXCEPT ![m] = @ + 1]

Backfill(m) ==
  /\ pc[m] = "backfill"
  /\ \/ /\ next[m] <= files[m]
        /\ \/ /\ RecordNext(m)
              /\ backfilled' = backfilled \cup ({next[m]} \ recorded)
              /\ UNCHANGED pc
           \/ /\ May("sql")
              /\ Goto(m, "failed")
              /\ UNCHANGED <<recorded, next, backfilled>>
        /\ UNCHANGED files
     \/ /\ next[m] > files[m]
        /\ Loop(m, "apply")
        /\ UNCHANGED <<recorded, backfilled>>
  /\ UNCHANGED <<released, statements, tracking, effect, starts, existing,
                 untracked, origin, covered, misread>>

\* ALREADY_APPLIED: a failed query counts as not applied.  After the last file
\* the views are reapplied, and the script exits with success either way.
Check(m) ==
  /\ pc[m] = "apply"
  /\ \/ /\ next[m] <= files[m]
        /\ next[m] \in recorded
        /\ next' = [next EXCEPT ![m] = @ + 1]
        /\ UNCHANGED pc
     \/ /\ next[m] <= files[m]
        /\ next[m] \notin recorded \/ May("query")
        /\ Goto(m, "execute")
        /\ UNCHANGED next
     \/ /\ next[m] > files[m]
        /\ Goto(m, "done")
        /\ UNCHANGED next
  /\ UNCHANGED <<released, database, starts, existing, untracked, files, ghosts>>

\* psql -f of the file begins.  A migration is written to be executed again:
\* one that is done stays done.
Execute(m) ==
  /\ pc[m] = "execute"
  /\ effect' = [effect EXCEPT ![next[m]] = IF @ = "done" THEN "done" ELSE "begun"]
  /\ Goto(m, "executing")
  /\ UNCHANGED <<released, statements, tracking, recorded, starts, script, ghosts>>

\* Mutant of FinishFile: a failed migration is logged and the loop goes on.
FinishFileTolerant(m) ==
  /\ pc[m] = "executing"
  /\ \/ /\ effect' = [effect EXCEPT ![next[m]] = "done"]
        /\ Goto(m, "record")
        /\ UNCHANGED next
     \/ /\ May("sql")
        /\ Goto(m, "apply")
        /\ next' = [next EXCEPT ![m] = @ + 1]
        /\ UNCHANGED effect
  /\ UNCHANGED <<released, statements, tracking, recorded, starts, existing,
                 untracked, files, ghosts>>

\* Mutant of FinishFile: the exit code of psql is not looked at.
FinishFileUnchecked(m) ==
  /\ pc[m] = "executing"
  /\ \/ effect' = [effect EXCEPT ![next[m]] = "done"]
     \/ May("sql") /\ UNCHANGED effect
  /\ Goto(m, "record")
  /\ UNCHANGED <<released, statements, tracking, recorded, starts, script, ghosts>>

\* psql -f ends, with ON_ERROR_STOP: what it did before an error stays.
FinishFile(m) ==
  /\ pc[m] = "executing"
  /\ \/ effect' = [effect EXCEPT ![next[m]] = "done"] /\ Goto(m, "record")
     \/ May("sql") /\ Goto(m, "failed") /\ UNCHANGED effect
  /\ UNCHANGED <<released, statements, tracking, recorded, starts, script, ghosts>>

RecordFile(m) ==
  /\ pc[m] = "record"
  /\ \/ RecordNext(m) /\ Goto(m, "apply")
     \/ May("sql") /\ Goto(m, "failed") /\ UNCHANGED <<recorded, next>>
  /\ UNCHANGED <<released, statements, tracking, effect, starts, existing,
                 untracked, files, ghosts>>

Next ==
  \/ Release
  \/ \E m \in Runners :
       \/ StartRunner(m) \/ KillRunner(m)
       \/ Detect(m) \/ CreateSchema(m) \/ Probe(m) \/ Track(m)
       \/ Backfill(m) \/ Check(m) \/ Execute(m) \/ FinishFile(m)
       \/ RecordFile(m)

Spec == Init /\ [][Next]_mvars
-----------------------------------------------------------------------------
(* Properties.                                                             *)

Labels == Resting \cup {"detect", "schema", "probe", "track", "backfill",
                        "apply", "execute", "executing", "record"}

TypeOK ==
  /\ released \in 0..MaxFiles
  /\ statements \in 0..SchemaSize
  /\ tracking \in BOOLEAN
  /\ recorded \in SUBSET Files
  /\ effect \in [Files -> {"none", "begun", "done"}]
  /\ starts \in 0..MaxStarts
  /\ pc \in [Runners -> Labels]
  /\ existing \in [Runners -> BOOLEAN]
  /\ untracked \in [Runners -> BOOLEAN]
  /\ files \in [Runners -> 0..MaxFiles]
  /\ next \in [Runners -> Nat \ {0}]
  /\ origin \in {"new", "old"}
  /\ backfilled \in SUBSET Files
  /\ covered \in 0..MaxFiles
  /\ misread \in BOOLEAN

\* schema_migrations never has a gap: whatever fails, however many runners
\* there are and whoever backfills, a version is recorded only after all the
\* versions before it.
RecordedInOrder ==
  \A i \in recorded : \A j \in Files : j < i => j \in recorded

\* Where a runner stands, the files before it are recorded, and the one it is
\* about to record has been executed to its end.
Position(m) ==
  /\ pc[m] = "schema" => next[m] <= SchemaSize
  /\ pc[m] \in {"backfill", "apply", "execute", "executing", "record"} =>
       \A j \in Files : j < next[m] => j \in recorded
  /\ pc[m] \in {"execute", "executing", "record"} => next[m] <= files[m]
  /\ pc[m] = "record" => effect[next[m]] = "done"

\* The services wait for the runner's success: by then every migration of its
\* release is recorded.
SuccessIsRecorded ==
  \A m \in Runners : pc[m] = "done" =>
    \A j \in Files : j <= files[m] => j \in recorded

\* A version that no backfill recorded has been executed to its end.
RecordedIsExecuted ==
  \A i \in recorded \ backfilled : effect[i] = "done"

MigrationInvariant ==
  /\ TypeOK
  /\ RecordedInOrder
  /\ \A m \in Runners : Position(m)
  /\ SuccessIsRecorded
  /\ RecordedIsExecuted

\* A migration touches the database only once all the migrations before it are
\* recorded, and one that is done is never undone.
MigrationsRunInOrder ==
  [][\A i \in Files : effect'[i] # effect[i] =>
       /\ effect[i] # "done"
       /\ \A j \in Files : j < i => j \in recorded]_mvars

\* A release after the one that brought the tracking table misses none of its
\* migrations: when a runner ends with success, each file that came after the
\* table was created has been executed to its end, whatever failed or was killed
\* before and whoever ran beside it.  The one exception is a failed read of
\* information_schema that takes the table for missing: all files are then
\* recorded unexecuted.
TrackedReleasesAreExecuted ==
  ~misread => \A m \in Runners : pc[m] = "done" =>
    \A j \in Files : covered < j /\ j <= files[m] => effect[j] = "done"

\* What run_migrations.sh says of the migrations it backfills: the schema
\* already reflects them.  It does not look which ones the schema reflects.
BackfilledAreReflected ==
  \A i \in backfilled : effect[i] = "done"

=============================================================================
