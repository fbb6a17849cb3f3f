---------------------------- MODULE ScanSummary ----------------------------
(***************************************************************************)
(* The scan_summary digest computed when an extraction run completes       *)
(* (upsert_scan_summary_for_run in src/database/storage.py).  The SQL is a *)
(* function of three tables, so this module has no state: its operators    *)
(* take the rows of extraction_runs, of extraction_metrics and of          *)
(* repository_dependencies, these by <<repository, library>>.              *)
(*                                                                         *)
(* Counts are kept as the sets that are counted; the sums over commits and *)
(* contributors, columns of the metrics, are left out.  completed_at is    *)
(* the field "ended": 0 is NULL, and 1, 2, ... is the order in which runs  *)
(* received it.  first_seen_at is the field "seen", on the same scale: the *)
(* number the next run to end would have received then; 0 is no row.       *)
(***************************************************************************)
EXTENDS Naturals, FiniteSets

\* Mutant of PreviousRun: runs of any platform.
PreviousRunAnyPlatform(runs, id) ==
  LET earlier == {p \in DOMAIN runs : /\ runs[p].ended > 0
                                      /\ runs[p].ended < runs[id].ended}
  IN  {p \in earlier : \A q \in earlier : runs[q].ended <= runs[p].ended}

\* previous_run: the latest row of the same platform with a completed_at
\* below this run's.  At most one row, as the values of "ended" differ.
PreviousRun(runs, id) ==
  LET earlier == {p \in DOMAIN runs : /\ runs[p].platform = runs[id].platform
                                      /\ runs[p].ended > 0
                                      /\ runs[p].ended < runs[id].ended}
  IN  {p \in earlier : \A q \in earlier : runs[q].ended <= runs[p].ended}

\* current_membership and previous_membership: the repositories with a metric
\* row of the run, whatever the row's status.
Membership(metrics, id) ==
  {r \in DOMAIN metrics[id] : metrics[id][r].status # "absent"}

\* The libraries of these repositories that were first seen after the previous
\* run had ended, and not after this one had.
NewLibraries(runs, dependencies, id, current, previous) ==
  {k \in DOMAIN dependencies :
     /\ k[1] \in current
     /\ dependencies[k].seen \in 1..runs[id].ended
     /\ \A p \in previous : dependencies[k].seen > runs[p].ended}

Vulnerable(dependencies, libraries) == {k \in libraries : dependencies[k].exposed}

\* Mutant of SummaryRow: skipped repositories do not count as scanned.
SummaryRowWithoutSkips(runs, metrics, dependencies, id) ==
  LET current   == {r \in Membership(metrics, id) :
                      metrics[id][r].status # "skipped"}
      previous  == UNION {Membership(metrics, p) : p \in PreviousRun(runs, id)}
      libraries == NewLibraries(runs, dependencies, id, current, PreviousRun(runs, id))
  IN  [scanned         |-> current,
       new             |-> current \ previous,
       retired         |-> previous \ current,
       libraries       |-> libraries,
       vulnerabilities |-> Vulnerable(dependencies, libraries)]

\* The row written for a run that has just received its completed_at.
SummaryRow(runs, metrics, dependencies, id) ==
  LET current   == Membership(metrics, id)
      previous  == UNION {Membership(metrics, p) : p \in PreviousRun(runs, id)}
      libraries == NewLibraries(runs, dependencies, id, current, PreviousRun(runs, id))
  IN  [scanned         |-> current,
       new             |-> current \ previous,
       retired         |-> previous \ current,
       libraries       |-> libraries,
       vulnerabilities |-> Vulnerable(dependencies, libraries)]

\* The row the backfill of migration 022 writes: it finds the previous run
\* with LAG over the runs of the platform, and joins back by completed_at.
BackfillRow(runs, metrics, dependencies, id) ==
  LET peers     == {p \in DOMAIN runs : /\ runs[p].platform = runs[id].platform
                                        /\ runs[p].ended > 0}
      lag       == {p \in peers :
                      Cardinality({q \in peers : runs[q].ended < runs[id].ended})
                      = Cardinality({q \in peers : runs[q].ended <= runs[p].ended})}
      current   == Membership(metrics, id)
      previous  == UNION {Membership(metrics, p) : p \in lag}
      libraries == NewLibraries(runs, dependencies, id, current, lag)
  IN  [scanned         |-> current,
       new             |-> {r \in current : r \notin previous},
       retired         |-> {r \in previous : r \notin current},
       libraries       |-> libraries,
       vulnerabilities |-> Vulnerable(dependencies, libraries)]

\* The runs the backfill writes a row for: those with a completed_at, be they
\* completed or failed.
BackfilledRuns(runs) == {id \in DOMAIN runs : runs[id].ended > 0}
=============================================================================
