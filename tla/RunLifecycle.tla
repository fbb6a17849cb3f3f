---------------------------- MODULE RunLifecycle ----------------------------
(***************************************************************************)
(* What the extraction_runs table promises to its readers (the admin       *)
(* dashboard, the progress views, the scan digest), whoever writes it: a   *)
(* row is created running or already failed, counts its repositories up    *)
(* one at a time, is completed only when the count has reached the total,  *)
(* and never changes again once it is completed or failed.                 *)
(***************************************************************************)
EXTENDS Naturals

CONSTANTS RunIds,   \* the rows' identifiers (uuid4)
          Totals    \* the lengths a repository listing may have

VARIABLE rows

Absent == [status |-> "absent", total |-> 0, processed |-> 0]

LifecycleInit == rows = [id \in RunIds |-> Absent]

\* A scope's run is created with the number of repositories listed.
Start(id, n) ==
  /\ rows[id] = Absent
  /\ rows' = [rows EXCEPT ![id] =
                [status |-> "running", total |-> n, processed |-> 0]]

\* A task that aborts leaves a row that is born failed.
RecordFailure(id) ==
  /\ rows[id] = Absent
  /\ rows' = [rows EXCEPT ![id] =
                [status |-> "failed", total |-> 0, processed |-> 0]]

Progress(id) ==
  /\ rows[id].status = "running"
  /\ rows[id].processed < rows[id].total
  /\ rows' = [rows EXCEPT ![id].processed = @ + 1]

Complete(id) ==
  /\ rows[id].status = "running"
  /\ rows[id].processed = rows[id].total
  /\ rows' = [rows EXCEPT ![id].status = "completed"]

Fail(id) ==
  /\ rows[id].status = "running"
  /\ rows' = [rows EXCEPT ![id].status = "failed"]

LifecycleNext ==
  \E id \in RunIds :
    \/ \E n \in Totals : Start(id, n)
    \/ RecordFailure(id)
    \/ Progress(id)
    \/ Complete(id)
    \/ Fail(id)

LifecycleSpec == LifecycleInit /\ [][LifecycleNext]_rows
=============================================================================
