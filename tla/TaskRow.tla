------------------------------- MODULE TaskRow -------------------------------
(***************************************************************************)
(* The columns of a row of the table tasks that its operations compute     *)
(* with (api/task_store.py): status, result and approvals_json, and how    *)
(* each operation changes them.  Pure operators on a record with at least  *)
(* these fields, shared by TaskStore and TaskService.                      *)
(***************************************************************************)
EXTENDS Naturals

Statuses == {"idle", "started", "running", "waiting_for_approval",
             "completed", "error", "interrupted"}

\* What a result column may hold: nothing, an answer, the message of an
\* error, and the notes of a shutdown and of a restart.
Results == {"", "answer", "failure", "shutdown", "restart"}

\* A task somebody should be working on ('queued' is never written).
Incomplete == {"started", "running"}

\* Statuses a cleanup may delete ('cancelled' is never written).
Disposable == {"idle", "completed", "error", "interrupted"}

\* The upsert of create_task on an existing row: the owner, the sequence
\* counter and the event log stay.
Restarted(row) ==
  [row EXCEPT !.status = "started", !.result = "", !.approvals = {}]

\* set_status; a result of None or approvals of None leave the column alone.
\* (Where a definition follows one whose name tells a mistake, the latter is
\* a mutated form and no part of the model; so in the other modules.)
Updated(row, status, result, approvals, none) ==
  [row EXCEPT !.status = status,
              !.result = IF result = none THEN @ ELSE result,
              !.approvals = IF approvals = none THEN @ ELSE approvals]

\* _event_state, the part of append_event that drives the row.
EventKinds == {"task_result", "error", "waiting_for_approval",
               "approval_resumed", "approval_rejected",
               "tool_start", "assistant_call", "other"}

ResumesTask == {"approval_resumed", "approval_rejected"}

AfterEvent(row, kind, approvals) ==
  CASE kind = "task_result" ->
         [row EXCEPT !.status = "completed", !.result = "answer",
                     !.approvals = {}]
    [] kind = "error" ->
         [row EXCEPT !.status = "error", !.result = "failure",
                     !.approvals = {}]
    [] kind = "waiting_for_approval" ->
         [row EXCEPT !.status = "waiting_for_approval",
                     !.approvals = approvals]
    [] kind \in ResumesTask ->
         [row EXCEPT !.status = "running", !.approvals = {}]
    [] kind \in {"tool_start", "assistant_call"} ->
         [row EXCEPT !.status = "running"]
    [] OTHER -> row

\* reconcile_incomplete, for one row.
NeverReconciled(row) == row
Reconciled(row) ==
  IF row.status \in Incomplete
  THEN [row EXCEPT !.status = "interrupted", !.result = "restart"]
  ELSE row
=============================================================================
