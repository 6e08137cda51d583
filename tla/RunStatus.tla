----------------------------- MODULE RunStatus -----------------------------
(***************************************************************************)
(* The life-cycle vocabulary of an OpsRun: its statuses and the transition *)
(* table that OpsService.update_run_status enforces.                       *)
(***************************************************************************)

\* OpsService._ACTIVE_RUN_STATUSES: a run in one of them blocks its run_key.
ActiveStatus ==
    {"pending", "running", "awaiting_subagents", "MERGE_LOCKED",
     "WORKER_CRASHED_RECOVERABLE"}

\* OpsService._TERMINAL_RUN_STATUSES: entering one persists the base record.
TerminalStatus ==
    {"done", "error", "cancelled", "ROLLBACK_EXECUTED", "RISK_SCORE_TOO_HIGH",
     "BASELINE_TAMPER_DETECTED", "PIPELINE_TIMEOUT", "WORKTREE_CORRUPTED"}

\* Neither active nor terminal: a human or a retry is expected.  The table has
\* no row for the two VALIDATION_FAILED statuses, so they cannot be left.
ParkedStatus ==
    {"awaiting_review", "MERGE_CONFLICT", "HUMAN_APPROVAL_REQUIRED",
     "VALIDATION_FAILED_TESTS", "VALIDATION_FAILED_LINT"}

Status == ActiveStatus \cup TerminalStatus \cup ParkedStatus

(***************************************************************************)
(* VALID_TRANSITIONS.get(status, set()): the statuses a run may move to.   *)
(***************************************************************************)
ValidTransitions ==
    [s \in Status |->
       CASE s = "pending" -> Status \ {"pending"}
         [] s = "running" -> Status \ {"pending", "running"}
         [] s = "awaiting_review" -> {"running", "pending", "error", "cancelled"}
         [] s = "awaiting_subagents" -> {"running", "error", "cancelled"}
         [] s = "MERGE_LOCKED" -> {"running", "error", "cancelled", "MERGE_CONFLICT"}
         [] s = "MERGE_CONFLICT" -> {"pending", "error", "cancelled"}
         [] s = "HUMAN_APPROVAL_REQUIRED" -> {"running", "cancelled", "error"}
         [] s = "WORKER_CRASHED_RECOVERABLE" -> {"pending", "error", "cancelled"}
         [] OTHER -> {}]

=============================================================================
