----------------------------- MODULE MergeGate -----------------------------
(***************************************************************************)
(* Runs that merge: MergeGateService.execute_run and its git pipeline,     *)
(* called by the GitPipeline stage, and the merge lock kept by OpsService. *)
(*                                                                         *)
(* Coroutines share one event loop.  The git pipeline never awaits, so     *)
(* that nothing but the death of the server comes between its stages, and  *)
(* neither its heartbeat nor its timeout ever fires while it works.        *)
(***************************************************************************)
EXTENDS RunStatus, Integers, FiniteSets

CONSTANTS
  Run,       \* merging runs
  Repo,      \* repo ids: each has a lock file, all share the repository root
  Branch,    \* branches of the repository
  Change,    \* a commit stands for the set of changes it contains
  None,
  Absent,    \* the status of a run that has not been created
  RepoOf,    \* repo_id of each run
  Source,    \* source_ref of each run
  Target,    \* target_branch of each run
  RootOn,    \* the branch checked out in the repository root
  Tip0,      \* the commits the branches start at
  ByRouter,  \* runs started by POST /ops/runs; the worker starts the others
  Events,    \* what clients, time and the operating system may do
  Failures   \* what git and the gates may answer

ASSUME GateAssumption ==
    /\ RepoOf \in [Run -> Repo]
    /\ Source \in [Run -> Branch]
    /\ Target \in [Run -> Branch]
    /\ RootOn \in Branch
    /\ Tip0 \in [Branch -> SUBSET Change]
    /\ ByRouter \subseteq Run
    /\ None \notin Run \cup Branch \cup [run : Run, expired : BOOLEAN]
    /\ Absent \notin Status
    /\ Events \subseteq {"cancel", "restart"}
    /\ Failures \subseteq {"refused", "held", "worktree", "tests", "lint", "conflict", "crash",
                           "record", "reset", "cleanup"}

VARIABLES
  status,    \* status of each run, as get_run shows it
  gate,      \* how far the coroutine of each run is
  raised,    \* runs with an exception on its way up
  lock,      \* the lock file of each repo
  tip,       \* the commit each branch is at
  sandbox,   \* what is checked out in the sandbox worktree of each run
  before,    \* commit_before of each run
  undone     \* history: the runs that have reset their target branch

vars == <<status, gate, raised, lock, tip, sandbox, before, undone>>

\* The stages of the pipeline, during which the event loop is blocked.
Stage ==
    {"tests", "lint", "dry_run", "checkout", "merge", "merged",
     "rollback", "undone", "kept", "cleanup"}

\* PIPELINE_TIMEOUT is not among them, see above.
GateStatus ==
    {"pending", "running", "done", "error", "cancelled", "MERGE_LOCKED",
     "MERGE_CONFLICT", "VALIDATION_FAILED_TESTS", "VALIDATION_FAILED_LINT",
     "RISK_SCORE_TOO_HIGH", "BASELINE_TAMPER_DETECTED", "HUMAN_APPROVAL_REQUIRED",
     "WORKTREE_CORRUPTED", "ROLLBACK_EXECUTED", "WORKER_CRASHED_RECOVERABLE"}

\* Files and coroutines are well formed.
TypeOK ==
    /\ status \in [Run -> GateStatus \cup {Absent}]
    /\ gate \in [Run -> {"none", "queued", "locked", "crashed", "drain"} \cup Stage]
    /\ raised \subseteq Run
    /\ lock \in [Repo -> [run : Run, expired : BOOLEAN] \cup {None}]
    /\ tip \in [Branch -> SUBSET Change]
    /\ sandbox \in [Run -> Branch \cup {None}]
    /\ before \in [Run -> (SUBSET Change) \cup {None}]
    /\ undone \subseteq Run

Init ==
    /\ status = [r \in Run |-> Absent]
    /\ gate = [r \in Run |-> "none"]
    /\ raised = {}
    /\ lock = [p \in Repo |-> None]
    /\ tip = Tip0
    /\ sandbox = [r \in Run |-> None]
    /\ before = [r \in Run |-> None]
    /\ undone = {}

----------------------------------------------------------------------------
(* Status updates, and the end of execute_run. *)

CanBecome(s, s2) == s = s2 \/ s2 \in ValidTransitions[s]

Begun(r) == IF status[r] = "pending" THEN "running" ELSE status[r]

\* execute_run's last update.  When the FSM refuses it the exception reaches
\* the worker, which tries "error"; a router's task has no handler.
FinalStatus(r, s, final) ==
    IF CanBecome(s, final) THEN final
    ELSE IF r \notin ByRouter /\ CanBecome(s, "error") THEN "error" ELSE s

\* The gate returns True, a pipeline stage that "continues", or raises.
Handled(r, s) == FinalStatus(r, s, "done")

Failed(r, s) == FinalStatus(r, s, "error")

\* No pipeline occupies the event loop.
LoopFree == \A r \in Run : gate[r] \notin Stage

----------------------------------------------------------------------------
(* Clients and time. *)

CreateRun(r) ==
    /\ LoopFree
    /\ status[r] = Absent
    /\ status' = [status EXCEPT ![r] = IF r \in ByRouter THEN "running" ELSE "pending"]
    /\ gate' = [gate EXCEPT ![r] = IF r \in ByRouter THEN "queued" ELSE "none"]
    /\ UNCHANGED <<raised, lock, tip, sandbox, before, undone>>

\* The worker's tick.  Its slots are modelled in ChildRuns.
StartPending(r) ==
    /\ LoopFree
    /\ status[r] = "pending" /\ gate[r] = "none"
    /\ gate' = [gate EXCEPT ![r] = "queued"]
    /\ UNCHANGED <<status, raised, lock, tip, sandbox, before, undone>>

\* The coroutine that executes the run is not told.
Cancel(r) ==
    /\ "cancel" \in Events
    /\ LoopFree
    /\ status[r] # Absent
    /\ "cancelled" \in ValidTransitions[status[r]]
    /\ status' = [status EXCEPT ![r] = "cancelled"]
    /\ UNCHANGED <<gate, raised, lock, tip, sandbox, before, undone>>

\* 120 seconds pass.  A blocked loop sends no heartbeat; one that is free
\* starts the pipeline before the first heartbeat is due.
Expire(p) ==
    /\ lock[p] # None /\ ~lock[p].expired
    /\ lock' = [lock EXCEPT ![p].expired = TRUE]
    /\ UNCHANGED <<status, gate, raised, tip, sandbox, before, undone>>

----------------------------------------------------------------------------
(* execute_run, up to the lock. *)

Leave(r, s) ==
    /\ status' = [status EXCEPT ![r] = s]
    /\ gate' = [gate EXCEPT ![r] = "none"]

Verdict ==
    {"WORKER_CRASHED_RECOVERABLE", "HUMAN_APPROVAL_REQUIRED",
     "BASELINE_TAMPER_DETECTED", "RISK_SCORE_TOO_HIGH"}

\* A verdict of the gate, "MERGE_LOCKED" included; the FSM may refuse it.
EndsWith(r, v) ==
    Leave(r, IF CanBecome(Begun(r), v) THEN Handled(r, v) ELSE Failed(r, Begun(r)))

\* _validate_policy or _validate_risk; or the stages before this one, PolicyGate
\* and RiskGate, which fail, or halt and leave the run as it is.
Refuse(r) ==
    /\ LoopFree /\ gate[r] = "queued"
    /\ \/ "refused" \in Failures /\ \E v \in Verdict : EndsWith(r, v)
       \/ "refused" \in Failures /\ Leave(r, Failed(r, Begun(r)))
       \/ "held" \in Failures /\ Leave(r, Begun(r))
    /\ UNCHANGED <<raised, lock, tip, sandbox, before, undone>>

LockFree(p) == lock[p] # None => lock[p].expired

\* Mutant: a run that finds the lock waits for it.
WaitForLock(r) == FALSE

\* acquire_merge_lock raises; recover_stale_lock has left a fresh lock alone.
FindLocked(r) ==
    /\ LoopFree /\ gate[r] = "queued"
    /\ ~LockFree(RepoOf[r])
    /\ EndsWith(r, "MERGE_LOCKED")
    /\ UNCHANGED <<raised, lock, tip, sandbox, before, undone>>

\* recover_stale_lock and acquire_merge_lock: an expired lock is replaced.
Acquire(r) ==
    /\ LoopFree /\ gate[r] = "queued"
    /\ LockFree(RepoOf[r])
    /\ lock' = [lock EXCEPT ![RepoOf[r]] = [run |-> r, expired |-> FALSE]]
    /\ status' = [status EXCEPT ![r] = Begun(r)]
    /\ gate' = [gate EXCEPT ![r] = "locked"]
    /\ UNCHANGED <<raised, tip, sandbox, before, undone>>

----------------------------------------------------------------------------
(* The pipeline. *)

\* Branch b is not checked out in another worktree: git refuses it otherwise.
Available(r, b) == RootOn # b /\ \A q \in Run \ {r} : sandbox[q] # b

Continue(r, next) ==
    /\ gate' = [gate EXCEPT ![r] = next]
    /\ UNCHANGED <<status, raised>>

\* An exception leaves the pipeline by way of next.
Raise(r, next) ==
    /\ gate' = [gate EXCEPT ![r] = next]
    /\ raised' = raised \cup {r}
    /\ UNCHANGED status

\* A stage stops with status s; when the FSM refuses it, with an exception.
Stop(r, s, next) ==
    IF CanBecome(status[r], s)
    THEN /\ status' = [status EXCEPT ![r] = s]
         /\ gate' = [gate EXCEPT ![r] = next]
         /\ UNCHANGED raised
    ELSE Raise(r, IF next = "drain" THEN "crashed" ELSE next)

\* A sandbox left by an earlier attempt is removed first.
AddWorktree(r) ==
    /\ LoopFree /\ gate[r] = "locked"
    /\ \/ /\ Available(r, Source[r])
          /\ sandbox' = [sandbox EXCEPT ![r] = Source[r]]
          /\ Continue(r, "tests")
       \/ /\ ~Available(r, Source[r]) \/ "worktree" \in Failures
          /\ sandbox' = [sandbox EXCEPT ![r] = None]
          /\ Stop(r, "WORKTREE_CORRUPTED", "drain")
    /\ UNCHANGED <<lock, tip, before, undone>>

\* A validation stage passes, fails, or its subprocess times out.
Validate(r, stage, failure, s, next) ==
    /\ gate[r] = stage
    /\ \/ Continue(r, next)
       \/ failure \in Failures /\ Stop(r, s, "cleanup")
       \/ "crash" \in Failures /\ Raise(r, "cleanup")
    /\ UNCHANGED <<lock, tip, sandbox, before, undone>>

RunTests(r) == Validate(r, "tests", "tests", "VALIDATION_FAILED_TESTS", "lint")

\* Mutant: no return after a failing linter.
RunLintAnyway(r) ==
    /\ gate[r] = "lint"
    /\ Continue(r, "dry_run") \/ Stop(r, "VALIDATION_FAILED_LINT", "dry_run")
    /\ UNCHANGED <<lock, tip, sandbox, before, undone>>

RunLint(r) == Validate(r, "lint", "lint", "VALIDATION_FAILED_LINT", "dry_run")

DryRunMerge(r) == Validate(r, "dry_run", "conflict", "MERGE_CONFLICT", "checkout")

\* commit_before is the commit of the sandbox, then perform_merge checks the
\* target branch out.
CheckoutTarget(r) ==
    /\ gate[r] = "checkout"
    /\ \/ /\ before' = [before EXCEPT ![r] = tip[sandbox[r]]]
          /\ IF Available(r, Target[r])
             THEN /\ sandbox' = [sandbox EXCEPT ![r] = Target[r]]
                  /\ Continue(r, "merge")
             ELSE /\ UNCHANGED sandbox
                  /\ Stop(r, "MERGE_CONFLICT", "cleanup")
       \/ "crash" \in Failures /\ Raise(r, "cleanup") /\ UNCHANGED <<sandbox, before>>
    /\ UNCHANGED <<lock, tip, undone>>

\* Mutant: the result of the merge is not looked at.
PerformMergeUnchecked(r) ==
    /\ gate[r] = "merge"
    /\ tip' \in {tip, [tip EXCEPT ![Target[r]] = @ \cup tip[Source[r]]]}
    /\ Continue(r, "merged")
    /\ UNCHANGED <<lock, sandbox, before, undone>>

\* A git process that is given up is not killed: it may merge all the same.
PerformMerge(r) ==
    /\ gate[r] = "merge"
    /\ LET merged == [tip EXCEPT ![Target[r]] = @ \cup tip[Source[r]]]
       IN \/ tip' = merged /\ Continue(r, "merged")
          \/ /\ "conflict" \in Failures
             /\ UNCHANGED tip
             /\ Stop(r, "MERGE_CONFLICT", "cleanup")
          \/ /\ "crash" \in Failures
             /\ tip' \in {tip, merged}
             /\ Raise(r, "cleanup")
    /\ UNCHANGED <<lock, sandbox, before, undone>>

\* Recording the merge: commit_after and "done"; a rollback follows when the FSM
\* refuses that or nothing of it could be written.
RecordMerge(r) ==
    /\ gate[r] = "merged"
    /\ \/ /\ CanBecome(status[r], "done")
          /\ status' = [status EXCEPT ![r] = "done"]
          /\ gate' = [gate EXCEPT ![r] = "cleanup"]
          /\ UNCHANGED raised
       \/ /\ ~CanBecome(status[r], "done") \/ "record" \in Failures
          /\ Continue(r, "rollback")
    /\ UNCHANGED <<lock, tip, sandbox, before, undone>>

\* reset --hard commit_before, in the sandbox, where the target is checked out;
\* a git process that is given up may reset it all the same.
Rollback(r) ==
    /\ gate[r] = "rollback"
    /\ LET Reset == /\ tip' = [tip EXCEPT ![sandbox[r]] = before[r]]
                    /\ undone' = undone \cup {r}
       IN \/ Reset /\ Continue(r, "undone")
          \/ "reset" \in Failures /\ UNCHANGED <<tip, undone>> /\ Continue(r, "kept")
          \/ "crash" \in Failures /\ (Reset \/ UNCHANGED <<tip, undone>>) /\ Raise(r, "cleanup")
    /\ UNCHANGED <<lock, sandbox, before>>

\* The status that tells how the rollback went, or neither it nor the log line
\* before it could be written.
RecordRollback(r) ==
    /\ \/ gate[r] = "undone" /\ Stop(r, "ROLLBACK_EXECUTED", "cleanup")
       \/ gate[r] = "kept" /\ Stop(r, "WORKER_CRASHED_RECOVERABLE", "cleanup")
       \/ gate[r] \in {"undone", "kept"} /\ "record" \in Failures /\ Raise(r, "cleanup")
    /\ UNCHANGED <<lock, tip, sandbox, before, undone>>

RemoveWorktree(r) ==
    /\ gate[r] = "cleanup"
    /\ \/ sandbox' = [sandbox EXCEPT ![r] = None]
       \/ "cleanup" \in Failures /\ UNCHANGED sandbox
    /\ gate' = [gate EXCEPT ![r] = IF r \in raised THEN "crashed" ELSE "drain"]
    /\ UNCHANGED <<status, raised, lock, tip, before, undone>>

\* Mutant: whatever left the pipeline is taken for its timeout.
ReportTimeout(r) ==
    /\ LoopFree /\ gate[r] = "crashed"
    /\ gate' = [gate EXCEPT ![r] = "drain"]
    /\ status' = [status EXCEPT ![r] = IF CanBecome(@, "PIPELINE_TIMEOUT")
                                       THEN "PIPELINE_TIMEOUT" ELSE @]
    /\ UNCHANGED <<raised, lock, tip, sandbox, before, undone>>

\* execute_run catches what left the pipeline.
ReportCrash(r) ==
    /\ LoopFree /\ gate[r] = "crashed"
    /\ gate' = [gate EXCEPT ![r] = "drain"]
    /\ IF CanBecome(status[r], "WORKER_CRASHED_RECOVERABLE")
       THEN /\ status' = [status EXCEPT ![r] = "WORKER_CRASHED_RECOVERABLE"]
            /\ raised' = raised \ {r}
       ELSE UNCHANGED <<status, raised>>
    /\ UNCHANGED <<lock, tip, sandbox, before, undone>>

\* Mutant: whoever ends removes the lock.
ReleasedAlways(p, r) == None

\* release_merge_lock leaves the lock of another run alone.
Released(p, r) == IF lock[p] # None /\ lock[p].run = r THEN None ELSE lock[p]

\* The heartbeat task has woken up, up to 30 seconds later; the lock is
\* released and execute_run sets the final status.
Finish(r) ==
    /\ LoopFree /\ gate[r] = "drain"
    /\ lock' = [lock EXCEPT ![RepoOf[r]] = Released(RepoOf[r], r)]
    /\ Leave(r, IF r \in raised THEN Failed(r, status[r]) ELSE Handled(r, status[r]))
    /\ raised' = raised \ {r}
    /\ UNCHANGED <<tip, sandbox, before, undone>>

----------------------------------------------------------------------------
(* The server dies, in the middle of a pipeline if need be, and reconciles *)
(* the runs when it starts again.  Files and worktrees stay.               *)

Restart ==
    /\ "restart" \in Events
    /\ status' = [r \in Run |-> IF status[r] = "running" THEN "error" ELSE status[r]]
    /\ gate' = [r \in Run |-> "none"]
    /\ raised' = {}
    /\ UNCHANGED <<lock, tip, sandbox, before, undone>>

----------------------------------------------------------------------------

Proceed(r) ==
    \/ FindLocked(r) \/ Acquire(r)
    \/ AddWorktree(r) \/ RunTests(r) \/ RunLint(r) \/ DryRunMerge(r)
    \/ CheckoutTarget(r) \/ PerformMerge(r) \/ RecordMerge(r)
    \/ Rollback(r) \/ RecordRollback(r) \/ RemoveWorktree(r)
    \/ ReportCrash(r) \/ Finish(r)

Next ==
    \/ \E r \in Run : CreateRun(r) \/ StartPending(r) \/ Cancel(r) \/ Refuse(r) \/ Proceed(r)
    \/ \E p \in Repo : Expire(p)
    \/ Restart

Spec == Init /\ [][Next]_vars

\* The loop runs every coroutine that is ready, and subprocesses end or are
\* given up.  Nothing is assumed of clients, of the worker's slots, or that a
\* lock expires or a gate refuses.
Fairness == \A r \in Run : WF_vars(Proceed(r))

FairSpec == Spec /\ Fairness

----------------------------------------------------------------------------
(* Properties. *)

\* A run in one of these statuses was stopped before anything was merged.
Refused ==
    {Absent, "pending", "MERGE_LOCKED", "RISK_SCORE_TOO_HIGH",
     "BASELINE_TAMPER_DETECTED", "HUMAN_APPROVAL_REQUIRED",
     "VALIDATION_FAILED_TESTS", "VALIDATION_FAILED_LINT", "WORKTREE_CORRUPTED"}

\* A branch only ever gains the changes of runs into it that no gate, test or
\* linter has stopped, whatever crashes, cancellations and other runs do.
OnlyValidatedMerges ==
    \A b \in Branch :
       tip[b] \subseteq Tip0[b] \cup
          UNION {tip[Source[r]] : r \in {q \in Run : Target[q] = b /\ status[q] \notin Refused}}

\* A run into branch b was rolled back.
Undone(b) == \E r \in undone : Target[r] = b

\* Branches keep the commits they had, and those that a run which is done has
\* merged into them; only the rollback of a run into the branch takes any away.
\* A run that was rolled back tells of it when its gate is over, or that it was
\* cancelled or failed: the status may be refused, or the server or git may have
\* died between the reset and the status.  It never passes for done.
MergesSurvive ==
    /\ \A b \in Branch : Tip0[b] \subseteq tip[b] \/ Undone(b)
    /\ \A r \in Run : status[r] = "done" =>
          \/ Tip0[Source[r]] \subseteq tip[Target[r]]
          \/ Undone(Source[r]) \/ Undone(Target[r])
    /\ \A r \in undone : gate[r] = "none" =>
          status[r] \in {"ROLLBACK_EXECUTED", "cancelled", "error", "WORKER_CRASHED_RECOVERABLE"}

\* "Deterministic rollback": a rollback takes nothing away that the branch had
\* before any run merged into it.
RollbackKeepsTheBranch == \A b \in Branch : Tip0[b] \subseteq tip[b]

\* Until a lock expires nobody removes or replaces it but the run that holds
\* it, at the end of its gate: not even a run whose own lock on the same repo
\* expired, which still releases "its" lock when it ends.
LockIsKept ==
    [][\A p \in Repo :
          lock[p] # None /\ ~lock[p].expired =>
             \/ lock'[p] # None /\ lock'[p].run = lock[p].run
             \/ gate[lock[p].run] = "drain" /\ gate'[lock[p].run] = "none"]_vars

\* Every gate that begins ends, whoever holds the lock and although a lock may
\* never expire: it waits for none.
GatesEnd == \A r \in Run : gate[r] # "none" ~> gate[r] = "none"

=============================================================================
