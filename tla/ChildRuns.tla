----------------------------- MODULE ChildRuns -----------------------------
(***************************************************************************)
(* Executing runs: the RunWorker that picks pending runs up, the routers   *)
(* that start a run themselves, EngineService.execute_run and its          *)
(* pipelines, and the parent/child protocol between them (spawn, pause,    *)
(* report, wake).                                                          *)
(*                                                                         *)
(* All of it runs on one event loop.  A coroutine is interrupted only      *)
(* where it waits: for the loop to start it, for the model, for a review.  *)
(* Everything between two such points is one action.  A run's status is    *)
(* the one get_run shows, see OpsRunStore.                                 *)
(***************************************************************************)
EXTENDS RunStatus, Integers, FiniteSets

CONSTANTS
  Run,            \* run ids; a child's id also names the task it was spawned for
  Task,           \* asyncio tasks that execute runs: a bound on live ones
  None,           \* no parent, no task
  Absent,         \* the status of a run that has not been created
  Parent,         \* the run each run is a child of, or None
  Planned,        \* the children listed in their parent's child_tasks
  DependsOn,      \* depends_on of each planned child
  MaxSpawnDepth,  \* max_spawn_depth, 2 by default
  MaxConcurrent,  \* max_concurrent_runs, 3 by default
  Events,         \* what clients and the operating system may do
  Outcomes        \* how stages may end

ASSUME TreeAssumption ==
    /\ None \notin Run
    /\ Parent \in [Run -> Run \cup {None}]
    /\ Planned \subseteq {r \in Run : Parent[r] # None}
    /\ DependsOn \in [Run -> SUBSET Run]
    /\ \A r \in Run : Parent[r] # r
    /\ IsFiniteSet(Run)

ASSUME LimitsAssumption ==
    /\ MaxSpawnDepth \in Nat
    /\ MaxConcurrent \in Nat
    /\ Absent \notin Status

ASSUME ChoicesAssumption ==
    /\ Events \subseteq {"create", "queue", "auto_run", "cancel", "handover",
                         "spawn", "pause", "restart"}
    /\ Outcomes \subseteq {"fail", "held", "escalate", "subdivide", "reject"}

VARIABLES
  status,      \* status of each run
  awaiting,    \* awaiting_count of each run
  task,        \* what each live asyncio task does
  runningIds   \* RunWorker._running_ids

vars == <<status, awaiting, task, runningIds>>

\* The statuses a run takes outside the merge gate.
RunState ==
    {"pending", "running", "awaiting_subagents", "awaiting_review",
     "done", "error", "cancelled"}

Execution ==
    [run : Run, by : {"worker", "router"}, phase : {"queued", "working", "review"}]

\* No task is not an execution.
ASSUME NoneAssumption == None \notin Execution

\* Counters are natural, tasks execute runs, the worker knows existing runs,
\* and no status of the merge gate appears.
TypeOK ==
    /\ status \in [Run -> RunState \cup {Absent}]
    /\ awaiting \in [Run -> Nat]
    /\ task \in [Task -> Execution \cup {None}]
    /\ runningIds \subseteq {r \in Run : status[r] # Absent}

Init ==
    /\ status = [r \in Run |-> Absent]
    /\ awaiting = [r \in Run |-> 0]
    /\ task = [t \in Task |-> None]
    /\ runningIds = {}

----------------------------------------------------------------------------
(* The run tree. *)

Root == {r \in Run : Parent[r] = None}

\* spawn_depth
Depth[r \in Run] == IF Parent[r] = None THEN 0 ELSE Depth[Parent[r]] + 1

Ancestors[r \in Run] ==
    IF Parent[r] = None THEN {} ELSE {Parent[r]} \cup Ancestors[Parent[r]]

ChildTasks(p) == {c \in Planned : Parent[c] = p}

Children(p) == {c \in Run : Parent[c] = p /\ status[c] # Absent}

AllDone(p) == \A c \in ChildTasks(p) : status[c] = "done"

Ready(p) ==
    {c \in ChildTasks(p) :
        status[c] = Absent /\ \A d \in DependsOn[c] : status[d] = "done"}

\* execute_run chooses the multi_agent composition.
Orchestrates(r) == ChildTasks(r) # {} \/ Children(r) # {}

----------------------------------------------------------------------------
(* Status updates and asyncio tasks. *)

\* update_run_status accepts s2: a status that is already there is no error.
CanBecome(s, s2) == s = s2 \/ s2 \in ValidTransitions[s]

\* execute_run's first update.
Begun(r) == IF status[r] = "pending" THEN "running" ELSE status[r]

Live == {t \in Task : task[t] # None}

Executing(r) == {t \in Live : task[t].run = r}

Idle == {t \in Task : task[t] = None}

CreateTask(r, by) ==
    /\ Idle # {}
    /\ task' = [task EXCEPT ![CHOOSE t \in Idle : TRUE] =
                   [run |-> r, by |-> by, phase |-> "queued"]]

Queued(t) == t \in Live /\ task[t].phase = "queued"
Working(t) == t \in Live /\ task[t].phase = "working"
InReview(t) == t \in Live /\ task[t].phase = "review"

----------------------------------------------------------------------------
(* The end of an execution: RunWorker._execute_run's finally clause, and   *)
(* _handle_child_completion, reached without a suspension.                 *)

\* Mutant: a failed child is not reported.
ReportsDone(t, s) ==
    /\ task[t].by = "worker"
    /\ Parent[task[t].run] # None
    /\ s = "done"

\* Only the worker's own executions report, and only these two statuses.
Reports(t, s) ==
    /\ task[t].by = "worker"
    /\ Parent[task[t].run] # None
    /\ s \in {"done", "error"}

\* Mutant: an execution that halts keeps its slot.
NotDiscarded(t) == runningIds

Discarded(t) ==
    IF task[t].by = "worker" THEN runningIds \ {task[t].run} ELSE runningIds

\* Mutant: the first report wakes the parent.
NoneRemaining(n) == 0

Remaining(n) == IF n > 0 THEN n - 1 ELSE 0

\* Execution t ends; st and aw are what it leaves on disk.  The last report
\* sets the parent running and starts it, whether or not a slot is free; an
\* update the FSM refuses raises before the parent is started.
Finish(t, st, aw) ==
    LET p == Parent[task[t].run]
        remaining == [aw EXCEPT ![p] = Remaining(@)]
        wakes == Reports(t, st[task[t].run]) /\ remaining[p] = 0
                 /\ CanBecome(st[p], "running")
    IN  /\ awaiting' = IF Reports(t, st[task[t].run]) THEN remaining ELSE aw
        /\ status' = IF wakes THEN [st EXCEPT ![p] = "running"] ELSE st
        /\ task' = [task EXCEPT ![t] =
                       IF wakes THEN [run |-> p, by |-> "worker", phase |-> "queued"]
                                ELSE None]
        /\ runningIds' = Discarded(t) \cup (IF wakes THEN {p} ELSE {})

\* A halted pipeline leaves the status its stage has set.
Halt(t, s) == Finish(t, [status EXCEPT ![task[t].run] = s], awaiting)

\* The last update of execute_run.  When the FSM refuses it the exception
\* reaches _execute_run, which tries "error"; a router's task has no handler.
FinalStatus(t, s, final) ==
    IF CanBecome(s, final) THEN final
    ELSE IF task[t].by = "worker" /\ CanBecome(s, "error") THEN "error" ELSE s

Close(t, s, final) == Halt(t, FinalStatus(t, s, final))

----------------------------------------------------------------------------
(* The worker's loop, every 30 seconds or when notified. *)

\* Mutant: a run in review is taken for finished.
StillExecuting ==
    {r \in runningIds :
        status[r] \in {"pending", "running", "awaiting_subagents"}}

StillActive ==
    {r \in runningIds :
        status[r] \in {"pending", "running", "awaiting_subagents", "awaiting_review"}}

\* Mutant: the pending run may be one that was picked up before.
StartPendingAgain(r) ==
    /\ status[r] = "pending"
    /\ Cardinality(StillActive) < MaxConcurrent
    /\ CreateTask(r, "worker")
    /\ runningIds' = StillActive \cup {r}
    /\ UNCHANGED <<status, awaiting>>

\* One pending run per step: a tick that starts several is several steps.
\* Which ones come first (the newest) is left open.
StartPending(r) ==
    /\ status[r] = "pending"
    /\ r \notin StillActive
    /\ Cardinality(StillActive) < MaxConcurrent
    /\ CreateTask(r, "worker")
    /\ runningIds' = StillActive \cup {r}
    /\ UNCHANGED <<status, awaiting>>

\* No free slot, nothing to start, or the resource governor defers.
TickOnly ==
    /\ runningIds' = StillActive
    /\ UNCHANGED <<status, awaiting, task>>

----------------------------------------------------------------------------
(* The pipeline of a run: what happens before its first suspension. *)

\* The policy or risk gate asks for a human, and leaves the status alone.
GateHolds(t) ==
    /\ Queued(t) /\ "held" \in Outcomes
    /\ Halt(t, Begun(task[t].run))

GateFails(t) ==
    /\ Queued(t) /\ "fail" \in Outcomes
    /\ Close(t, Begun(task[t].run), "error")

\* SpawnAgentsStage and SubagentGate.  A stage that raises is tried again
\* after a delay, up to three times: the action is taken later, or never and
\* then StageRaises is.
MustWait(r) == awaiting[r] > 0

TooDeep(r) == ~AllDone(r) /\ Depth[r] >= MaxSpawnDepth

\* A task may ask for a model tier above its parent's.
MayEscalate(r) == TooDeep(r) \/ (Ready(r) # {} /\ "escalate" \in Outcomes)

Spawnable == {"running", "awaiting_subagents"}

WaitForChildren(t) ==
    LET r == task[t].run IN
      /\ Queued(t) /\ Orchestrates(r)
      /\ MustWait(r)
      /\ CanBecome(Begun(r), "awaiting_subagents")
      /\ Halt(t, "awaiting_subagents")

Escalate(t) ==
    LET r == task[t].run IN
      /\ Queued(t) /\ Orchestrates(r)
      /\ ~MustWait(r) /\ MayEscalate(r)
      /\ CanBecome(Begun(r), "awaiting_review")
      /\ Halt(t, "awaiting_review")

\* Mutant: the wave is counted once, not per child.
SpawnWaveOnce(t) ==
    LET r == task[t].run
        wave == Ready(r)
    IN  /\ Queued(t) /\ Orchestrates(r)
        /\ ~MustWait(r) /\ ~TooDeep(r) /\ wave # {}
        /\ Begun(r) \in Spawnable
        /\ Finish(t,
                  [q \in Run |-> IF q = r THEN "awaiting_subagents"
                                 ELSE IF q \in wave THEN "pending" ELSE status[q]],
                  [awaiting EXCEPT ![r] = @ + 1])

\* spawn_child for each ready task, then pause_parent.
SpawnWave(t) ==
    LET r == task[t].run
        wave == Ready(r)
    IN  /\ Queued(t) /\ Orchestrates(r)
        /\ ~MustWait(r) /\ ~TooDeep(r) /\ wave # {}
        /\ Begun(r) \in Spawnable
        /\ Finish(t,
                  [q \in Run |-> IF q = r THEN "awaiting_subagents"
                                 ELSE IF q \in wave THEN "pending" ELSE status[q]],
                  [awaiting EXCEPT ![r] = @ + Cardinality(wave)])

StageRaises(t) ==
    LET r == task[t].run IN
      /\ Queued(t) /\ Orchestrates(r)
      /\ \/ MustWait(r) /\ ~CanBecome(Begun(r), "awaiting_subagents")
         \/ /\ ~MustWait(r) /\ MayEscalate(r)
            /\ ~CanBecome(Begun(r), "awaiting_review")
         \/ /\ ~MustWait(r) /\ ~TooDeep(r) /\ Ready(r) # {}
            /\ Begun(r) \notin Spawnable
      /\ Close(t, Begun(r), "error")

\* All tasks are done, or no task is ready although none is awaited.
OrchestrationEnds(t) ==
    LET r == task[t].run IN
      /\ Queued(t) /\ Orchestrates(r)
      /\ ~MustWait(r) /\ ~TooDeep(r) /\ Ready(r) = {}
      /\ Close(t, Begun(r), "done")

\* A child that estimates too little confidence for its task.
AssessmentEscalates(t) ==
    LET r == task[t].run IN
      /\ Queued(t) /\ ~Orchestrates(r) /\ r \notin Root
      /\ "escalate" \in Outcomes
      /\ CanBecome(Begun(r), "awaiting_review")
      /\ Halt(t, "awaiting_review")

\* The pipeline reaches the model and waits for its answer.
CallModel(t) ==
    LET r == task[t].run IN
      /\ Queued(t) /\ ~Orchestrates(r)
      /\ status' = [status EXCEPT ![r] = Begun(r)]
      /\ task' = [task EXCEPT ![t].phase = "working"]
      /\ UNCHANGED <<awaiting, runningIds>>

----------------------------------------------------------------------------
(* The pipeline of a run that does its own work: LlmExecute and after. *)

WorkFails(t) ==
    /\ Working(t) /\ "fail" \in Outcomes
    /\ Close(t, status[task[t].run], "error")

WorkEnds(t) ==
    /\ Working(t) /\ task[t].run \in Root
    /\ Close(t, status[task[t].run], "done")

\* SubdivideRouter rewrites the base file only: see RequeueSubdivided in
\* OpsRunStore.
Subdivides(t) ==
    /\ Working(t) /\ task[t].run \notin Root
    /\ "subdivide" \in Outcomes
    /\ Halt(t, status[task[t].run])

AskForReview(t) ==
    LET r == task[t].run IN
      /\ Working(t) /\ r \notin Root
      /\ CanBecome(status[r], "awaiting_review")
      /\ status' = [status EXCEPT ![r] = "awaiting_review"]
      /\ task' = [task EXCEPT ![t].phase = "review"]
      /\ UNCHANGED <<awaiting, runningIds>>

ReviewRefused(t) ==
    LET r == task[t].run IN
      /\ Working(t) /\ r \notin Root
      /\ ~CanBecome(status[r], "awaiting_review")
      /\ Close(t, status[r], "error")

\* GO: running, then done.  Refused when the run was cancelled meanwhile.
ReviewGo(t) ==
    LET r == task[t].run IN
      /\ InReview(t)
      /\ IF CanBecome(status[r], "running") THEN Close(t, "running", "done")
                                            ELSE Close(t, status[r], "error")

\* NO-GO or timeout: the base file alone becomes pending, see
\* RequeueAfterReview in OpsRunStore.
ReviewNoGo(t) ==
    /\ InReview(t) /\ "reject" \in Outcomes
    /\ Halt(t, status[task[t].run])

----------------------------------------------------------------------------
(* Clients: the routers and the MCP bridge. *)

\* Mutant: the run is left to the worker, which does not look at it.
CreateRunNoTask(r) ==
    /\ "create" \in Events
    /\ r \in Root /\ status[r] = Absent
    /\ status' = [status EXCEPT ![r] = "running"]
    /\ UNCHANGED <<awaiting, task, runningIds>>

\* POST /ops/runs and /rerun: pending, running and a task of the router's own
\* in one step.
CreateRun(r) ==
    /\ "create" \in Events
    /\ r \in Root /\ status[r] = Absent
    /\ status' = [status EXCEPT ![r] = "running"]
    /\ CreateTask(r, "router")
    /\ UNCHANGED <<awaiting, runningIds>>

\* gimo_run_task and gimo_approve_draft leave the run to the worker.
QueueRun(r) ==
    /\ "queue" \in Events
    /\ r \in Root /\ status[r] = Absent
    /\ status' = [status EXCEPT ![r] = "pending"]
    /\ UNCHANGED <<awaiting, task, runningIds>>

\* approve_draft with auto_run starts a task of its own, but leaves the run
\* pending, and create_run has notified the worker.
AutoRun(r) ==
    /\ "auto_run" \in Events
    /\ r \in Root /\ status[r] = Absent
    /\ status' = [status EXCEPT ![r] = "pending"]
    /\ CreateTask(r, "router")
    /\ UNCHANGED <<awaiting, runningIds>>

\* The coroutine that executes the run is not told.
Cancel(r) ==
    /\ "cancel" \in Events
    /\ status[r] # Absent
    /\ "cancelled" \in ValidTransitions[status[r]]
    /\ status' = [status EXCEPT ![r] = "cancelled"]
    /\ UNCHANGED <<awaiting, task, runningIds>>

\* gimo_resolve_handover.
ResolveHandover(r) ==
    /\ "handover" \in Events
    /\ status[r] # Absent
    /\ "running" \in ValidTransitions[status[r]]
    /\ status' = [status EXCEPT ![r] = "running"]
    /\ UNCHANGED <<awaiting, task, runningIds>>

\* POST /child-runs/spawn and /child-runs/{id}/pause.
SpawnChild(c) ==
    LET p == Parent[c] IN
      /\ "spawn" \in Events
      /\ p # None /\ c \notin Planned /\ status[c] = Absent
      /\ status[p] \in Spawnable
      /\ status' = [status EXCEPT ![c] = "pending"]
      /\ awaiting' = [awaiting EXCEPT ![p] = @ + 1]
      /\ UNCHANGED <<task, runningIds>>

PauseParent(p) ==
    /\ "pause" \in Events
    /\ status[p] # Absent /\ awaiting[p] > 0
    /\ "awaiting_subagents" \in ValidTransitions[status[p]]
    /\ status' = [status EXCEPT ![p] = "awaiting_subagents"]
    /\ UNCHANGED <<awaiting, task, runningIds>>

----------------------------------------------------------------------------
(* The server dies, and reconciles the runs when it starts again. *)

Zombie == {"running", "awaiting_subagents", "awaiting_review"}

\* Decided from the statuses read before any of them is changed.
IsOrphan(r) ==
    /\ status[r] = "pending"
    /\ Parent[r] # None
    /\ status[Parent[r]] \in TerminalStatus

\* Mutant: interrupted runs are left for recovery.
RestartForRecovery ==
    /\ "restart" \in Events
    /\ status' = [r \in Run |->
                    IF status[r] \in Zombie THEN "WORKER_CRASHED_RECOVERABLE"
                    ELSE status[r]]
    /\ task' = [t \in Task |-> None]
    /\ runningIds' = {}
    /\ UNCHANGED awaiting

Restart ==
    /\ "restart" \in Events
    /\ status' = [r \in Run |->
                    IF status[r] \in Zombie \/ IsOrphan(r) THEN "error" ELSE status[r]]
    /\ task' = [t \in Task |-> None]
    /\ runningIds' = {}
    /\ UNCHANGED awaiting

----------------------------------------------------------------------------

ParentStep(t) ==
    \/ WaitForChildren(t) \/ Escalate(t) \/ SpawnWave(t)
    \/ StageRaises(t) \/ OrchestrationEnds(t)

LeafStep(t) ==
    \/ AssessmentEscalates(t) \/ CallModel(t)
    \/ WorkFails(t) \/ WorkEnds(t) \/ Subdivides(t)
    \/ AskForReview(t) \/ ReviewRefused(t) \/ ReviewGo(t) \/ ReviewNoGo(t)

Step(t) == GateHolds(t) \/ GateFails(t) \/ ParentStep(t) \/ LeafStep(t)

Client(r) ==
    \/ CreateRun(r) \/ QueueRun(r) \/ AutoRun(r)
    \/ Cancel(r) \/ ResolveHandover(r)
    \/ SpawnChild(r) \/ PauseParent(r)

Next ==
    \/ \E t \in Task : Step(t)
    \/ \E r \in Run : StartPending(r) \/ Client(r)
    \/ TickOnly
    \/ Restart

Spec == Init /\ [][Next]_vars

\* The loop ticks at least every 30 seconds and slots are not withheld for
\* ever; the model answers or times out; a review is decided within its 600
\* seconds.  Nothing is assumed of clients.
Fairness ==
    /\ WF_vars(\E r \in Run : StartPending(r))
    /\ \A t \in Task : WF_vars(Step(t))

FairSpec == Spec /\ Fairness

----------------------------------------------------------------------------
(* Properties. *)

\* Children whose end has not been reported.
Unreported(p) == {c \in Children(p) : status[c] \notin {"done", "error"}}

\* awaiting_count is exact: as long as a run is not over it counts the
\* children that have not ended in done or error, through waves, concurrent
\* completions, refused updates and restarts.
AwaitingIsExact ==
    \A p \in Run :
       status[p] \notin TerminalStatus => awaiting[p] = Cardinality(Unreported(p))

\* Worker, routers and wake-ups never execute one run twice at a time.
SingleExecution == \A r \in Run : Cardinality(Executing(r)) <= 1

\* A run that shows running has a coroutine behind it.
RunningIsExecuting ==
    \A r \in Run : status[r] = "running" => Executing(r) # {}

\* The worker's own executions respect max_concurrent_runs, although the
\* wake-up of a parent does not look for a free slot.
WorkerSlots ==
    Cardinality({t \in Live : task[t].by = "worker"}) <= MaxConcurrent

\* The coroutines that execute runs, the runs that show it and the slots match.
ExecutionsAreOwned == SingleExecution /\ RunningIsExecuting /\ WorkerSlots

\* main.py:292 "Child runs still pending whose parent is now terminal (orphaned
\* children) are also marked error to prevent them from executing": no child
\* is executed for a parent that is over.
NoOrphanExecutes ==
    \A t \in Live :
       Parent[task[t].run] # None => status[Parent[task[t].run]] \notin TerminalStatus

\* services/run_worker.py:464 "Decrements parent counter and wakes if zero": a
\* parent paused for its children has one that can still be reported.
PausedParentIsWoken ==
    \A p \in Run :
       status[p] = "awaiting_subagents" =>
          \E c \in Children(p) : status[c] \notin TerminalStatus

\* Delegation as a reader sees it.
phaseOfRuns ==
    [r \in Run |-> CASE status[r] = Absent -> "absent"
                     [] status[r] = "awaiting_subagents" -> "waiting"
                     [] status[r] \in TerminalStatus -> "over"
                     [] OTHER -> "active"]

FJ == INSTANCE ForkJoin WITH phase <- phaseOfRuns

ImplementsForkJoin == FJ!Spec

\* No coroutine is left for r, or for a descendant, which awaits a human.
HaltedBelow(r) ==
    \E q \in Run :
       /\ q = r \/ r \in Ancestors[q]
       /\ status[q] = "awaiting_review" /\ Executing(q) = {}

\* Every pending run ends, unless it or a descendant is halted for a human:
\* parents give their slot back while they wait, so that a deep tree of runs
\* cannot fill all the slots with waiting parents.
EveryRunEnds ==
    \A r \in Run :
       status[r] = "pending" ~> status[r] \in TerminalStatus \/ HaltedBelow(r)

=============================================================================
