--------------------------- MODULE Observability ---------------------------
(***************************************************************************)
(* ObservabilityService: the spans and counters of workflow executions,    *)
(* and what it says of runs: which are stuck, and how often they are       *)
(* blocked or held.                                                        *)
(*                                                                         *)
(* An engine keeps one trace id for all its executions, which may overlap; *)
(* the span of a workflow is found under that id, and the items shown have *)
(* the span's own id.  Nothing ever writes heartbeat_at, so that a run's   *)
(* age counts from when it was last set running while its base file did    *)
(* not say so yet.  What became of runs is counted when somebody reads a   *)
(* preview of one.                                                         *)
(***************************************************************************)
EXTENDS Integers, Sequences

CONSTANTS
  Engine,
  Exec,                \* executions, each of an engine
  EngineOf,
  MaxNodes,            \* steps of an execution
  MaxSpans,            \* how many items are kept
  Run,
  Threshold,           \* how long an active run may go without being stuck
  MaxClock, MaxReads,  \* bounds of the model
  None

ObservabilityConstants ==
    /\ EngineOf \in [Exec -> Engine] /\ MaxNodes \in Nat /\ MaxSpans \in Nat \ {0}
    /\ Threshold \in Int /\ MaxClock \in Nat /\ MaxReads \in Nat
    /\ None \notin Exec \cup Nat

VARIABLES
  exec,        \* what became of each execution
  steps,       \* its steps so far
  active,      \* the workflow span under each engine's id
  items,       \* _ui_spans
  metrics,     \* workflows, nodes and failed nodes counted
  recorded,    \* nodes and failed nodes there were
  overlapped,  \* engines with two executions at once since the start
  clock,
  runs,        \* [Run -> its status and times, or None]
  progress,    \* [Run -> when it last changed or wrote a log line]
  counters,    \* _run_outcome_counters
  seen         \* statuses that were counted

traces == <<exec, steps, active, items, metrics, recorded, overlapped>>

health == <<clock, runs, progress, counters, seen>>

End == {"completed", "failed", "paused"}

TracesTypeOK ==
    /\ exec \in [Exec -> {"idle", "running"} \cup End] /\ steps \in [Exec -> 0 .. MaxNodes]
    /\ active \in [Engine -> Exec \cup {None}]
    /\ Len(items) <= MaxSpans
    /\ \A i \in DOMAIN items :
          /\ items[i].kind \in {"node", "handoff", "workflow"}
          /\ items[i].trace \in Exec \cup {None}
    /\ overlapped \subseteq Engine

TracesInit ==
    /\ exec = [x \in Exec |-> "idle"] /\ steps = [x \in Exec |-> 0]
    /\ active = [e \in Engine |-> None] /\ items = <<>>
    /\ metrics = [workflows |-> 0, nodes |-> 0, failed |-> 0]
    /\ recorded = [nodes |-> 0, failed |-> 0] /\ overlapped = {}

Running(e) == {x \in Exec : EngineOf[x] = e /\ exec[x] = "running"}

\* A list instead of the deque.
ShowAll(item) == items' = Append(items, item)

\* The deque drops its first item.
Show(item) ==
    items' = IF Len(items) < MaxSpans THEN Append(items, item) ELSE Append(Tail(items), item)

----------------------------------------------------------------------------
(* What the engines report. *)

\* The span of another execution under the same id is forgotten.
RecordWorkflowStart(x) ==
    /\ exec[x] = "idle"
    /\ exec' = [exec EXCEPT ![x] = "running"]
    /\ active' = [active EXCEPT ![EngineOf[x]] = x]
    /\ overlapped' = overlapped \cup IF Running(EngineOf[x]) # {} THEN {EngineOf[x]} ELSE {}
    /\ UNCHANGED <<steps, items, metrics, recorded>>

Failures(status) == IF status = "failed" THEN 1 ELSE 0

\* A node's span has the trace of the workflow's, or one of its own.
RecordNode(x, status) ==
    /\ exec[x] = "running" /\ steps[x] < MaxNodes
    /\ steps' = [steps EXCEPT ![x] = @ + 1]
    /\ Show([kind |-> "node", trace |-> active[EngineOf[x]], status |-> status])
    /\ metrics' = [metrics EXCEPT !.nodes = @ + 1, !.failed = @ + Failures(status)]
    /\ recorded' = [nodes |-> recorded.nodes + 1, failed |-> recorded.failed + Failures(status)]
    /\ UNCHANGED <<exec, active, overlapped>>

\* A handoff is shown under the engine's id, which no span has.
RecordHandoff(x) ==
    /\ exec[x] = "running" /\ steps[x] < MaxNodes
    /\ steps' = [steps EXCEPT ![x] = @ + 1]
    /\ Show([kind |-> "handoff", trace |-> None, status |-> "completed"])
    /\ UNCHANGED <<exec, active, metrics, recorded, overlapped>>

\* Were the span left under the id.
RecordWorkflowEndKeepsSpan(x, status) ==
    /\ exec[x] = "running"
    /\ exec' = [exec EXCEPT ![x] = status]
    /\ LET span == active[EngineOf[x]]
       IN  IF span = None THEN UNCHANGED <<items, metrics>>
           ELSE /\ Show([kind |-> "workflow", trace |-> span, status |-> status])
                /\ metrics' = [metrics EXCEPT !.workflows = @ + 1]
    /\ UNCHANGED <<active, steps, recorded, overlapped>>

\* The span that ends is the one under the id, whoever started it.
RecordWorkflowEnd(x, status) ==
    /\ exec[x] = "running"
    /\ exec' = [exec EXCEPT ![x] = status]
    /\ LET span == active[EngineOf[x]]
       IN  IF span = None THEN UNCHANGED <<items, metrics>>
           ELSE /\ Show([kind |-> "workflow", trace |-> span, status |-> status])
                /\ metrics' = [metrics EXCEPT !.workflows = @ + 1]
    /\ active' = [active EXCEPT ![EngineOf[x]] = None]
    /\ UNCHANGED <<steps, recorded, overlapped>>

\* Nothing of it is stored; executions under way are gone.
Restart ==
    /\ exec' = [x \in Exec |-> IF exec[x] = "running" THEN "idle" ELSE exec[x]]
    /\ steps' = [x \in Exec |-> IF exec[x] = "running" THEN 0 ELSE steps[x]]
    /\ active' = [e \in Engine |-> None] /\ items' = <<>>
    /\ metrics' = [workflows |-> 0, nodes |-> 0, failed |-> 0]
    /\ recorded' = [nodes |-> 0, failed |-> 0] /\ overlapped' = {}

TracesNext ==
    \/ \E x \in Exec :
          \/ RecordWorkflowStart(x) \/ RecordHandoff(x)
          \/ \E status \in {"completed", "failed"} : RecordNode(x, status)
          \/ \E status \in End : RecordWorkflowEnd(x, status)
    \/ Restart

----------------------------------------------------------------------------
(* What list_traces shows of execution x. *)

SpansOf(x) == {i \in DOMAIN items : items[i].trace = x}

EndsOf(x) == {i \in SpansOf(x) : items[i].kind = "workflow"}

\* The status of the last workflow item.
StatusOf(x) ==
    IF EndsOf(x) = {} THEN "pending"
    ELSE items[CHOOSE i \in EndsOf(x) : \A j \in EndsOf(x) : j <= i].status

\* The counters are exact whatever the deque dropped, and unless two executions of
\* its engine overlapped every trace shows what became of its execution, and no
\* span is kept of one that is over.
TracesAreTrue ==
    /\ metrics.nodes = recorded.nodes /\ metrics.failed = recorded.failed
    /\ \A x \in Exec : SpansOf(x) # {} /\ EngineOf[x] \notin overlapped =>
          StatusOf(x) = IF exec[x] = "running" THEN "pending" ELSE exec[x]
    /\ \A e \in Engine : active[e] # None => Running(e) # {}

----------------------------------------------------------------------------
(* Runs. *)

Waiting == {"awaiting_review", "HUMAN_APPROVAL_REQUIRED"}
Final == {"done", "BASELINE_TAMPER_DETECTED"}
ActiveStatuses == {"pending", "running", "awaiting_subagents"}

HealthTypeOK ==
    /\ clock \in 0 .. MaxClock
    /\ \A r \in Run : runs[r] # None =>
          /\ runs[r].status \in ActiveStatuses \cup Waiting \cup Final
          /\ runs[r].created \in 0 .. clock /\ runs[r].started \in (0 .. clock) \cup {None}
          /\ runs[r].fixed => runs[r].started # None
    /\ progress \in [Run -> 0 .. MaxClock]
    /\ counters \in [total : 0 .. MaxReads, human : 0 .. MaxReads, policy : 0 .. MaxReads]
    /\ seen \subseteq ActiveStatuses \cup Waiting \cup Final

HealthInit ==
    /\ clock = 0 /\ runs = [r \in Run |-> None] /\ progress = [r \in Run |-> 0]
    /\ counters = [total |-> 0, human |-> 0, policy |-> 0] /\ seen = {}

----------------------------------------------------------------------------
(* What becomes of runs. *)

Exists(r) == runs[r] # None

Touch(r) == progress' = [progress EXCEPT ![r] = clock]

CreateRun(r) ==
    /\ ~Exists(r)
    /\ runs' = [runs EXCEPT ![r] =
                  [status |-> "pending", created |-> clock, started |-> None, fixed |-> FALSE]]
    /\ Touch(r) /\ UNCHANGED <<clock, counters, seen>>

Set(r, status) == runs' = [runs EXCEPT ![r].status = status]

\* The time of the last event counts, and there is one for each time it is set running
\* until a base file has a time.
SetRunning(r) ==
    /\ Exists(r) /\ runs[r].status \in {"pending", "awaiting_subagents"} \cup Waiting
    /\ runs' = [runs EXCEPT ![r].status = "running",
                            ![r].started = IF runs[r].fixed THEN @ ELSE clock]
    /\ Touch(r) /\ UNCHANGED <<clock, counters, seen>>

Leave(r) ==
    /\ Exists(r) /\ runs[r].status = "running"
    /\ \E status \in {"awaiting_subagents"} \cup Waiting \cup Final : Set(r, status)
    /\ Touch(r) /\ UNCHANGED <<clock, counters, seen>>

\* After fifty events the base file has the time.
Compact(r) ==
    /\ Exists(r) /\ runs[r].started # None
    /\ runs' = [runs EXCEPT ![r].fixed = TRUE]
    /\ UNCHANGED <<clock, progress, counters, seen>>

\* A line of its log, or an event of a stage or of the merge.
Log(r) ==
    /\ Exists(r) /\ runs[r].status \notin Final
    /\ Touch(r) /\ UNCHANGED <<clock, runs, counters, seen>>

RemoveRun(r) ==
    /\ Exists(r)
    /\ runs' = [runs EXCEPT ![r] = None]
    /\ UNCHANGED <<clock, progress, counters, seen>>

Pass ==
    /\ clock < MaxClock /\ clock' = clock + 1
    /\ UNCHANGED <<runs, progress, counters, seen>>

----------------------------------------------------------------------------
(* What is read. *)

\* What a preview says of the run's end.
FinalStatus(r) == runs[r].status

One(b) == IF b THEN 1 ELSE 0

\* record_structured_event.
Count(status) ==
    counters' = [total |-> counters.total + 1,
                 human |-> counters.human + One(status = "HUMAN_APPROVAL_REQUIRED"),
                 policy |-> counters.policy + One(status = "BASELINE_TAMPER_DETECTED")]

Preview(r) ==
    /\ Exists(r) /\ counters.total < MaxReads
    /\ Count(FinalStatus(r))
    /\ seen' = seen \cup {FinalStatus(r)}
    /\ UNCHANGED <<clock, runs, progress>>

\* _compute_run_health_metrics.
Active == {r \in Run : Exists(r) /\ runs[r].status \in ActiveStatuses}

Anchor(r) == IF runs[r].started # None THEN runs[r].started ELSE runs[r].created

StuckRuns == {r \in Active : clock - Anchor(r) >= Threshold}

\* get_metrics: parts of at least one outcome.
AtLeast(part, percent) ==
    part * 100 >= percent * (IF counters.total = 0 THEN 1 ELSE counters.total)

Alerts ==
    (IF AtLeast(counters.policy, 30) THEN {"HIGH_POLICY_BLOCK_RATE"} ELSE {})
    \cup (IF AtLeast(counters.human, 70) THEN {"HIGH_HUMAN_APPROVAL_RATE"} ELSE {})
    \cup (IF StuckRuns # {} THEN {"STUCK_RUN_DETECTED"} ELSE {})

HealthNext ==
    \/ Pass
    \/ \E r \in Run :
          CreateRun(r) \/ SetRunning(r) \/ Leave(r) \/ Compact(r) \/ Log(r) \/ RemoveRun(r) \/ Preview(r)

----------------------------------------------------------------------------

\* A run that is active and silent for the threshold raises the alert, even if it was
\* set running again and its base file has an old time; none does that is younger. A
\* rate raises an alert only after a run was seen so.
HealthIsNoticed ==
    /\ \A r \in Active : clock - progress[r] >= Threshold => "STUCK_RUN_DETECTED" \in Alerts
    /\ \A r \in StuckRuns : clock - runs[r].created >= Threshold
    /\ "HIGH_POLICY_BLOCK_RATE" \in Alerts => "BASELINE_TAMPER_DETECTED" \in seen
    /\ "HIGH_HUMAN_APPROVAL_RATE" \in Alerts => "HUMAN_APPROVAL_REQUIRED" \in seen

----------------------------------------------------------------------------

\* They share no state.
Next ==
    \/ TracesNext /\ UNCHANGED health
    \/ HealthNext /\ UNCHANGED traces

Spec == TracesInit /\ HealthInit /\ [][Next]_<<traces, health>>

TypeOK == TracesTypeOK /\ HealthTypeOK

=============================================================================
