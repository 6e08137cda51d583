# TLA+ models of the GIMO orchestrator

This directory holds TLA+ modules for the server of the repository
(`src/tools/gimo_server`), TLC configurations that model-check them on small
instances, and TLAPS proofs of their main properties for every instance.
`PROJECT.json` is the index: components, runs, mutants, findings, hazards,
theorems, and the source lines each definition stands for.

```
tlc -workers 2 -config <X>.cfg <Module>.tla     # one run
tlapm <Module>_proofs.tla                       # one set of proofs
```

Paths below are relative to `src/tools/gimo_server/` unless they start with
`src/`.

Contents: 1 the system · 2 how it executes · 3 the modules · 4 the runs ·
5 the proofs · 6 where code and documentation part · 7 behaviour seen but not
run · 8 not modelled · 9 plan

## 1. The system

GIMO is a FastAPI server that turns a prompt into a *draft*, an approved draft
into a *run*, and executes runs with language models. A run may delegate to
*child runs*, wait for a human, execute a plan or a workflow, and end by merging
a git branch. A key-value daemon (GICS) beside it keeps statistics and
checkpoints. A React client, an MCP bridge and a licence web site surround it.

### Components

| component | state it keeps | operations | talks to | modules |
|---|---|---|---|---|
| Run store, `services/ops_service.py` | per run a base JSON file, an append-only event log, a run log; one file lock for all | create, rerun, read, status, stage and merge updates, cleanup | everybody | `OpsRunStore`, `RunView`, `RunEventLog` |
| Child runs, `services/child_run_service.py`, stages `spawn_agents`, `subagent_gate` | parent, `awaiting_count` and tasks in run records | spawn, pause, wake, waves of tasks | store, worker | `ChildRuns`, `ForkJoin` |
| Run worker, `services/run_worker.py` | `_running_ids`, asyncio tasks | tick, execute, child completion | store, engine service | `ChildRuns` |
| Engine service and stages, `services/engine_service.py`, `engine/` | coroutines, artifacts | a pipeline of stages chosen from the run's context | store, models, gates | `ChildRuns`, `Pipeline`, `DraftRuns`, `Assessment` |
| Pipeline and journal, `engine/pipeline.py`, `engine/journal.py` | journal | retries, alternatives, rollback | stages | `Pipeline`, `Saga` |
| Draft approval, `ops_service.py`, `routers/ops/plan_router.py`, `runtime_policy_service.py`, `intent_classification_service.py` | draft and approved files, the policy | create, judge, update, approve, reject, clean up, auto-run | store, gate stages | `DraftRuns` |
| Merge gate, `services/merge_gate_service.py`, `git_service.py` | lock file per repository, a worktree per run, branches | lock, validate, merge, roll back, recover | store, git | `MergeGate` |
| Tool approval gate, `services/hitl_gate_service.py` | `action_drafts.json`, waiters in memory | gate a call, approve, reject | graph engine, adapters, operators | `HitlGate` |
| Notifications, `services/notification_service.py` | pending events, a queue and a breaker per client | publish, subscribe, flush | clients over SSE | `Notifications` |
| Graph engine, `services/graph_engine.py`, workflow handlers | workflow state, engines in memory, checkpoints | node kinds, retries, budgets, review, resume | daemon, approval gate, models | `Workflows`, `WorkflowNodes`, `AgentTask` |
| Custom plans, `services/custom_plan_service.py` | one plan file each | layers of nodes, edits, execution, save | models | `CustomPlans` |
| GICS client, `services/gics_service.py` | one socket, records in the daemon | get, put, outcomes, priors | daemon | `GicsClient` |
| Models and providers, `provider_service_impl.py`, `provider_catalog_service_impl.py`, `cascade_service.py`, `model_router_service.py`, account services | `provider.json`, catalogue cache, jobs, flows | configure, list, install, validate, log in, choose, climb | remote services, daemon | `Providers`, `Cascade`, `ModelRouter`, `AccountLogins` |
| Knowledge services, `skills_service.py`, `conversation_service.py`, `capability_profile_service.py` | skill files, threads, model profiles | create, execute, fork, append, assess | plans, daemon, notifications | `Skills`, `Conversations`, `Assessment` |
| Repository and policy services, `repo_override_service.py`, `tool_registry_service.py` | override, registry, tool lists | select, revoke, sync | clients, MCP servers | `RepoSelection`, `ToolRegistry` |
| Sub-agents, `services/sub_agent_manager.py` | inventory file, worktrees | create, delegate, reconcile | git, the bridge | `SubAgents` |
| Authority, hardware and admission | samples, levels | sample, govern, admit | worker | `Admission` |
| Observability, `observability_service.py`, `log_rotation_service.py` | spans, counters, archives | record, show, rotate | graph engine, store | `Observability`, `LogRotation` |
| Security, `security/` | threat level, licence cache, cold-room state, revocations | report, decay, validate, log in and out | web site, middlewares | `ThreatLevel`, `Access` |
| Start and end of the server, `main.py` | tasks, the daemon process | lifespan, reconcile | everything | `Lifespan`, `ChildRuns` |
| Trust engine, costs, web site, user interface | | | | none, see section 8 |

`PROJECT.json` has every component with its files, and what is left out of it.

### What is hard

* **Coroutines on one loop.** The worker, the routers and woken parents create
  tasks that execute runs. Statuses are read before an `await` and written after
  it. Two requests may drive one workflow engine, two executions one plan.
* **Threads beside the loop.** Handlers that are no coroutines run in a pool:
  they change the threat level, the repository override and account flows
  without a lock, and a command that hangs keeps its thread.
* **Two files per run.** Most operations append an event and leave the base file
  alone; some rewrite the base file and append nothing, which may be invisible.
* **Copies.** A plan is executed on a copy that is saved over the file after
  each layer; a catalogue is stored after the invalidation of its time; a
  workflow comes back from a checkpoint with the flags of then.
* **Death.** The server may die between an event, a base rewrite and a
  truncation, between the two files of an approval, in a git merge, or while
  calls wait. The daemon may die alone and is not started again.
* **Counters across actors.** `awaiting_count` is raised by waves and by
  clients, lowered by each child that ends, and its zero starts a coroutine.
  Statistics in the daemon are read, merged and put back.
* **Timers.** The approval timer races the operator; a merge lock of 120 s
  outlives no blocked event loop; calm lowers a level that events raise.
* **Lists of filters and thresholds.** One risk is compared with four sets of
  thresholds; a model passes five filters, some of which give way.

### What must be true of each part

| part | properties |
|---|---|
| run store | reading, compacting and dying never change what a reader sees (`RunEventLog!SummaryIsExact`, `ImplementsRunView`); finished runs stay finished (`TerminalIsFinal`); attempts identify the runs of a key (`AttemptsDistinct`, `LineageIncreases`); a key with a fresh active run is refused (`CreationOnlyOverStale`) |
| children and worker | the counter is exact (`AwaitingIsExact`); no run executes twice, running means executing, slots are respected (`ExecutionsAreOwned`); a pause is followed by a wake (`PausedParentIsWoken`); delegation is fork/join (`ImplementsForkJoin`); every run ends (`EveryRunEnds`) |
| drafts | an approval is counted once per draft and death (`ApprovalsAreCounted`); what is not eligible for an automatic run passes no gate (`OnlyEligibleChangesRun`) |
| merge gate | only validated changes reach a branch (`OnlyValidatedMerges`); merges survive (`MergesSurvive`); an unexpired lock is kept (`LockIsKept`); gates end (`GatesEnd`) |
| approval gate | a critical tool runs only if the first decision approved it (`AllowedOnlyByApproval`); recorded decisions arrive (`RecordedDecisionsArrive`); calls end (`EveryCallEnds`) |
| notifications | no client sees an old state after a new one (`EventsInOrder`); pending events are flushed (`PendingIsFlushed`) |
| pipeline | what was done is undone in reverse, and nothing else (`ImplementsSaga`); the outcome is what was journaled (`OutcomeIsRecorded`) |
| workflows | nodes are those edges lead to, whatever is resumed (`EdgesAreFollowed`); a node's result is of one attempt (`NodesAreContained`); contracts, reviews and budgets are heeded (`NodesAreHeeded`, `BudgetsAreKept`); the answer says how it ended (`OutcomeIsTold`) |
| plans | dependencies come first (`ExecutionsAreOrdered`); accepted edits survive executions (`EditsAreKept`) |
| models | escalation climbs until an answer is good or the budget spent (`CascadesClimb`); a rule is broken only where every model breaks it (`RoutingIsSound`); lists show what is configured (`ProvidersAreShown`); outcomes are counted once (`OutcomesAreCounted`); a model is refused for failures on record (`AssessmentsAreFair`) |
| administration | events are answered (`EventsAreAnswered`, `CalmEndsAll`); only licensed servers run (`RunningIsLicensed`); sessions that ended are refused (`SessionsHold`); tools are what servers stated (`ToolsAreKnown`); runs are admitted (`RunsAreAdmitted`); shutdown leaves nothing behind (`ServerIsOrderly`); nothing replaced comes back (`NoneReturns`); flows are of logins that showed their code (`AccountsAreKept`); agents keep their worktrees (`AgentsKeepTheirWorktrees`); the last announcement is what is stored (`ConversationsAreAnnounced`); rotation forgets no run (`NothingIsForgotten`); traces, health and skill reports are true (`TracesAreTrue`, `HealthIsNoticed`, `SkillRunsAreReported`) |

The hazards these are aimed at, each at its line, are in `PROJECT.json`.

## 2. How it executes, and what one action is

The server is one process with one asyncio event loop. Coroutines are not
preempted, so an action is everything between two suspension points: a model
call, the wait for a review, for an operator or a remote service, the start of a
new task. Where the code awaits something that never suspends
(`NotificationService.publish`, `_save_draft`), no point is added.

Handlers declared with `def` run in threads of a pool. `ThreatLevel`,
`RepoSelection` and `AccountLogins` have an action for each of their reads and
writes of shared state.

`OpsService` operations hold a file lock (`src/docs/SYSTEM.md:64`), so each is
one action even against another process; the places where the code works outside
the lock are in the hazards. A process may die inside an operation: the
`Crash...` actions are the prefixes its writes may leave. The GICS client blocks
the event loop while it sends, waits and sends again, so that one operation of
the server runs at a time; the steps of the daemon interleave with it.

Time is a choice: a run grows stale, a lock expires, a timer fires whenever the
model likes, within what the code makes possible. `Access`,
`LogRotation` and `Observability` have a clock, since they compare ages.

The modules above the store read and write a run's status directly, as
`get_run` shows it. `OpsRunStore` shows that this is sound for every write that
appends an event, and which writes are masked; `ChildRuns` takes masked writes
as what they are for a reader, none at all.

## 3. The modules

`RunStatus` holds the statuses and the transition table and is extended by all
modules that change one. `MC...` modules only add instances. `..._proofs`
modules hold theorems. Operators marked `Mutant`, or described as what would be
"were" the code otherwise, are wrong variants that the mutants of
`PROJECT.json` put in place of the real ones, to show that each property can be
broken by a plausible change of the code.

### Run store: `RunLog`, `RunEventLog`, `OpsRunStore`, `RunView`

* `RunLog`: an event log reduced to its length, up to the threshold, and the
  last value of each field. `RunEventLog` keeps the log as a sequence and
  replays it line by line as `_apply_run_event` does; its property says that the
  summary is exact, also when a crash leaves a log that the base already has.
* `OpsRunStore`: `base` and `log` are the two files, `stale` and `idle` the age
  of a run and of its base file. `CompactAt` stands for the 50 of the code.
  `CreateRun`, `Rerun`, `UpdateRunStatus`, `SetRunStage`,
  `UpdateMergeMetadata`, `SpawnChild`, the two re-queues and `CleanupOldRun`
  are the operations. A field that plays no part in a guard (prompt, model,
  timestamps) is left out.
* `RunView`: what `get_run` promises, one record per run and no files. The
  refinement is `ImplementsRunView`, with `viewOfRuns` as the mapping.

### Children and worker: `ChildRuns`, `ForkJoin`

`status` and `awaiting` are fields of the run records, `runningIds` is
`_running_ids`, `task` the live asyncio tasks with the run each executes, who
started it (the router's tasks do not report) and where it is suspended.
`StartPending` is `_tick`, together with the tasks it creates; `TickOnly` is a
tick the resource governor stops. `Step(t)` is the part of `execute_run` up to
its next suspension: gates, waves of tasks (`SpawnWave`), escalation, model
calls, reviews. `Finish` is the end of `_execute_run`: the final status, the
report to the parent and, at zero, its wake-up. Clients create, queue, auto-run,
cancel, spawn, pause and resolve handovers; `Restart` is death and reconcile.
Which stages fail, hold or escalate is chosen from `Outcomes`.

`ForkJoin` is the promise: a run waits only while a child is alive, and resumes
when all are over.

### Drafts and merges: `DraftRuns`, `MergeGate`

`DraftRuns` has the three places that judge a change as functions
(`PolicyStatus` and `Intent` for a new draft, `Gates` for a run that starts,
`MergeVerdict` for a merge) and, as actions, the drafts of clients and models,
their edits and rejections, the cleanup that deletes rejected and failed drafts
(also one that was approved before: its entry stays, and a run of it starts with
no context and no prompt), `ApproveDraft` with a death between its two files,
`auto_run`, the start of a run with what the draft says *then*, and a policy that
changes meanwhile. Paths are classes of paths; risks are tenths, so that the gap
between 30 and 31 exists.

In `MergeGate`, `gate` is how far the coroutine of each run is, `lock` the lock
files, `tip` the branches as sets of changes, `sandbox` the branch a run's
worktree has checked out, `before` the recorded `commit_before`. The stages of
`_pipeline` are one action each, so that the server may die between them, but
nothing else of the server happens in between: the pipeline calls git
synchronously and blocks the loop (`LoopFree`). For the same reason the
heartbeat (30 s) and the pipeline timeout (900 s) never act while git works: a
lock of a long pipeline expires under its owner, and `PIPELINE_TIMEOUT` is never
set. After the pipeline the gate still waits for its heartbeat task, at most
30 s (`drain`), and releases the lock then. `Failures` are what may go wrong: a
refused gate, a policy or risk hold, a worktree that is not created, tests,
linting, a conflict, a crash of git, a status that cannot be recorded, a reset
that fails, a clean-up that fails. A worktree left behind by a crash keeps its
branch checked out, and `Available` refuses it to others as git does. A rollback
is two actions: `Rollback` resets the target, `RecordRollback` writes the status
that tells of it; in between the server may die. `undone` is history, read by no
action: the runs that have reset their target.

### Gates and events: `HitlGate`, `Notifications`

`record` is `action_drafts.json`, `waiters` the keys of `_waiters`, `future` the
futures, `caller` what became of each call. `ToolCall` is `gate_tool_call` up to
its wait. The timer takes two turns of the loop (`GiveUp`, then `TimeOut`),
because `wait_for` of Python 3.11, which the Dockerfile and the CI use, waits for
the future it cancelled; an operator may act in between. A file that cannot be
read is taken for an empty one when a draft is saved (`SavedAlone`), which
deletes all other drafts.

`Notifications` has the pending events of each key, the flush loop with its
creation, its end and its death, and per subscriber a queue that drops its
oldest message and a breaker that closes after failures. Critical events
overtake pending ones; the model keeps, per key, what a client saw last.

### Stages: `Pipeline`, `Saga`, `Assessment`

`Pipeline` executes a list of stages: one attempt or one rollback is an action.
A stage may succeed, fail, halt, ask for a retry or raise; alternatives stand in
for a failed stage. A journal entry names the candidate that answered
(`StageCandidate`), which is the alternative where one healed the stage; only
where the last attempt of the last candidate raised is it the stage itself.
`Saga` is the promise: work is done in order and undone in reverse, or kept. The
last status is what `EngineService.execute_run` asks for.
`Assessment` is the loop of `CognitiveAssessmentStage`: children are assessed
by what the daemon keeps of their model, and their reviews and ends are recorded
there; commands may be lost.

### Workflows: `Workflows`, `WorkflowNodes`, `AgentTask`

`Workflows` is one workflow, its engine in memory, its checkpoints in the daemon
and the handlers that execute and resume it, also two at a time: edges,
iterations, pauses, budgets, failures, `_resume_from_node_id`. `WorkflowNodes`
is what a node does to the state: pre- and post-contracts with their rollback,
reviews with their deadline and default, model and tool calls, sub-workflows on
a copy of the state with a copied budget. `AgentTask` is a node with children in
its three patterns, the semaphore, and attempts that start while children of the
last one still work.

### Plans and skills: `CustomPlans`, `Skills`

`CustomPlans` is a plan file, its editors, and executions that read it once and
save their copy over it after each layer. `Skills` is the whole of
`SkillsService`: files under one lock with the command line as a second process
(`FilesNext`), and the check of graphs with the executions and what is told of
them (`RunsNext`).

### Models: `GicsClient`, `Providers`, `Cascade`, `ModelRouter`, `AccountLogins`

`GicsClient` has lines of a socket, retries, connections that break, a daemon
that is slow or dies, and above it the counters of a model that are read, merged
and put back. `Providers` is `provider.json` with what reading it injects and
repairs, catalogues, validations and installations that suspend. `Cascade` asks
better models, over a cache and over the reliability that sends a request
elsewhere. `ModelRouter` is `choose_model` as a function of a query. In
`AccountLogins` threads of a pool run the commands of account providers.

### Administration

`ThreatLevel`, `Access`, `ToolRegistry`, `Admission`,
`RepoSelection`, `SubAgents`, `Conversations`, `LogRotation`, `Observability`
and `Lifespan` model the component the table of section 1 gives; each module
begins with what a step is in it and what is left to choice.

### Composition

Components that interact are in one module: worker, children and stages in
`ChildRuns`; drafts, policy and the gates of a run in `DraftRuns`; worktrees,
lock and git in `MergeGate`; engine, daemon and handlers in `Workflows`; server
and bridge in `SubAgents`. Modules that share no state are checked side by side
(`MCChanges`, `MCHitlGate`, `MCServices`, `MCAdministration`): the initial state
chooses which one moves, and the others rest in one state of theirs. Nothing is
lost by that, since none of their variables occurs in another's actions.
They leave the constants of what they compose to the cfg, under the assumptions
the components state (`...Constants`), so that theorems about them hold for every
value.

## 4. The runs

| run | instance | states | question |
|---|---|---|---|
| `store` | 2 runs of a key, compaction at 2, attempts up to 2 | 17,004 | Do the files, with stages, marks, compactions and crashes, implement `RunView`? Attempts, lineage, the active check under ageing, displacement and deletion |
| `store_rejection` | as `store`, fewer statuses | violation | Is a rejected run re-queued? |
| `child_tree` | 5 runs, one at the depth limit, all events and outcomes | 119,336 | Is `awaiting_count` exact whatever happens? |
| `child_live` | 6 runs, three levels, two slots | 2,998 | Slots, single execution, fork/join, no orphans; do all runs end? |
| `child_orphans` | root and two children | violation | Are orphans kept from executing after a restart? |
| `merge_gate` | a draft with two entries and a run; two runs into one branch, all failures, cancel, restart | 226,450 | What is approved, which changes pass the gates, only validated merges, merges survive, the lock, gates end |
| `merge_rollback` | as `merge_gate`, `record` fails | violation | Does a rollback keep the branch? |
| `hitl_gate` | 3 calls, two of graph nodes, file failures, restarts; two clients of three events | 201,757 | Who lets a tool run, do decisions arrive, do calls end? Are events in order, and flushed? |
| `services` | 11 services | about 355,000 | Pipeline, plans, event log, daemon, providers, cascade, router, workflows and their nodes |
| `workflow_resume` | the same | violation | Does a resumed workflow continue? |
| `administration` | 15 instances | 1,388,611 | Who is let in and admitted, is what is written kept, is what is shown true, does the server end in order? |
| `skill_creation` | 2 skills, 2 commands, server and command line | violation | Is a request to create a skill ever answered? |

### Bounds, and why they are enough

* *Runs of the store.* A child touches its own record and its parent's
  `awaiting_count`, and a rerun its source and a new record: two runs. One run
  alone goes through all classes of statuses with stages and marks; two at a
  time keep to the statuses of a review (`FewWhenTwo`). What needs three runs
  of a key ("the newest is not the active one") is left to the theorems, which
  hold for any number.
* *`CompactAt`* (2 or 3, 50 in the code): a log is only compared with it, and
  2 is the least for which events accumulate before a compaction.
* *Families.* Three levels on two slots are the smallest in which a waiting
  parent, a waiting grandparent and a queued child compete. `child_tree` adds a
  delegating child at the depth limit and a child that a client spawns. `Task`
  bounds the tasks alive at a time, at least one per run that may execute; it
  bounds `auto_run`, which could add more for one run.
* *Drafts*: one, with two entries (a death makes the second) and one run; one
  request for each branch of the judgement, and for the gap of 30 to 31.
* *Merging runs*: lock, branch and worktree conflicts are between two runs.
* *Gated calls*: two that share the file and a third that is not a node's.
* *Workflows*: three nodes with a decision, a loop and an end; two iterations,
  two checkpoints, two requests. *Bound*: a client does not execute a workflow
  that is under way. Chains of nodes have each kind once, with a sub-workflow of
  four; two attempts, two resumptions.
* *Agents*: one worker more than may work at a time, two rounds, one retry.
* *Plans*: three nodes as a fork, a chain against the order of the file and a
  cycle; two executions.
* *Daemon*: two clients, two samples of one model: the least for which an
  outcome may be lost or counted twice.
* *Models*: three tiers, the middle one bound to no role; the router has a local
  and a remote model of the two tiers that filters tell apart.
* *Clocks* run one beyond the last comparison: `MaxClock` twice the threshold,
  `MaxDay` (2) one past the grace and the blobs' expiries. The machine's clock is
  right or a day behind (`Skews`), which is the least for which it is before the
  token's day; a clock that is ahead, and any other error, is in the theorem only.
* *Skills*: graphs are submitted before the executions; nobody edits or executes
  a skill run's plan meanwhile, which is in `CustomPlans`.
* *Assessment*: commands are lost in one operation only; three children of which
  the first is tried twice, so that one failure more or less decides.
* *Sub-agents*: two agents over three starts of server and bridge.
* Counters (`MaxReads`, `MaxWritten`, `MaxRuns`, `MaxSessions`, ...) are the
  least with which each branch is reached; TLC's coverage shows that all are.

Deadlock is checked in none of the runs with a `CHECK_DEADLOCK FALSE`: in them
the system comes to rest when every run, call or execution is over, and the
bounds stop the rest. `EveryRunEnds`, `GatesEnd` and `EveryCallEnds` say instead
that it does not rest too early.

The events of a run are restricted where the property fails with them, and only
there: `child_live` has neither cancellations (then the slots and
`PausedParentIsWoken` fail), nor `auto_run` (two coroutines for a run),
handovers or held gates (running without a coroutine), nor restarts
(`NoOrphanExecutes`). Sections 6 and 7 say what happens instead. `child_tree`
has all of them.

Symmetry is used where no liveness is checked: run ids of the store, executions
of a plan and requests for a workflow.

### Fairness

* `ChildRuns`: weak fairness of "some pending run is started" (the worker ticks
  at least every 30 s and slots are not withheld for ever) and of each task's
  next step: the loop resumes what is ready, model calls carry their own
  timeouts, and a review that is not decided within 600 s raises. Clients owe
  nothing. A run halted for a human is excused in `EveryRunEnds`.
* `MergeGate`: weak fairness of each gate's next step: git, tests and linters run
  under subprocess timeouts. Locks need not expire and gates need not refuse:
  `GatesEnd` does not depend on either, because a gate that finds a lock ends
  with `MERGE_LOCKED`.
* `HitlGate`: weak fairness of each call's wake-up: its future is set or its
  timer is due. Operators need never answer.
* `Notifications`: weak fairness of the flush loop, which sleeps and flushes;
  clients owe nothing. A loop that died is excepted: a payload that `json.dumps`
  refuses kills it (section 7).
* `Skills`: whoever may go on does, and the lock is not kept for ever from one
  that waits (strong fairness of `Enter`). The violation holds under it, so that
  it is not starvation but the second lock that stops the request.
* Everything else is safety.

## 5. The proofs

Each `_proofs` module proves an inductive invariant, one lemma per action, and
derives the properties. Nothing is assumed but the named assumptions on the
constants, and the hypotheses below, which are part of the theorems.

**`OpsRunStore_proofs`**, for any number of runs and keys, any threshold and
any bound on attempts. `IInv` strengthens the type invariant by

* `AttemptsDistinct` and `LineageIncreases`, which are properties themselves;
* `LineageKnown`: the source of a rerun existed, so that a deleted id is never
  taken for a new run;
* `ChildMask`: for a child whose view is terminal, the log has a status event
  that hides what a base write may have put into the base. It is why a late
  re-queue cannot revive a finished run;
* `NoFileNoLog`: a run without a base file has an empty log;
* `StalePrefix`: ages agree with attempts. If the newest run of a key is stale,
  the older ones are; hence `create_run`, which looks at one active run, refuses
  because of any.

From it: `TypeCorrect`, `AttemptsIdentify`, `LineageOrdered`,
`StoreImplementsRunView` (every step, crashes included, is a step or a stutter
of `RunView`), `FinishedRunsStay` and `CreationRefusedByFresh`. The last two are
action properties. These theorems are what the run `store`, of two runs and one
key, is an instance of.

**`ChildRuns_proofs`**, for any tree of runs, depth limit and number of slots.
`AwaitingIsExact` is not inductive: the counter is right because each child is
executed by at most one task that reports (`OneTaskPerChild`,
`ChildTasksReport`), tasks execute runs the worker knows (`PickedUpIsKnown`,
`TasksExist`), a child that ended has reported (`NothingUnreported`), and only a
parent that was started has children (`ParentsStarted`). All theorems assume
`ClientsSpawnUnderRoots`: clients of `/child-runs/spawn` add children to root
runs only. Without it the statement is false: see section 7. The further
hypotheses say which events of clients the theorem excludes; they are the events
with which TLC finds the property violated, and no more:

* `PausedWoken` (no cancellations): a parent paused for its children has one
  whose report will wake it. `PausedInv` adds that a run waiting for children
  counts at least one.
* `ExecutedOnce` (`OrderlyClients`: neither `auto_run` nor a spawn by a client):
  no two tasks execute a run. `SingleInv` adds that a task whose run is still
  pending keeps it among `_running_ids`, and that no child is left that could
  wake a run that is executed.
* `NoOrphans` (`OrderlyClients`, no cancellations, no restarts): no child
  executes for a parent that is over.
* `Owned` (`QuietClients`: `OrderlyClients`, and neither cancellations,
  handovers nor stages that are held or subdivided; restarts are allowed): a run
  is executed once at a time, one that shows running is executed, and the
  worker's executions fit in the slots. `OwnedInv` counts the worker's tasks and
  says what a waiting or resumed run still has of them.
* `Refinement` (`ForkJoin` is implemented): clients neither cancel runs nor
  resolve handovers. A cancelled child leaves its parent waiting, and a handover
  sets a waiting parent running while its children are alive.

**`Changes_proofs`**, for any drafts, requests, edits and policies, as part of
`MCChanges`. `ApprovedOnce`: a draft has at most one approved entry, and one more
for each death between its two files. `EligibleOnly`: no run sends a model a
prompt, and none merges, that the judgement of intents would not let run by
itself, whatever was edited, deleted or decided, and whatever policy is in force.
The invariant of the first is a count of entries (`CountedInDrafts`), that of the
second ties a run to the gates it was started through.

In the same module, for any number of merging runs, repositories and branches:
`LockSafe` follows from types and from which gates own a lock. `ValidatedMerges` and
`MergesSurviveAlways` need `SourcesAreNotTargets`, that no run merges a branch
another run merges into; then a source keeps the changes it started with.
The invariant says, per run, which statuses each stage allows (`EarlyStatus`
before validation is over, `LateStatus` after), that a run that has reset its
target tells so as soon as its gate is over, unless it was cancelled or failed
(`ToldInTime`), and which branch the
sandbox has checked out, that at most one pipeline is at work (`OnePipeline`),
that `commit_before` is the source (`BeforeIsSource`), that a merge which has
been performed is in its branch (`MergedIsIn`), and that what is in a branch has
been earned (`OnlyEarned`). `TypeCorrect` needs no hypothesis.

**`HitlGate_proofs`**, for any number of calls. `Linked(d)` relates a draft's
waiter, future, caller and first decision: a future that says allow was answered
by a first decision that approved, and a draft that has a decision has no
undone future. From it `OnlyByApproval` and `DecisionsArrive`.

The module goes on with the notifications, which share a run with the gate.
`EventsStayInOrder`, for any subscribers, keys, queue and threshold: what a
subscriber saw last of a key is never newer than what it gets next.
`EventsFlowInOrder` orders, per key, what was delivered, what is queued and what
is pending; `DeliveredIs` says what the loop over the subscribers leaves to each.

**`Services_proofs`** has one section per component of `MCServices`, each for
every value of its constants under the assumption named `...Constants`: what the
modules assume, the types of the constants, and that `None` is none of the values
it stands beside.

* *`Pipeline`*, any stages, alternatives and retries. The invariant has what
  `run()` has to do next in each state (`Progress`), the status of each state
  (`Shown`), that the history follows the stages and each journal entry belongs to
  its stage or to one of the stage's alternatives (`Belongs`), and that the file is
  at most one entry behind (`InOrder`). From it `OutcomeCorrect`, and `Refinement`
  of `Saga`, in which an attempt that is to be repeated is a stutter.
* *`GicsClient`* (`OutcomesAreCountedOnce`): at most one answer is left unread,
  and every outcome is counted once unless an answer or a record was lost; the
  invariant ties each call to the value it read.
* *`ModelRouter`* (`RoutersAreSound`): a rule is broken only where every model
  that is left would break it. *`Cascade`* (`CascadesAreSound`): a cascade ends
  with its first good answer or its last one, climbs the tiers, and asks no more
  once the budget is spent.
* *`Workflows`* (`EdgesFollowed`, `OutcomesTold`): a node is executed only if it
  is the first or a checkpoint leads to it, whatever is resumed, lost or executed
  at the same time; an execution that ends early is told to be paused or aborted.
* *`CustomPlans`* (`ExecutionsHold`, `EditsHold`), for any plan without a cycle:
  the property alone is not inductive, because an execution works on a copy. The
  invariant (`PlansInv`) says of each copy that the nodes the execution is past
  have ended in it, that those before its place in the order contain what the
  node depends on, and, unless two executions overlapped, that the file is the
  copy or a plan nobody executes.
* *`RunEventLog`* (`SummariesAreExact`): replaying a log over a base gives what
  its summary gives, for every base, whatever crash lies between snapshot and
  truncation.
* *`AgentTask`* (`NodesContained`), any number of workers, rounds and attempts: a
  completed node shows the work of one attempt. The invariant (`AgentInv`) says
  what each pattern has started, and that an attempt which is over starts nothing
  more although its children go on.
* *`WorkflowNodes`* (`NodesHeeded`): the nodes that are behind the one at work
  answered, or a failed checkpoint was resumed past them, and no engine counts
  more than its budget allows. Budgets are looked at between nodes, so that a
  node may go over by what one node counts; a resumed workflow keeps its counters
  and may do so again, so that the bound grows with each resumption. The
  hypothesis `NodesConstants` has one level of sub-workflows, as the model.
* *`Providers`* (`ProvidersShown`), for any providers, configurations that are
  put, readers and validators: `NormalIs` (what `_normalize_config` writes has
  its roles bound, each worker once) and `FixedIs` (normalising that again changes
  nothing) are about the functions; the invariant adds that a catalogue, cached
  or on its way, was overtaken or shows what is installed.

What recursive functions compute (`Replay`, `Deduplicated`, the layers of a plan)
is shown by taking the least argument for which it fails (`LeastIs`), one
function at a time.

The last section is about `MCServices` itself, as the run `services` checks it.
For each component a lemma (`...AreBeside`) shows that a step of the composition
is a step of the component or leaves it alone. With them the theorems hold of
`MCSpec`: `TypesRight`, `ExecutionsOrdered`, `EditsKept`, `RecordsExact`,
`ModelsChosen`, `WorkflowsFollowed` and `OutcomeTold`. All safety properties of
that run are theorems.

**`Administration_proofs`** does the same for the fifteen services of
`MCAdministration`: one section each, with constants of its own, then a section
about their composition.

* *`Lifespan`* (`LifeIsOrderly`): every daemon that outlives its server is of
  one that did not shut down, and the worker takes runs only while the authority
  is there, wherever a process is killed.
* *`RepoSelection`* (`SelectionHolds`): an override that was replaced, revoked or
  deleted never comes back.
* *`Access`* (`LicenseHolds`, `SessionsAreHeld`), any settings of the clock: a server
  that runs was accepted or has a blob of its day, and one that started offline did
  so by a clock between the day of the acceptance its file is of and the end of the
  grace. The invariant is that the file is of one of the acceptances since it was
  last written (`FilesTell`) and that a rejection waits for one day at most
  (`OverdueInTime`). A profile is given only for a session
  that holds at that moment.
* *`Admission`* (`AdmissionHolds`): each run is started once, within the slots and
  never under high load. *`SubAgents`* (`WorktreesAreKept`): an agent keeps its
  worktree unless the inventory was read or written without it. *`ToolRegistry`*
  (`ToolsAreKnownToAll`): a name stands for what its server listed or an
  administrator stated.
* *`ThreatLevel`* (`ThreatsAreAnswered`), any timers, limits, window and threads:
  the level is no lower than the events of the window ask for, unless it was lowered
  since or threads met, and after enough calm it is back to nominal. While nothing
  meets the evaluation of the last event, the target is on its way (`Answers`); calm
  is bound by the timers of the levels above (`Above`).
* *`Conversations`* (`ConversationsAreTold`): the version of a thread that is handed
  over last is the one that is stored, unless a death lost it. *`LogRotation`*
  (`RotationForgetsNone`): no run goes back to its beginning unless its events are
  older than what is kept; the invariant relates, line by line, the journal, the
  archive and the day each file was written.
* *`AccountLogins`* (`AccountsHold`), any providers, clients and size of the pool:
  each flow has a login of its own that showed its code; the invariant says that no
  two calls await one job (`Awaited`) and what job a flow stands for (`StandsFor`).
* *`Observability`* (`TracesHold`, `SilenceIsNoticed`): counters are exact and traces
  true unless executions of one engine overlapped. The invariant says where in the
  bounded list an execution has its items, and that its end, if it is still there, is
  the last of them. An alert for a silent run is raised when it is due, not before.
* *`Skills`* (`SkillRunsHold`). Two things that have nothing to do with each other.
  Of executions: progress never falls because what has ended stays so
  (`EndedGrows`), and the last message said is bound by what the node under way will
  add. Of the check: a graph is let through exactly when it has one orchestrator and
  its nodes can be put in an order in which every edge leads on
  (`ValidIsSensible`). For that the module has `dfs` as steps of a search with a
  stack. `SearchInv` says that the stack is a path, that an edge that was looked at
  leads up the stack or to a node that was left, and that what was left leads only to
  what was left before; so an edge back into the stack closes a cycle
  (`BackIsLoop`), a cycle has no order (`LoopHasNoOrder`: the predecessor of its
  first node comes before it), and without one the reverse of what was left is an
  order (`OverIsOrdered`). The search ends within its steps, for each raises
  `Progress`, which counts nodes and edges (`ProgressIsBounded`).
* *`Assessment`* (`AssessmentsHold`): what the daemon keeps of a type of task is what
  was recorded, unless a command was lost, and never more; a child is refused only when
  failures are on record that are no refusals, and again while nothing else speaks
  more for it.

As in `Services_proofs` a lemma for each (`...IsBeside`, `...AreBeside`) shows that a
step of the composition is a step of the service or leaves it alone, and the
theorems of `MCSpec` follow: `TypesHold`, `ServersAreOrderly`, `FilesKept`,
`AccessJudged` and `NumbersTrue`. They have no hypothesis but the assumptions on
the constants, which TLC evaluates in the run `administration`. All properties
of that run are theorems.

Every invariant that a run checks, and every action property and refinement, is
thereby stated by a theorem.

*Model-checked only:* liveness (`EveryRunEnds`, `GatesEnd`, `EveryCallEnds`,
`PendingIsFlushed`), which the prover does not support under fairness; the files of
skills (`FilesNext`), whose one property is the liveness of the violation; and the
violations.

## 6. Where code and documentation part

Five runs show a counterexample to what a docstring, a comment or a test says.

1. `store_rejection`. `engine/stages/review_gate.py:6` says that a rejected run
   is re-queued. Line 99 writes `pending` into the base file, but the log's last
   status event is `awaiting_review`: nobody ever sees the run pending.
2. `child_orphans`. `main.py:292` says that orphaned children are put to error.
   The decision is taken from statuses read before pass 1 changed them
   (`main.py:301`), so the pending children of a parent that is put to
   error at the same start are executed.
3. `merge_rollback`. `services/merge_gate_service.py:27` promises a
   deterministic rollback. `commit_before` is read while the sandbox has the
   source branch checked out; the merge then checks the target out there, and
   the rollback resets the *target* to the source's commit.
4. `workflow_resume`. `src/tests/unit/test_graph_engine.py:483` has a resumed
   workflow continue with the next node. Where there is none, the node to resume
   from is `None`, which `services/graph_engine.py:87` takes for a workflow that
   is not resumed: it is executed again from its first node.
5. `skill_creation`. `src/tests/unit/test_phase1_skills.py:44` expects a created
   skill. `services/skills_service.py:328` takes the file lock and, under it,
   lists the skills, which takes it with another `FileLock` object (278, by way
   of 299). The second waits for the first, in the event loop: the server stops.
   Update, installation and generation do the same.

## 7. Behaviour seen while modelling, with no run of its own

Runs and children

* A cancelled child reports nothing (`services/run_worker.py:529`), though
  `run_worker.py:464` says that the end of a child lowers the parent's counter:
  its parent waits for ever.
* `routers/ops/run_router.py:130`: `auto_run` creates a coroutine for a run that
  is still pending, and the worker, already notified, may create another.
  For a merging run the second finds the first's lock and sets `MERGE_LOCKED`
  while the first merges.
* `services/run_worker.py:103`: a cancelled run leaves `_running_ids` at the
  next tick although its coroutine goes on; more runs than configured execute.
* `mcp_bridge/native_tools.py:302`: resolving a handover sets `running` and
  starts nothing. `services/engine_service.py:188`: a run held by a gate stays
  `running`, and nothing resumes it.
* `engine/stages/subdivide_router.py:62`: like finding 1, the subdivided run
  goes on showing `running`, and is not picked up.
* `engine/stages/spawn_agents.py:115`: if a task fails, those that need it are
  never ready, and the parent ends in `done`.
* `services/run_worker.py:497-513`: a client that adds a child to a child which
  is executing makes its wake-up possible while it executes. It is then executed
  twice and reports twice. This is what `ClientsSpawnUnderRoots` excludes.
* `services/ops_service.py:665`: a stale run is displaced in its base file only;
  readers, the worker and the next creation still find it active. `:281`: base
  files are rewritten in place; a half-written one is not modelled.
* `services/run_worker.py:522` awaits a run without a timeout, though the module
  docstring lists one per run. Its lines 135-462 have no callers.

Admission, health and rotation

* `list_runs` is newest first: the newest pending run is weighed, then all free
  slots are filled newest first. Older runs can starve; a heavy new run blocks
  light ones. The governor's thresholds (85, 90) are not the monitor's (80/85,
  92/93). `should_defer_run` has no callers, and no "recovered" event exists.
* Nothing writes `heartbeat_at`: a run active for 30 minutes without a compaction
  is reported stuck although it makes progress, and a run held for a human never.
  Outcomes are counted when previews are read. `FALLBACK_MODEL_USED` is no run
  status, so that the fallback rate is always 0.
* Rotation runs before the reconcile (`main.py:285`) and deletes events older
  than 30 days: a run left active by a server that was down for longer shows its
  base status `pending` again, and is executed, contrary to the comment on zombie
  runs (`main.py:290`). A second compression overwrites the first.

Drafts

* `execute_run` takes prompt and context from the draft when the run starts
  (`services/engine_service.py:106`), and `update_draft` edits a draft of any
  status (`services/ops_service.py:513`), contrary to `src/docs/SYSTEM.md:110`,
  "approved artifacts (the only allowed run input)".
* `PolicyGate` reads `path_scope` at the top of the context, drafts store it in
  `repo_context`. A draft that needs a human is held again by the gates after it
  was approved; so is a default draft. Risk between 30 and 31 is eligible for an
  automatic run and held; risk 60 is refused by the merge gate only.

Merge gate and approval gate

* `VALIDATION_FAILED_...` statuses cannot be left, so that the final
  `done` or `error` is refused; a run that the worker started shows `error`
  after a refused `done` where the table allows it, one started by the router
  keeps its status. A crash in the middle of a merge leaves the sandbox on the
  target branch, and later merges into it conflict.
* The rollback resets the target branch (`services/merge_gate_service.py:270`) before
  any status tells of it (273): if the server dies in between, or git is given up
  after the reset, the run is only shown as `error`.
* `services/git_service.py:143`: a git command that is given up is not killed.
* An operator who approves after the call ended changes the
  record only; an approval in the turn after the timer is overwritten by
  `timeout`; after a restart, pending drafts have no caller.

Pipeline and assessment

* `src/docs/refactor/GIMO_REFACTOR_PLAN.md:232` has failed stages retried and
  healing journaled. The code retries what raised or asked for it, never `fail`;
  failed candidates are not journaled; an alternative that healed a stage is
  journaled under its own name, but it is not rolled back, the stage is; a stage
  whose retries are exhausted is journaled as completed. Nobody sets `journal_path`, so that replay finds nothing.
* The context is copied per stage, so that what `CognitiveAssessmentStage`
  changes never reaches the model call: only "escalate" has an effect, and it is
  recorded as a failure of a model that never tried. A refused model stays
  refused until a success is recorded elsewhere. Nobody acts on the decision of
  such an escalation; the run stays `awaiting_review`. A `get` without an answer
  starts a model's history from zero. A review and the end of a run count twice;
  a cancelled child and a review that timed out count as failures.

Workflows

* A failed node's unconditional edge is followed on resume, so that a rejected
  review is skipped. `pause_reason` and `aborted` come back from checkpoints and
  explain later failures. A workflow paused at its first node has no checkpoint
  and cannot be resumed (409). Two checkpoints of a node within a millisecond are
  one. `sub_graph` nodes are completed although their workflow paused. No
  endpoint supplies the decision of a review after a pause.
* Tokens are looked at after a node: each resumption of a workflow that paused
  for them executes one more. A sub-workflow starts with a fresh copy of the
  budget. Tokens of failed attempts are not counted. A post-contract's rollback
  may set the key its checks read.
* `gather` leaves siblings of a failed worker running into the next attempt;
  workers with one id overwrite each other's results.

Plans and skills

* A failed node does not keep those that depend on it from executing; a plan that
  was deleted is written again by the next save; annotations are overwritten by
  the copy; after a death a plan stays `running` and cannot be edited.
* A skill's edges never become `depends_on`: its nodes are visited in the order of
  the file, contrary to "layer by layer, respecting dependencies"
  (`services/custom_plan_service.py:377`). Analytics count only executions that
  raised. `v10` is listed before `v2`. `/skills/marketplace` and `/skills/moods`
  are taken for skill ids.

Notifications and conversations

* A payload with a datetime (`services/conversation_service.py:69`) kills the
  flush loop. Events of several threads, items or plans share the key `_`. What is
  pending when the last client leaves is delivered, old, to the next.
* A thread's file whose write fails cannot be read (404). A fork keeps the ids of
  turns and items.

Daemon, providers and models

* When the connection breaks, the command is sent again and `None` returned
  (`services/gics_service.py:276-284`), contrary to the comment "Retry once"; the
  answer stays unread and answers the next command, and ids are not compared. A
  `get` that failed is taken for an empty record. The daemon is started at the
  start of the server only.
* `save_cost_event` gives a datetime to `json.dumps`
  (`services/gics_service.py:248`): no cost is ever stored with the real daemon,
  so that spending is 0 and budgets never bind.
* The cascade's cache knows prompt and task, not the model: a better model is
  given the answer that was not good enough (when `cache_enabled`). A request with
  a model goes to the active provider. The cascade returns its last answer, not
  its best. The budget is looked at between attempts. A choice never raises, so
  that `check_provider_budget` never blocks; the fallback is the active model
  whatever its tier.
* Without a configuration and a CLI `ensure_default_config` raises, though its
  docstring says "empty config". A validation makes its provider active whatever
  its outcome. A removed account provider comes back while its CLI is installed.
  `logger` is undefined at `services/provider_catalog_service_impl.py:900`.
  CLI installations always answer 404.
* A login that timed out is not killed (`exc.process` does not exist) and may end
  later; a silent one keeps its thread. A flow is approved by a refresh only.

Tools, repositories, sub-agents

* Synchronizing overwrites what administrators set, though the comment says they
  can override; roles and approval of the registry are read nowhere. Names of
  servers and tools may collide. A disabled server's tools are called. If
  `initialize` fails, the server's process is left. A synchronization has no
  timeout.
* Two threads that select a repository with one etag may lose one selection; an
  expiry deletes a newer override; the shared `.tmp` publishes the other's
  payload, and the second replacement fails.
* The bridge and the server overwrite one inventory; the next start of the server
  deletes the other's worktrees, or all if it cannot be read.

Security and the server's life

* `security/threat_level.py`: "Auto-decays if no new threats arrive" counts from
  the last change of the level; a downgrade keeps the events, and the next event
  raises it again. `load_security_db` has no callers outside tests.
* `security/license_guard.py`: an explicit rejection leaves the cache, so that a
  restart offline is licensed again within the grace. The clock is compared
  with the token's day only (374), not with what it showed last, and the grace
  counts from the machine's own clock at the acceptance (`last_online_ts`). The cold
  room compares its blob's expiry with the clock (`security/cold_room.py:113`) and
  does not check the clock itself. With the cold room the recheck is skipped, and a key is required all the same.
  `security/fingerprint.py` tolerates one or two changed signals, but the files
  are encrypted with all of them.
* Revocations of sessions are lost at a restart; an account's role may be 30 days
  old; a session outlives the cold room's blob by up to 24 hours.
* Overlapping executions of an engine lose the first span; handoffs are grouped
  under no trace; `error_category` is always empty.
* `sys.exit` in a task, a fatal step of the start after the daemon's, and a kill
  leave the daemon's process running. The licence's task is never cancelled.

## 8. Not modelled, and why

* Data of runs, prompts, models' answers, plans' contents: choices.
* A half-written line of a log and a half-written base file of a run: files are
  atomic there, except for the order of the writes of one operation.
  (`Conversations` and `ToolRegistry` have files that cannot be read.)
* Several server processes. The MCP bridge is one for `SubAgents` and the command
  line for `Skills`; in-memory state is per process elsewhere. `rerun` and
  `recover_stale_lock`, which touch files outside the lock, are single steps.
* Merge gate: `source_ref` of `HEAD`, which merges nothing; a git command that is
  given up and still acts, but for the reset of a rollback; a status write that
  fails after its event is written; a cancellation between the creation of a task
  and its pipeline. The coroutine of a run that is cancelled goes on and may merge:
  `cancelled` is not among `Refused`, and `OnlyValidatedMerges` says nothing of it.
* Sub-agents: a worktree's directory that cannot be deleted
  (`services/sub_agent_manager.py:69` ignores the errors).
* *Trust engine*: nothing in `src/` writes a trust event, so its input is empty,
  and the storage lacks the methods it would call.
* *Costs, budgets, forecasts, predictions*: no cost event reaches the daemon
  (section 7), so that they are formulas over nothing.
* *Adapters, critics, recommendations, evaluations, memory, searches*: formulas
  or model calls over data, without state of their own that outlives a call.
  `GenericCLI` and `AdapterRegistry` have no callers.
* *Replay and snapshot of journals*, the legacy path of the run worker,
  `terminate_sub_agent`, `execute_task`: no callers.
* *Rate limits, path validation, audit log, integrity hashes*: functions of one
  request, or writes that nobody reads.
* *Plan graphs, previews, manifests, resources of MCP*: views.
* *The web site and the user interface*: other programs, which call the server.

## 9. Plan

Done: run store, children and worker, drafts and merges, approval gate,
notifications, pipeline, workflows, plans, daemon and models, administration;
proofs of all of the runs' safety properties.

What would add most next:

1. Composition: `ChildRuns` over `OpsRunStore`, so that masked writes need not be
   argued for; `MergeGate` as the leaf of a `ChildRuns` task; `Workflows` over
   `GicsClient`, so that a checkpoint may be the answer to another command.
2. An abstract promise for workflows (nodes once per visit, unless repeated) that
   `Workflows` implements where it is not resumed.
3. Weaker hypotheses: an invariant for `ChildRuns` in which `auto_run` and the
   worker race, that says what is left of `AwaitingIsExact` then.
