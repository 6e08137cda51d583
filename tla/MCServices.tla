----------------------------- MODULE MCServices -----------------------------
(***************************************************************************)
(* Services that share no state.  One run checks each of them, from the    *)
(* initial state on, while the others rest.                                *)
(***************************************************************************)
EXTENDS Pipeline, TLC

CONSTANTS
  Nodes, Graph, Instant, Skips, Execution,                               \* CustomPlans
  RunState, Stage, MergeField, MaxEvents, CompactAt,                     \* RunEventLog
  DaemonModel, MaxSamples,                                               \* GicsClient
  Id, TypeOf, AccountId, LocalType, Model, Pulled, Reader, Validator,    \* Providers
  Puts, MaxEdits,
  CascadeModel, ModelTier, ModelCost, Caller, Prompt, Bindings,                \* Cascade
  MaxEscalations, MaxTier, Budget, CacheEnabled,
  RouterModel, Info, ActiveModel, Task, Economy, LoadLevel, Exhausted,   \* ModelRouter
  Leader,
  GraphNode, First, Edges, MaxIterations, Requester, MaxCheckpoints,     \* Workflows
  TeamSize, MaxParallel, MaxRounds, Retries,                             \* AgentTask
  Chain, NodeAttempts, MaxSteps, MaxTokens, OnExceed, CallCost, MaxResumes, \* WorkflowNodes
  None, Absent

VARIABLES
  service,                                                     \* which of them moves
  plan, exec, overlapped, interrupted,                         \* CustomPlans
  base, events, log,                                           \* RunEventLog
  store, alive, unread, call, sent, recorded, astray,          \* GicsClient
  cfg, cli, runtime, cache, fetch, check, jobs, pulls, edits,  \* Providers
  inventory, trust, cached, job,                               \* Cascade
  query, decision,                                             \* ModelRouter
  engine, kept, stored, request,                               \* Workflows
  node, try, progress, child, approved, output, exceeded,      \* AgentTask
  frames, last, outcome, given, done, skipped, resumes         \* WorkflowNodes

C == INSTANCE CustomPlans

L == INSTANCE RunEventLog

G == INSTANCE GicsClient WITH Model <- DaemonModel

P == INSTANCE Providers

A == INSTANCE Cascade WITH Model <- CascadeModel, Tier <- ModelTier, Cost <- ModelCost

R == INSTANCE ModelRouter WITH Model <- RouterModel, Load <- LoadLevel

W == INSTANCE Workflows WITH Node <- GraphNode, Caller <- Requester, task <- request, saved <- kept

T == INSTANCE AgentTask WITH Workers <- TeamSize, attempt <- try, stage <- progress

N == INSTANCE WorkflowNodes WITH Attempts <- NodeAttempts, Cost <- CallCost

ASSUME PlansAssumption == C!CustomPlansConstants

ASSUME LogAssumption == L!RunEventLogConstants

ASSUME GraphAssumption == W!WorkflowsConstants

ASSUME ChainAssumption == N!WorkflowNodesConstants

----------------------------------------------------------------------------
(* The instance. *)

\* A middle stage that has an alternative, and two retries.
MCStages == <<"policy", "write", "critic">>

MCAlternatives == <<<<>>, <<"other">>, <<>>>>

\* Graphs of an edited plan: a fork, a chain against the order of the nodes, and
\* a cycle, which is refused.
MCNodes == <<"a", "b", "c">>

MCGraph == {[a |-> {}, b |-> {"a"}, c |-> {"a"}],
            [a |-> {}, b |-> {"a", "c"}, c |-> {"a"}],
            [a |-> {"b"}, b |-> {"a"}, c |-> {}]}

MCSkips == {{}, {"b"}}

\* An account provider that is put back and a local one; clients put a
\* configuration that repeats a worker, or that names a provider it does not have.
Provider(m, auth) == [model |-> m, auth |-> auth]

Bound(i, m) == [id |-> i, model |-> m]

Repeating ==
    [active |-> "codex-account",
     providers |-> [i \in {"codex-account", "local"} |-> Provider("m1", "api_key")],
     health |-> None,
     roles |-> [orchestrator |-> Bound("codex-account", "m2"),
                workers |-> <<Bound("local", None), Bound("codex-account", "m2"),
                              Bound("local", "m1")>>]]

Dangling ==
    [active |-> "local", providers |-> [i \in {"local"} |-> Provider("m2", "none")],
     health |-> [of |-> "local", valid |-> TRUE],
     roles |-> [orchestrator |-> Bound("codex-account", "m1"),
                workers |-> <<Bound("codex-account", "m1"), Bound("local", "m1")>>]]

MCPuts == {Repeating, Dangling}

MCTypeOf == "local" :> "ollama" @@ "codex-account" :> "codex"

\* Three tiers, the middle one bound to no role, and a budget of a middle call and
\* a cheap one.
MCModelTier == [m1 |-> 1, m2 |-> 3, m3 |-> 5]

MCModelCost == [m1 |-> 0, m2 |-> 1, m3 |-> 2]

MCBindings == <<"m3", "m1">>

\* Local models that are small and big, remote ones that are cheap and strong.
Served(tier, cost, provider, isLocal, small, capabilities) ==
    [tier |-> tier, cost |-> cost, provider |-> provider, isLocal |-> isLocal,
     small |-> small, capabilities |-> capabilities]

MCInfo == [small |-> Served(2, 0, "ollama", TRUE, TRUE, {"chat"}),
           big |-> Served(4, 0, "ollama", TRUE, FALSE, {"chat", "code"}),
           haiku |-> Served(2, 1, "claude", FALSE, FALSE, {"chat"}),
           codex |-> Served(4, 3, "codex", FALSE, FALSE, {"chat", "code"})]

MCTask == {[capability |-> "chat", tier |-> 2], [capability |-> "code", tier |-> 3],
           [capability |-> "reasoning", tier |-> 4]}

Settings(eco, autonomous, floor, ceiling, override) ==
    [eco |-> eco, autonomous |-> autonomous, ecoFloor |-> 1, floor |-> floor,
     ceiling |-> ceiling, override |-> override]

MCEconomy ==
    {Settings("off", FALSE, 0, 0, FALSE), Settings("binary", TRUE, 0, 0, FALSE),
     Settings("smart", TRUE, 3, 0, FALSE), Settings("off", TRUE, 0, 3, TRUE),
     Settings("off", FALSE, 5, 2, FALSE), Settings("binary", FALSE, 0, 5, FALSE)}

MCExhausted == {{}, {"ollama"}, {"codex", "claude"}}

\* A review b that a decides to take or to skip, a loop back from it, and an end c.
Edge(to, conditional) == [to |-> to, conditional |-> conditional]

MCEdges == [a |-> <<Edge("b", TRUE), Edge("c", FALSE)>>, b |-> <<Edge("a", FALSE)>>, c |-> <<>>]

\* Contracts around a model, a review and a sub-workflow of calls.
MCChain ==
    <<<<"pre", "llm", "review", "sub", "post">>, <<"llm", "tool", "transform", "eval">>>>

----------------------------------------------------------------------------
varsC == <<plan, exec, overlapped, interrupted>>
varsL == <<base, events, log>>
varsG == <<store, alive, unread, call, sent, recorded, astray>>
varsP == <<cfg, cli, runtime, cache, fetch, check, jobs, pulls, edits>>
varsA == <<inventory, trust, cached, job>>
varsR == <<query, decision>>
varsW == <<engine, kept, stored, request>>
varsT == <<node, try, progress, child, approved, output, exceeded>>
varsN == <<frames, last, outcome, given, done, skipped, resumes>>

Service ==
    {"pipeline", "plans", "log", "daemon", "providers", "installs", "cascade", "router",
     "workflow", "agent", "nodes"}

\* Services that rest start in one state.
MCInit ==
    /\ service \in Service
    /\ Init /\ (service # "pipeline" => healing /\ journaled)
    /\ C!Init
    /\ L!Init /\ (service # "log" => base.status = CHOOSE s \in RunState : TRUE)
    /\ G!Init /\ (service # "daemon" => alive)
    /\ P!Init /\ (service \notin {"providers", "installs"} =>
                    cli /\ cfg = P!Normalized(CHOOSE c \in Puts : P!Acceptable(c)))
    /\ A!Init /\ (service # "cascade" => inventory = CascadeModel /\ trust = {})
    /\ W!Init
    /\ T!Init /\ (service # "agent" => node.pattern = "single")
    /\ N!Init
    /\ (service # "nodes" => frames[1].data.ok /\ ~given.overdue /\ given.decision = "approve"
                               /\ given.default = "block")
    /\ query \in (IF service = "router" THEN R!Query ELSE {CHOOSE q \in R!Query : TRUE}) /\ R!Init

Only(s) ==
    /\ service = s /\ UNCHANGED service
    /\ s # "pipeline" => UNCHANGED vars
    /\ s # "plans" => UNCHANGED varsC
    /\ s # "log" => UNCHANGED varsL
    /\ s # "daemon" => UNCHANGED varsG
    /\ s \notin {"providers", "installs"} => UNCHANGED varsP
    /\ s # "cascade" => UNCHANGED varsA
    /\ s # "router" => UNCHANGED varsR
    /\ s # "workflow" => UNCHANGED varsW
    /\ s # "agent" => UNCHANGED varsT
    /\ s # "nodes" => UNCHANGED varsN

PipelineMoves == Only("pipeline") /\ Next

PlansMove == Only("plans") /\ C!Next

LogMoves == Only("log") /\ L!Next

DaemonMoves == Only("daemon") /\ G!Next

\* Edits beside catalogues and validations.
ProvidersMove == Only("providers") /\ P!Next /\ UNCHANGED pulls

\* Installations beside catalogues and validations.
InstallsMove == Only("installs") /\ P!Next /\ UNCHANGED edits

CascadeMoves == Only("cascade") /\ A!Next

RouterMoves == Only("router") /\ R!Next

WorkflowMoves == Only("workflow") /\ W!Next

AgentMoves == Only("agent") /\ T!Next

NodesMove == Only("nodes") /\ N!Next

MCNext ==
    \/ PipelineMoves \/ PlansMove \/ LogMoves \/ DaemonMoves
    \/ ProvidersMove \/ InstallsMove \/ CascadeMoves \/ RouterMoves
    \/ WorkflowMoves \/ AgentMoves \/ NodesMove

MCSpec ==
    /\ MCInit
    /\ [][MCNext]_<<service, vars, varsC, varsL, varsG, varsP, varsA, varsR, varsW, varsT, varsN>>

\* Executions of one plan are alike, and requests for one workflow.
Alike == Permutations(Execution) \union Permutations(Requester)

\* The variables that move have their types.
TypesOK ==
    CASE service = "pipeline" -> TypeOK
      [] service = "plans" -> C!TypeOK
      [] service = "log" -> L!TypeOK
      [] service = "daemon" -> G!TypeOK
      [] service \in {"providers", "installs"} -> P!TypeOK
      [] service = "cascade" -> A!TypeOK
      [] service = "router" -> R!TypeOK
      [] service = "workflow" -> W!TypeOK
      [] service = "agent" -> T!TypeOK
      [] service = "nodes" -> N!TypeOK

\* The properties of the other modules, under their names.

\* CustomPlanService gives no model a node before those it depends on have ended,
\* and a plan shows running only while execute_plan works on it, or after a death.
ExecutionsAreOrdered == service = "plans" => C!ExecutionsAreOrdered

\* An execution overwrites no edit that update_plan accepted.
EditsAreKept == C!EditsAreKept

\* What is kept is what happened: the summary of a run's event log gives what its
\* lines do, GicsService counts an outcome of a model once whatever is repeated, and
\* the provider file, the catalogue and the installations show what providers there
\* are.
RecordsAreExact ==
    /\ service = "log" => L!SummaryIsExact
    /\ service = "daemon" => G!OutcomesAreCounted
    /\ service \in {"providers", "installs"} => P!ProvidersAreShown

\* CascadeService asks better models until an answer is good or the budget spent,
\* and ModelRouterService breaks a rule only where every model would.
ModelsAreChosen ==
    /\ service = "cascade" => A!CascadesClimb
    /\ service = "router" => R!RoutingIsSound

\* GraphEngine executes the first node and those its edges lead to, whatever is
\* resumed, lost or executed at the same time; an agent node's result is that of one
\* attempt, and its children stay in bounds; contracts, reviews and budgets are heeded,
\* within sub-workflows too.
WorkflowsAreFollowed ==
    /\ service = "workflow" => W!EdgesAreFollowed
    /\ service = "agent" => T!NodesAreContained
    /\ service = "nodes" => N!NodesAreHeeded /\ N!BudgetsAreKept

\* The answer of a workflow's execution says whether it came to its end.
OutcomeIsTold == W!OutcomeIsTold

\* A resumed workflow executes the node after its checkpoint.
ResumeContinues == W!ResumeContinues

=============================================================================
