--------------------------- MODULE WorkflowNodes ---------------------------
(***************************************************************************)
(* What the nodes of a workflow do to its state: contracts and their       *)
(* rollback, human reviews, calls of models and tools, transformations,    *)
(* evaluations, and sub-workflows, which are executed by an engine of      *)
(* their own on a copy of the state.                                       *)
(*                                                                         *)
(* The graph is a chain here and one request executes it: Workflows has    *)
(* the edges and the requests, AgentTask the agents, HitlGate the gate of  *)
(* the tools.                                                              *)
(***************************************************************************)
EXTENDS Integers, Sequences

CONSTANTS
  Chain,       \* the kinds of node of the workflow, and of its sub-workflow
  Attempts,    \* executions of a node that raises
  MaxSteps,    \* max_steps of the budget
  MaxTokens,   \* max_tokens
  OnExceed,    \* "pause" or "abort"
  Cost,        \* tokens of a call
  MaxResumes,  \* bound of the model
  None

WorkflowNodesConstants ==
    /\ \A w \in DOMAIN Chain : Len(Chain[w]) > 0
    /\ {Attempts, MaxSteps, MaxTokens, Cost, MaxResumes} \subseteq Nat /\ Attempts > 0
    /\ OnExceed \in {"pause", "abort"}

VARIABLES
  frames,   \* the engines at work, the inner one last
  last,     \* the last checkpoint of the outer one, or None
  outcome,  \* what the request was answered
  given,    \* the decision in the initial state, and whether its review began long ago
  done,     \* nodes of the outer engine that answered
  skipped,  \* nodes of which a failed checkpoint was resumed
  resumes

vars == <<frames, last, outcome, given, done, skipped, resumes>>

Kind == {"pre", "post", "review", "llm", "tool", "transform", "eval", "sub"}

Decision == {"approve", "reject", "edit", "takeover", "fork", "unknown branch", "other"}

\* state.data: the key that contracts check, the counters, and what decides the
\* outcome of an execution.
Data == [ok : BOOLEAN, steps : Nat, tokens : Nat, paused : BOOLEAN, reason : BOOLEAN,
         aborted : BOOLEAN]

TypeOK ==
    /\ Len(frames) <= Len(Chain)
    /\ \A i \in DOMAIN frames :
          /\ frames[i].pos \in DOMAIN Chain[i] \cup {None} /\ frames[i].data \in Data
          /\ frames[i].attempt \in 1 .. Attempts
    /\ last = None \/ (last.pos \in DOMAIN Chain[1] /\ last.data \in Data)
    /\ outcome \in {None, "completed", "paused", "aborted"}
    /\ done \subseteq DOMAIN Chain[1] /\ skipped \subseteq DOMAIN Chain[1]
    /\ resumes \in 0 .. MaxResumes

Fresh(ok) == [ok |-> ok, steps |-> 0, tokens |-> 0, paused |-> FALSE, reason |-> FALSE,
              aborted |-> FALSE]

Frame(pos, data) == [pos |-> pos, attempt |-> 1, data |-> data]

Depth == Len(frames)

Top == frames[Depth]

Node == Chain[Depth][Top.pos]

Put(frame) == frames' = [frames EXCEPT ![Depth] = frame]

----------------------------------------------------------------------------
(* The loop of execute(). *)

OutcomeOf(data) ==
    CASE data.aborted -> "aborted" [] data.paused -> "paused" [] OTHER -> "completed"

\* The outer engine answers the request, the inner one its node.
End(data) ==
    IF Depth <= 1
    THEN frames' = <<>> /\ outcome' = OutcomeOf(data)
    ELSE Put([Top EXCEPT !.pos = None, !.data = data]) /\ UNCHANGED outcome

OverBudget(data) ==
    IF OnExceed = "abort" THEN [data EXCEPT !.paused = FALSE, !.aborted = TRUE]
    ELSE [data EXCEPT !.paused = TRUE, !.reason = TRUE]

\* Only the steps are looked at before a node.
StepsLeft(data) == data.steps < MaxSteps

Continue(pos, data) ==
    CASE pos > Len(Chain[Depth]) -> End(data)
      [] pos <= Len(Chain[Depth]) /\ ~StepsLeft(data) -> End(OverBudget(data))
      [] OTHER -> Put(Frame(pos, data)) /\ UNCHANGED outcome

\* Tokens are looked at after it.
WithinTokens(data) == data.tokens <= MaxTokens

Checkpoint(status, data) ==
    last' = IF Depth = 1 THEN [pos |-> Top.pos, status |-> status, data |-> data] ELSE last

\* _update_budget_counters
Counted(data, tokens) == [data EXCEPT !.steps = @ + 1, !.tokens = @ + tokens]

\* The node answers, with the state it leaves.
Answer(data, tokens) ==
    LET counted == [Counted(data, tokens) EXCEPT !.paused = FALSE]
    IN  /\ Checkpoint("completed", counted)
        /\ done' = IF Depth = 1 THEN done \cup {Top.pos} ELSE done
        /\ IF WithinTokens(counted) THEN Continue(Top.pos + 1, counted) ELSE End(OverBudget(counted))
        /\ UNCHANGED <<given, skipped, resumes>>

\* The node pauses the workflow: no checkpoint is made.
Pause(data) ==
    /\ End([Counted(data, 0) EXCEPT !.paused = TRUE, !.reason = TRUE])
    /\ UNCHANGED <<last, given, done, skipped, resumes>>

\* The node raises; what it did to the state stays.
Raise(data) ==
    /\ IF Top.attempt < Attempts
       THEN Put([Top EXCEPT !.attempt = @ + 1, !.data = data]) /\ UNCHANGED <<outcome, last>>
       ELSE /\ Checkpoint("failed", data)
            /\ End(IF data.aborted \/ data.reason THEN data ELSE [data EXCEPT !.aborted = TRUE])
    /\ UNCHANGED <<given, done, skipped, resumes>>

----------------------------------------------------------------------------
(* The nodes. *)

At(kind) == frames # <<>> /\ Top.pos # None /\ Node = kind

\* The checks of a contract read the state.  Before a post-contract raises, its
\* rollback sets or removes keys.
ContractCheck ==
    \/ At("pre") /\ IF Top.data.ok THEN Answer(Top.data, 0) ELSE Raise(Top.data)
    \/ At("post")
       /\ IF Top.data.ok THEN Answer(Top.data, 0)
          ELSE \E ok \in BOOLEAN : Raise([Top.data EXCEPT !.ok = ok])

\* The decision is in the initial state; without one the review waits.  It is over
\* when it began long ago, and then its default counts.
HumanReview ==
    /\ At("review")
    /\ CASE given.decision = None /\ ~given.overdue -> Pause(Top.data)
         [] given.decision = None /\ given.overdue ->
              \/ given.default = "approve" /\ Answer(Top.data, 0)
              \/ given.default # "approve" /\ Raise(Top.data)
         [] given.decision = "approve" -> Answer(Top.data, 0)
         [] given.decision \in {"edit", "takeover", "fork"} ->
              \E ok \in BOOLEAN : Answer([Top.data EXCEPT !.ok = ok], 0)
         [] OTHER -> Raise(Top.data)

\* The keys of an answer become keys of the state, which a contract may check.
Computed(tokens) == \E ok \in BOOLEAN : Answer([Top.data EXCEPT !.ok = ok], tokens)

\* The quality of an answer does not decide anything.
LlmCall == At("llm") /\ (Computed(Cost) \/ Raise(Top.data))

\* The role's table, the gate, the registry or a server refuses; what a native tool
\* fails at is its answer.
ToolCall == At("tool") /\ (Computed(0) \/ Raise(Top.data))

Transform == At("transform") /\ Computed(0)

\* A low score fails nothing.
Eval == At("eval") /\ Computed(0)

\* The inner engine starts with a copy of the state, without its counters; a retry
\* makes a new one.
SubGraph ==
    /\ At("sub")
    /\ frames' = Append(frames, Frame(1, [Top.data EXCEPT !.steps = 0, !.tokens = 0]))
    /\ UNCHANGED <<last, outcome, given, done, skipped, resumes>>

Outer == frames[Depth - 1]

\* Whatever its outcome, the node's status is completed; what it spent is counted,
\* and the mapped keys come under the key of the node's output.
SubReturns ==
    /\ Depth = 2 /\ Top.pos = None
    /\ \E ok \in BOOLEAN :
          LET d == [Counted(Outer.data, Top.data.tokens) EXCEPT !.ok = ok, !.paused = FALSE]
              next == Outer.pos + 1
              Over(data) == frames' = <<>> /\ outcome' = OutcomeOf(data)
          IN  /\ last' = [pos |-> Outer.pos, status |-> "completed", data |-> d]
              /\ CASE ~WithinTokens(d) -> Over(OverBudget(d))
                   [] WithinTokens(d) /\ next > Len(Chain[1]) -> Over(d)
                   [] WithinTokens(d) /\ next <= Len(Chain[1]) /\ ~StepsLeft(d) -> Over(OverBudget(d))
                   [] OTHER -> frames' = <<Frame(next, d)>> /\ UNCHANGED outcome
    /\ done' = done \cup {Outer.pos}
    /\ UNCHANGED <<given, skipped, resumes>>

----------------------------------------------------------------------------

\* execute_workflow; the client sends the initial state.
Init ==
    /\ \E ok \in BOOLEAN :
          IF StepsLeft(Fresh(ok)) THEN frames = <<Frame(1, Fresh(ok))>> /\ outcome = None
          ELSE frames = <<>> /\ outcome = OutcomeOf(OverBudget(Fresh(ok)))
    /\ given \in [decision : Decision \cup {None}, overdue : BOOLEAN, default : {"approve", "block"}]
    /\ last = None /\ done = {} /\ skipped = {} /\ resumes = 0

\* The last checkpoint is resumed: its state and the node after it, the first one
\* after the last.
Resume ==
    /\ frames = <<>> /\ last # None /\ resumes < MaxResumes
    /\ LET next == IF last.pos < Len(Chain[1]) THEN last.pos + 1 ELSE 1
           data == [last.data EXCEPT !.paused = FALSE]
       IN  IF StepsLeft(data)
           THEN frames' = <<Frame(next, data)>> /\ outcome' = None
           ELSE frames' = <<>> /\ outcome' = OutcomeOf(OverBudget(data))
    /\ skipped' = skipped \cup IF last.status = "failed" THEN {last.pos} ELSE {}
    /\ resumes' = resumes + 1
    /\ UNCHANGED <<last, given, done>>

Next ==
    \/ ContractCheck \/ HumanReview \/ LlmCall \/ ToolCall \/ Transform \/ Eval
    \/ SubGraph \/ SubReturns \/ Resume

Spec == Init /\ [][Next]_vars

----------------------------------------------------------------------------

Allowed == {"approve", "edit", "takeover", "fork"}

\* No node is executed before every node ahead of it answered, a contract with its
\* conditions and a review with a decision or its default, unless the failed
\* checkpoint of that node was resumed; and a workflow is told to be completed only
\* when all of them did.
NodesAreHeeded ==
    LET passed == done \cup skipped
    IN  /\ frames # <<>> => 1 .. (frames[1].pos - 1) \subseteq passed
        /\ outcome = "completed" => DOMAIN Chain[1] = passed
        /\ \A i \in done : Chain[1][i] = "review" =>
              given.decision \in Allowed \/ (given.decision = None /\ given.default = "approve")

\* No engine counts more steps than its budget has.  Tokens are exceeded by one
\* node, which may be a sub-workflow with the whole budget of its own, and by
\* another one at each resume.
BudgetsAreKept ==
    LET most(d) == IF d = 1 THEN MaxTokens + Cost ELSE Cost
        counted == {frames[i].data : i \in DOMAIN frames} \cup IF last = None THEN {} ELSE {last.data}
    IN  /\ \A d \in counted : d.steps <= MaxSteps
        /\ \A i \in DOMAIN frames :
              frames[i].data.tokens <= MaxTokens + (IF i = 1 THEN resumes + 1 ELSE 1) * most(i)
        /\ last # None => last.data.tokens <= MaxTokens + (resumes + 1) * most(1)

=============================================================================
