----------------------------- MODULE Workflows -----------------------------
(***************************************************************************)
(* GraphEngine and the three handlers that drive it: one workflow, its     *)
(* engine in memory, the checkpoints the key-value daemon keeps, and the   *)
(* requests that execute and resume it.  A request is suspended while a    *)
(* node works; nothing keeps a second one from the same engine.            *)
(***************************************************************************)
EXTENDS Integers, Sequences, FiniteSets

CONSTANTS
  Node, First,     \* the nodes of the graph, and the one it starts with
  Edges,           \* the edges of each node, in order: [to, conditional]
  MaxIterations,   \* max_iterations of an engine (100)
  Caller,          \* coroutines of the handlers
  MaxCheckpoints,  \* bound of the model on checkpoints
  None, Absent

WorkflowsConstants ==
    /\ First \in Node
    /\ Edges \in [Node -> Seq([to : Node, conditional : BOOLEAN])]
    /\ MaxIterations \in Nat \ {0} /\ MaxCheckpoints \in Nat
    /\ None \notin Node

VARIABLES
  engine,     \* the engine of _WORKFLOW_ENGINES, Absent when there is none
  saved,      \* the checkpoints in the daemon
  stored,     \* the graph is in the daemon
  task        \* the node each request executes, and its count of iterations

vars == <<engine, saved, stored, task>>

\* The keys of state.data that decide something: execution_paused, and whether
\* pause_reason and aborted_reason are set.  A checkpoint copies them.
Flags == [paused : BOOLEAN, reason : BOOLEAN, aborted : BOOLEAN]

Checkpoint == [node : Node, status : {"completed", "failed"}, holds : BOOLEAN, flags : Flags]

\* The node a pause keeps in _resume_from_node_id is left out: resuming replaces
\* it before execute() reads it.
Engine == [checkpoints : Seq(Checkpoint), flags : Flags]

UnderWay == {r \in Caller : task[r] # Absent}

TypeOK ==
    /\ engine \in Engine \cup {Absent}
    /\ saved \in Seq(Checkpoint)
    /\ stored \in BOOLEAN
    /\ task \in [Caller -> [node : Node, iterations : 1..MaxIterations] \cup {Absent}]
    /\ UnderWay # {} => engine # Absent

Init ==
    /\ engine = Absent
    /\ saved = <<>>
    /\ stored = FALSE
    /\ task = [r \in Caller |-> Absent]

----------------------------------------------------------------------------
(* _get_next_node: the first edge without a condition or whose condition     *)
(* holds.  No condition holds of the output None of a failed node.           *)

\* Mutant: the last such edge.
NextNodeLast(node, holds) ==
    LET open == {i \in 1..Len(Edges[node]) : ~Edges[node][i].conditional \/ holds}
    IN  IF open = {} THEN None
        ELSE Edges[node][CHOOSE i \in open : \A j \in open : j <= i].to

NextNode(node, holds) ==
    LET open == {i \in 1..Len(Edges[node]) : ~Edges[node][i].conditional \/ holds}
    IN  IF open = {} THEN None
        ELSE Edges[node][CHOOSE i \in open : \A j \in open : i <= j].to

After(checkpoint) == NextNode(checkpoint.node, checkpoint.holds)

----------------------------------------------------------------------------
(* The loop of execute().                                                    *)

Clear == [paused |-> FALSE, reason |-> FALSE, aborted |-> FALSE]

Aborted(flags) == [flags EXCEPT !.aborted = TRUE]

\* _handle_budget_exceeded, by on_exceed.
OverBudget(flags) ==
    {[flags EXCEPT !.paused = FALSE, !.aborted = TRUE],
     [flags EXCEPT !.paused = TRUE, !.reason = TRUE]}

Stop(flags) == [flags |-> flags, task |-> Absent]

\* A node is left to execute although the loop is over.
AtTheEnd(flags, node, iterations) ==
    Stop(IF node # None /\ iterations >= MaxIterations THEN Aborted(flags) ELSE flags)

\* Mutant: the limit is passed by one node.
ContinueOnceMore(flags, node, iterations) ==
    IF node = None \/ iterations > MaxIterations
    THEN {AtTheEnd(flags, node, iterations)}
    ELSE {[flags |-> flags, task |-> [node |-> node, iterations |-> iterations + 1]]}

\* The head of the loop: the workflow's timeout and the budgets may stop it
\* before the node.
Continue(flags, node, iterations) ==
    IF node = None \/ iterations >= MaxIterations
    THEN {AtTheEnd(flags, node, iterations)}
    ELSE {[flags |-> flags, task |-> [node |-> node, iterations |-> iterations + 1]],
          Stop(Aborted(flags))}
         \cup {Stop(f) : f \in OverBudget(flags)}

\* A request goes on from there with an engine that has these checkpoints.
Go(r, checkpoints, outcomes) ==
    \E o \in outcomes :
       /\ engine' = [checkpoints |-> checkpoints, flags |-> o.flags]
       /\ task' = [task EXCEPT ![r] = o.task]

\* execute_workflow makes a new engine.  Checkpoints of earlier executions stay
\* in the daemon.  A client does not execute a workflow that is under way.
Execute(r) ==
    /\ UnderWay = {}
    /\ Go(r, <<>>, Continue(Clear, First, 0))
    /\ stored' \in {stored, TRUE}
    /\ UNCHANGED saved

\* A node ends with a checkpoint, which may fail to be saved.
Record(r, checkpoint, outcomes) ==
    /\ Len(engine.checkpoints) < MaxCheckpoints
    /\ Len(saved) < MaxCheckpoints
    /\ saved' \in {saved, Append(saved, checkpoint)}
    /\ Go(r, Append(engine.checkpoints, checkpoint), outcomes)

\* The node answers.  The budgets are looked at again after it.
Complete(r, holds) ==
    /\ task[r] # Absent
    /\ LET node == task[r].node
           flags == [engine.flags EXCEPT !.paused = FALSE]
           next == NextNode(node, holds)
       IN  Record(r, [node |-> node, status |-> "completed", holds |-> holds, flags |-> flags],
                 Continue(flags, next, task[r].iterations)
                 \cup {AtTheEnd(f, next, task[r].iterations) : f \in OverBudget(flags)})
    /\ UNCHANGED stored

\* A human review without a decision, or an agent that doubts.
Pause(r) ==
    /\ task[r] # Absent
    /\ Go(r, engine.checkpoints,
          {AtTheEnd([engine.flags EXCEPT !.paused = TRUE, !.reason = TRUE],
                    task[r].node, task[r].iterations)})
    /\ UNCHANGED <<saved, stored>>

\* Mutant: aborted_reason is only kept for the caller.
AfterFailureSilent(flags) == flags

\* A reason that is set already is taken for the more specific one.
AfterFailure(flags) == IF flags.aborted \/ flags.reason THEN flags ELSE Aborted(flags)

\* The node raised in its last attempt; a budget that ended within the node has
\* set its flags before.
Fail(r) ==
    /\ task[r] # Absent
    /\ \E flags \in {engine.flags} \cup OverBudget(engine.flags) :
          Record(r, [node |-> task[r].node, status |-> "failed", holds |-> FALSE, flags |-> flags],
                {AtTheEnd(AfterFailure(flags), task[r].node, task[r].iterations)})
    /\ UNCHANGED stored

----------------------------------------------------------------------------
(* Resuming. *)

\* resume_from_checkpoint and execute(), which takes no next node for the first.
ResumeWith(r, checkpoints, i) ==
    LET next == After(checkpoints[i])
    IN  /\ task[r] = Absent
        /\ Go(r, checkpoints,
              Continue([checkpoints[i].flags EXCEPT !.paused = FALSE],
                       IF next = None THEN First ELSE next, 0))
        /\ stored' \in {stored, TRUE}
        /\ UNCHANGED saved

Resume(r, i) ==
    /\ engine # Absent
    /\ i \in 1..Len(engine.checkpoints)
    /\ ResumeWith(r, engine.checkpoints, i)

\* The engine that is made from the daemon after a restart has the state of the
\* last checkpoint; it stays when the request is then refused for its index.
Load ==
    /\ engine = Absent
    /\ stored
    /\ engine' = [checkpoints |-> saved,
                  flags |-> IF saved = <<>> THEN Clear ELSE saved[Len(saved)].flags]
    /\ UNCHANGED <<saved, stored, task>>

Reload(r, i) ==
    /\ engine = Absent
    /\ stored
    /\ i \in 1..Len(saved)
    /\ ResumeWith(r, saved, i)

Die ==
    /\ engine # Absent
    /\ engine' = Absent
    /\ task' = [r \in Caller |-> Absent]
    /\ UNCHANGED <<saved, stored>>

Next ==
    \/ \E r \in Caller :
          \/ Execute(r)
          \/ \E holds \in BOOLEAN : Complete(r, holds)
          \/ Pause(r)
          \/ Fail(r)
          \/ \E i \in 1..MaxCheckpoints : Resume(r, i) \/ Reload(r, i)
    \/ Load
    \/ Die

Spec == Init /\ [][Next]_vars

----------------------------------------------------------------------------
(* Properties. *)

\* The first edge that the node of a checkpoint leaves open leads to the node.
LeadsTo(checkpoint, node) ==
    \E i \in DOMAIN Edges[checkpoint.node] :
       LET Open(j) == Edges[checkpoint.node][j].conditional => checkpoint.holds
       IN  /\ Edges[checkpoint.node][i].to = node
           /\ Open(i) /\ \A j \in 1..(i - 1) : ~Open(j)

\* Across pauses, failures, resumes of any checkpoint, checkpoints that are lost,
\* and restarts, and with two requests at work, a node is executed only when it
\* is the first one or a checkpoint the engine still has leads to it.
EdgesAreFollowed ==
    \A r \in UnderWay :
       \/ task[r].node = First
       \/ \E i \in DOMAIN engine.checkpoints : LeadsTo(engine.checkpoints[i], task[r].node)

\* An execution that ends has come to a node without a successor, or its caller is
\* told that it is paused or aborted.  Only a reason that a resumed checkpoint or
\* a second request left behind hides a failure.
OutcomeIsTold ==
    [][\A r \in Caller :
          LET last == engine'.checkpoints[Len(engine'.checkpoints)]
          IN  task[r] # Absent /\ task'[r] = Absent /\ engine' # Absent =>
                 \/ engine'.flags.paused \/ engine'.flags.aborted \/ engine.flags.reason
                 \/ last.status = "completed" /\ After(last) = None]_vars

----------------------------------------------------------------------------
(* A claim of the repository that the code does not keep. *)

\* tests/unit/test_graph_engine.py:483 "resume_from_checkpoint_continues_from_next_node":
\* a resumed workflow executes the node after its checkpoint.
ResumeContinues ==
    [][\A r \in Caller : \A i \in 1..MaxCheckpoints :
          Resume(r, i) /\ task'[r] # Absent
          => task'[r].node = After(engine.checkpoints[i])]_vars

=============================================================================
