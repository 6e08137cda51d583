---------------------------- MODULE CustomPlans ----------------------------
(***************************************************************************)
(* CustomPlanService: one plan file, its editors, and the executions that  *)
(* read it once, work on their copy and save the copy after each layer.    *)
(* An execution is suspended while a model works on one of its nodes.      *)
(***************************************************************************)
EXTENDS Integers, Sequences

CONSTANTS
  Nodes,      \* the ids of the nodes, in the order of the plan
  Graph,      \* the dependencies clients and models may ask for
  Instant,    \* the orchestrator, if it has no prompt
  Skips,      \* sets of nodes a client may mark skipped
  Execution,  \* coroutines that execute the plan
  Absent

CustomPlansConstants ==
    /\ Nodes \in Seq(STRING)
    /\ Graph \subseteq [{Nodes[i] : i \in 1..Len(Nodes)} -> SUBSET {Nodes[i] : i \in 1..Len(Nodes)}]

Node == {Nodes[i] : i \in 1..Len(Nodes)}

Ended == {"done", "error", "skipped"}

VARIABLES
  plan,         \* the plan file, Absent before it is created and when deleted
  exec,         \* what each execution holds, Absent when it is over
  overlapped,   \* two executions have been under way at a time
  interrupted   \* the server died during the last executions

vars == <<plan, exec, overlapped, interrupted>>

Plan == [depends : Graph, node : [Node -> {"pending", "running"} \cup Ended],
         status : {"draft", "running", "done", "error"}, edition : BOOLEAN]

UnderWay == {e \in Execution : exec[e] # Absent}

\* An execution has a copy of the plan and the nodes of the layers that are over, and
\* waits for a model at one of the next layer.
TypeOK ==
    /\ plan \in Plan \cup {Absent}
    /\ \A e \in UnderWay :
          /\ exec[e] \in [copy : Plan, over : SUBSET Node, at : Node]
          /\ exec[e].copy.status = "running"
          /\ exec[e].copy.node[exec[e].at] = "running"
    /\ overlapped \in BOOLEAN
    /\ interrupted \in BOOLEAN

Init ==
    /\ plan = Absent
    /\ exec = [e \in Execution |-> Absent]
    /\ overlapped = FALSE
    /\ interrupted = FALSE

----------------------------------------------------------------------------
(* Editing. *)

\* _assert_no_cycles: every set of nodes has one that needs none of the others.
Acyclic(depends) ==
    \A S \in SUBSET Node \ {{}} : \E n \in S : depends[n] \cap S = {}

Written(depends, skipped, status, edition) ==
    [depends |-> depends, status |-> status, edition |-> edition,
     node |-> [n \in Node |-> IF n \in skipped THEN "skipped" ELSE "pending"]]

CreatePlan(depends, skipped) ==
    /\ plan = Absent
    /\ UnderWay = {}
    /\ Acyclic(depends)
    /\ plan' = Written(depends, skipped, "draft", FALSE)
    /\ UNCHANGED <<exec, overlapped, interrupted>>

\* Mutant: only a plan that is executed for the first time is kept from editors.
MayUpdateUnlessDone == plan.status # "done"

MayUpdate == plan.status \in {"draft", "error"}

\* update_plan does not change the status.
UpdatePlan(depends, skipped) ==
    /\ plan # Absent
    /\ MayUpdate
    /\ Acyclic(depends)
    /\ plan' = Written(depends, skipped, plan.status, plan.edition)
    /\ UNCHANGED <<exec, overlapped, interrupted>>

\* update_plan_autonomy annotates nodes whatever the status.
AnnotateNodes ==
    /\ plan # Absent
    /\ plan' = [plan EXCEPT !.edition = ~@]
    /\ UNCHANGED <<exec, overlapped, interrupted>>

DeletePlan ==
    /\ plan # Absent
    /\ plan' = Absent
    /\ UNCHANGED <<exec, overlapped, interrupted>>

----------------------------------------------------------------------------
(* Execution. *)

\* Mutant: a node joins the layer of the first node it needs.
ReadyAny(depends, done) ==
    {n \in Node \ done : depends[n] = {} \/ depends[n] \cap done # {}}

Ready(depends, done) == {n \in Node \ done : depends[n] \subseteq done}

\* get_execution_order, from the layers that are over: the nodes of those before the
\* i-th of the layers to come.  Plans on disk have no cycles.
ExecutionOrder(depends, over) ==
    LET before[i \in 0..Len(Nodes)] ==
           IF i = 0 THEN over ELSE before[i - 1] \cup Ready(depends, before[i - 1])
    IN  before

Position(n) == CHOOSE i \in 1..Len(Nodes) : Nodes[i] = n

NeedsModel(copy, n) == n # Instant /\ copy.node[n] \notin {"done", "skipped"}

\* The copy after nodes that need no model.
Passed(copy, nodes) ==
    IF Instant \in nodes /\ copy.node[Instant] # "skipped"
    THEN [copy EXCEPT !.node[Instant] = "done"] ELSE copy

Finished(copy) ==
    LET allDone == \A n \in Node : copy.node[n] \in {"done", "skipped"}
    IN  [copy EXCEPT !.status = IF allDone THEN "done" ELSE "error"]

\* Visits the nodes of the layer after `over`, from a position on, and those of the
\* layers after it, until one needs a model; saves the copy after each layer and, at
\* the end, with the final status.
Proceed(e, file, copy, over, from) ==
    LET before == ExecutionOrder(copy.depends, over)
        Layer(i) == Ready(copy.depends, before[i])
        Calls(i) == {n \in Layer(i) : NeedsModel(copy, n) /\ (i = 0 => Position(n) > from)}
        IsNext(i, n) == /\ n \in Calls(i) /\ \A m \in Calls(i) : Position(n) <= Position(m)
                        /\ \A j \in 0..(i - 1) : Calls(j) = {}
        visited(i, n) == before[i] \cup {m \in Layer(i) : Position(m) < Position(n)}
    IN  \/ \E i \in 0..Len(Nodes), n \in Node :
              /\ IsNext(i, n)
              /\ plan' = IF i = 0 THEN file ELSE Passed(copy, before[i])
              /\ exec' = [exec EXCEPT ![e] =
                             [copy |-> [Passed(copy, visited(i, n)) EXCEPT !.node[n] = "running"],
                              over |-> before[i], at |-> n]]
        \/ /\ \A i \in 0..Len(Nodes) : Calls(i) = {}
           /\ plan' = Finished(Passed(copy, Node))
           /\ exec' = [exec EXCEPT ![e] = Absent]

\* execute_plan, which does not look at the status it finds.
ExecutePlan(e) ==
    /\ plan # Absent
    /\ exec[e] = Absent
    /\ LET copy == [plan EXCEPT !.status = "running"]
       IN  Proceed(e, copy, copy, {}, 0)
    /\ overlapped' = (overlapped \/ UnderWay # {})
    /\ interrupted' = FALSE

\* The rest of the visit once the node at work has its result.
NodeResult(e, status) ==
    LET held == exec[e]
    IN  Proceed(e, plan, [held.copy EXCEPT !.node[held.at] = status], held.over, Position(held.at))

\* The model answers, fails or is given up after 300 s.
EndNode(e, status) ==
    /\ exec[e] # Absent
    /\ NodeResult(e, status)
    /\ UNCHANGED <<overlapped, interrupted>>

Die ==
    /\ UnderWay # {}
    /\ exec' = [e \in Execution |-> Absent]
    /\ interrupted' = TRUE
    /\ overlapped' = FALSE
    /\ UNCHANGED plan

Next ==
    \/ \E depends \in Graph, skipped \in Skips :
          CreatePlan(depends, skipped) \/ UpdatePlan(depends, skipped)
    \/ AnnotateNodes
    \/ DeletePlan
    \/ \E e \in Execution :
          ExecutePlan(e) \/ \E status \in {"done", "error"} : EndNode(e, status)
    \/ Die

Spec == Init /\ [][Next]_vars

----------------------------------------------------------------------------
(* Properties. *)

\* However a plan is edited, resumed after a death or executed twice at a time,
\* the model is never given a node before every node it needs has ended, in that
\* execution or in one whose results it read.
DependenciesFirst ==
    \A e \in UnderWay :
       LET copy == exec[e].copy
       IN  \A m \in copy.depends[exec[e].at] : copy.node[m] \in Ended

\* A plan that shows running is being executed, unless the server died; a plan
\* that shows done has no node that is not.
RunningMeansExecuting ==
    plan # Absent =>
       /\ plan.status = "running" => UnderWay # {} \/ interrupted
       /\ plan.status = "done" => \A n \in Node : plan.node[n] \in {"done", "skipped"}

\* What a plan shows and what its executions do agree.
ExecutionsAreOrdered == DependenciesFirst /\ RunningMeansExecuting

Edited == \E depends \in Graph, skipped \in Skips : UpdatePlan(depends, skipped)

\* services/custom_plan_service.py:268 "can't edit while running": an edit that
\* the service accepts is not overwritten by an execution that read the plan
\* before, unless two executions overlapped.
EditsAreKept == [][Edited => UnderWay = {} \/ overlapped]_vars

=============================================================================
