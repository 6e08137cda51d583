----------------------------- MODULE AgentTask -----------------------------
(***************************************************************************)
(* One node of kind agent_task under GraphEngine._run_node_with_retries:   *)
(* its children, of whom a supervisor runs some at a time, a reviewer      *)
(* judges what another makes, or one hands over to another, and the        *)
(* attempts that are made when one fails.                                  *)
(*                                                                         *)
(* Children suspend while they execute.  What they compute is theirs; the  *)
(* guard before each of them fails it when a budget is spent, and leaves   *)
(* the reason in the state of the workflow.                                *)
(***************************************************************************)
EXTENDS Integers, Sequences, FiniteSets

CONSTANTS
  Workers,       \* number of workers of a supervisor
  MaxParallel,   \* max_parallel_workers
  MaxRounds,     \* max_rounds of a reviewer
  Retries        \* retries of the node

Attempts == 1..Retries + 1

VARIABLES
  node,      \* its pattern and its fail_policy
  attempt,   \* the one under way or the last
  stage,     \* whether it is under way, waits for the next, or how the node ended
  child,     \* of each attempt, its children in their order
  approved,  \* the rounds of the attempt whose candidate was approved
  output,    \* the children with a result, and those with an error
  exceeded   \* a budget has left its reason

vars == <<node, attempt, stage, child, approved, output, exceeded>>

Sequential == {"serial", "reviewer_loop", "handoff", "single"}

Patterns ==
    [pattern : {"parallel", "serial"}, policy : {"fail_fast", "collect_partial"}]
      \union [pattern : {"reviewer_loop", "handoff", "single"}, policy : {"fail_fast"}]

\* Generator and reviewer take turns; a source is followed by its target.
Children(n) ==
    CASE n.pattern \in {"parallel", "serial"} -> 1..Workers
      [] n.pattern = "reviewer_loop"          -> 1..2 * MaxRounds
      [] n.pattern = "handoff"                -> 1..2
      [] n.pattern = "single"                 -> 1..1

IsReview(c) == node.pattern = "reviewer_loop" /\ c % 2 = 0

Nothing == [results |-> {}, errors |-> {}]

Init ==
    /\ node \in Patterns
    /\ attempt = 0 /\ stage = "waiting"
    /\ child = [a \in Attempts |-> [c \in Children(node) |-> "waiting"]]
    /\ approved = {} /\ output = Nothing /\ exceeded = FALSE

In(a, status) == {c \in Children(node) : child[a][c] = status}

-----------------------------------------------------------------------------
\* The first attempt, or the next after its backoff.
Begin ==
    /\ stage = "waiting"
    /\ attempt' = attempt + 1 /\ stage' = "running" /\ approved' = {}
    /\ UNCHANGED <<node, child, output, exceeded>>

\* _check_proactive_confidence: a projection below 0.7 pauses the workflow.
Doubt ==
    /\ stage = "running" /\ In(attempt, "waiting") = Children(node)
    /\ stage' = "paused"
    /\ UNCHANGED <<node, attempt, child, approved, output, exceeded>>

\* A child of a failed attempt that waits for the semaphore still gets it.
MayStart(a, c) ==
    /\ child[a][c] = "waiting" /\ a <= attempt
    /\ IF node.pattern = "parallel"
       THEN /\ Cardinality(In(a, "running")) < MaxParallel
            /\ a = attempt => stage # "paused"
       ELSE /\ a = attempt /\ stage = "running"
            /\ \A d \in Children(node) : d < c => child[a][d] \in {"ok", "error"}

Start(a, c) ==
    /\ MayStart(a, c)
    /\ child' = [child EXCEPT ![a][c] = "running"]
    /\ UNCHANGED <<node, attempt, stage, approved, output, exceeded>>

\* The attempt raises: the next one follows, or the node has failed.
Raise == stage' = IF attempt <= Retries THEN "waiting" ELSE "failed"

\* Were the next attempt to go on with the results it finds.
CompleteFromAll(a) ==
    /\ stage' = "completed"
    /\ output' = [results |-> {c \in Children(node) : \E b \in 1..a : child'[b][c] = "ok"},
                  errors |-> {c \in Children(node) : child'[a][c] = "error"}]

Complete(a) ==
    /\ stage' = "completed"
    /\ output' = [results |-> {c \in Children(node) : child'[a][c] = "ok"},
                  errors |-> {c \in Children(node) : child'[a][c] = "error"}]

\* What the node does once a child of the attempt under way has ended.
Gather(a, c) ==
    LET over == \A d \in Children(node) : child'[a][d] \in {"ok", "error"}
        last == over \/ (IsReview(c) /\ c \div 2 \in approved')
    IN  IF stage # "running" \/ a # attempt
        THEN UNCHANGED <<stage, output>>
        ELSE IF child'[a][c] = "error" /\ node.policy = "fail_fast"
             THEN Raise /\ UNCHANGED output
             ELSE IF last THEN Complete(a) ELSE UNCHANGED <<stage, output>>

End(a, c, ok) ==
    /\ child[a][c] = "running"
    /\ child' = [child EXCEPT ![a][c] = IF ok THEN "ok" ELSE "error"]
    /\ approved' \in {approved} \union
                     (IF ok /\ IsReview(c) THEN {approved \union {c \div 2}} ELSE {})
    /\ Gather(a, c)
    /\ UNCHANGED <<node, attempt, exceeded>>

\* The guard before the child finds a budget spent.
Exceed(a, c) ==
    /\ MayStart(a, c)
    /\ child' = [child EXCEPT ![a][c] = "error"]
    /\ exceeded' = TRUE
    /\ Gather(a, c)
    /\ UNCHANGED <<node, attempt, approved>>

\* The node's timeout cancels the attempt and, with it, its children.
TimeOut ==
    /\ stage = "running"
    /\ child' = [child EXCEPT ![attempt] =
                   [c \in Children(node) |->
                      IF child[attempt][c] \in {"waiting", "running"} THEN "cancelled"
                      ELSE child[attempt][c]]]
    /\ Raise
    /\ UNCHANGED <<node, attempt, approved, output, exceeded>>

Next ==
    \/ Begin \/ Doubt \/ TimeOut
    \/ \E a \in Attempts : \E c \in Children(node) :
          Start(a, c) \/ Exceed(a, c) \/ \E ok \in BOOLEAN : End(a, c, ok)

Spec == Init /\ [][Next]_vars

-----------------------------------------------------------------------------
TypeOK ==
    /\ node \in Patterns
    /\ attempt \in 0..Retries + 1
    /\ stage \in {"waiting", "running", "paused", "completed", "failed"}
    /\ child \in [Attempts -> [Children(node) ->
                                 {"waiting", "running", "ok", "error", "cancelled"}]]
    /\ approved \subseteq 1..MaxRounds /\ exceeded \in BOOLEAN

\* A node that has completed did so in one attempt: its results are those of the
\* children that answered in it, and all of them unless partial results are
\* collected or a reviewer has approved, which ends the loop with the candidate
\* before the review.
OutputIsOfOneAttempt ==
    stage = "completed" =>
        /\ output.results = In(attempt, "ok") /\ output.errors = In(attempt, "error")
        /\ node.policy = "fail_fast" => output.errors = {}
        /\ CASE node.pattern = "reviewer_loop" /\ approved # {} ->
                   \E r \in 1..MaxRounds : approved = {r} /\ output.results = 1..2 * r
             [] OTHER -> output.results \union output.errors = Children(node)

\* The children of an attempt keep to the limit of the supervisor; of patterns
\* in sequence one executes at a time, in the order; only children of a parallel
\* attempt outlive it, when another one failed and no timeout cancelled them.
ChildrenAreContained ==
    \A a \in Attempts :
        /\ Cardinality(In(a, "running")) <=
              IF node.pattern = "parallel" THEN MaxParallel ELSE 1
        /\ node.pattern \in Sequential =>
              \A c, d \in Children(node) :
                  c < d /\ child[a][d] \notin {"waiting", "cancelled"} =>
                      child[a][c] \in {"ok", "error"}
        /\ In(a, "running") # {} /\ ~(a = attempt /\ stage = "running") =>
              /\ node.pattern = "parallel" /\ node.policy = "fail_fast"
              /\ In(a, "error") # {} /\ In(a, "cancelled") = {}

NodesAreContained == OutputIsOfOneAttempt /\ ChildrenAreContained

=============================================================================
