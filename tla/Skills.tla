------------------------------- MODULE Skills -------------------------------
(***************************************************************************)
(* SkillsService: the files of skills under one file lock, the check of a  *)
(* skill's graph, the execution of a skill as a plan of its own, what      *)
(* clients are told of its progress and what analytics count.              *)
(*                                                                         *)
(* The server's handlers run in its event loop and wait in it for the      *)
(* lock; the command line, which has bundles, is a process of its own.  A  *)
(* FileLock object knows nothing of another one on the same file, not in   *)
(* the same thread either: the second waits for ever or, in later releases *)
(* of the library, raises RuntimeError.  What generates a skill or         *)
(* installs it from the market ends as create_skill.                       *)
(*                                                                         *)
(* execute_skill hands the edges over, but CustomPlanService only looks at *)
(* depends_on, which stays empty: the nodes are visited in the file's      *)
(* order.  Whatever else may happen to a plan is in CustomPlans.           *)
(***************************************************************************)
EXTENDS Integers, Sequences, FiniteSets, Functions

CONSTANTS
  Skill, Command,  \* skills with a file, and their commands
  Raises,          \* whether the library raises
  Offers,          \* graphs clients ask the service to keep: nodes in order, and edges
  Kept,            \* graphs of skills that have a file, of those a check let through
  Type,            \* the type of each node
  Prompted,        \* nodes with a prompt
  Run,             \* executions
  None

\* Nodes are in the order of the file; edges lead from a node to one that follows it.
Graph == [nodes : Seq(DOMAIN Type), edges : SUBSET ((DOMAIN Type) \X (DOMAIN Type))]

Ended == {"done", "error"}

Copies(g) == [Range(g.nodes) -> {"pending", "running"} \cup Ended]

\* What an execution is at: the nodes left to do are in the order they are visited in.
Stages(g) ==
    [at : {"queued", "lost"}] \cup [at : {"over"}, raised : {TRUE}]
    \cup [at : {"over"}, raised : {FALSE}, copy : Copies(g)]
    \cup [at : {"running"}, copy : Copies(g), todo : Seq(Range(g.nodes))]

SkillsConstants ==
    /\ IsFiniteSet(Run)
    /\ Offers \cup Kept \subseteq Graph /\ \A g \in Offers : IsFiniteSet(g.edges)
    /\ \A g \in Kept : None \notin Stages(g) \cup Copies(g)

VARIABLES
  skills,     \* the command and version of each skill that has a file, or None
  archived,   \* versions in its archive
  market,     \* skills published
  lock,       \* the process that has skills.lock, or None
  work,       \* what the server's event loop, and the command line, are at
  graph,      \* the graph of the skill that is executed
  runs,       \* what each execution is at, None before it is asked for
  plans,      \* the plan of each, None when it has no file
  feed,       \* the status and the nodes ended that each event of an execution tells
  analytics,  \* runs in all, successful and failed
  misjudged   \* the check was wrong of a graph

files == <<skills, archived, market, lock, work>>

executions == <<graph, runs, plans, feed, analytics, misjudged>>

vars == <<files, executions>>

Process == {"server", "cli"}

Quiet == [op |-> "none"]

\* Those that look at the skills with a lock of their own, under the lock.  To find
\* a skill is the first half of publishing it.
Nested == {"create", "update", "install"}

Op == Nested \cup {"delete", "read", "find"}

\* The skills are files of an earlier release, or copied by hand.
FilesInit ==
    /\ \E there \in SUBSET Skill : \E c \in Command :
          skills = [s \in Skill |-> IF s \in there THEN [command |-> c, version |-> 1] ELSE None]
    /\ archived = [s \in Skill |-> {}] /\ market = {}
    /\ lock = None /\ work = [p \in Process |-> Quiet]

There == {s \in Skill : skills[s] # None}

Taken(c) == \E s \in There : skills[s].command = c

Goto(p, pc) == work' = [work EXCEPT ![p].pc = pc]

Return(p) == work' = [work EXCEPT ![p] = Quiet]

Files == <<skills, archived, market>>

----------------------------------------------------------------------------
(* Calls that read or write the files. *)

Call(p, op, s, c, overwrite) ==
    /\ work[p] = Quiet
    /\ op \in IF p = "cli" THEN {"read", "install"} ELSE Op \ {"install"}
    /\ work' = [work EXCEPT ![p] = [op |-> op, pc |-> "enter", skill |-> s, command |-> c,
                                    overwrite |-> overwrite]]
    /\ UNCHANGED <<Files, lock>>

\* The first lock.
Enter(p) ==
    /\ work[p] # Quiet /\ work[p].pc = "enter" /\ lock = None
    /\ lock' = p /\ Goto(p, IF work[p].op \in Nested THEN "list" ELSE "body")
    /\ UNCHANGED Files

\* The second lock: it is taken when the first is free.
List(p) ==
    /\ work[p] # Quiet /\ work[p].pc = "list" /\ (lock = None \/ Raises)
    /\ IF Raises THEN Return(p) /\ lock' = None ELSE Goto(p, "body") /\ UNCHANGED lock
    /\ UNCHANGED Files

\* The body ends, and the lock is free.
Leave(p, op) ==
    /\ work[p] # Quiet /\ work[p].pc = "body" /\ work[p].op = op
    /\ lock' = None /\ Return(p)

\* A skill gets an identifier of its own.
Write(c) ==
    \E s \in Skill \ There : skills' = [skills EXCEPT ![s] = [command |-> c, version |-> 1]]

Create(p) ==
    /\ Leave(p, "create")
    /\ IF Taken(work[p].command) \/ There = Skill THEN UNCHANGED skills
       ELSE Write(work[p].command)
    /\ UNCHANGED <<archived, market>>

\* A skill with the bundle's command is deleted first, or the bundle refused.
Install(p) ==
    /\ Leave(p, "install")
    /\ LET same == {s \in There : skills[s].command = work[p].command}
       IN  CASE same # {} /\ work[p].overwrite ->
                  skills' = [skills EXCEPT ![CHOOSE s \in same : TRUE].version = 1]
             [] same = {} /\ There # Skill -> Write(work[p].command)
             [] OTHER -> UNCHANGED skills
    /\ UNCHANGED <<archived, market>>

Update(p) ==
    /\ Leave(p, "update")
    /\ LET s == work[p].skill
       IN  IF s \in There
           THEN /\ archived' = [archived EXCEPT ![s] = @ \cup {skills[s].version}]
                /\ skills' = [skills EXCEPT ![s].version = @ + 1]
           ELSE UNCHANGED <<archived, skills>>
    /\ UNCHANGED market

Delete(p) ==
    /\ Leave(p, "delete")
    /\ skills' = [skills EXCEPT ![work[p].skill] = None]
    /\ UNCHANGED <<archived, market>>

\* A skill that was read is put to the market, and written again as it was read.
Publish(p) ==
    /\ Leave(p, "publish")
    /\ skills' = [skills EXCEPT ![work[p].skill] = work[p].was]
    /\ UNCHANGED <<archived, market>>

\* get_skill, list_skills: publish goes on with a lock of its own, outside this one.
Read(p) ==
    /\ work[p] # Quiet /\ work[p].pc = "body" /\ work[p].op \in {"read", "find"}
    /\ lock' = None
    /\ LET q == work[p]
           found == q.op = "find" /\ q.skill \in There
       IN  /\ market' = market \cup IF found THEN {q.skill} ELSE {}
           /\ work' = [work EXCEPT ![p] =
                 IF found THEN [op |-> "publish", pc |-> "enter", skill |-> q.skill,
                                was |-> skills[q.skill]]
                 ELSE Quiet]
    /\ UNCHANGED <<skills, archived>>

Body(p) ==
    \/ Create(p) \/ Install(p) \/ Update(p) \/ Delete(p) \/ Publish(p) \/ Read(p)

Step(p) == Enter(p) \/ List(p) \/ Body(p)

FilesNext ==
    \E p \in Process :
       \/ \E op \in Op, s \in Skill, c \in Command, o \in BOOLEAN : Call(p, op, s, c, o)
       \/ Step(p)

----------------------------------------------------------------------------
Nodes == Range(graph.nodes)

TypeOK ==
    /\ graph \in Kept
    /\ \A r \in Run :
          /\ runs[r] # None => runs[r] \in Stages(graph)
          /\ plans[r] # None => plans[r] \in Copies(graph)
          /\ \A i \in 1..Len(feed[r]) :
                feed[r][i] \in {"running", "completed", "error"} \X (0..Len(graph.nodes))
    /\ analytics \in [total : Nat, successful : Nat, failed : Nat]
    /\ misjudged \in BOOLEAN

RunsInit ==
    /\ graph \in Kept
    /\ runs = [r \in Run |-> None] /\ plans = [r \in Run |-> None]
    /\ feed = [r \in Run |-> <<>>]
    /\ analytics = [total |-> 0, successful |-> 0, failed |-> 0]
    /\ misjudged = FALSE

----------------------------------------------------------------------------
(* The check of a skill's graph. *)

\* A search is what dfs has on its stack and what it left, the edges it looked at, and
\* whether one of them led back into the stack.
Unvisited == [stack |-> <<>>, left |-> <<>>, looked |-> {}, cycle |-> FALSE]

Top(s) == s.stack[Len(s.stack)]

Visited(s) == Range(s.stack) \cup Range(s.left)

\* The edges that the node on top has yet to look at.
Ahead(g, s) == {e \in g.edges \ s.looked : s.stack # <<>> /\ e[1] = Top(s)}

\* The loop over the nodes goes on with the first that was not visited.
Root(g, s) ==
    g.nodes[CHOOSE i \in DOMAIN g.nodes :
               g.nodes[i] \notin Visited(s) /\ \A j \in 1 .. i - 1 : g.nodes[j] \in Visited(s)]

Visit(s, n) == [s EXCEPT !.stack = Append(@, n)]

LookAt(s, e) ==
    LET seen == [s EXCEPT !.looked = @ \cup {e}]
    IN  IF e[2] \notin Visited(s) THEN Visit(seen, e[2])
        ELSE [seen EXCEPT !.cycle = e[2] \in Range(s.stack)]

\* A step of the search: dfs begins at another node, looks at an edge of the last it
\* visited, or leaves it.
Look(g, s) ==
    CASE s.cycle \/ (s.stack = <<>> /\ Range(g.nodes) \subseteq Visited(s)) -> s
      [] s.stack = <<>> /\ ~ Range(g.nodes) \subseteq Visited(s) -> Visit(s, Root(g, s))
      [] ~ s.cycle /\ Ahead(g, s) # {} -> LookAt(s, CHOOSE e \in Ahead(g, s) : TRUE)
      [] OTHER -> [s EXCEPT !.stack = SubSeq(@, 1, Len(@) - 1), !.left = Append(@, Top(s))]

\* Each node is visited and left, and each edge looked at, once.
Steps(g) == 2 * Len(g.nodes) + Cardinality(g.edges) + 1

HasCycle(g) ==
    LET search[k \in 0 .. Steps(g)] ==
           IF k = 0 THEN Unvisited ELSE Look(g, search[k - 1])
    IN  search[Steps(g)].cycle

OneOrchestrator(g) ==
    Cardinality({i \in DOMAIN g.nodes : Type[g.nodes[i]] = "orchestrator"}) = 1

Valid(g) ==
    /\ g.nodes # <<>> /\ IsInjective(g.nodes)
    /\ g.edges \subseteq Range(g.nodes) \X Range(g.nodes)
    /\ OneOrchestrator(g)
    /\ ~ HasCycle(g)

\* What the check is for: from one orchestrator, the nodes can be put in an order
\* in which every edge leads on.
Sensible(g) ==
    /\ \E n \in Range(g.nodes) :
          Type[n] = "orchestrator" /\ \A m \in Range(g.nodes) \ {n} : Type[m] # "orchestrator"
    /\ \E place \in Injection(Range(g.nodes), DOMAIN g.nodes) :
          \A e \in g.edges : {e[1], e[2]} \subseteq Range(g.nodes) /\ place[e[1]] < place[e[2]]
    /\ \A i, j \in DOMAIN g.nodes : g.nodes[i] = g.nodes[j] => i = j

\* A graph is submitted.  Bound: before the executions.
Submit(g) ==
    /\ \A r \in Run : runs[r] = None
    /\ misjudged' = (misjudged \/ Valid(g) # Sensible(g))
    /\ UNCHANGED <<graph, runs, plans, feed, analytics>>

----------------------------------------------------------------------------
(* Executions. *)

\* execute_skill answers "queued" at once.
Execute(r) ==
    /\ runs[r] = None
    /\ runs' = [runs EXCEPT ![r] = [at |-> "queued"]]
    /\ plans' = [plans EXCEPT ![r] = [n \in Nodes |-> "pending"]]
    /\ UNCHANGED <<graph, feed, analytics, misjudged>>

EndedIn(copy) == Cardinality({n \in Nodes : copy[n] \in Ended})

\* How many of the nodes to do are done without a model: as far as they are
\* orchestrators without a prompt.
Free(todo) ==
    CHOOSE k \in 0 .. Len(todo) :
       /\ \A i \in 1..k : Type[todo[i]] = "orchestrator" /\ todo[i] \notin Prompted
       /\ k < Len(todo) => Type[todo[k + 1]] # "orchestrator" \/ todo[k + 1] \in Prompted

DoneUpTo(copy, todo, k) ==
    [n \in DOMAIN copy |-> IF \E i \in 1..k : todo[i] = n THEN "done" ELSE copy[n]]

\* Visits nodes until one needs a model; then what the execution holds, or its end.
\* Each node is told when it begins and when it is done.
Visits(copy, todo, told) ==
    LET free == Free(todo)
        done == DoneUpTo(copy, todo, free)
        progress == told \o [i \in 1 .. 2 * free |->
                               <<"running", EndedIn(DoneUpTo(copy, todo, i \div 2))>>]
    IN  IF free = Len(todo)
        THEN [copy |-> done, todo |-> <<>>,
              told |-> Append(progress, IF \A n \in Nodes : done[n] = "done"
                                        THEN <<"completed", Len(graph.nodes)>>
                                        ELSE <<"error", 0>>)]
        ELSE [copy |-> [done EXCEPT ![todo[free + 1]] = "running"],
              todo |-> SubSeq(todo, free + 1, Len(todo)),
              told |-> Append(progress, <<"running", EndedIn(done)>>)]

\* The plan has one layer, and is saved at its end.
Proceed(r, file, visit) ==
    /\ runs' = [runs EXCEPT ![r] =
          IF visit.todo = <<>> THEN [at |-> "over", raised |-> FALSE, copy |-> visit.copy]
          ELSE [at |-> "running", copy |-> visit.copy, todo |-> visit.todo]]
    /\ plans' = [plans EXCEPT ![r] = IF visit.todo = <<>> THEN visit.copy ELSE file]
    /\ feed' = [feed EXCEPT ![r] = visit.told]

RecordSkillRun(completed) ==
    analytics' = [total |-> analytics.total + 1,
                  successful |-> analytics.successful + (IF completed THEN 1 ELSE 0),
                  failed |-> analytics.failed + (IF completed THEN 0 ELSE 1)]

\* _execute_plan_background.  A plan deleted before it started is an error, the
\* one kind of end that analytics count.
Begin(r) ==
    /\ runs[r] # None /\ runs[r].at = "queued"
    /\ LET started == <<<<"running", 0>>>>
       IN  IF plans[r] = None
           THEN /\ runs' = [runs EXCEPT ![r] = [at |-> "over", raised |-> TRUE]]
                /\ feed' = [feed EXCEPT ![r] = Append(started, <<"error", 0>>)]
                /\ RecordSkillRun(FALSE)
                /\ UNCHANGED plans
           ELSE Proceed(r, plans[r], Visits(plans[r], graph.nodes, started)) /\ UNCHANGED analytics
    /\ UNCHANGED <<graph, misjudged>>

\* A model's answer, its failure or 300 s without one.
NodeEnds(r, status) ==
    /\ runs[r] # None /\ runs[r].at = "running"
    /\ LET copy == [runs[r].copy EXCEPT ![Head(runs[r].todo)] = status]
       IN  Proceed(r, plans[r], Visits(copy, Tail(runs[r].todo),
                                       Append(feed[r], <<"running", EndedIn(copy)>>)))
    /\ UNCHANGED <<graph, analytics, misjudged>>

\* A client deletes the plan.
DeletePlan(r) ==
    /\ plans[r] # None
    /\ plans' = [plans EXCEPT ![r] = None]
    /\ UNCHANGED <<graph, runs, feed, analytics, misjudged>>

\* Death: nobody takes an execution up again.
Die ==
    /\ \E r \in Run : runs[r] # None /\ runs[r].at \in {"queued", "running"}
    /\ runs' = [r \in Run |-> IF runs[r] # None /\ runs[r].at \in {"queued", "running"}
                              THEN [at |-> "lost"] ELSE runs[r]]
    /\ UNCHANGED <<graph, plans, feed, analytics, misjudged>>

RunsNext ==
    \/ \E g \in Offers : Submit(g)
    \/ \E r \in Run :
          Execute(r) \/ Begin(r) \/ DeletePlan(r) \/ \E s \in Ended : NodeEnds(r, s)
    \/ Die

----------------------------------------------------------------------------

Next ==
    \/ FilesNext /\ UNCHANGED executions
    \/ RunsNext /\ UNCHANGED files

\* Whoever may go on does; the lock is not kept from one that waits.
Fairness == \A p \in Process : SF_files(Enter(p)) /\ WF_files(List(p)) /\ WF_files(Body(p))

Spec == FilesInit /\ RunsInit /\ [][Next]_vars /\ Fairness

\* A request to create a skill under a free name is answered with the skill.
CreatesAreServed ==
    \A c \in Command :
       (work["server"].op = "create" /\ work["server"].command = c /\ There # Skill) ~> Taken(c)

\* Progress never falls while an execution runs, and its end is told once, last, and
\* as a success exactly when all of its nodes are done, whatever became of the plan's
\* file; analytics count the executions that raised; and the graphs let through are
\* those that can be executed in order.
SkillRunsAreReported ==
    /\ \A r \in Run :
          LET Running(i) == feed[r][i][1] = "running"
          IN  /\ \A i \in 2..Len(feed[r]) :
                    Running(i - 1) /\ (Running(i) => feed[r][i - 1][2] <= feed[r][i][2])
              /\ runs[r] # None /\ runs[r].at = "over" =>
                    /\ ~ Running(Len(feed[r]))
                    /\ feed[r][Len(feed[r])][1] = "completed"
                       <=> ~ runs[r].raised /\ \A n \in Nodes : runs[r].copy[n] = "done"
    /\ analytics.failed = Cardinality({r \in Run :
          runs[r] # None /\ runs[r].at = "over" /\ runs[r].raised})
    /\ analytics.total = analytics.failed + analytics.successful
    /\ ~ misjudged

=============================================================================
