----------------------------- MODULE SubAgents -----------------------------
(***************************************************************************)
(* SubAgentManager: agents with a git worktree each, kept in the memory of  *)
(* a process and in one inventory file.                                    *)
(*                                                                         *)
(* The server and the MCP bridge are two processes with the same tools:    *)
(* each has agents of its own in memory and writes the whole inventory     *)
(* from it.  Only the server reconciles, at its start.  Nothing calls      *)
(* terminate_sub_agent and execute_task.                                   *)
(***************************************************************************)
EXTENDS FiniteSets, Integers

CONSTANTS
  Agent,      \* ids
  OllamaAgent,\* the agent of an installed model
  MaxStarts,  \* bound of the model: starts of a process
  None

Process == {"server", "bridge"}

SubAgentsConstants == MaxStarts \in Nat

VARIABLES
  agents,     \* [Process -> what _sub_agents has]
  doing,      \* [Process -> what it is in the middle of]
  made,       \* [Process -> the agent it is making, if any]
  stored,     \* what startup_reconcile loaded
  worktrees,  \* the directories in WORKTREES_DIR
  inventory,  \* the agents in the file
  tmp,        \* those in its draft, or None
  late,       \* worktrees that a git given up may still make
  young,      \* worktrees made since the last reconciliation looked
  astray,     \* agents that another process, or an unreadable file, left out
  promised,   \* agents with a worktree that a tool has answered
  starts

vars == <<agents, doing, made, stored, worktrees, inventory, tmp, late, young, astray, promised,
          starts>>

AgentRecord == [id : Agent, tree : BOOLEAN] \cup [id : {OllamaAgent}, tree : {FALSE}]

TypeOK ==
    /\ \A p \in Process : agents[p] \subseteq AgentRecord
    /\ \A p \in Process :
          /\ doing[p] \in {"down", "load", "clean", "idle", "register", "publish"}
          /\ made[p] \subseteq AgentRecord /\ (made[p] # {} => doing[p] = "register")
    /\ stored \subseteq AgentRecord /\ inventory \subseteq AgentRecord
    /\ tmp = None \/ tmp \subseteq AgentRecord
    /\ worktrees \cup late \cup young \cup astray \cup promised \subseteq Agent
    /\ starts \in 0 .. MaxStarts

Ids(records) == {a.id : a \in records}

\* The entries of one dict, whose keys are ids.
With(records, a) == {b \in records : b.id # a.id} \cup {a}

Known == Ids(agents["server"]) \cup Ids(agents["bridge"])

Free == Agent \ (Known \cup worktrees \cup late \cup Ids(inventory) \cup astray \cup promised)

Init ==
    /\ agents = [p \in Process |-> {}]
    /\ doing = [p \in Process |-> "down"] /\ made = [p \in Process |-> {}]
    /\ stored = {} /\ worktrees = {} /\ inventory = {} /\ tmp = None
    /\ late = {} /\ young = {} /\ astray = {} /\ promised = {} /\ starts = 0

Do(p, what) == doing' = [doing EXCEPT ![p] = what]

----------------------------------------------------------------------------
(* create_sub_agent, called by a tool of either process.                   *)

\* git worktree add: done, refused, or given up.
AddWorktree(p) ==
    /\ doing[p] = "idle" /\ Do(p, "register")
    /\ \E id \in Free : \E result \in {"made", "refused", "given up"} :
          /\ made' = [made EXCEPT ![p] = {[id |-> id, tree |-> result = "made"]}]
          /\ IF result = "made"
             THEN worktrees' = worktrees \cup {id} /\ young' = young \cup {id}
             ELSE UNCHANGED <<worktrees, young>>
          /\ late' = IF result = "given up" THEN late \cup {id} ELSE late
    /\ UNCHANGED <<agents, stored, inventory, tmp, astray, starts, promised>>

\* The first half of _persist.
WriteDraft(p, records) == agents' = [agents EXCEPT ![p] = records] /\ tmp' = records

Register(p) ==
    /\ doing[p] = "register"
    /\ WriteDraft(p, agents[p] \cup made[p])
    /\ Do(p, "publish") /\ made' = [made EXCEPT ![p] = {}]
    /\ UNCHANGED <<stored, worktrees, inventory, late, young, astray, starts, promised>>

\* The second half: the draft may be the other's by now, or gone; the failure is
\* logged.
Publish(p) ==
    /\ doing[p] = "publish"
    /\ IF tmp = None THEN UNCHANGED inventory ELSE inventory' = tmp
    /\ tmp' = None
    /\ astray' = astray \cup (((Known \cup Ids(inventory)) \ Ids(inventory')) \cap Agent)
    /\ promised' = promised \cup Ids({a \in agents[p] : a.tree})
    /\ Do(p, "idle")
    /\ UNCHANGED <<agents, made, stored, worktrees, late, young, starts>>

GitEnds ==
    \E id \in late :
       /\ late' = late \ {id}
       /\ worktrees' = worktrees \cup {id} /\ young' = young \cup {id}
       /\ UNCHANGED <<agents, doing, made, stored, inventory, tmp, astray, starts, promised>>

\* Found models are agents without a worktree, in memory only; one known already
\* gets a status.
SyncWithOllama(p) ==
    /\ doing[p] = "idle"
    /\ agents' = [agents EXCEPT ![p] = With(@, [id |-> OllamaAgent, tree |-> FALSE])]
    /\ UNCHANGED <<doing, made, stored, worktrees, inventory, tmp, late, young, astray,
                   starts, promised>>

----------------------------------------------------------------------------
(* Starts and deaths. *)

Start(p) ==
    /\ doing[p] = "down" /\ starts < MaxStarts
    /\ Do(p, IF p = "server" THEN "load" ELSE "idle")
    /\ starts' = starts + 1
    /\ UNCHANGED <<agents, made, stored, worktrees, inventory, tmp, late, young, astray, promised>>

\* _load_inventory: a file that cannot be read is an empty one.
Load ==
    /\ doing["server"] = "load"
    /\ \/ stored' = inventory /\ UNCHANGED astray
       \/ stored' = {} /\ astray' = astray \cup (Ids(inventory) \cap Agent)
    /\ Do("server", "clean")
    /\ UNCHANGED <<agents, made, worktrees, inventory, tmp, late, young, starts, promised>>

Orphans == worktrees \ Ids(stored)

Ghosts == {a \in stored : a.tree /\ a.id \notin worktrees}

\* Worktrees of no agent go, and agents that had one and have none.
Clean ==
    /\ doing["server"] = "clean"
    /\ worktrees' = worktrees \ Orphans
    /\ WriteDraft("server", stored \ Ghosts)
    /\ young' = {}
    /\ astray' = astray \cup ((Ids(inventory \cup agents["bridge"]) \cap Agent) \ Ids(stored))
                        \cup Ids(made["bridge"])
    /\ Do("server", "publish")
    /\ stored' = {}
    /\ UNCHANGED <<made, inventory, late, starts, promised>>

Die(p) ==
    /\ doing[p] # "down"
    /\ Do(p, "down")
    /\ agents' = [agents EXCEPT ![p] = {}] /\ made' = [made EXCEPT ![p] = {}]
    /\ stored' = IF p = "server" THEN {} ELSE stored
    /\ UNCHANGED <<worktrees, inventory, tmp, late, young, astray, starts, promised>>

Next ==
    \/ \E p \in Process :
          AddWorktree(p) \/ Register(p) \/ Publish(p) \/ SyncWithOllama(p) \/ Start(p) \/ Die(p)
    \/ GitEnds \/ Load \/ Clean

Spec == Init /\ [][Next]_vars

----------------------------------------------------------------------------

Ready == doing["server"] \notin {"down", "load", "clean"}

\* An agent that create_sub_agent made keeps its worktree, over deaths and starts of
\* the server as well, unless the inventory was read or written without it: each
\* process writes its own agents. Once the server is up no other worktree is left from
\* before.
AgentsKeepTheirWorktrees ==
    /\ promised \subseteq worktrees \cup astray
    /\ Ready => worktrees \ young \subseteq Ids(agents["server"]) \cup astray

=============================================================================
