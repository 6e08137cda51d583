------------------------------ MODULE Lifespan ------------------------------
(***************************************************************************)
(* The life of the server's process: the steps of lifespan, the tasks and  *)
(* the daemon process it starts, and the ways it ends.  Only the end after *)
(* `yield` stops the daemon: sys.exit in a task, a step of the start that  *)
(* raises and a kill leave it running.                                     *)
(*                                                                         *)
(* What a step of the start does to runs, threats or sub-agents is in      *)
(* their modules.                                                          *)
(***************************************************************************)
EXTENDS Integers

CONSTANTS
  Loop,     \* the tasks that shutdown cancels
  MaxEnds,  \* ends of the process
  None

LifespanConstants == MaxEnds \in Nat /\ None \notin {"running", "dead"}

VARIABLES
  at,         \* the step that is next
  tasks,      \* background tasks
  daemon,     \* the GICS process of this server: None, "running" or "dead"
  left,       \* GICS processes whose server is gone
  files,      \* whether they are those of the manifest
  authority,  \* ExecutionAuthority is initialised
  wake,       \* the worker's event
  unjudged,   \* the worker took runs without admission
  ends        \* ends of the process by kind

vars == <<at, tasks, daemon, left, files, authority, wake, unjudged, ends>>

Boot == {"integrity", "license", "storage", "daemon", "threats", "loops", "reconcile", "worker",
         "monitor", "authority"}

Stop == {"stop_monitor", "stop_daemon", "stop_worker", "stop_loops", "reset"}

Background == Loop \cup {"recheck", "worker", "monitor"}

TypeOK ==
    /\ at \in Boot \cup Stop \cup {"down", "up", "limited"}
    /\ tasks \subseteq Background /\ daemon \in {None, "running", "dead"} /\ left \in Nat
    /\ {files, authority, wake, unjudged} \subseteq BOOLEAN
    /\ ends \in [{"orderly", "disorderly"} -> 0 .. MaxEnds]

Init ==
    /\ at = "down" /\ tasks = {} /\ daemon = None /\ left = 0 /\ files \in BOOLEAN
    /\ authority = FALSE /\ wake = FALSE /\ unjudged = FALSE
    /\ ends = [k \in {"orderly", "disorderly"} |-> 0]

\* The process is gone, and with it all that is not a process.
End(kind) ==
    /\ at' = "down" /\ tasks' = {} /\ authority' = FALSE /\ wake' = FALSE
    /\ daemon' = None /\ left' = IF daemon = "running" THEN left + 1 ELSE left
    /\ ends' = [ends EXCEPT ![kind] = @ + 1]
    /\ UNCHANGED <<files, unjudged>>

Exit == End("disorderly")

\* The step is done and the next one is `next`.
Then(next) == at' = next /\ UNCHANGED <<files, unjudged, left, ends>>

----------------------------------------------------------------------------
(* The start.  The first steps may end the process, the licence may leave  *)
(* it in limited mode; later ones are guarded and fail without effect.     *)

\* The runtime guard lets the process start.
Start ==
    /\ at = "down" /\ ends["orderly"] + ends["disorderly"] < MaxEnds
    /\ Then("integrity")
    /\ UNCHANGED <<tasks, daemon, authority, wake>>

CheckIntegrity ==
    /\ at = "integrity"
    /\ IF files THEN Then("license") /\ UNCHANGED <<tasks, daemon, authority, wake>> ELSE Exit

Validate ==
    /\ at = "license"
    /\ \/ Then("storage") /\ tasks' = {"recheck"} /\ UNCHANGED <<daemon, authority, wake>>
       \/ Then("limited") /\ UNCHANGED <<tasks, daemon, authority, wake>>
       \/ Exit

\* Directories and the provider configuration.
PrepareStorage ==
    /\ at = "storage"
    /\ \/ Then("daemon") /\ UNCHANGED <<tasks, daemon, authority, wake>>
       \/ Exit

\* The script may be missing, node too, or the process may exit at once.
StartDaemon ==
    /\ at = "daemon"
    /\ Then("threats")
    /\ daemon' \in {None, "running", "dead"}
    /\ UNCHANGED <<tasks, authority, wake>>

\* save_security_db is not guarded.
ClearThreats ==
    /\ at = "threats"
    /\ \/ Then("loops") /\ UNCHANGED <<tasks, daemon, authority, wake>>
       \/ Exit

StartLoops ==
    /\ at = "loops"
    /\ Then("reconcile") /\ tasks' = tasks \cup Loop
    /\ UNCHANGED <<daemon, authority, wake>>

Reconcile ==
    /\ at = "reconcile"
    /\ Then("worker")
    /\ UNCHANGED <<tasks, daemon, authority, wake>>

StartWorker ==
    /\ at = "worker"
    /\ Then("monitor") /\ tasks' = tasks \cup {"worker"}
    /\ UNCHANGED <<daemon, authority, wake>>

StartMonitor ==
    /\ at = "monitor"
    /\ Then("authority") /\ tasks' = tasks \cup {"monitor"}
    /\ UNCHANGED <<daemon, authority, wake>>

InitAuthority ==
    /\ at = "authority"
    /\ Then("up") /\ authority' = TRUE
    /\ UNCHANGED <<tasks, daemon, wake>>

----------------------------------------------------------------------------
(* At work. *)

\* Requests wake the worker; so do runs that end, while the server stops.
Notify ==
    /\ at \in {"up"} \cup Stop /\ ~wake
    /\ wake' = TRUE
    /\ UNCHANGED <<at, tasks, daemon, left, files, authority, unjudged, ends>>

\* _tick takes pending runs; without authority it does so unjudged.
Tick ==
    /\ "worker" \in tasks /\ wake
    /\ wake' = FALSE /\ unjudged' = (unjudged \/ ~authority)
    /\ UNCHANGED <<at, tasks, daemon, left, files, authority, ends>>

DaemonDies ==
    /\ daemon = "running" /\ daemon' = "dead"
    /\ UNCHANGED <<at, tasks, left, files, authority, wake, unjudged, ends>>

FilesChange ==
    /\ files' = ~files
    /\ UNCHANGED <<at, tasks, daemon, left, authority, wake, unjudged, ends>>

\* The integrity loop every six hours, the licence's recheck every day.
Recheck ==
    /\ at = "up"
    /\ \/ ~files /\ "integrity" \in tasks
       \/ "recheck" \in tasks
    /\ Exit

Kill == at # "down" /\ Exit

----------------------------------------------------------------------------
(* Shutdown. *)

Shutdown ==
    /\ at = "up" /\ Then("stop_monitor")
    /\ UNCHANGED <<tasks, daemon, authority, wake>>

ShutdownLimited == at = "limited" /\ End("orderly")

\* Were the CancelledError not caught, lifespan would end there.
StopMonitorUncaught == at = "stop_monitor" /\ End("orderly")

\* stop_monitoring ends with the CancelledError of the task it cancelled, which is
\* caught; another error too.
StopMonitor ==
    /\ at = "stop_monitor"
    /\ Then("stop_daemon") /\ tasks' = tasks \ {"monitor"}
    /\ UNCHANGED <<daemon, authority, wake>>

StopDaemon ==
    /\ at = "stop_daemon"
    /\ Then("stop_worker") /\ daemon' = None
    /\ UNCHANGED <<tasks, authority, wake>>

StopWorker ==
    /\ at = "stop_worker"
    /\ Then("stop_loops") /\ tasks' = tasks \ {"worker"} /\ wake' = TRUE
    /\ UNCHANGED <<daemon, authority>>

StopLoops ==
    /\ at = "stop_loops"
    /\ Then("reset") /\ tasks' = tasks \ Loop
    /\ UNCHANGED <<daemon, authority, wake>>

\* The licence's recheck ends with the process.
Reset == at = "reset" /\ End("orderly")

Next ==
    \/ Start \/ CheckIntegrity \/ Validate \/ PrepareStorage \/ StartDaemon \/ ClearThreats
    \/ StartLoops \/ Reconcile \/ StartWorker \/ StartMonitor \/ InitAuthority
    \/ Notify \/ Tick \/ DaemonDies \/ FilesChange \/ Recheck \/ Kill
    \/ Shutdown \/ ShutdownLimited \/ StopMonitor \/ StopDaemon \/ StopWorker \/ StopLoops \/ Reset

Spec == Init /\ [][Next]_vars

\* Every daemon process that outlives its server is of one that did not shut down,
\* and the worker takes no run before the authority judges them or after it is gone.
ServerIsOrderly == left <= ends["disorderly"] /\ ~unjudged

=============================================================================
