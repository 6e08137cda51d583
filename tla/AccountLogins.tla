--------------------------- MODULE AccountLogins ---------------------------
(***************************************************************************)
(* Logins with the accounts of the Codex and Claude programs.  Each        *)
(* request runs the program in a thread of the event loop's pool and gives *)
(* up after some seconds; a login's process lives on until the user has    *)
(* signed in.  ProviderAccountService keeps the flows of account providers *)
(* in a file, beside the providers' configuration.                         *)
(*                                                                         *)
(* The programs are installed; whom they remember is theirs.  Providers    *)
(* stand for their types.                                                  *)
(***************************************************************************)
EXTENDS Integers, Sequences, FiniteSets

CONSTANTS
  Provider,     \* account providers: "codex" and "claude"
  Client,       \* clients with a request
  Pool,         \* threads
  RunTimeout,   \* time a status or logout command may run
  WaitRun,      \* time its request waits, the queue included
  WaitLogin,    \* time a login's request waits
  MaxJobs,
  None

AccountLoginsConstants == Pool \in Nat /\ {RunTimeout, WaitRun, WaitLogin, MaxJobs} \subseteq Nat

VARIABLES
  mode,       \* auth_mode of each provider, None for one that is not configured
  flows,      \* provider_account_flows.json
  jobs,       \* the commands given to the pool, and their processes
  call,       \* the job each client waits for, and for how long
  disturbed   \* providers another hand or a death kept from their flows

vars == <<mode, flows, jobs, call, disturbed>>

Quiet == [job |-> None]

Threads == {j \in DOMAIN jobs : jobs[j].state = "running"}

TypeOK ==
    /\ mode \in [Provider -> {"none", "api_key", "account", None}]
    /\ \A f \in flows :
          f.provider \in Provider /\ f.status \in {"pending", "approved", "revoked"}
    /\ \A j \in DOMAIN jobs :
          /\ jobs[j].op \in {"login", "run"} /\ jobs[j].provider \in Provider
          /\ jobs[j].state \in {"queued", "running", "ended", "failed", "stray", "shown", "cancelled"}
    /\ \A c \in Client : call[c] = Quiet \/ call[c].job \in DOMAIN jobs
    /\ disturbed \subseteq Provider

Init ==
    /\ mode \in [Provider -> {"none", "account"}]
    /\ flows = {} /\ jobs = <<>> /\ call = [c \in Client |-> Quiet] /\ disturbed = {}

State(j, s) == jobs' = [jobs EXCEPT ![j] = [@ EXCEPT !.state = s, !.age = 0]]

Limit(c) == IF jobs[call[c].job].op = "login" THEN WaitLogin ELSE WaitRun

----------------------------------------------------------------------------
(* Requests. *)

Submit(c, p, op, flow) ==
    /\ call[c] = Quiet /\ Len(jobs) < MaxJobs
    /\ jobs' = Append(jobs, [provider |-> p, op |-> op, state |-> "queued", age |-> 0])
    /\ call' = [call EXCEPT ![c] = [job |-> Len(jobs) + 1, flow |-> flow, wait |-> 0]]
    /\ UNCHANGED <<mode, flows, disturbed>>

\* A login of the program alone, and the login of a provider that is configured.
Login(c, p) == Submit(c, p, "login", FALSE)

StartFlow(c, p) == mode[p] # None /\ Submit(c, p, "login", TRUE)

\* auth-status and logout.
Run(c, p) == Submit(c, p, "run", FALSE)

\* A flow is written when the login has shown its code, for a provider that is
\* still there; if not, the request fails and the process goes on.
Answer(c) ==
    /\ call[c] # Quiet
    /\ LET q == call[c]
           j == jobs[q.job]
       IN  /\ j.state \notin {"queued", "running"}
           /\ flows' = IF q.flow /\ j.state = "shown" /\ mode[j.provider] # None
                       THEN flows \cup {[job |-> q.job, provider |-> j.provider,
                                         status |-> "pending"]}
                       ELSE flows
    /\ call' = [call EXCEPT ![c] = Quiet]
    /\ UNCHANGED <<mode, jobs, disturbed>>

\* What waits in the queue is cancelled, what runs goes on without anybody.
GiveUp(c) ==
    /\ call[c] # Quiet /\ call[c].wait = Limit(c)
    /\ LET j == call[c].job
       IN  /\ jobs[j].state \in {"queued", "running"}
           /\ IF jobs[j].state = "queued" THEN State(j, "cancelled") ELSE UNCHANGED jobs
    /\ call' = [call EXCEPT ![c] = Quiet]
    /\ UNCHANGED <<mode, flows, disturbed>>

----------------------------------------------------------------------------
(* The threads. *)

Take(j) ==
    /\ jobs[j].state = "queued" /\ Cardinality(Threads) < Pool
    /\ \A i \in 1 .. j - 1 : jobs[i].state # "queued"
    /\ State(j, "running")
    /\ UNCHANGED <<mode, flows, call, disturbed>>

\* A command ends, with whatever result.  A command that is too long is left
\* running: its exception does not know the process to kill.
EndRun(j) ==
    /\ jobs[j].state = "running" /\ jobs[j].op = "run"
    /\ \/ State(j, "ended")
       \/ jobs[j].age = RunTimeout /\ State(j, "stray")
    /\ UNCHANGED <<mode, flows, call, disturbed>>

\* The thread leaves a Claude login at once, a Codex login once it has shown an
\* address and a code; another is killed, at its end.
EndLogin(j) ==
    /\ jobs[j].state = "running" /\ jobs[j].op = "login"
    /\ \E result \in {"shown", "failed"} : State(j, result)
    /\ UNCHANGED <<mode, flows, call, disturbed>>

\* A Claude login and a command keep no thread beyond their time; a Codex login
\* that says nothing keeps it.
Hangs(j) == jobs[j].op = "login" /\ jobs[j].provider = "codex"

Older(j) ==
    IF jobs[j].state = "running" /\ jobs[j].age <= RunTimeout
    THEN [jobs[j] EXCEPT !.age = @ + 1] ELSE jobs[j]

Tick ==
    /\ \A c \in Client : call[c] # Quiet => call[c].wait < Limit(c)
    /\ \A j \in Threads : Hangs(j) \/ jobs[j].age < RunTimeout
    /\ call' = [c \in Client |-> IF call[c] = Quiet THEN Quiet
                                 ELSE [call[c] EXCEPT !.wait = @ + 1]]
    /\ jobs' = [j \in DOMAIN jobs |-> Older(j)]
    /\ UNCHANGED <<mode, flows, disturbed>>

----------------------------------------------------------------------------
(* Account providers.  The configuration is written before the flows; the  *)
(* server may die in between.                                              *)

Mark(p, from, to) ==
    flows' = {IF f.provider = p /\ f.status \in from THEN [f EXCEPT !.status = to] ELSE f :
                 f \in flows}

\* Threads, waiting requests and what is queued are gone, processes are not.
Die ==
    /\ call' = [c \in Client |-> Quiet]
    /\ jobs' = [j \in DOMAIN jobs |->
                  CASE jobs[j].state = "queued" -> [jobs[j] EXCEPT !.state = "cancelled"]
                    [] jobs[j].state = "running" -> [jobs[j] EXCEPT !.state = "stray", !.age = 0]
                    [] OTHER -> jobs[j]]

SetMode(p, m) == mode[p] # None /\ mode' = [mode EXCEPT ![p] = m]

Refresh(p) ==
    /\ SetMode(p, "account")
    /\ Mark(p, {"pending"}, "approved")
    /\ disturbed' = disturbed \ {p}
    /\ UNCHANGED <<jobs, call>>

Logout(p) ==
    /\ SetMode(p, "none")
    /\ Mark(p, {"pending", "approved"}, "revoked")
    /\ disturbed' = disturbed \ {p}
    /\ UNCHANGED <<jobs, call>>

DieBetween(p) ==
    /\ \/ SetMode(p, "account") /\ UNCHANGED disturbed
       \/ SetMode(p, "none") /\ disturbed' = disturbed \cup {p}
    /\ Die /\ UNCHANGED flows

Restart == Die /\ UNCHANGED <<mode, flows, disturbed>>

\* A provider is put with another mode, or removed.
Edit(p) ==
    /\ \E m \in {"api_key", None} : mode' = [mode EXCEPT ![p] = m]
    /\ disturbed' = disturbed \cup {p}
    /\ UNCHANGED <<flows, jobs, call>>

Next ==
    \/ \E c \in Client :
          \/ \E p \in Provider : Login(c, p) \/ StartFlow(c, p) \/ Run(c, p)
          \/ Answer(c) \/ GiveUp(c)
    \/ \E j \in DOMAIN jobs : Take(j) \/ EndRun(j) \/ EndLogin(j)
    \/ Tick
    \/ \E p \in Provider : Refresh(p) \/ Logout(p) \/ DieBetween(p) \/ Edit(p)
    \/ Restart

Spec == Init /\ [][Next]_vars

\* Every flow has a login of its own that showed its code, and is approved only
\* while its provider is in account mode; beyond its time a thread of the pool is
\* held by Codex logins only.
AccountsAreKept ==
    /\ \A f \in flows :
          /\ jobs[f.job].state = "shown" /\ jobs[f.job].provider = f.provider
          /\ f.status = "approved" => mode[f.provider] = "account" \/ f.provider \in disturbed
    /\ \A f, g \in flows : f.job = g.job => f = g
    /\ \A j \in Threads : jobs[j].age > RunTimeout => Hangs(j)

=============================================================================
