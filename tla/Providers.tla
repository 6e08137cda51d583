----------------------------- MODULE Providers -----------------------------
(***************************************************************************)
(* provider.json and what hangs on it: the providers an operator has       *)
(* configured, the one that is active, the roles bound to them, the        *)
(* catalogues of models cached by type, and the installation of models.    *)
(*                                                                         *)
(* Handlers run on one event loop.  Reading, normalising and writing the   *)
(* file is one step; a catalogue, a validation and an installation suspend *)
(* while they ask a remote service, and others run meanwhile.              *)
(***************************************************************************)
EXTENDS Integers, Sequences, Functions

CONSTANTS
  Id, TypeOf,   \* provider ids and the canonical type of each
  AccountId,    \* codex-account: put back while the CLI is installed
  LocalType,    \* ollama_local: its models are those of a local runtime
  Model,
  Pulled,       \* those that are installed
  Reader,       \* requests for a catalogue that run at a time
  Validator,    \* validations that run at a time
  Puts,         \* configurations clients put
  MaxEdits,     \* bound of the model on the changes of the configuration
  None

VARIABLES
  cfg,      \* provider.json
  cli,      \* whether the CLI of AccountId is in the path
  runtime,  \* the models the local runtime has
  cache,    \* _CATALOG_CACHE by type
  fetch,    \* catalogues under way
  check,    \* validations under way
  jobs,     \* _INSTALL_JOBS by model, and the shown status
  pulls,    \* number of pulls of each model, by stage
  edits     \* number of changes

vars == <<cfg, cli, runtime, cache, fetch, check, jobs, pulls, edits>>

Type == {TypeOf[i] : i \in Id}

-----------------------------------------------------------------------------
(* Normalisation *)

\* inject_cli_account_providers
WithAccount(providers) ==
    LET known == \E i \in DOMAIN providers :
                    TypeOf[i] = TypeOf[AccountId] /\ providers[i].auth = "account"
    IN  IF ~cli \/ AccountId \in DOMAIN providers \/ known
        THEN providers
        ELSE [i \in DOMAIN providers \union {AccountId} |->
                IF i = AccountId THEN [model |-> CHOOSE m \in Model : TRUE, auth |-> "account"]
                ELSE providers[i]]

\* A role is bound to a provider that exists, with a model of its own or the
\* provider's.
Binding(id, model, providers) ==
    IF id \notin DOMAIN providers THEN None
    ELSE [id |-> id, model |-> IF model = None THEN providers[id].model ELSE model]

FirstBound(bindings) ==
    LET bound == {n \in DOMAIN bindings : bindings[n] # None} IN
    IF bound = {} THEN None ELSE bindings[CHOOSE n \in bound : \A m \in bound : n <= m]

\* The orchestrator is that of the roles, of the old fields, the active provider
\* or any provider; without one the configuration is refused.
Orchestrator(c, providers) ==
    LET named == IF c.roles = None THEN None
                 ELSE Binding(c.roles.orchestrator.id, c.roles.orchestrator.model, providers)
        anyone == IF c.active \in DOMAIN providers THEN c.active
                  ELSE CHOOSE i \in DOMAIN providers : TRUE
    IN  FirstBound(<<named, Binding(c.active, None, providers), Binding(anyone, None, providers)>>)

\* Each binding is kept once, but for those that are dropped.
Deduplicated(bindings, dropped) ==
    LET kept[n \in 0..Len(bindings)] ==
            IF n = 0 THEN <<>>
            ELSE IF bindings[n] \in dropped \union Range(kept[n - 1]) THEN kept[n - 1]
            ELSE Append(kept[n - 1], bindings[n])
    IN  kept[Len(bindings)]

\* Workers without a provider, repeated ones and the orchestrator are dropped.
Workers(c, providers) ==
    LET bound == IF c.roles = None THEN <<>>
                 ELSE [n \in 1..Len(c.roles.workers) |->
                         Binding(c.roles.workers[n].id, c.roles.workers[n].model, providers)]
    IN  Deduplicated(bound, {None, Orchestrator(c, providers)})

\* hydrate_v2_fields: what is shown of the active provider is its own, but for
\* the outcome of a validation, which stays.
Normalized(c) ==
    LET providers == WithAccount(c.providers) IN
    [active |-> c.active, providers |-> providers, health |-> c.health,
     roles |-> [orchestrator |-> Orchestrator(c, providers), workers |-> Workers(c, providers)]]

Acceptable(c) == DOMAIN WithAccount(c.providers) # {}

\* get_config, which writes what it has normalised.
Config == Normalized(cfg)

-----------------------------------------------------------------------------
Idle == [type |-> None]

\* add_ui_provider_bridge and remove_ui_provider_bridge pass on neither roles
\* nor the outcome of a validation.
Plain(active, providers) ==
    [active |-> active, providers |-> providers, roles |-> None, health |-> None]

\* A file that clients have put, or the default, which needs a CLI.
Init ==
    /\ cli \in BOOLEAN
    /\ cfg \in {Normalized(p) : p \in {p \in Puts \union {Plain(AccountId, <<>>)} : Acceptable(p)}}
    /\ runtime = {}
    /\ cache = [t \in Type |-> None]
    /\ fetch = [r \in Reader |-> Idle] /\ check = [v \in Validator |-> Idle]
    /\ jobs = [m \in Pulled |-> None]
    /\ pulls = [m \in Pulled |-> [queued |-> 0, running |-> 0]] /\ edits = 0

\* invalidate_cache.  A catalogue that is being fetched is not told.
Invalidate(types) ==
    /\ cache' = [t \in Type |-> IF t \in types THEN None ELSE cache[t]]
    /\ fetch' = [r \in Reader |->
                   IF fetch[r].type \in types THEN [fetch[r] EXCEPT !.overtaken = TRUE]
                   ELSE fetch[r]]

\* Were only the catalogue of the active provider invalidated.
StoreActive(c) ==
    /\ Acceptable(c)
    /\ edits < MaxEdits /\ edits' = edits + 1
    /\ cfg' = Normalized(c)
    /\ Invalidate({TypeOf[cfg'.active]})
    /\ UNCHANGED <<cli, runtime, check, jobs, pulls>>

\* set_config: the types of all providers, before and after, are invalidated.
Store(c) ==
    /\ Acceptable(c)
    /\ edits < MaxEdits /\ edits' = edits + 1
    /\ cfg' = Normalized(c)
    /\ Invalidate({TypeOf[i] : i \in DOMAIN Config.providers \union DOMAIN cfg'.providers})
    /\ UNCHANGED <<cli, runtime, check, jobs, pulls>>

\* PUT /ops/provider.  What the client sends replaces what is there.
Put == \E c \in Puts : Store(c)

\* The bridges of the old interface
AddProvider(i, m) ==
    LET providers == [j \in DOMAIN Config.providers \union {i} |->
                        IF j = i THEN [model |-> m, auth |-> "none"] ELSE Config.providers[j]]
    IN  Store(Plain(IF Config.active \in DOMAIN providers THEN Config.active ELSE i, providers))

RemoveProvider(i) ==
    LET rest == Restrict(Config.providers, DOMAIN Config.providers \ {i}) IN
    /\ i \in DOMAIN Config.providers /\ DOMAIN rest # {}
    /\ \E a \in DOMAIN rest :
          /\ Config.active # i => a = Config.active \/ Config.active \notin DOMAIN rest
          /\ Store(Plain(IF Config.active = i THEN a ELSE Config.active, rest))

\* ProviderAccountService.refresh_account_ref and logout
Refresh(i) ==
    /\ i \in DOMAIN Config.providers
    /\ Store([Config EXCEPT !.active = i, !.providers = [@ EXCEPT ![i].auth = "account"]])

Logout(i) ==
    /\ i \in DOMAIN Config.providers
    /\ Store([Config EXCEPT !.providers[i].auth = "none"])

-----------------------------------------------------------------------------
(* Catalogues *)

\* list_installed_models
Installed(t) ==
    IF t = LocalType THEN runtime
    ELSE {Config.providers[i].model : i \in {i \in DOMAIN Config.providers : TypeOf[i] = t}}

\* get_catalog, when the cache has no answer: what is installed is read first.
StartCatalog(r, t) ==
    /\ fetch[r] = Idle
    /\ cache[t] = None
    /\ cfg' = Config
    /\ fetch' = [fetch EXCEPT ![r] = [type |-> t, models |-> Installed(t), overtaken |-> FALSE]]
    /\ UNCHANGED <<cli, runtime, cache, check, jobs, pulls, edits>>

EndCatalog(r) ==
    /\ fetch[r] # Idle
    /\ cache' = [cache EXCEPT ![fetch[r].type] = fetch[r]]
    /\ fetch' = [fetch EXCEPT ![r] = Idle]
    /\ UNCHANGED <<cfg, cli, runtime, check, jobs, pulls, edits>>

\* Its time to live is over.
Expire(t) ==
    /\ cache[t] # None
    /\ cache' = [cache EXCEPT ![t] = None]
    /\ UNCHANGED <<cfg, cli, runtime, fetch, check, jobs, pulls, edits>>

-----------------------------------------------------------------------------
(* Validations *)

StartValidation(v, t) ==
    /\ check[v] = Idle
    /\ check' = [check EXCEPT ![v] = [type |-> t]]
    /\ Invalidate({t})
    /\ UNCHANGED <<cfg, cli, runtime, jobs, pulls, edits>>

\* record_validation_result: the first provider of the type, or else the active
\* one, becomes active, whatever the outcome.
Validated(c, t, ok) ==
    LET ofType == {i \in DOMAIN c.providers : TypeOf[i] = t} IN
    {[c EXCEPT !.active = i, !.health = [of |-> i, valid |-> ok]] :
        i \in IF ofType # {} THEN ofType ELSE {c.active} \cap DOMAIN c.providers}

EndValidation(v, ok) ==
    /\ check[v] # Idle
    /\ check' = [check EXCEPT ![v] = Idle]
    /\ LET recorded == Validated(Config, check[v].type, ok) IN
       IF recorded = {} THEN cfg' = Config ELSE cfg' \in recorded
    /\ UNCHANGED <<cli, runtime, cache, fetch, jobs, pulls, edits>>

-----------------------------------------------------------------------------
(* Installations of models in the local runtime *)

\* install_model: the job is named after the model, and shown by its last event.
Install(m) ==
    /\ pulls[m].queued + pulls[m].running < 2
    /\ jobs' = [jobs EXCEPT ![m] = "queued"]
    /\ pulls' = [pulls EXCEPT ![m].queued = @ + 1]
    /\ UNCHANGED <<cfg, cli, runtime, cache, fetch, check, edits>>

StartPull(m) ==
    /\ pulls[m].queued > 0
    /\ jobs' = [jobs EXCEPT ![m] = "running"]
    /\ pulls' = [pulls EXCEPT ![m].queued = @ - 1, ![m].running = @ + 1]
    /\ UNCHANGED <<cfg, cli, runtime, cache, fetch, check, edits>>

\* _execute_install_job after the command
EndPull(m) ==
    /\ pulls[m].running > 0
    /\ pulls' = [pulls EXCEPT ![m].running = @ - 1]
    /\ \/ /\ runtime' = runtime \union {m}
          /\ jobs' = [jobs EXCEPT ![m] = "done"]
          /\ Invalidate({LocalType})
       \/ /\ jobs' = [jobs EXCEPT ![m] = "error"]
          /\ UNCHANGED <<runtime, cache, fetch>>
    /\ UNCHANGED <<cfg, cli, check, edits>>

\* A restart forgets all but the file and the models that were pulled.
Restart ==
    /\ cfg' = Config
    /\ cache' = [t \in Type |-> None]
    /\ fetch' = [r \in Reader |-> Idle] /\ check' = [v \in Validator |-> Idle]
    /\ jobs' = [m \in Pulled |-> None]
    /\ pulls' = [m \in Pulled |-> [queued |-> 0, running |-> 0]]
    /\ UNCHANGED <<cli, runtime, edits>>

Next ==
    \/ Put
    \/ \E i \in Id : (\E m \in Model : AddProvider(i, m)) \/ RemoveProvider(i) \/ Refresh(i) \/ Logout(i)
    \/ \E r \in Reader : EndCatalog(r) \/ \E t \in Type : StartCatalog(r, t)
    \/ \E t \in Type : Expire(t) \/ \E v \in Validator : StartValidation(v, t)
    \/ \E v \in Validator, ok \in BOOLEAN : EndValidation(v, ok)
    \/ \E m \in Pulled : Install(m) \/ StartPull(m) \/ EndPull(m)
    \/ Restart

Spec == Init /\ [][Next]_vars

-----------------------------------------------------------------------------
Entry == [model : Model, auth : {"none", "account", "api_key"}]

TypeOK ==
    /\ DOMAIN cfg.providers \subseteq Id /\ Range(cfg.providers) \subseteq Entry
    /\ cfg.active \in Id
    /\ cfg.health = None \/ cfg.health \in [of : Id, valid : BOOLEAN]
    /\ runtime \subseteq Model
    /\ jobs \in [Pulled -> {None, "queued", "running", "done", "error"}]

\* Whatever clients put, add, remove or log out, the file names an orchestrator
\* and workers that exist, each binding once, and reading it changes nothing.
RolesAreBound ==
    LET r == cfg.roles IN
    /\ \A b \in {r.orchestrator} \union Range(r.workers) : b.id \in DOMAIN cfg.providers
    /\ IsInjective(r.workers) /\ r.orchestrator \notin Range(r.workers)
    /\ Config = cfg

\* A cached catalogue shows the models that are configured or pulled now, unless
\* it was being fetched while they changed.
CatalogIsCurrent ==
    \A t \in Type :
        cache[t] # None /\ ~cache[t].overtaken => cache[t].models = Installed(t)

\* An installation that shows as under way is, and one that shows as done left
\* its model, even if several of one model share the record.
JobsAreTrue ==
    \A m \in Pulled :
        /\ jobs[m] \in {"queued", "running"} => pulls[m].queued + pulls[m].running > 0
        /\ jobs[m] = "done" => m \in runtime

\* What clients see of providers is so.
ProvidersAreShown == RolesAreBound /\ CatalogIsCurrent /\ JobsAreTrue

=============================================================================
