------------------------------ MODULE Cascade ------------------------------
(***************************************************************************)
(* How an answer of a model is obtained: CascadeService, which asks better *)
(* models until one answers well enough, over ProviderService, which may   *)
(* send a request to a more reliable model than the one it names, and may  *)
(* take the answer from a cache shared by all.                             *)
(*                                                                         *)
(* Cascades run concurrently; each suspends only while a model answers.    *)
(* The inventory of models is refreshed and a model's reliability judged   *)
(* meanwhile.  The key of the cache is the prompt and the type of task,    *)
(* one value here.                                                         *)
(***************************************************************************)
EXTENDS Integers, Sequences

CONSTANTS
  Model, Tier, Cost,   \* of every model
  Caller, Prompt,
  Bindings,            \* models bound to the roles, in their order
  MaxEscalations,      \* economy.cascade.max_escalations
  MaxTier,             \* economy.cascade.max_tier
  Budget,              \* of a node, in the unit of Cost; None if it has none
  CacheEnabled,        \* economy.cache_enabled
  None

VARIABLES
  inventory,  \* the models that are available
  trust,      \* those the GICS daemon finds reliable: no anomaly, a score of 0.35
  cached,     \* of each prompt, the model that answered and how well
  job         \* the cascades under way

vars == <<inventory, trust, cached, job>>

\* One attempt: the model asked for, the one that answered, None after an error,
\* whether the answer was good, whether it was the cache's, and whether the model
\* asked for was available in the end.
Attempt == [asked : Model, by : Model \union {None}, good : BOOLEAN, hit : BOOLEAN,
            known : BOOLEAN]

Idle == [stage |-> "idle", prompt |-> None, model |-> None, by |-> None,
         chain |-> <<>>, final |-> None, spent |-> 0]

Init ==
    /\ inventory \in SUBSET Model \ {{}}
    /\ trust \in SUBSET Model
    /\ cached = [p \in Prompt |-> None]
    /\ job = [c \in Caller |-> Idle]

-----------------------------------------------------------------------------
\* One of the cheapest
Cheapest(S) == {m \in S : \A o \in S : Cost[m] <= Cost[o]}

\* Without a model of its own, a node starts with the lowest tier.
Lowest == Cheapest({m \in inventory : \A o \in inventory : Tier[m] <= Tier[o]})

\* _get_next_model.  A model that is no longer available counts as of tier 3.
TierOf(m) == IF m \in inventory THEN Tier[m] ELSE 3

Better(m) == Cheapest({o \in inventory : Tier[o] \in TierOf(m) + 1..MaxTier})

\* _select_runtime_binding_with_reliability: instead of an unreliable model, a
\* reliable one that is bound to a role answers, that of the highest score.  An
\* anomalous one of a score still higher stays.
Effective(m) ==
    LET reliable == {n \in 1..Len(Bindings) : Bindings[n] \in trust} IN
    IF m \in trust \/ reliable = {} THEN {m}
    ELSE {m} \union {Bindings[n] : n \in reliable}

-----------------------------------------------------------------------------
\* Were the last unit of the budget spent twice.
WithinBudgetOver(j) == Budget = None \/ j.spent <= Budget

\* The budget is looked at between attempts.
WithinBudget(j) == Budget = None \/ j.spent < Budget

MayEscalate(j) == Len(j.chain) < MaxEscalations + 1 /\ WithinBudget(j)

\* execute_with_cascade after an attempt.  An error does not replace an answer.
After(j, by, good, hit) ==
    LET attempt == [asked |-> j.model, by |-> by, good |-> good, hit |-> hit,
                    known |-> j.model \in inventory]
        next == [j EXCEPT !.chain = Append(j.chain, attempt), !.by = None,
                          !.final = IF by = None THEN j.final ELSE by,
                          !.spent = j.spent + IF hit \/ by = None THEN 0 ELSE Cost[by]]
    IN  IF good \/ ~MayEscalate(next) \/ Better(j.model) = {}
        THEN {[next EXCEPT !.stage = "done"]}
        ELSE {[next EXCEPT !.stage = "ask", !.model = m] : m \in Better(j.model)}

\* A node names a model or starts with one of the lowest.
Execute(c, p, named) ==
    /\ job[c].stage \in {"idle", "done"}
    /\ \E m \in IF named = None THEN Lowest ELSE {named} :
          job' = [job EXCEPT ![c] = [Idle EXCEPT !.stage = "ask", !.prompt = p, !.model = m]]
    /\ UNCHANGED <<inventory, trust, cached>>

\* static_generate.  The cache is asked before the model, whichever it is.
FromCache(c) ==
    /\ job[c].stage = "ask" /\ CacheEnabled /\ cached[job[c].prompt] # None
    /\ LET answer == cached[job[c].prompt] IN
       \E next \in After(job[c], answer.by, answer.good, TRUE) : job' = [job EXCEPT ![c] = next]
    /\ UNCHANGED <<inventory, trust, cached>>

Ask(c) ==
    /\ job[c].stage = "ask" /\ (CacheEnabled => cached[job[c].prompt] = None)
    /\ \E m \in Effective(job[c].model) :
          job' = [job EXCEPT ![c].stage = "called", ![c].by = m]
    /\ UNCHANGED <<inventory, trust, cached>>

Answered(c, good) ==
    /\ job[c].stage = "called"
    /\ \E next \in After(job[c], job[c].by, good, FALSE) : job' = [job EXCEPT ![c] = next]
    /\ cached' = IF CacheEnabled
                 THEN [cached EXCEPT ![job[c].prompt] = [by |-> job[c].by, good |-> good]]
                 ELSE cached
    /\ UNCHANGED <<inventory, trust>>

\* The adapter raises, and the failure is told to the GICS daemon.
Failed(c) ==
    /\ job[c].stage = "called"
    /\ \E next \in After(job[c], None, FALSE, FALSE) : job' = [job EXCEPT ![c] = next]
    /\ trust' \in {trust, trust \ {job[c].by}}
    /\ UNCHANGED <<inventory, cached>>

\* cache_ttl_hours have passed.
Expire(p) ==
    /\ cached[p] # None
    /\ cached' = [cached EXCEPT ![p] = None]
    /\ UNCHANGED <<inventory, trust, job>>

\* refresh_inventory, for another node, finds other models.
Refresh ==
    /\ inventory' \in SUBSET Model \ {{}}
    /\ UNCHANGED <<trust, cached, job>>

\* Its reliability is seen anew: a model becomes reliable.
Recover(m) ==
    /\ trust' = trust \union {m}
    /\ UNCHANGED <<inventory, cached, job>>

Next ==
    \/ \E c \in Caller :
          \/ \E p \in Prompt, named \in Model \union {None} : Execute(c, p, named)
          \/ FromCache(c) \/ Ask(c) \/ Failed(c)
          \/ \E good \in BOOLEAN : Answered(c, good)
    \/ \E p \in Prompt : Expire(p)
    \/ \E m \in Model : Recover(m)
    \/ Refresh

Spec == Init /\ [][Next]_vars

-----------------------------------------------------------------------------
TypeOK ==
    /\ inventory \subseteq Model
    /\ trust \subseteq Model
    /\ \A c \in Caller :
          /\ job[c].stage \in {"idle", "ask", "called", "done"}
          /\ job[c].chain \in Seq(Attempt)
          /\ job[c].final \in Model \union {None}

\* A cascade ends with the first good answer or the last one, however many calls
\* raised; it asks a model of a higher tier each time, unless the one before was
\* no longer available; and it asks no more once the budget is spent.
CascadesClimb ==
    \A c \in Caller :
        LET j == job[c]
            last == Len(j.chain)
            answered == {n \in 1..last : j.chain[n].by # None}
            cost == IF last = 0 \/ j.chain[last].hit \/ j.chain[last].by = None THEN 0
                    ELSE Cost[j.chain[last].by]
        IN  /\ last <= MaxEscalations + 1
            /\ \A n \in 1..last : j.chain[n].good => n = last /\ j.stage = "done"
            /\ \A n \in 2..last :
                  j.chain[n - 1].known => Tier[j.chain[n].asked] > Tier[j.chain[n - 1].asked]
            /\ j.final = None <=> answered = {}
            /\ answered # {} =>
                  \E n \in answered : (\A o \in answered : o <= n) /\ j.final = j.chain[n].by
            /\ Budget # None /\ last > 1 => j.spent - cost < Budget

=============================================================================
