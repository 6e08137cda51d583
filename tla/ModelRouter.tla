---------------------------- MODULE ModelRouter ----------------------------
(***************************************************************************)
(* ModelRouterService.choose_model: the model a workflow's node is given,  *)
(* out of those the providers have, by the task of the node, the economy   *)
(* settings, the load of the machine and what the providers have cost.     *)
(*                                                                         *)
(* A decision is taken in one step.  Every model can chat, so that the     *)
(* capability a task needs is given up before its tier is.                 *)
(***************************************************************************)
EXTENDS Integers, FiniteSets

CONSTANTS
  Model, Info,    \* model ids; the tier, cost, provider, place and capability of each
  ActiveModel,    \* the model of the active provider
  Task,           \* what tasks require: a capability and a tier
  Economy,        \* settings: floor and ceiling of tiers (0: none), eco mode, ...
  Load,           \* subset of {"safe", "caution", "critical"}
  Exhausted,      \* sets of providers that have spent their budget
  Leader,         \* models that may have the best return of the task, or None
  None

VARIABLES query, decision

vars == <<query, decision>>

Tier == 1..5

\* What the decision is taken from; a refreshed inventory has the active model.
Query ==
    [explicit : Model \union {None}, task : Task, economy : Economy, load : Load,
     inventory : {i \in SUBSET Model : i # {} => ActiveModel \in i},
     exhausted : Exhausted, leader : Leader]

Init == query \in Query /\ decision = None

-----------------------------------------------------------------------------
Least(S, Rank(_)) == {m \in S : \A o \in S : Rank(m) <= Rank(o)}

Blocked(m, q) == Info[m].isLocal /\ q.load = "critical" /\ ~q.economy.override

\* _adjust_tier_min_for_eco_mode and _adjust_tier_bounds
Lower(a, b) == IF a < b THEN a ELSE b
Higher(a, b) == IF a < b THEN b ELSE a

TierMin(q) ==
    LET e == q.economy
        eco == IF e.eco = "binary" /\ e.autonomous THEN Lower(q.task.tier, e.ecoFloor)
               ELSE q.task.tier
    IN  IF e.floor = 0 THEN eco ELSE Higher(eco, e.floor)

TierMax(q) == IF q.economy.ceiling = 0 THEN 5 ELSE Lower(5, q.economy.ceiling)

Within(q) == {m \in q.inventory : Info[m].tier \in TierMin(q)..TierMax(q)}

\* _filter_capabilities
Capable(q) ==
    LET able == {m \in Within(q) : q.task.capability \in Info[m].capabilities} IN
    IF able = {} THEN Within(q) ELSE able

\* A filter that leaves nothing is not applied.
Unless(filtered, all) == IF filtered = {} THEN all ELSE filtered

\* _filter_hardware
CautionSafe(m) == ~Info[m].isLocal \/ Info[m].small \/ Info[m].tier <= 2

OnHardware(S, q) ==
    CASE q.load = "critical" -> Unless({m \in S : ~Blocked(m, q)}, S)
      [] q.load = "caution"  -> Unless({m \in S : CautionSafe(m)}, S)
      [] OTHER               -> S

\* _filter_budget_exhausted
Affordable(S, q) == Unless({m \in S : Info[m].provider \notin q.exhausted}, S)

\* Were the budget looked at before the load.
CandidatesByBudget(q) == OnHardware(Affordable(Capable(q), q), q)

Candidates(q) == Affordable(OnHardware(Capable(q), q), q)

\* The cheapest in eco mode, else one of the highest tier; the model with the
\* best return of the task goes before its equals.
Best(q) ==
    LET Cost(m) == Info[m].cost
        Distance(m) == 5 - Info[m].tier
        best == IF q.economy.eco # "off" /\ q.economy.autonomous
                THEN Least(Candidates(q), Cost) ELSE Least(Candidates(q), Distance)
    IN  Unless(best \intersect {q.leader}, best)

\* _fallback_decision
Fallback(q) == IF q.inventory = {} THEN "unknown" ELSE ActiveModel

Choices(q) ==
    IF q.explicit \in q.inventory /\ ~Blocked(q.explicit, q) THEN {q.explicit}
    ELSE IF Candidates(q) = {} THEN {Fallback(q)} ELSE Best(q)

ChooseModel ==
    /\ decision = None
    /\ decision' \in Choices(query)
    /\ UNCHANGED query

Next == ChooseModel

Spec == Init /\ [][Next]_vars

-----------------------------------------------------------------------------
TypeOK == query \in Query /\ decision \in Model \union {None, "unknown"}

\* A chosen model that was not named by the node: on a machine at its limit it
\* runs elsewhere if any model of the allowed tiers that fits the task does; it
\* is within the floor and the ceiling if any model is; and its provider has
\* spent its budget only if no model left by the other rules is of another one.
RoutingIsSound ==
    LET q == query
        able == {m \in Within(q) : q.task.capability \in Info[m].capabilities}
        fitting == IF able = {} THEN Within(q) ELSE able
    IN  decision \in Model \ {q.explicit} =>
            /\ Within(q) # {} => decision \in fitting
            /\ (\E m \in fitting : ~Blocked(m, q)) => ~Blocked(decision, q)
            /\ Info[decision].provider \in q.exhausted =>
                  ~\E m \in fitting : /\ Info[m].provider \notin q.exhausted
                                      /\ ~Blocked(m, q)
                                      /\ q.load = "caution" => CautionSafe(m)

=============================================================================
