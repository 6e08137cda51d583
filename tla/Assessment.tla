----------------------------- MODULE Assessment -----------------------------
(***************************************************************************)
(* CapabilityProfileService and the CognitiveAssessmentStage of child      *)
(* runs: a child is assessed before it works, by what the daemon keeps of  *)
(* its model on tasks of its type; the review and the end of the child are *)
(* recorded there, and so is a refusal to try.                             *)
(*                                                                         *)
(* A get that gets no answer is a record that does not exist, and nobody   *)
(* is told of a put that did not arrive.  The children name one model and  *)
(* its provider.  Prompts are data; what the strategies other than         *)
(* "escalate" change is dropped with the stage's copy of the context.      *)
(***************************************************************************)
EXTENDS Integers, FiniteSets

CONSTANTS
  Task,         \* types of tasks
  Child,        \* children of one parent, numbered in the order of their creation
  Given,        \* what types of tasks the children may have
  Signals,      \* signals of context each child has, but for feedback
  Scope,        \* tenths: 9 small, 7 unclear, 6 medium, 3 large
  Attempts,     \* bound on the attempts of each
  None

AssessmentConstants ==
    /\ IsFiniteSet(Child) /\ Given \subseteq [Child -> Task]
    /\ Signals \in [Child -> Nat] /\ Scope \in [Child -> Nat] /\ Attempts \in [Child -> Nat \ {0}]
    /\ None # "escalate"
    /\ None \notin [successes : Nat, failures : Nat] \cup [successes : Nat, failures : Nat, streak : Nat]

VARIABLES
  profile,   \* the daemon's record of each type of task
  known,     \* the types in its index
  child,     \* what each child is at, and what it was found to be
  recorded,  \* successes and failures the server recorded
  astray     \* types a command about which was lost

vars == <<profile, known, child, recorded, astray>>

Strategies == {"direct_execute", "enrich_context", "multi_pass", "subdivide", "escalate"}

TypeOK ==
    /\ \A t \in Task :
          profile[t] # None => profile[t] \in [successes : Nat, failures : Nat, streak : Nat]
    /\ known \subseteq Task /\ astray \subseteq Task
    /\ \A c \in Child :
          /\ child[c].at \in {"pending", "working", "reviewed", "escalated", "done", "ended"}
          /\ child[c].task \in Task
          /\ child[c].feedback \in BOOLEAN /\ child[c].attempt \in 1..Attempts[c]
          /\ child[c].strategy \in Strategies \cup {None}
    /\ recorded \in [Task -> [successes : Nat, failures : Nat]]

Init ==
    /\ profile = [t \in Task |-> None] /\ known = {} /\ astray = {}
    /\ \E type \in Given : child = [c \in Child |->
          [task |-> type[c], at |-> "pending", feedback |-> FALSE, attempt |-> 1,
           strategy |-> None, base |-> 0, history |-> None]]
    /\ recorded = [t \in Task |-> [successes |-> 0, failures |-> 0]]

----------------------------------------------------------------------------
(* Profiles. *)

NoFields == [successes |-> 0, failures |-> 0, streak |-> 0]

\* record_task_outcome.  The samples are the successes and the failures.
WithOutcome(f, success) ==
    [successes |-> f.successes + (IF success THEN 1 ELSE 0),
     failures |-> f.failures + (IF success THEN 0 ELSE 1),
     streak |-> IF success THEN 0 ELSE f.streak + 1]

\* Two commands for the record, then one or two for the index: heard and written are
\* those that are answered and applied.
Record(t, success, heard, written) ==
    /\ profile' =
          IF "record" \notin written THEN profile
          ELSE [profile EXCEPT ![t] =
                  WithOutcome(IF @ = None \/ "record" \notin heard THEN NoFields ELSE @, success)]
    /\ known' =
          IF "index" \in heard
          THEN IF "index" \in written THEN known \cup {t} ELSE known
          ELSE IF "index" \in written THEN {t} ELSE known
    /\ recorded' = IF success THEN [recorded EXCEPT ![t].successes = @ + 1]
                   ELSE [recorded EXCEPT ![t].failures = @ + 1]
    /\ astray' = IF {"record", "index"} \subseteq heard \cap written THEN astray
                 ELSE astray \cup {t} \cup (IF "index" \in heard THEN {} ELSE known)

----------------------------------------------------------------------------
(* The assessment. *)

\* _gather_sibling_context, in tenths.
SiblingScore(c) ==
    LET outputs == Cardinality({s \in Child \ {c} : child[s].at = "done"})
    IN  IF outputs >= 3 THEN 10 ELSE 5 + 2 * outputs

\* All but history, in fourteen-thousandths: a quarter for the sevenths of context,
\* a fifth for the scope, three twentieths for the siblings, a tenth and one signal
\* more for feedback.
Base(c) ==
    LET signals == Signals[c] + (IF child[c].feedback THEN 1 ELSE 0)
    IN  500 * signals + 280 * Scope[c] + 210 * SiblingScore(c)
        + (IF child[c].feedback THEN 1400 ELSE 0)

\* _assess_historical: tenths of the rate of successes, as a numerator and the samples.
History(f) ==
    IF f = None THEN <<5, 1>>
    ELSE LET weight == IF f.streak >= 3 THEN 5 ELSE IF f.streak >= 2 THEN 7 ELSE 10
         IN  <<weight * f.successes, f.successes + f.failures>>

\* The confidence, with history for two fifths, rounded to thousandths.
Strategy(f, base) ==
    LET h == History(f)
        Reaches(tenths) == 560 * h[1] + h[2] * (base + 7) >= 1400 * tenths * h[2]
    IN  CASE Reaches(8) -> "direct_execute"
          [] Reaches(6) -> "enrich_context"
          [] Reaches(4) -> "multi_pass"
          [] Reaches(2) -> "subdivide"
          [] OTHER -> "escalate"

\* execute.  A get without an answer is a first attempt; a child that is escalated
\* awaits a review that nothing acts upon.
Assess(c, answered, heard, written) ==
    /\ child[c].at = "pending"
    /\ LET t == child[c].task
           strategy == Strategy(IF answered THEN profile[t] ELSE None, Base(c))
       IN  /\ child' = [child EXCEPT ![c] =
                 [@ EXCEPT !.at = IF strategy = "escalate" THEN "escalated" ELSE "working",
                           !.strategy = strategy, !.base = Base(c),
                           !.history = IF answered /\ t \notin astray THEN recorded[t] ELSE None]]
           /\ IF strategy = "escalate" THEN Record(t, FALSE, heard, written)
              ELSE UNCHANGED <<profile, known, recorded, astray>>

----------------------------------------------------------------------------
(* What follows. *)

\* The orchestrator's word on a child's output.
Approve(c, heard, written) ==
    /\ child[c].at = "working"
    /\ child' = [child EXCEPT ![c].at = "reviewed"]
    /\ Record(child[c].task, TRUE, heard, written)

\* NO-GO, or 600 s without an answer.
Refuse(c, heard, written) ==
    /\ child[c].at = "working" /\ child[c].attempt < Attempts[c]
    /\ child' = [child EXCEPT ![c] =
          [@ EXCEPT !.at = "pending", !.feedback = TRUE, !.attempt = child[c].attempt + 1]]
    /\ Record(child[c].task, FALSE, heard, written)

\* The worker sees it end: a run that passed its review is recorded once more, and one
\* that was cancelled or failed before is a failure of its model.
Complete(c, heard, written) ==
    /\ child[c].at \in {"working", "reviewed"}
    /\ LET success == child[c].at = "reviewed"
       IN  /\ child' = [child EXCEPT ![c].at = IF success THEN "done" ELSE "ended"]
           /\ Record(child[c].task, success, heard, written)

\* Bound: commands are lost in one operation only, one or all of them.
Deliveries ==
    LET both == {"record", "index"}
        one == {{"record"}, {"index"}}
    IN  {<<both, both>>}
        \cup IF astray = {} THEN {<<{}, {}>>} \cup (one \X {both}) \cup ({both} \X one) ELSE {}

Work(c, heard, written) ==
    \/ \E answered \in BOOLEAN : Assess(c, answered, heard, written)
    \/ Approve(c, heard, written) \/ Refuse(c, heard, written) \/ Complete(c, heard, written)

Next == \E c \in Child, delivery \in Deliveries : Work(c, delivery[1], delivery[2])

Spec == Init /\ [][Next]_vars

----------------------------------------------------------------------------
(* Properties. *)

Samples(r) == r.successes + r.failures

\* What the daemon keeps is what was recorded, unless a command was lost, and never
\* more than that.
ProfilesAreExact ==
    \A t \in Task :
       /\ profile[t] # None =>
             /\ profile[t].streak <= profile[t].failures
             /\ profile[t].successes <= recorded[t].successes
             /\ profile[t].failures <= recorded[t].failures
       /\ t \notin astray =>
             /\ Samples(IF profile[t] = None THEN NoFields ELSE profile[t]) = Samples(recorded[t])
             /\ (t \in known <=> profile[t] # None)

\* A model is refused a task only when it was recorded failing at one of the type, and
\* one that was refused is refused again, as long as it knows no success in between and
\* nothing else speaks more for it: refusals count as failures.
RefusalsAreEarned ==
    \A c \in Child : child[c].at = "escalated" =>
       /\ recorded[child[c].task].failures > Cardinality({d \in Child :
             child[d].at = "escalated" /\ child[d].task = child[c].task})
       /\ \A d \in Child :
             (/\ child[d].strategy # None /\ child[d].task = child[c].task
              /\ child[c].history # None /\ child[d].history # None
              /\ child[d].history.successes = child[c].history.successes
              /\ child[d].history.failures > child[c].history.failures
              /\ child[d].base <= child[c].base)
             => child[d].strategy = "escalate"

AssessmentsAreFair == ProfilesAreExact /\ RefusalsAreEarned

=============================================================================
