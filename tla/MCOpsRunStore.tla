--------------------------- MODULE MCOpsRunStore ---------------------------
EXTENDS OpsRunStore, TLC

\* Run ids are interchangeable: they are random, and nothing orders them.
RunSymmetry == Permutations(Run)

ReviewStatus == {"running", "awaiting_review", "cancelled"}

\* One status of each row of the transition table that is alike.
ClassStatus == ReviewStatus \cup {"HUMAN_APPROVAL_REQUIRED", "MERGE_CONFLICT", "done"}

\* One run goes through all classes, with stages and marks; a parent and
\* its child, or a run and its rerun, through the statuses of ReviewStatus.
FewWhenTwo ==
    \/ Cardinality({r \in Run : base[r] # Absent}) < 2
    \/ \A r \in Stored :
          /\ View(r).stage = None
          /\ View(r).marks = {}
          /\ {base[r].status, View(r).status} \subseteq ReviewStatus \cup {"pending", "error"}

=============================================================================
