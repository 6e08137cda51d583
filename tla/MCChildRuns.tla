---------------------------- MODULE MCChildRuns ----------------------------
EXTENDS ChildRuns, TLC

\* A root with three tasks: one is plain work, one delegates again, and the
\* last needs both.  Beside it a run that works alone.
FamilyRuns == {"root", "plain", "lead", "helper", "last", "other"}
FamilyParent ==
    "root" :> None @@ "plain" :> "root" @@ "lead" :> "root" @@ "last" :> "root"
    @@ "helper" :> "lead" @@ "other" :> None
FamilyPlanned == {"plain", "lead", "helper", "last"}
FamilyDependsOn ==
    [r \in FamilyRuns |-> IF r = "last" THEN {"plain", "lead"} ELSE {}]

\* A root with two tasks, the second of which needs the first.
ChainRuns == {"root", "first", "second"}
ChainParent == "root" :> None @@ "first" :> "root" @@ "second" :> "root"
ChainPlanned == {"first", "second"}
ChainDependsOn == "root" :> {} @@ "first" :> {} @@ "second" :> {"first"}

\* A root that delegates to a leader, who is at the depth limit and may not
\* delegate again, and to a plain worker; a client may add an extra child.
TreeRuns == {"root", "leader", "helper", "plain", "extra"}
TreeParent ==
    "root" :> None @@ "leader" :> "root" @@ "plain" :> "root" @@ "extra" :> "root"
    @@ "helper" :> "leader"
TreePlanned == {"leader", "plain", "helper"}
TreeDependsOn == [r \in TreeRuns |-> {}]

=============================================================================
