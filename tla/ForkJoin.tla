------------------------------ MODULE ForkJoin ------------------------------
(***************************************************************************)
(* What delegating work to child runs promises, with no mention of the     *)
(* worker, its tasks or the counters kept on disk: a run may wait for its  *)
(* children only while one of them is alive, and it resumes only when all  *)
(* of them are over.  ChildRuns is shown to implement this specification.  *)
(***************************************************************************)
CONSTANTS
  Run,      \* run ids
  Parent,   \* the run each run is a child of, or None
  None

VARIABLE phase

Children(p) == {c \in Run : Parent[c] = p}

Alive == {"active", "waiting"}

Init == phase = [r \in Run |-> "absent"]

----------------------------------------------------------------------------

Begin(r) ==
    /\ phase[r] = "absent" /\ phase'[r] = "active"
    /\ Parent[r] # None => phase[Parent[r]] \in Alive

Wait(r) ==
    /\ phase[r] = "active" /\ phase'[r] = "waiting"
    /\ \E c \in Children(r) : phase'[c] \in Alive

Resume(r) ==
    /\ phase[r] = "waiting" /\ phase'[r] = "active"
    /\ \A c \in Children(r) : phase'[c] \notin Alive

End(r) == phase[r] \in Alive /\ phase'[r] = "over"

Stay(r) == phase'[r] = phase[r]

\* A step may move several runs at once, as when the last child ends and its
\* parent resumes.
Next == \A r \in Run : Stay(r) \/ Begin(r) \/ Wait(r) \/ Resume(r) \/ End(r)

Spec == Init /\ [][Next]_phase

=============================================================================
