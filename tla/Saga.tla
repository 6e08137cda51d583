-------------------------------- MODULE Saga --------------------------------
(***************************************************************************)
(* What a pipeline promises: its stages come to a result one after the     *)
(* other, each to one; after a failure the stages that came to a result    *)
(* are undone, the last one first; a halt keeps what was done.             *)
(***************************************************************************)
EXTENDS Naturals, Sequences

CONSTANT Stages    \* the stages, in order

VARIABLES
  begun,    \* the stages that came to a result, in order
  undone,   \* the stages that were undone, in order
  state

vars == <<begun, undone, state>>

Init == begun = <<>> /\ undone = <<>> /\ state = "forward"

Advance ==
    /\ state = "forward"
    /\ Len(begun) < Len(Stages)
    /\ begun' = Append(begun, Stages[Len(begun) + 1])
    /\ \/ state' = (IF Len(begun) + 1 = Len(Stages) THEN "completed" ELSE "forward")
       \/ state' = "halted"
       \/ state' = "backward"
    /\ UNCHANGED undone

Undo ==
    /\ state = "backward"
    /\ Len(undone) < Len(begun)
    /\ undone' = Append(undone, begun[Len(begun) - Len(undone)])
    /\ state' = (IF Len(undone) + 1 = Len(begun) THEN "failed" ELSE "backward")
    /\ UNCHANGED begun

\* The server dies, or an error leaves the pipeline: nothing more is undone.
Abort ==
    /\ state \in {"forward", "backward"}
    /\ \/ begun' = begun
       \/ Len(begun) < Len(Stages) /\ begun' = Append(begun, Stages[Len(begun) + 1])
    /\ state' = "aborted"
    /\ UNCHANGED undone

Next == Advance \/ Undo \/ Abort

Spec == Init /\ [][Next]_vars

=============================================================================
