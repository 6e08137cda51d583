------------------------------ MODULE RunLog -------------------------------
(***************************************************************************)
(* A run's event log, summarised: OpsService replays the log of a run over *)
(* its base record, and replay keeps the last value of each field.  So a   *)
(* log is its length, of which only the comparison with CompactAt matters, *)
(* and the last value per field.  RunEventLog checks the summary against   *)
(* the replay loop of the code.                                            *)
(***************************************************************************)
EXTENDS Integers

CONSTANTS
  None,        \* Python's None: in a log, no event for the field
  CompactAt    \* events that trigger a compaction (50 in the code)

EmptyLog == [length |-> 0, status |-> None, stage |-> None, marks |-> {}]

\* One more line; beyond CompactAt the count no longer matters.
Longer(l) == [l EXCEPT !.length = IF @ < CompactAt THEN @ + 1 ELSE @]

\* The three kinds of events: status, stage and merge_meta.
AddStatus(l, s) == [Longer(l) EXCEPT !.status = s]
AddMark(l, m) == [Longer(l) EXCEPT !.marks = @ \cup {m}]

\* Mutant: a stage line is written as a status line.
AddStageAsStatus(l, g) == [Longer(l) EXCEPT !.status = g]

AddStage(l, g) == [Longer(l) EXCEPT !.stage = g]

Overlay(event, value) == IF event = None THEN value ELSE event

\* _materialize_run: what a reader sees of base b with log l.
Materialize(b, l) ==
    [b EXCEPT !.status = Overlay(l.status, @),
              !.stage = Overlay(l.stage, @),
              !.marks = @ \cup l.marks]

=============================================================================
