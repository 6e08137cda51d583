---------------------------- MODULE RunEventLog ----------------------------
(***************************************************************************)
(* One run's base record and its event log as a sequence of lines, replayed*)
(* by the loop of _materialize_run, beside the summary of RunLog that      *)
(* OpsRunStore keeps instead.                                              *)
(***************************************************************************)
EXTENDS RunLog, Sequences

CONSTANTS
  RunState,    \* statuses an event can carry
  Stage,       \* stages an event can carry
  MergeField,  \* merge metadata fields an event can carry
  MaxEvents    \* bound on the lines of the log

RunEventLogConstants ==
    /\ CompactAt \in Nat \ {0} /\ MaxEvents \in Nat /\ CompactAt <= MaxEvents + 1
    /\ None \notin RunState \cup Stage

VARIABLES
  base,    \* the base record
  events,  \* the lines of the log, oldest first
  log      \* the summary

vars == <<base, events, log>>

Event == [event : {"status"}, data : RunState]
           \cup [event : {"stage"}, data : Stage]
           \cup [event : {"merge_meta"}, data : MergeField]

\* Records and logs stay well formed whatever is replayed.
TypeOK ==
    /\ base \in [status : RunState, stage : Stage \cup {None}, marks : SUBSET MergeField]
    /\ events \in Seq(Event) /\ Len(events) <= MaxEvents
    /\ log.length \in 0..CompactAt

\* Mutant: a stage event written into the wrong field.
ApplyStageToStatus(run, e) ==
    IF e.event = "merge_meta" THEN [run EXCEPT !.marks = @ \cup {e.data}]
                              ELSE [run EXCEPT !.status = e.data]

\* _apply_run_event
ApplyRunEvent(run, e) ==
    CASE e.event = "status" -> [run EXCEPT !.status = e.data]
      [] e.event = "stage" -> [run EXCEPT !.stage = e.data]
      [] e.event = "merge_meta" -> [run EXCEPT !.marks = @ \cup {e.data}]

\* Mutant: the lines replayed newest first.
ReplayNewestFirst(run, lines) ==
    LET after[n \in 0..Len(lines)] ==
           IF n = 0 THEN run ELSE ApplyRunEvent(after[n - 1], lines[Len(lines) + 1 - n])
    IN  after[Len(lines)]

\* The loop of _materialize_run.
Replay(run, lines) ==
    LET after[n \in 0..Len(lines)] ==
           IF n = 0 THEN run ELSE ApplyRunEvent(after[n - 1], lines[n])
    IN  after[Len(lines)]

AddEvent(l, e) ==
    CASE e.event = "status" -> AddStatus(l, e.data)
      [] e.event = "stage" -> AddStage(l, e.data)
      [] e.event = "merge_meta" -> AddMark(l, e.data)

Init ==
    /\ base \in [status : RunState, stage : {None}, marks : {{}}]
    /\ events = <<>>
    /\ log = EmptyLog

\* An operation that appends one event and compacts a log of CompactAt lines.
Write(e) ==
    LET lines == Append(events, e) IN
      IF Len(lines) < CompactAt
      THEN /\ events' = lines
           /\ log' = AddEvent(log, e)
           /\ UNCHANGED base
      ELSE /\ base' = Replay(base, lines)
           /\ events' = <<>>
           /\ log' = EmptyLog

\* Its prefixes: only the event is on disk, or the base too but the log still
\* has its lines.  A terminal status leaves the second one on purpose.
WriteWithoutTruncation(e) ==
    LET lines == Append(events, e) IN
      /\ Len(lines) <= MaxEvents
      /\ events' = lines
      /\ log' = AddEvent(log, e)
      /\ base' \in {base, Replay(base, lines)}

\* A status written into the base file with no event.
Overwrite(s) ==
    /\ base' = [base EXCEPT !.status = s]
    /\ UNCHANGED <<events, log>>

Next ==
    \/ \E e \in Event : Write(e) \/ WriteWithoutTruncation(e)
    \/ \E s \in RunState : Overwrite(s)

Spec == Init /\ [][Next]_vars

----------------------------------------------------------------------------

\* Replaying the lines (_materialize_run) gives what the summary gives, also
\* after a death between rewriting the base and emptying the log, when the
\* log is replayed over a base that holds its effect already.
SummaryIsExact == Replay(base, events) = Materialize(base, log)

=============================================================================
