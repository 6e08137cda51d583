------------------------------ MODULE RunView ------------------------------
(***************************************************************************)
(* What OpsService.get_run promises a reader, with no mention of base      *)
(* files, event logs, compaction or crashes: every run has one record, its *)
(* status follows the transition table, and a finished run stays finished. *)
(* OpsRunStore is shown to implement this specification.                   *)
(***************************************************************************)
EXTENDS RunStatus, Naturals

CONSTANTS
  Run,         \* run ids
  Key,         \* run keys, one per (draft, commit base)
  Stage,       \* merge-gate stages a run can be in
  MergeField,  \* merge metadata fields that can be recorded
  MaxAttempt,  \* bound on attempt numbers
  None,        \* Python's None
  Absent,      \* a run id that has not been handed out
  Removed      \* a run deleted by the retention cleanup

VARIABLE view

\* What a reader sees of one run.  Only root runs carry their run key; key is
\* the key of the approved entry, which a child shares with its parent.
RunRecord ==
    [key : Key, child : BOOLEAN, status : Status, attempt : 1..MaxAttempt,
     stage : Stage \cup {None}, marks : SUBSET MergeField,
     rerunOf : Run \cup {None}]

\* A run as it is created.
NewRun(k, child, n, source) ==
    [key |-> k, child |-> child, status |-> "pending", attempt |-> n,
     stage |-> None, marks |-> {}, rerunOf |-> source]

Existing == {r \in Run : view[r] \in RunRecord}

Init == view = [r \in Run |-> Absent]

----------------------------------------------------------------------------

\* A root run starts pending with an attempt number above that of every root
\* run of its key.  A run of the key that was displaced ends in error.
StartRoot(r, k, n, source) ==
    /\ view[r] = Absent
    /\ \A q \in Existing :
          ~view[q].child /\ view[q].key = k => view[q].attempt < n
    /\ \E displaced \in SUBSET {q \in Existing : /\ view[q].key = k
                                                 /\ view[q].status \in ActiveStatus} :
          view' = [q \in Run |->
                     IF q = r THEN NewRun(k, FALSE, n, source)
                     ELSE IF q \in displaced THEN [view[q] EXCEPT !.status = "error"]
                     ELSE view[q]]

StartChild(r, k) ==
    /\ view[r] = Absent
    /\ view' = [view EXCEPT ![r] = NewRun(k, TRUE, 1, None)]

\* The only ways a status changes are the transition table ...
Move(r, s) ==
    /\ r \in Existing
    /\ s \in ValidTransitions[view[r].status]
    /\ view' = [view EXCEPT ![r].status = s]

\* ... and the re-queueing of a child that is not finished.  A re-queue that
\* comes too late leaves the status alone; a NO-GO verdict counts an attempt.
Requeue(r) ==
    /\ r \in Existing /\ view[r].child
    /\ \E s \in {view[r].status} \cup
                 (IF view[r].status \in TerminalStatus THEN {} ELSE {"pending"}),
          n \in {view[r].attempt, view[r].attempt + 1} :
          view' = [view EXCEPT ![r].status = s, ![r].attempt = n]

EnterStage(r, g) ==
    /\ r \in Existing
    /\ view' = [view EXCEPT ![r].stage = g]

Record(r, m) ==
    /\ r \in Existing
    /\ view' = [view EXCEPT ![r].marks = @ \cup {m}]

Remove(r) ==
    /\ r \in Existing
    /\ view' = [view EXCEPT ![r] = Removed]

Next ==
    \E r \in Run :
        \/ \E k \in Key, n \in 1..MaxAttempt, source \in Run \cup {None} :
              StartRoot(r, k, n, source)
        \/ \E k \in Key : StartChild(r, k)
        \/ \E s \in Status : Move(r, s)
        \/ Requeue(r)
        \/ \E g \in Stage : EnterStage(r, g)
        \/ \E m \in MergeField : Record(r, m)
        \/ Remove(r)

Spec == Init /\ [][Next]_view

=============================================================================
