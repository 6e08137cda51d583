---------------------------- MODULE OpsRunStore ----------------------------
(***************************************************************************)
(* OpsService's run storage (services/ops_service.py): a base JSON file    *)
(* per run, an append-only event log beside it, and the file lock under    *)
(* which every operation below runs as one step.  Reading a run replays    *)
(* its log over its base; when the log reaches CompactAt events the        *)
(* replayed run becomes the new base and the log is emptied.               *)
(*                                                                         *)
(* A process may die inside any operation; the actions named Crash... are  *)
(* the prefixes of writes it can leave behind.  The lock dies with it.     *)
(***************************************************************************)
EXTENDS RunStatus, RunLog, FiniteSets

CONSTANTS
  Run, Key, Stage, MergeField, MaxAttempt, Absent, Removed, \* see RunView
  Requested    \* the statuses callers ask update_run_status for

VARIABLES
  base,    \* base file of each run, Absent before it exists, Removed after
  log,     \* event log of each run
  stale,   \* runs created more than 10 minutes ago
  idle     \* runs whose base file is older than the retention TTL

vars == <<base, log, stale, idle>>

RunRecord ==
    [key : Key, child : BOOLEAN, status : Status, attempt : 1..MaxAttempt,
     stage : Stage \cup {None}, marks : SUBSET MergeField,
     rerunOf : Run \cup {None}]

EventLog ==
    [length : 0..CompactAt, status : Status \cup {None},
     stage : Stage \cup {None}, marks : SUBSET MergeField]

ASSUME NoneAssumption ==
    /\ None \notin Status \cup Stage \cup Run
    /\ Absent # Removed
    /\ Absent \notin RunRecord
    /\ Removed \notin RunRecord

ASSUME BoundsAssumption ==
    /\ CompactAt \in Nat \ {0}
    /\ MaxAttempt \in Nat
    /\ Requested \subseteq Status
    /\ IsFiniteSet(Run)

NewRun(k, child, n, source) ==
    [key |-> k, child |-> child, status |-> "pending", attempt |-> n,
     stage |-> None, marks |-> {}, rerunOf |-> source]

Stored == {r \in Run : base[r] \notin {Absent, Removed}}

\* Base files and logs are well formed, and only files that exist have an age.
TypeOK ==
    /\ base \in [Run -> RunRecord \cup {Absent, Removed}]
    /\ log \in [Run -> EventLog]
    /\ stale \subseteq Stored
    /\ idle \subseteq stale

Init ==
    /\ base = [r \in Run |-> Absent]
    /\ log = [r \in Run |-> EmptyLog]
    /\ stale = {}
    /\ idle = {}

----------------------------------------------------------------------------
(* Reading: get_run replays the log over the base. *)

View(r) == Materialize(base[r], log[r])

IsActive(r) == View(r).status \in ActiveStatus

----------------------------------------------------------------------------
(* Writing: _append_run_event, _persist_run, _compact_run_events_if_needed. *)

StatusEvent(r, s) == AddStatus(log[r], s)
StageEvent(r, g) == AddStage(log[r], g)
MergeEvent(r, m) == AddMark(log[r], m)

\* Rewriting a base file makes it young again for the retention cleanup.
Persist(r, record) ==
    /\ base' = [base EXCEPT ![r] = record]
    /\ idle' = idle \ {r}

AppendEvent(r, l) == log' = [log EXCEPT ![r] = l]

\* Mutant: compaction empties the log without rewriting the base.
CompactWithoutPersist(r, l) ==
    /\ AppendEvent(r, IF l.length < CompactAt THEN l ELSE EmptyLog)
    /\ UNCHANGED <<base, idle>>

AppendAndCompact(r, l) ==
    IF l.length < CompactAt
    THEN AppendEvent(r, l) /\ UNCHANGED <<base, idle>>
    ELSE Persist(r, Materialize(base[r], l)) /\ AppendEvent(r, EmptyLog)

\* Mutant: a terminal status compacts the log.
CompactTerminal(r, l) ==
    AppendEvent(r, EmptyLog) /\ Persist(r, Materialize(base[r], l))

AppendAndPersist(r, l) ==
    AppendEvent(r, l) /\ Persist(r, Materialize(base[r], l))

\* Death after the event is written: before the base is rewritten, or after it
\* and before the log is emptied.
CrashAfterAppend(r, l, persists) ==
    /\ AppendEvent(r, l)
    /\ \/ UNCHANGED <<base, idle>>
       \/ persists /\ Persist(r, Materialize(base[r], l))

----------------------------------------------------------------------------
(* Root runs: create_run and rerun. *)

RunsForKey(k) == {q \in Stored : ~base[q].child /\ base[q].key = k}

ActiveForKey(k) == {q \in RunsForKey(k) : IsActive(q)}

\* The listing is sorted newest first, and attempt numbers follow creation.
Newest(S) == {q \in S : \A p \in S : base[p].attempt <= base[q].attempt}

\* Mutant: whether a run is active is read from its base file.
DisplacedInBase(k) == Newest({q \in RunsForKey(k) : base[q].status \in ActiveStatus})

\* The active run found first is the only one looked at; a fresh one refuses
\* the creation, a stale one is overwritten.
Displaced(k) == Newest(ActiveForKey(k))

\* Mutant: only the active runs of the key are numbered over.
IsNextActiveAttempt(n, k) ==
    /\ \A q \in ActiveForKey(k) : base[q].attempt < n
    /\ n = 1 \/ \E q \in ActiveForKey(k) : n = base[q].attempt + 1

IsNextAttempt(n, k) ==
    /\ \A q \in RunsForKey(k) : base[q].attempt < n
    /\ n = 1 \/ \E q \in RunsForKey(k) : n = base[q].attempt + 1

\* "Force move to error": the status is changed in the record that was read
\* and the base is rewritten; no event is appended.
MarkStale(S) == [q \in Run |-> IF q \in S THEN [View(q) EXCEPT !.status = "error"]
                                          ELSE base[q]]

CanCreate(r, k) ==
    /\ base[r] = Absent
    /\ Displaced(k) \subseteq stale

Create(r, k, n, source) ==
    /\ CanCreate(r, k)
    /\ IsNextAttempt(n, k)
    /\ base' = [MarkStale(Displaced(k)) EXCEPT ![r] = NewRun(k, FALSE, n, source)]
    /\ idle' = idle \ Displaced(k)
    /\ UNCHANGED stale

CreateRun(r, k) ==
    \E n \in 1..MaxAttempt :
       Create(r, k, n, None) /\ AppendEvent(r, StatusEvent(r, "pending"))

\* rerun's second write, which adds rerun_of, follows with no await between.
\* The key is derived anew from the draft, whose context may have been edited.
Rerun(r, source, k) ==
    /\ source \in Stored
    /\ ~IsActive(source)
    /\ \E n \in 1..MaxAttempt :
          /\ Create(r, k, n, source)
          /\ AppendEvent(r, StatusEvent(r, "pending"))

\* Death after the stale run is rewritten, or before the first event.
CrashInCreate(r, k) ==
    \/ /\ CanCreate(r, k)
       /\ Displaced(k) # {}
       /\ base' = MarkStale(Displaced(k))
       /\ idle' = idle \ Displaced(k)
       /\ UNCHANGED <<log, stale>>
    \/ /\ \E n \in 1..MaxAttempt : Create(r, k, n, None)
       /\ UNCHANGED log

----------------------------------------------------------------------------
(* Changes to an existing run. *)

MayUpdate(r, s) ==
    /\ r \in Stored
    /\ s \in ValidTransitions[View(r).status]

UpdateRunStatus(r, s) ==
    /\ MayUpdate(r, s)
    /\ IF s \in TerminalStatus THEN AppendAndPersist(r, StatusEvent(r, s))
                               ELSE AppendAndCompact(r, StatusEvent(r, s))
    /\ UNCHANGED stale

CrashInUpdate(r, s) ==
    /\ MayUpdate(r, s)
    /\ LET l == StatusEvent(r, s) IN
         CrashAfterAppend(r, l, s \notin TerminalStatus /\ l.length >= CompactAt)
    /\ UNCHANGED stale

\* Stages and merge metadata come from the merge gate, which only root runs
\* reach; neither operation looks at the status.
SetRunStage(r, g) ==
    /\ r \in Stored /\ ~base[r].child
    /\ AppendAndCompact(r, StageEvent(r, g))
    /\ UNCHANGED stale

UpdateMergeMetadata(r, m) ==
    /\ r \in Stored /\ ~base[r].child
    /\ AppendAndCompact(r, MergeEvent(r, m))
    /\ UNCHANGED stale

CrashInMergeGate(r, l) ==
    /\ r \in Stored /\ ~base[r].child
    /\ CrashAfterAppend(r, l, l.length >= CompactAt)
    /\ UNCHANGED stale

----------------------------------------------------------------------------
(* Child runs: written by ChildRunService.spawn_child, and re-queued by two *)
(* pipeline stages that rewrite the base file under the lock.               *)

\* No event is appended for a child; its parent's base is rewritten (its
\* awaiting_count, which ChildRuns models) under the same lock.
SpawnChild(r, parent) ==
    /\ base[r] = Absent
    /\ parent \in Stored
    /\ View(parent).status \in {"running", "awaiting_subagents"}
    /\ base' = [base EXCEPT ![r] = NewRun(base[parent].key, TRUE, 1, None)]
    /\ idle' = idle \ {parent}
    /\ UNCHANGED <<log, stale>>

\* Both stages belong to the pipeline of a started child.  They write what
\* they loaded, not the replayed run, whatever became of it since they began
\* to wait for a verdict or for the model.
RequeueAfterReview(r) ==
    /\ r \in Stored /\ base[r].child
    /\ View(r).status # "pending"
    /\ base[r].attempt < MaxAttempt
    /\ Persist(r, [base[r] EXCEPT !.status = "pending", !.attempt = @ + 1])
    /\ UNCHANGED <<log, stale>>

RequeueSubdivided(r) ==
    /\ r \in Stored /\ base[r].child
    /\ View(r).status # "pending"
    /\ Persist(r, [base[r] EXCEPT !.status = "pending"])
    /\ UNCHANGED <<log, stale>>

----------------------------------------------------------------------------
(* Time and retention. *)

\* Ten minutes pass since r was created; no code ever writes heartbeat_at.
\* Older runs of the key have aged before.
GrowStale(r) ==
    /\ r \in Stored \ stale
    /\ \/ base[r].child
       \/ \A q \in RunsForKey(base[r].key) \ stale : base[r].attempt <= base[q].attempt
    /\ stale' = stale \cup {r}
    /\ UNCHANGED <<base, log, idle>>

\* The retention TTL passes since the base file of r was last written.
GrowIdle(r) ==
    /\ r \in stale \ idle
    /\ idle' = idle \cup {r}
    /\ UNCHANGED <<base, log, stale>>

\* The age of the base file alone decides; an active run is no exception.
CleanupOldRun(r) ==
    /\ r \in idle
    /\ base' = [base EXCEPT ![r] = Removed]
    /\ log' = [log EXCEPT ![r] = EmptyLog]
    /\ stale' = stale \ {r}
    /\ idle' = idle \ {r}

----------------------------------------------------------------------------

Next ==
    \E r \in Run :
        \/ \E k \in Key : CreateRun(r, k) \/ CrashInCreate(r, k)
        \/ \E q \in Run, k \in Key : Rerun(r, q, k)
        \/ \E q \in Run : SpawnChild(r, q)
        \/ \E s \in Requested : UpdateRunStatus(r, s) \/ CrashInUpdate(r, s)
        \/ \E g \in Stage : SetRunStage(r, g) \/ CrashInMergeGate(r, StageEvent(r, g))
        \/ \E m \in MergeField :
              UpdateMergeMetadata(r, m) \/ CrashInMergeGate(r, MergeEvent(r, m))
        \/ RequeueAfterReview(r)
        \/ RequeueSubdivided(r)
        \/ GrowStale(r)
        \/ GrowIdle(r)
        \/ CleanupOldRun(r)

Spec == Init /\ [][Next]_vars

----------------------------------------------------------------------------
(* Properties. *)

\* Attempt numbers identify the root runs of a key: create_run numbers a run
\* one above the highest stored attempt, and neither a re-queue, a compaction
\* nor the deletion of older runs ever makes two stored runs share a number.
AttemptsDistinct ==
    \A q, r \in Stored :
       /\ ~base[q].child /\ ~base[r].child
       /\ base[q].key = base[r].key
       /\ base[q].attempt = base[r].attempt
       => q = r

\* A rerun of a root run has a higher attempt number than the run it repeats,
\* as long as both answer to the same key and the source is still stored.
LineageIncreases ==
    \A r \in Stored, q \in Stored :
       /\ base[r].rerunOf = q
       /\ ~base[q].child
       /\ base[q].key = base[r].key
       => base[q].attempt < base[r].attempt

\* What get_run shows of a finished run never changes status again: not by a
\* late re-queue, not by a stage or merge event that triggers a compaction,
\* not by a crash between two of the writes of an operation.
TerminalIsFinal ==
    [][\A r \in Stored :
          /\ View(r).status \in TerminalStatus
          /\ base'[r] # Removed
          => View(r)'.status = View(r).status]_vars

\* create_run refuses a key with a fresh active run: every run of the key that
\* is active when a root run appears is older than the staleness threshold,
\* although only the newest of them is looked at.
CreationOnlyOverStale ==
    [][\A r \in Run :
          base[r] = Absent /\ base'[r] # Absent /\ ~base'[r].child
          => ActiveForKey(base'[r].key) \subseteq stale]_vars

\* Replay, compaction, masked base writes and crashes are invisible: what
\* get_run returns evolves as RunView says.
viewOfRuns == [r \in Run |-> IF r \in Stored THEN View(r) ELSE base[r]]

RV == INSTANCE RunView WITH view <- viewOfRuns

ImplementsRunView == RV!Spec

----------------------------------------------------------------------------
(* A claim of the repository that the code does not keep. *)

\* engine/stages/review_gate.py:6 "On rejection, the run is re-queued": the
\* write that counts the next attempt makes the reviewed run pending again.
RejectionRequeues ==
    [][\A r \in Stored :
          View(r).status = "awaiting_review" /\ base'[r] # Removed
          /\ base'[r].attempt > base[r].attempt
          => View(r)'.status = "pending"]_vars

=============================================================================
