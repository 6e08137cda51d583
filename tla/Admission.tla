----------------------------- MODULE Admission -----------------------------
(***************************************************************************)
(* HardwareMonitorService, ResourceGovernor and what RunWorker asks them    *)
(* before it takes pending runs.                                           *)
(*                                                                         *)
(* The monitor samples the machine from time to time and has thresholds of *)
(* its own; the governor measures when it is asked.  It is asked about one *)
(* run, the newest that is pending, and the answer is taken for all.       *)
(***************************************************************************)
EXTENDS Integers, Sequences, FiniteSets, Functions

CONSTANTS
  Run,       \* ids
  Heavy,     \* those of a merge request, a core or a security change
  MaxRuns,   \* max_concurrent_runs
  None

Level == {"safe", "caution", "critical"}

VARIABLES
  load,      \* what CPU and RAM reach: 0 .. 3, see below
  free,      \* free video memory: 0 is short for the monitor, 1 for the governor
  sample,    \* the monitor's last sample, if any
  lastLevel, \* its _last_level
  told,      \* whether clients were told system_degraded when that was reached
  pending,   \* pending runs, the newest first
  ids,       \* _running_ids
  executing, \* runs that execute
  starts,    \* [Run -> how often _execute_run was started]
  taken      \* [Run -> how the machine was when it was taken, or None]

vars == <<load, free, sample, lastLevel, told, pending, ids, executing, starts, taken>>

Measure == [load : 0 .. 3, free : 0 .. 2]

AdmissionConstants == MaxRuns \in Nat /\ None \notin Measure

TypeOK ==
    /\ load \in 0 .. 3 /\ free \in 0 .. 2
    /\ sample \in Measure \cup {None} /\ lastLevel \in Level /\ told \in BOOLEAN
    /\ Range(pending) \cup ids \cup executing \subseteq Run
    /\ \A r \in Run : starts[r] \in 0 .. 2
    /\ \A r \in Run : taken[r] # None =>
          taken[r] \in [busy : BOOLEAN, short : BOOLEAN, first : Run]

Init ==
    /\ load = 0 /\ free = 2 /\ sample = None /\ lastLevel = "safe" /\ told = FALSE
    /\ pending = <<>> /\ ids = {} /\ executing = {}
    /\ starts = [r \in Run |-> 0] /\ taken = [r \in Run |-> None]

----------------------------------------------------------------------------
(* The machine and its monitor. *)

\* A load of 1 reaches the caution threshold, one of 2 also exceeds the governor's,
\* one of 3 also reaches the critical one.
LevelOf(s) ==
    IF s.load = 3 \/ s.free = 0 THEN "critical" ELSE IF s.load > 0 THEN "caution" ELSE "safe"

MachineChanges ==
    /\ load' \in 0 .. 3 /\ free' \in 0 .. 2
    /\ UNCHANGED <<sample, lastLevel, told, pending, ids, executing, starts, taken>>

\* A sample that fails is logged.
Sample ==
    /\ sample' = [load |-> load, free |-> free]
    /\ lastLevel' = LevelOf(sample')
    /\ told' = IF lastLevel' = lastLevel THEN told ELSE lastLevel' = "critical"
    /\ UNCHANGED <<load, free, pending, ids, executing, starts, taken>>

\* What is_local_safe answers, of the last sample, for a model of this size.
LocalIsSafe(big) ==
    LET s == IF sample = None THEN [load |-> load, free |-> free] ELSE sample
    IN  LevelOf(s) = "safe" \/ (LevelOf(s) = "caution" /\ ~big)

----------------------------------------------------------------------------
(* The worker. *)

\* evaluate: a measurement that fails allows.
Allows(heavy) == load < 2 /\ (heavy => free = 2)

Without(seq, i) == SubSeq(seq, 1, i - 1) \o SubSeq(seq, i + 1, Len(seq))

Active(r) == r \in Range(pending) \cup executing

Submit(r) ==
    /\ starts[r] = 0 /\ ~Active(r)
    /\ pending' = <<r>> \o pending
    /\ UNCHANGED <<load, free, sample, lastLevel, told, ids, executing, starts, taken>>

\* The runs taken are started as tasks and stay pending until they begin.
Tick ==
    LET kept == {r \in ids : Active(r)}
        slots == MaxRuns - Cardinality(kept)
        first == SubSeq(pending, 1, IF slots < Len(pending) THEN slots ELSE Len(pending))
        new == Range(first) \ kept
        measured == [busy |-> load > 1, short |-> free < 2, first |-> Head(pending)]
    IN  /\ pending # <<>>
        /\ IF slots > 0 /\ Allows(Head(pending) \in Heavy)
           THEN /\ ids' = kept \cup new
                /\ starts' = [r \in Run |-> IF r \in new THEN starts[r] + 1 ELSE starts[r]]
                /\ taken' = [r \in Run |-> IF r \in new THEN measured ELSE taken[r]]
           ELSE ids' = kept /\ UNCHANGED <<starts, taken>>
        /\ UNCHANGED <<load, free, sample, lastLevel, told, pending, executing>>

\* _execute_run begins, and ends.
BeginRun(r) ==
    /\ r \in ids
    /\ \E i \in 1 .. Len(pending) : pending[i] = r /\ pending' = Without(pending, i)
    /\ executing' = executing \cup {r}
    /\ UNCHANGED <<load, free, sample, lastLevel, told, ids, starts, taken>>

EndRun(r) ==
    /\ r \in executing
    /\ executing' = executing \ {r} /\ ids' = ids \ {r}
    /\ UNCHANGED <<load, free, sample, lastLevel, told, pending, starts, taken>>

Next ==
    \/ MachineChanges \/ Sample \/ Tick
    \/ \E r \in Run : Submit(r) \/ BeginRun(r) \/ EndRun(r)

Spec == Init /\ [][Next]_vars

----------------------------------------------------------------------------

\* The worker starts each run once and no more than there are slots; none while the
\* load is high, and a heavy one while video memory is short only behind a newer run
\* that is not heavy. Clients were told when the level that is known became critical,
\* and then large local models are not safe.
RunsAreAdmitted ==
    /\ Cardinality({r \in ids : Active(r)}) <= MaxRuns
    /\ executing \subseteq ids
    /\ \A r \in Run : taken[r] # None =>
          /\ starts[r] = 1
          /\ ~taken[r].busy
          /\ (r \in Heavy /\ taken[r].short) => taken[r].first \notin Heavy
    /\ lastLevel = "critical" => told /\ ~LocalIsSafe(TRUE)

=============================================================================
