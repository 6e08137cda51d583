------------------------------ MODULE Pipeline ------------------------------
(***************************************************************************)
(* engine/pipeline.py: one run's stages, executed in order with retries,   *)
(* self-healing alternatives, a journal and a rollback, and the status     *)
(* EngineService.execute_run asks for in the end.  An action is what       *)
(* happens between two awaits: one attempt of a stage, or one rollback.    *)
(***************************************************************************)
EXTENDS Naturals, Sequences

CONSTANTS
  Stages,        \* the stages of the composition, in order
  Alternatives,  \* for each position, the alternatives its stage declares
  MaxRetries     \* max_retries of PipelineConfig

ASSUME PipelineAssumption ==
    /\ Stages \in Seq(STRING) /\ Len(Stages) > 0
    /\ Alternatives \in [1..Len(Stages) -> Seq(STRING)]
    /\ MaxRetries \in Nat

VARIABLES
  healing,     \* self_healing_enabled
  journaled,   \* journal_path is set
  candidate,   \* which of selected_stages is being tried
  attempt,     \* the attempt of that candidate, from 0
  history,     \* execution_history: the stages that came to a result
  journal,     \* the journal entries, by stage and status
  saved,       \* how many of them the journal file has
  failed,      \* some result is a failure
  undone,      \* the stages rolled back
  state,       \* where run() is
  status       \* what the run shows

vars == <<healing, journaled, candidate, attempt, history, journal, saved, failed,
          undone, state, status>>

Position == Len(history) + 1

\* selected_stages
Candidates == IF healing THEN 1 + Len(Alternatives[Position]) ELSE 1

\* stage_candidate: the stage itself comes first.
StageCandidate ==
    IF candidate = 1 THEN Stages[Position] ELSE Alternatives[Position][candidate - 1]

\* The counters stay within the loops they belong to.
TypeOK ==
    /\ healing \in BOOLEAN /\ journaled \in BOOLEAN /\ failed \in BOOLEAN
    /\ candidate \in Nat \ {0}
    /\ attempt \in 0..MaxRetries
    /\ history \in Seq(STRING) /\ Len(history) <= Len(Stages)
    /\ undone \in Seq(STRING) /\ Len(undone) <= Len(history)
    /\ journal \in Seq([stage : STRING, status : {"completed", "failed"}])
    /\ saved \in 0..Len(journal)
    /\ state \in {"forward", "backward", "completed", "failed", "halted", "aborted"}
    /\ state = "forward" => Len(history) < Len(Stages) /\ candidate <= Candidates
    /\ state = "backward" => Len(undone) < Len(history)
    /\ status \in {"running", "done", "error"}

Init ==
    /\ healing \in BOOLEAN
    /\ journaled \in BOOLEAN
    /\ candidate = 1
    /\ attempt = 0
    /\ history = <<>>
    /\ journal = <<>>
    /\ saved = 0
    /\ failed = FALSE
    /\ undone = <<>>
    /\ state = "forward"
    /\ status = "running"

----------------------------------------------------------------------------
(* _execute_stage_with_retries *)

TryAgain ==
    /\ attempt < MaxRetries
    /\ attempt' = attempt + 1
    /\ UNCHANGED <<healing, journaled, candidate, history, journal, saved, failed,
                   undone, state, status>>

TryNext ==
    /\ candidate < Candidates
    /\ candidate' = candidate + 1
    /\ attempt' = 0
    /\ UNCHANGED <<healing, journaled, history, journal, saved, failed, undone,
                   state, status>>

\* Mutant: the failure of the last stage is noticed when nothing is left to break.
NextStateLenient(result) ==
    CASE Position = Len(Stages) /\ result # "halt" -> "completed"
      [] result = "halt" -> "halted"
      [] OTHER -> IF result = "fail" THEN "backward" ELSE "forward"

NextState(result) ==
    CASE result = "fail" -> "backward"
      [] result = "halt" -> "halted"
      [] OTHER -> IF Position = Len(Stages) THEN "completed" ELSE "forward"

\* The stage has a result: run() appends it, saves its journal entry and goes on,
\* starts the rollback or stops.  history keeps the stage, its journal entry may
\* name another.  An error while the entry is saved leaves run(), and execute_run
\* sets the run to error.
Result(result, entry) ==
    /\ history' = Append(history, Stages[Position])
    /\ journal' = Append(journal, entry)
    /\ candidate' = 1
    /\ attempt' = 0
    /\ \/ /\ saved' = IF journaled THEN saved + 1 ELSE saved
          /\ failed' = (result = "fail")
          /\ state' = NextState(result)
          /\ status' = IF state' = "completed" THEN "done" ELSE status
       \/ /\ journaled
          /\ saved' = saved
          /\ failed' = (result = "fail")
          /\ state' = "aborted"
          /\ status' = "error"
    /\ UNCHANGED <<healing, journaled, undone>>

LastAttempt == attempt = MaxRetries

LastCandidate == candidate = Candidates

JournalEntry(stage, s) == [stage |-> stage, status |-> s]

\* continue and halt end the stage at once.
Answer(result) ==
    /\ state = "forward"
    /\ Result(result, JournalEntry(StageCandidate, "completed"))

\* A failure is not retried; it leads to the next alternative, if any.
Fail ==
    /\ state = "forward"
    /\ IF LastCandidate THEN Result("fail", JournalEntry(StageCandidate, "failed")) ELSE TryNext

\* The entry was written when the candidate answered: a retry counts as completed,
\* also when no attempt is left and the stage has failed.
AskForRetry ==
    /\ state = "forward"
    /\ IF ~LastAttempt THEN TryAgain
       ELSE IF LastCandidate THEN Result("fail", JournalEntry(StageCandidate, "completed"))
        ELSE TryNext

\* The last candidate gave no answer: the entry is that of the stage itself.
Raise ==
    /\ state = "forward"
    /\ IF ~LastAttempt THEN TryAgain
       ELSE IF LastCandidate THEN Result("fail", JournalEntry(Stages[Position], "failed"))
        ELSE TryNext

----------------------------------------------------------------------------
(* The rollback of run(), and the end of execute_run. *)

\* Mutant: the stages are undone in the order in which they were executed.
NextToUndoForward == history[Len(undone) + 1]

NextToUndo == history[Len(history) - Len(undone)]

\* An error of rollback() is logged; the stage that failed is undone like the
\* others, and always the stage itself, whichever alternative was executed.
Rollback ==
    /\ state = "backward"
    /\ undone' = Append(undone, NextToUndo)
    /\ state' = IF Len(undone) + 1 = Len(history) THEN "failed" ELSE "backward"
    /\ status' = IF state' = "failed" THEN "error" ELSE status
    /\ UNCHANGED <<healing, journaled, candidate, attempt, history, journal, saved, failed>>

\* The server stops: the reconcile at its next start sets the run to error.
Die ==
    /\ state \in {"forward", "backward"}
    /\ state' = "aborted"
    /\ status' = "error"
    /\ UNCHANGED <<healing, journaled, candidate, attempt, history, journal, saved,
                   failed, undone>>

Next ==
    \/ \E result \in {"continue", "halt"} : Answer(result)
    \/ Fail
    \/ AskForRetry
    \/ Raise
    \/ Rollback
    \/ Die

Spec == Init /\ [][Next]_vars

----------------------------------------------------------------------------
(* Properties. *)

\* Retries, alternatives and journal errors cannot be told from the results: each
\* stage has one, in order; a failure rolls back every stage that has a result,
\* the last one first, and nothing else; a halt rolls back nothing.
S == INSTANCE Saga WITH begun <- history

ImplementsSaga == S!Spec

\* The run ends as its pipeline did: done only if every stage went on, error only
\* when the rollback is over or the server or the journal died, and a halted run
\* is left as it is.
StatusTellsTheOutcome ==
    /\ status = "done" => Len(history) = Len(Stages) /\ ~failed /\ undone = <<>>
    /\ status = "error" => state \in {"failed", "aborted"}
    /\ state = "failed" => Len(undone) = Len(history) /\ failed
    /\ state = "halted" => status = "running" /\ undone = <<>>

\* Whatever was retried or healed, the journal has one entry for each stage with
\* a result: that of the stage, or of an alternative of this very stage when
\* healing is enabled.  Only the last entry may be a failure, and then the
\* pipeline has failed.  The file misses at most the last entry.
JournalIsInOrder ==
    /\ Len(journal) = Len(history)
    /\ \A i \in 1..Len(journal) :
          /\ journal[i].stage # Stages[i] =>
                healing /\ \E k \in 1..Len(Alternatives[i]) : journal[i].stage = Alternatives[i][k]
          /\ journal[i].status = "failed" => i = Len(journal) /\ failed
    /\ journaled => saved >= Len(journal) - 1

\* What the run and the journal tell is what happened.
OutcomeIsRecorded == StatusTellsTheOutcome /\ JournalIsInOrder

=============================================================================
