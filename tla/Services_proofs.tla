-------------------------- MODULE Services_proofs ---------------------------
(***************************************************************************)
(* Proofs about the services of MCServices, each for any values of its     *)
(* constants, and about their composition.                                 *)
(***************************************************************************)
EXTENDS MCServices, Integers, FiniteSets, FiniteSetTheorems, WellFoundedInduction, TLAPS

----------------------------------------------------------------------------
(* Pipeline. *)

Entry == [stage : STRING, status : {"completed", "failed"}]

Types ==
    /\ healing \in BOOLEAN /\ journaled \in BOOLEAN /\ failed \in BOOLEAN
    /\ candidate \in Nat \ {0}
    /\ attempt \in 0..MaxRetries
    /\ history \in Seq(STRING) /\ Len(history) <= Len(Stages)
    /\ journal \in Seq(Entry) /\ Len(journal) = Len(history)
    /\ undone \in Seq(STRING) /\ Len(undone) <= Len(history)
    /\ saved \in 0..Len(journal)
    /\ state \in {"forward", "backward", "completed", "failed", "halted", "aborted"}
    /\ status \in {"running", "done", "error"}

\* What run() has to do next, in each of its states.
Progress ==
    /\ state = "forward" => Len(history) < Len(Stages) /\ candidate <= Candidates /\ ~failed
    /\ state = "backward" => Len(undone) < Len(history) /\ failed
    /\ state = "completed" => Len(history) = Len(Stages) /\ ~failed
    /\ state = "failed" => Len(undone) = Len(history) /\ failed
    /\ state \in {"forward", "completed", "halted"} => undone = <<>>

\* The status is the one of the state.
Shown ==
    /\ state \in {"forward", "backward", "halted"} <=> status = "running"
    /\ state = "completed" <=> status = "done"

\* A journal entry of the stage in position i: it names the stage or, when healing
\* is enabled, one of its alternatives.
Belongs(i, entry) ==
    entry.stage # Stages[i] =>
       healing /\ \E k \in 1..Len(Alternatives[i]) : entry.stage = Alternatives[i][k]

\* The history and the journal follow the stages; the file follows the journal
\* unless an error while it was written ended the pipeline.
InOrder ==
    /\ \A i \in 1..Len(history) :
          /\ history[i] = Stages[i] /\ Belongs(i, journal[i])
          /\ journal[i].status = "failed" => i = Len(history) /\ failed
    /\ journaled => saved >= Len(journal) - 1
    /\ journaled /\ state # "aborted" => saved = Len(journal)

IInv == Types /\ Progress /\ Shown /\ InOrder

-----------------------------------------------------------------------------
LEMMA InitIInv == Init => IInv
<1>. SUFFICES ASSUME Init PROVE IInv
  OBVIOUS
<1>. USE PipelineAssumption
<1>1. Candidates >= 1
  BY DEF Init, Candidates, Position
<1>2. Types
  <2>1. healing \in BOOLEAN /\ journaled \in BOOLEAN /\ failed \in BOOLEAN
    BY Zenon DEF Init
  <2>2. history \in Seq(STRING) /\ undone \in Seq(STRING) /\ journal \in Seq(Entry)
    BY DEF Init
  <2>3. Len(history) = 0 /\ Len(journal) = 0 /\ Len(undone) = 0
    BY DEF Init
  <2>. QED BY <2>1, <2>2, <2>3 DEF Init, Types
<1>3. Progress /\ Shown /\ InOrder
  BY <1>1 DEF Init, Progress, Shown, InOrder
<1>. QED BY <1>2, <1>3 DEF IInv

LEMMA TryAgainKeeps ==
  ASSUME IInv, TryAgain
  PROVE  IInv'
<1>. USE PipelineAssumption
<1>1. Types'
  BY DEF IInv, Types, TryAgain
<1>2. Progress' /\ Shown' /\ InOrder'
  BY DEF IInv, Types, TryAgain, Progress, Shown, InOrder, Belongs, Candidates, Position
<1>. QED BY <1>1, <1>2 DEF IInv

LEMMA TryNextKeeps ==
  ASSUME IInv, state = "forward", TryNext
  PROVE  IInv'
<1>. USE PipelineAssumption
<1>1. Candidates' = Candidates /\ Candidates \in Nat
  BY DEF IInv, Types, Progress, TryNext, Candidates, Position
<1>2. Types'
  BY DEF IInv, Types, TryNext
<1>3. Progress' /\ Shown' /\ InOrder'
  BY <1>1 DEF IInv, Types, TryNext, Progress, Shown, InOrder, Belongs
<1>. QED BY <1>2, <1>3 DEF IInv

\* The candidate that answers is the stage, or one of its alternatives.
LEMMA CandidateBelongs ==
  ASSUME IInv, state = "forward", NEW s \in {"completed", "failed"}
  PROVE  /\ JournalEntry(StageCandidate, s) \in Entry
         /\ Belongs(Position, JournalEntry(StageCandidate, s))
         /\ JournalEntry(Stages[Position], s) \in Entry
         /\ Belongs(Position, JournalEntry(Stages[Position], s))
<1>. USE PipelineAssumption
<1>1. Position \in 1..Len(Stages) /\ Stages[Position] \in STRING
  BY DEF IInv, Types, Progress, Position
<1>2. Alternatives[Position] \in Seq(STRING) /\ candidate \in Nat \ {0} /\ candidate <= Candidates
  BY <1>1 DEF IInv, Types, Progress
<1>3. CASE candidate = 1
  <2>1. StageCandidate = Stages[Position]
    BY <1>3 DEF StageCandidate
  <2>. QED BY <1>1, <2>1 DEF JournalEntry, Entry, Belongs
<1>4. CASE candidate # 1
  <2>1. healing /\ candidate - 1 \in 1..Len(Alternatives[Position])
    BY <1>2, <1>4 DEF Candidates
  <2>2. StageCandidate = Alternatives[Position][candidate - 1] /\ StageCandidate \in STRING
    BY <1>2, <1>4, <2>1 DEF StageCandidate
  <2>. QED BY <1>1, <2>1, <2>2 DEF JournalEntry, Entry, Belongs
<1>. QED BY <1>3, <1>4

\* What a result appends.
LEMMA Appended ==
  ASSUME IInv, state = "forward", NEW result,
         NEW entry \in Entry, Belongs(Position, entry), Result(result, entry)
  PROVE  /\ history' \in Seq(STRING) /\ Len(history') = Len(history) + 1
         /\ journal' \in Seq(Entry) /\ Len(journal') = Len(history) + 1
         /\ Position \in 1..Len(Stages)
         /\ \A i \in 1..Len(history') :
               /\ history'[i] = Stages[i] /\ Belongs(i, journal'[i])
               /\ journal'[i].status = "failed" => i = Len(history') /\ entry.status = "failed"
<1>. USE PipelineAssumption
<1>1. Position \in 1..Len(Stages) /\ Stages[Position] \in STRING
  BY DEF IInv, Types, Progress, Position
<1>2. history \in Seq(STRING) /\ journal \in Seq(Entry) /\ Len(journal) = Len(history)
  BY DEF IInv, Types
<1>3. history' = Append(history, Stages[Position]) /\ journal' = Append(journal, entry)
  BY DEF Result
<1>4. /\ history' \in Seq(STRING) /\ Len(history') = Len(history) + 1
      /\ journal' \in Seq(Entry) /\ Len(journal') = Len(history) + 1
  BY <1>1, <1>2, <1>3
<1>5. ASSUME NEW i \in 1..Len(history')
      PROVE  /\ history'[i] = Stages[i] /\ Belongs(i, journal'[i])
             /\ journal'[i].status = "failed" => i = Len(history') /\ entry.status = "failed"
  <2>1. CASE i = Position
    <3>1. history'[i] = Stages[i] /\ journal'[i] = entry /\ i = Len(history')
      BY <1>2, <1>3, <1>4, <2>1 DEF Position
    <3>. QED BY <2>1, <3>1
  <2>2. CASE i # Position
    <3>1. i \in 1..Len(history)
      BY <1>2, <1>4, <2>2 DEF Position
    <3>2. history'[i] = history[i] /\ journal'[i] = journal[i]
      BY <1>1, <1>2, <1>3, <3>1
    <3>. QED BY <3>1, <3>2 DEF IInv, InOrder, Progress
  <2>. QED BY <2>1, <2>2
<1>. QED BY <1>1, <1>4, <1>5

LEMMA ResultKeeps ==
  ASSUME IInv, state = "forward",
         NEW result \in {"continue", "halt", "fail"}, NEW entry \in Entry,
         Belongs(Position, entry), entry.status = "failed" => result = "fail",
         Result(result, entry)
  PROVE  IInv'
<1>. USE PipelineAssumption
<1>1. /\ history' \in Seq(STRING) /\ Len(history') = Len(history) + 1
      /\ journal' \in Seq(Entry) /\ Len(journal') = Len(history) + 1
      /\ Position \in 1..Len(Stages)
      /\ \A i \in 1..Len(history') :
            /\ history'[i] = Stages[i] /\ Belongs(i, journal'[i])
            /\ journal'[i].status = "failed" => i = Len(history') /\ entry.status = "failed"
  BY Appended
<1>2. /\ candidate' = 1 /\ attempt' = 0
      /\ healing' = healing /\ journaled' = journaled /\ undone' = undone
  BY DEF Result
<1>3. undone = <<>> /\ status = "running" /\ Len(journal) = Len(history)
      /\ (journaled => saved = Len(journal))
  BY DEF IInv, Types, Progress, Shown, InOrder
<1>4. \/ /\ saved' = IF journaled THEN saved + 1 ELSE saved
         /\ failed' = (result = "fail")
         /\ state' = NextState(result)
         /\ status' = IF state' = "completed" THEN "done" ELSE status
      \/ /\ journaled
         /\ saved' = saved
         /\ failed' = (result = "fail")
         /\ state' = "aborted"
         /\ status' = "error"
  BY DEF Result
<1>. DEFINE next == NextState(result)
<1>a. /\ next = IF result = "fail" THEN "backward"
               ELSE IF result = "halt" THEN "halted"
               ELSE IF Position = Len(Stages) THEN "completed" ELSE "forward"
  BY DEF NextState
<1>b. failed' = (result = "fail")
  BY Zenon, <1>4
<1>c. failed' \in BOOLEAN
  BY Zenon, <1>b
<1>d. state' = next \/ state' = "aborted"
  BY <1>4
<1>e. /\ saved' \in 0..(Len(journal) + 1)
      /\ status' \in {"running", "done", "error"}
  BY <1>3, <1>4 DEF IInv, Types
<1>. HIDE DEF next
<1>5. Types'
  <2>1. healing' \in BOOLEAN /\ journaled' \in BOOLEAN
    BY <1>2 DEF IInv, Types
  <2>2. Len(history') <= Len(Stages) /\ Len(journal') = Len(history')
    BY <1>1 DEF IInv, Types, Position
  <2>3. undone' \in Seq(STRING) /\ Len(undone') <= Len(history')
    BY <1>1, <1>2 DEF IInv, Types
  <2>4. state' \in {"forward", "backward", "completed", "failed", "halted", "aborted"}
    BY <1>a, <1>d
  <2>5. candidate' \in Nat \ {0} /\ attempt' \in 0..MaxRetries
    BY <1>2
  <2>. QED BY <1>1, <1>3, <1>c, <1>e, <2>1, <2>2, <2>3, <2>4, <2>5 DEF Types
<1>6. state' = "forward" => Len(history') < Len(Stages) /\ Candidates' >= 1
  <2>1. state' = "forward" => Len(history') < Len(Stages)
    BY <1>1, <1>a, <1>d DEF IInv, Types, Position
  <2>2. Len(history') < Len(Stages) => Candidates' >= 1
    BY <1>1 DEF IInv, Types, Candidates, Position
  <2>. QED BY <2>1, <2>2
<1>7. Progress'
  <2>1. /\ state' = "forward" => result = "continue"
        /\ state' = "completed" => result = "continue" /\ Position = Len(Stages)
        /\ state' = "backward" => result = "fail"
        /\ state' # "failed"
    BY <1>a, <1>d
  <2>2. /\ state' \in {"forward", "completed"} => ~failed'
        /\ state' = "backward" => failed'
    BY Zenon, <1>b, <2>1
  <2>3. Len(undone') < Len(history') /\ undone' = <<>>
    BY <1>1, <1>2, <1>3 DEF IInv, Types
  <2>4. state' = "completed" => Len(history') = Len(Stages)
    BY <1>1, <2>1 DEF IInv, Types, Position
  <2>. QED BY <1>2, <1>6, <2>1, <2>2, <2>3, <2>4 DEF Progress
<1>8. Shown'
  BY <1>3, <1>4 DEF Shown, NextState
<1>9. InOrder'
  <2>1. ASSUME NEW i \in 1..Len(history')
        PROVE  /\ history'[i] = Stages[i] /\ Belongs(i, journal[i])'
               /\ journal'[i].status = "failed" => i = Len(history') /\ failed'
    BY <1>1, <1>2, <1>b DEF Belongs
  <2>2. /\ journaled' => saved' >= Len(journal') - 1
        /\ journaled' /\ state' # "aborted" => saved' = Len(journal')
    BY <1>1, <1>2, <1>3, <1>4 DEF IInv, Types, InOrder
  <2>. QED BY <2>1, <2>2 DEF InOrder
<1>. QED BY <1>5, <1>7, <1>8, <1>9 DEF IInv

LEMMA RollbackKeeps ==
  ASSUME IInv, Rollback
  PROVE  IInv' /\ undone' = Append(undone, history[Len(history) - Len(undone)])
<1>. USE PipelineAssumption
<1>1. /\ state = "backward" /\ Len(undone) < Len(history) /\ failed
      /\ history \in Seq(STRING) /\ undone \in Seq(STRING) /\ status = "running"
  BY DEF IInv, Types, Progress, Shown, Rollback
<1>2. history[Len(history) - Len(undone)] \in STRING
  BY <1>1
<1>3. /\ undone' = Append(undone, history[Len(history) - Len(undone)])
      /\ UNCHANGED <<healing, journaled, candidate, attempt, history, journal, saved, failed>>
      /\ state' = IF Len(undone) + 1 = Len(history) THEN "failed" ELSE "backward"
      /\ status' = IF state' = "failed" THEN "error" ELSE status
  BY DEF Rollback, NextToUndo
<1>4. undone' \in Seq(STRING) /\ Len(undone') = Len(undone) + 1
  BY <1>1, <1>2, <1>3
<1>5. Types'
  BY <1>1, <1>3, <1>4 DEF IInv, Types
<1>6. Progress' /\ Shown' /\ InOrder'
  BY <1>1, <1>3, <1>4 DEF IInv, Types, Progress, Shown, InOrder, Belongs
<1>. QED BY <1>3, <1>5, <1>6 DEF IInv

LEMMA DieKeeps ==
  ASSUME IInv, Die
  PROVE  IInv'
BY DEF IInv, Types, Progress, Shown, InOrder, Belongs, Die

\* A step is another attempt, another candidate, a result, an undo or a death.
LEMMA StepCases ==
  ASSUME IInv, Next
  PROVE  \/ state = "forward" /\ (TryAgain \/ TryNext)
         \/ /\ state = "forward"
            /\ \E result \in {"continue", "halt", "fail"}, entry \in Entry :
                  /\ Belongs(Position, entry) /\ (entry.status = "failed" => result = "fail")
                  /\ Result(result, entry)
         \/ Rollback
         \/ Die
<1>. DEFINE Ends(result, entry) ==
              /\ Belongs(Position, entry) /\ (entry.status = "failed" => result = "fail")
              /\ Result(result, entry)
            answered == JournalEntry(StageCandidate, "completed")
            gone == {JournalEntry(StageCandidate, "failed"), JournalEntry(Stages[Position], "failed")}
<1>0. \A e : JournalEntry(e, "completed").status = "completed"
  BY DEF JournalEntry
<1>a. state = "forward" => /\ answered \in Entry /\ Belongs(Position, answered)
                           /\ \A e \in gone : e \in Entry /\ Belongs(Position, e)
  BY CandidateBelongs
<1>b. answered.status # "failed"
  BY <1>0
<1>1. ASSUME NEW result \in {"continue", "halt"}, Answer(result)
      PROVE  state = "forward" /\ Result(result, answered)
  BY <1>1 DEF Answer
<1>2. Fail => state = "forward" /\ (TryNext \/ \E e \in gone : Result("fail", e))
  BY DEF Fail
<1>3. AskForRetry => state = "forward" /\ (TryAgain \/ TryNext \/ Result("fail", answered))
  BY DEF AskForRetry
<1>4. Raise => state = "forward" /\ (TryAgain \/ TryNext \/ \E e \in gone : Result("fail", e))
  BY DEF Raise
<1>. HIDE DEF answered, gone
<1>5. ASSUME NEW result \in {"continue", "halt", "fail"}, state = "forward", Result(result, answered)
      PROVE  \E entry \in Entry : Ends(result, entry)
  BY <1>5, <1>a, <1>b
<1>6. ASSUME NEW e \in gone, state = "forward", Result("fail", e)
      PROVE  \E entry \in Entry : Ends("fail", entry)
  BY <1>6, <1>a
<1>. QED BY <1>1, <1>2, <1>3, <1>4, <1>5, <1>6 DEF Next

LEMMA NextIInv == IInv /\ [Next]_vars => IInv'
<1>. SUFFICES ASSUME IInv, [Next]_vars PROVE IInv'
  OBVIOUS
<1>1. CASE Next
  BY <1>1, StepCases, TryAgainKeeps, TryNextKeeps, ResultKeeps, RollbackKeeps, DieKeeps
<1>2. CASE UNCHANGED vars
  BY <1>2 DEF IInv, Types, Progress, Shown, InOrder, Belongs, Candidates, Position, vars
<1>. QED BY <1>1, <1>2

THEOREM Invariant == Spec => []IInv
BY InitIInv, NextIInv, PTL DEF Spec

-----------------------------------------------------------------------------
\* The counters of Pipeline.run and _execute_stage_with_retries stay within
\* their loops.
THEOREM TypeCorrect == Spec => []TypeOK
<1>1. IInv => TypeOK
  BY DEF IInv, Types, Entry, Progress, TypeOK
<1>. QED BY <1>1, Invariant, PTL

\* The run ends as its pipeline did, and the journal has one entry for each stage
\* with a result, whatever was retried: of the stage or, when it was healed, of one
\* of its alternatives, and a failure only at its end.
THEOREM OutcomeCorrect == Spec => []OutcomeIsRecorded
<1>1. IInv => StatusTellsTheOutcome
  BY DEF IInv, Types, Progress, Shown, StatusTellsTheOutcome
<1>2. IInv => JournalIsInOrder
  BY DEF IInv, Types, InOrder, Belongs, JournalIsInOrder
<1>. QED BY <1>1, <1>2, Invariant, PTL DEF OutcomeIsRecorded

-----------------------------------------------------------------------------
LEMMA InitSaga == Init => S!Init
BY DEF Init, S!Init

LEMMA ResultSaga ==
  ASSUME IInv, state = "forward",
         NEW result \in {"continue", "halt", "fail"},
         NEW entry \in Entry, Result(result, entry)
  PROVE  S!Advance \/ S!Abort
<1>1. /\ Len(history) < Len(Stages) /\ Len(history) \in Nat
      /\ history' = Append(history, Stages[Len(history) + 1])
      /\ undone' = undone
  BY DEF IInv, Types, Progress, Result, Position
<1>2. CASE state' = "aborted"
  BY <1>1, <1>2 DEF S!Abort
<1>3. CASE state' = NextState(result)
  BY <1>1, <1>3, PipelineAssumption DEF S!Advance, NextState, Position
<1>. QED BY <1>2, <1>3 DEF Result

\* Pipeline.run implements a saga: retries, alternatives and journal errors
\* cannot be told from the results and the rollbacks.
THEOREM Refinement == Spec => ImplementsSaga
<1>1. ASSUME IInv, [Next]_vars PROVE [S!Next]_(S!vars)
  <2>1. CASE state = "forward" /\ (TryAgain \/ TryNext)
    BY <2>1 DEF TryAgain, TryNext, S!vars
  <2>2. CASE /\ state = "forward"
             /\ \E result \in {"continue", "halt", "fail"}, entry \in Entry : Result(result, entry)
    BY <1>1, <2>2, ResultSaga DEF S!Next
  <2>3. CASE Rollback
    BY <1>1, <2>3, RollbackKeeps DEF Rollback, IInv, Progress, S!Next, S!Undo
  <2>4. CASE Die
    BY <2>4 DEF Die, S!Next, S!Abort
  <2>5. CASE UNCHANGED vars
    BY <2>5 DEF vars, S!vars
  <2>. QED BY <1>1, <2>1, <2>2, <2>3, <2>4, <2>5, StepCases
<1>. QED BY <1>1, InitSaga, Invariant, PTL DEF Spec, S!Spec, ImplementsSaga

(* GicsClient: a record that is read belongs to the command that asked for *)
(* it, or its model is astray; so the next outcome is one more than those  *)
(* that are kept, until it is kept itself.                                 *)

GicsConstants == MaxSamples \in Nat /\ None \notin G!Fields /\ None \notin Seq(G!Line)

\* Counters that add up, or none.
Sums ==
    {f \in G!Fields : f.samples = f.successes + f.failures /\ f.streak <= f.failures}
       \cup {None}

Operations ==
    [op : {"outcome", "seed", "reliability", "health"}, model : DaemonModel, success : BOOLEAN,
     command : {"get", "put"}, attempt : Nat, fields : Sums]

Kept(f) == IF f = None THEN 0 ELSE f.samples

CallIsTyped ==
    \/ call = G!Idle
    \/ /\ call \in Operations
       /\ call.command = "put" => call.op \in {"outcome", "seed"} /\ call.fields # None

\* The answer that is left is that of the command before the next one.
OneBehind ==
    unread # None =>
        /\ unread \in Seq(G!Line) /\ Len(unread) <= 1
        /\ \A i \in 1..Len(unread) : unread[i].id = sent /\ unread[i].fields \in Sums

\* How many outcomes of m are kept while an operation on m is under way.
Counted(m) ==
    CASE call.command = "get" /\ call.op = "outcome" -> Kept(store[m]) = recorded[m] - 1
      [] call.command = "get" /\ call.op # "outcome" -> Kept(store[m]) = recorded[m]
      [] call.command = "put" /\ call.op = "outcome" ->
            Kept(store[m]) \in {recorded[m] - 1, recorded[m]} /\ Kept(call.fields) = recorded[m]
      [] call.command = "put" /\ call.op # "outcome" ->
            Kept(store[m]) = recorded[m] /\ Kept(call.fields) = recorded[m]

CountersHold ==
    \A m \in DaemonModel \ astray :
        IF call # G!Idle /\ call.model = m THEN Counted(m) ELSE Kept(store[m]) = recorded[m]

GicsTypes ==
    /\ store \in [DaemonModel -> Sums] /\ alive \in BOOLEAN /\ sent \in 0..1
    /\ recorded \in [DaemonModel -> 0..MaxSamples] /\ astray \subseteq DaemonModel

GicsInv == GicsTypes /\ CallIsTyped /\ OneBehind /\ CountersHold

LEMMA IdleIsNoOperation == \A c \in Operations : c # G!Idle
<1>. SUFFICES ASSUME NEW c \in Operations PROVE c # G!Idle
  OBVIOUS
<1>1. c.op # "idle"
  BY DEF Operations
<1>2. G!Idle.op = "idle"
  BY DEF G!Idle
<1>. QED  BY <1>1, <1>2

LEMMA SumsOf ==
  ASSUME GicsConstants
  PROVE  /\ G!NoFields \in Sums /\ G!NoFields # None /\ Kept(G!NoFields) = 0
         /\ \A f \in Sums \ {None}, success \in BOOLEAN :
               /\ G!WithOutcome(f, success) \in Sums /\ G!WithOutcome(f, success) # None
               /\ Kept(G!WithOutcome(f, success)) = Kept(f) + 1
<1>1. G!NoFields \in G!Fields
  BY DEF G!NoFields, G!Fields
<1>2. ASSUME NEW f \in Sums \ {None}, NEW success \in BOOLEAN
      PROVE  /\ G!WithOutcome(f, success) \in G!Fields
             /\ G!WithOutcome(f, success).samples = f.samples + 1
             /\ G!WithOutcome(f, success) \in Sums
  <2>. DEFINE w == G!WithOutcome(f, success)
  <2>1. f \in G!Fields /\ f.samples = f.successes + f.failures /\ f.streak <= f.failures
    BY DEF Sums
  <2>2. {f.samples, f.successes, f.failures, f.streak} \subseteq Nat
    BY <2>1 DEF G!Fields
  <2>3. CASE success
    <3>1. w = [samples |-> f.samples + 1, successes |-> f.successes + 1,
               failures |-> f.failures + 0, streak |-> 0]
      BY <2>3 DEF G!WithOutcome
    <3>. QED  BY <2>1, <2>2, <3>1 DEF G!Fields, Sums
  <2>4. CASE ~success
    <3>1. w = [samples |-> f.samples + 1, successes |-> f.successes + 0,
               failures |-> f.failures + 1, streak |-> f.streak + 1]
      BY <2>4 DEF G!WithOutcome
    <3>. QED  BY <2>1, <2>2, <3>1 DEF G!Fields, Sums
  <2>. QED  BY <2>3, <2>4
<1>3. G!NoFields \in Sums /\ Kept(G!NoFields) = 0
  BY <1>1 DEF GicsConstants, G!NoFields, Sums, Kept
<1>. QED  BY <1>1, <1>2, <1>3 DEF GicsConstants, Kept

\* The daemon has handled the command, or it has not.
LEMMA StoreAfter ==
  ASSUME GicsInv, call # G!Idle, store' \in {store, G!Applied}
  PROVE  /\ call \in Operations /\ store' \in [DaemonModel -> Sums]
         /\ \A m \in DaemonModel : m # call.model => store'[m] = store[m]
         /\ call.command = "get" => store' = store
         /\ call.command = "put" =>
               /\ store'[call.model] \in {store[call.model], call.fields}
               /\ store' = G!Applied => store'[call.model] = call.fields
<1>1. call \in Operations /\ store \in [DaemonModel -> Sums]
  BY DEF GicsInv, CallIsTyped, GicsTypes
<1>2. call.model \in DaemonModel /\ call.fields \in Sums /\ call.command \in {"get", "put"}
  BY <1>1 DEF Operations
<1>3. G!Applied = IF call.command = "put" THEN [store EXCEPT ![call.model] = call.fields]
                                          ELSE store
  BY DEF G!Applied
<1>. QED  BY <1>1, <1>2, <1>3

LEMMA AnswerIsTheStore ==
  ASSUME GicsInv, call # G!Idle
  PROVE  /\ G!Answer \in G!Line /\ G!Answer.fields \in Sums
         /\ G!Answer.id = G!NextId(sent) /\ G!NextId(sent) \in 0..1 /\ G!NextId(sent) # sent
         /\ call.command = "get" => G!Answer.fields = store[call.model]
<1>1. call.model \in DaemonModel /\ store \in [DaemonModel -> Sums] /\ sent \in 0..1 /\ None \in Sums
  BY DEF GicsInv, CallIsTyped, GicsTypes, Operations, Sums
<1>2. G!NextId(sent) \in 0..1 /\ G!NextId(sent) # sent
  BY <1>1 DEF G!NextId
<1>3. G!Answer = [id |-> G!NextId(sent),
                  fields |-> IF call.command = "get" THEN store[call.model] ELSE None]
  BY DEF G!Answer
<1>4. Sums \subseteq G!Fields \cup {None}
  BY DEF Sums
<1>. QED  BY <1>1, <1>2, <1>3, <1>4 DEF G!Line

\* The operation after its command.
LEMMA ReturnKeeps ==
  ASSUME GicsConstants, GicsInv, call # G!Idle, NEW answer, NEW delivered \in BOOLEAN,
         answer # None =>
            /\ answer.fields \in Sums
            /\ answer.id = G!NextId(sent) => answer.fields = G!Answer.fields,
         store' \in {store, G!Applied}, delivered => store' = G!Applied,
         G!Return(answer, delivered), UNCHANGED <<alive, recorded>>
  PROVE  GicsTypes' /\ CallIsTyped' /\ CountersHold' /\ sent' = G!NextId(sent)
<1>. DEFINE fields == G!FieldsOf(answer)
            goesOn == call.command = "get" /\ call.op \in {"outcome", "seed"}
<1>1. /\ call \in Operations /\ store' \in [DaemonModel -> Sums]
      /\ \A m \in DaemonModel : m # call.model => store'[m] = store[m]
      /\ call.command = "get" => store' = store
      /\ call.command = "put" =>
            /\ store'[call.model] \in {store[call.model], call.fields}
            /\ store' = G!Applied => store'[call.model] = call.fields
  BY StoreAfter
<1>2. /\ call.model \in DaemonModel /\ call.command \in {"get", "put"} /\ call.success \in BOOLEAN
      /\ call.op \in {"outcome", "seed", "reliability", "health"}
      /\ call.command = "put" => call.op \in {"outcome", "seed"}
  BY <1>1 DEF Operations, GicsInv, CallIsTyped
<1>3. fields \in Sums \ {None}
  BY SumsOf DEF G!FieldsOf
<1>4. /\ sent' = G!NextId(sent)
      /\ astray' = IF call.op \in {"outcome", "seed"} /\ G!Lost(answer, delivered)
                   THEN astray \union {call.model} ELSE astray
      /\ G!Continue(answer)
  BY DEF G!Return
<1>5. GicsTypes'
  BY <1>1, <1>2, <1>4, AnswerIsTheStore DEF GicsInv, GicsTypes
<1>6. \A m \in DaemonModel : recorded'[m] = recorded[m] /\ recorded[m] \in Nat
  BY DEF GicsInv, GicsTypes, GicsConstants
<1>7. CASE goesOn
  <2>. DEFINE merged == G!Merged(fields, call)
  <2>1. /\ merged \in Sums /\ merged # None
        /\ Kept(merged) = IF call.op = "outcome" THEN Kept(fields) + 1 ELSE Kept(fields)
    <3>1. call.op = "outcome" => merged = G!WithOutcome(fields, call.success)
      BY DEF G!Merged
    <3>2. call.op # "outcome" => merged = fields
      BY DEF G!Merged
    <3>. QED  BY <1>2, <1>3, <3>1, <3>2, SumsOf
  <2>2. call' = [call EXCEPT !.command = "put", !.attempt = 1, !.fields = merged]
    BY Zenon, <1>4, <1>7 DEF G!Continue
  <2>. HIDE DEF merged
  <2>3. /\ call' \in Operations /\ call'.command = "put" /\ call'.fields = merged
        /\ call'.op = call.op /\ call'.model = call.model
    BY <1>1, <2>1, <2>2 DEF Operations
  <2>4. CallIsTyped'
    BY <1>7, <2>1, <2>3 DEF CallIsTyped
  <2>5. call' # G!Idle
    BY <2>3, IdleIsNoOperation
  <2>6. ASSUME NEW m \in DaemonModel \ astray', m = call.model PROVE Counted(m)'
    <3>1. m \notin astray /\ ~G!Lost(answer, delivered)
      BY <1>4, <1>7, <2>6
    <3>2. Kept(fields) = Kept(store[m])
      <4>1. answer # None /\ answer.fields = store[m]
        BY <1>7, <2>6, <3>1, AnswerIsTheStore DEF G!Lost
      <4>. QED  BY <4>1, SumsOf DEF G!FieldsOf, Kept
    <3>3. Counted(m)
      BY <2>6, <3>1 DEF GicsInv, CountersHold
    <3>4. Kept(store'[m]) = Kept(store[m])
      BY <1>1, <1>7
    <3>5. CASE call.op = "outcome"
      <4>1. Kept(store[m]) = recorded[m] - 1
        BY <1>7, <3>3, <3>5 DEF Counted
      <4>2. Kept(store'[m]) = recorded'[m] - 1 /\ Kept(call'.fields) = recorded'[m]
        BY <1>6, <2>1, <2>3, <3>2, <3>4, <3>5, <4>1
      <4>. QED  BY <2>3, <3>5, <4>2 DEF Counted, Kept
    <3>6. CASE call.op # "outcome"
      <4>1. Kept(store[m]) = recorded[m]
        BY <1>7, <3>3, <3>6 DEF Counted
      <4>2. Kept(store'[m]) = recorded'[m] /\ Kept(call'.fields) = recorded'[m]
        BY <1>6, <2>1, <2>3, <3>2, <3>4, <3>6, <4>1
      <4>. QED  BY <2>3, <3>6, <4>2 DEF Counted, Kept
    <3>. QED  BY <3>5, <3>6
  <2>7. ASSUME NEW m \in DaemonModel \ astray', m # call.model
        PROVE  Kept(store'[m]) = recorded'[m]
    BY <1>1, <1>4, <1>6, <2>7 DEF GicsInv, CountersHold
  <2>8. CountersHold'
    BY <2>3, <2>5, <2>6, <2>7 DEF CountersHold, Kept
  <2>. QED  BY <1>4, <1>5, <2>4, <2>8
<1>8. CASE ~goesOn
  <2>1. call' = G!Idle
    BY Zenon, <1>4, <1>8 DEF G!Continue
  <2>2. ASSUME NEW m \in DaemonModel \ astray' PROVE Kept(store'[m]) = recorded'[m]
    <3>1. m \notin astray
      BY <1>4
    <3>2. CASE m # call.model
      BY <1>1, <1>6, <3>1, <3>2 DEF GicsInv, CountersHold
    <3>3. CASE m = call.model /\ call.command = "get"
      <4>1. Counted(m)
        BY <3>1, <3>3 DEF GicsInv, CountersHold
      <4>2. Kept(store[m]) = recorded[m]
        BY <1>8, <3>3, <4>1 DEF Counted
      <4>. QED  BY <1>1, <1>6, <3>3, <4>2
    <3>4. CASE m = call.model /\ call.command = "put"
      <4>1. delivered
        BY <1>2, <1>4, <3>1, <3>4 DEF G!Lost
      <4>2. store'[m] = call.fields
        BY <1>1, <3>4, <4>1
      <4>3. Counted(m)
        BY <3>1, <3>4 DEF GicsInv, CountersHold
      <4>4. Kept(call.fields) = recorded[m]
        BY <1>2, <3>4, <4>3 DEF Counted
      <4>. QED  BY <1>6, <4>2, <4>4
    <3>. QED  BY <1>2, <3>2, <3>3, <3>4
  <2>3. CountersHold'
    BY <2>1, <2>2 DEF CountersHold, Kept
  <2>. QED  BY <1>4, <1>5, <2>1, <2>3 DEF CallIsTyped
<1>. QED  BY <1>7, <1>8

LEMMA AnsweredKeeps ==
  ASSUME GicsConstants, GicsInv, G!Answered
  PROVE  GicsInv'
<1>. DEFINE before == IF unread = None THEN <<>> ELSE unread
            lines == before \o <<G!Answer>>
<1>1. /\ alive /\ call # G!Idle /\ store' = G!Applied
      /\ G!Return(Head(lines), TRUE) /\ unread' \in {Tail(lines), <<>>}
      /\ UNCHANGED <<alive, recorded>>
  BY Zenon DEF G!Answered
<1>2. /\ G!Answer \in G!Line /\ G!Answer.fields \in Sums
      /\ G!Answer.id = G!NextId(sent) /\ G!NextId(sent) \in 0..1 /\ G!NextId(sent) # sent
  BY <1>1, AnswerIsTheStore
<1>3. /\ before \in Seq(G!Line) /\ Len(before) <= 1
      /\ \A i \in 1..Len(before) : before[i].id = sent /\ before[i].fields \in Sums
  BY DEF GicsInv, OneBehind
<1>. HIDE DEF before
<1>4. lines \in Seq(G!Line) /\ Len(lines) = Len(before) + 1 /\ lines[Len(lines)] = G!Answer
  BY <1>2, <1>3
<1>5. Len(before) = 1 => lines[1] = before[1]
  BY <1>2, <1>3
<1>. HIDE DEF lines
<1>6. /\ Head(lines) = lines[1] /\ Tail(lines) \in Seq(G!Line)
      /\ Len(Tail(lines)) = Len(lines) - 1
      /\ \A i \in 1..Len(Tail(lines)) : Tail(lines)[i] = lines[i + 1]
  BY <1>3, <1>4
<1>7. /\ Head(lines).fields \in Sums
      /\ Head(lines).id = G!NextId(sent) => Head(lines).fields = G!Answer.fields
  BY <1>2, <1>3, <1>4, <1>5, <1>6
<1>8. GicsTypes' /\ CallIsTyped' /\ CountersHold' /\ sent' = G!NextId(sent)
  BY <1>1, <1>7, ReturnKeeps
<1>9. OneBehind'
  <2>1. CASE unread' = <<>>
    BY <2>1 DEF OneBehind
  <2>2. CASE unread' = Tail(lines)
    <3>1. \A i \in 1..Len(unread') : unread'[i] = G!Answer
      BY <1>3, <1>4, <1>6, <2>2
    <3>2. unread' \in Seq(G!Line) /\ Len(unread') <= 1
      BY <1>3, <1>4, <1>6, <2>2
    <3>. QED  BY <1>2, <1>8, <3>1, <3>2 DEF OneBehind
  <2>. QED  BY <1>1, <2>1, <2>2
<1>. QED  BY <1>8, <1>9 DEF GicsInv

LEMMA BrokenKeeps ==
  ASSUME GicsConstants, GicsInv, G!Broken
  PROVE  GicsInv'
<1>1. GicsTypes' /\ CallIsTyped' /\ CountersHold' /\ sent' = G!NextId(sent)
  BY ReturnKeeps DEF G!Broken
<1>2. /\ G!Answer \in G!Line /\ G!Answer.fields \in Sums /\ G!Answer.id = sent'
      /\ unread' = <<G!Answer>>
  BY <1>1, AnswerIsTheStore DEF G!Broken
<1>3. OneBehind'
  BY <1>2 DEF OneBehind
<1>. QED  BY <1>1, <1>3 DEF GicsInv

LEMMA RaisedKeeps ==
  ASSUME GicsConstants, GicsInv, G!Raised
  PROVE  GicsInv'
<1>1. /\ call # G!Idle /\ unread' = None /\ store' \in {store, G!Applied}
      /\ UNCHANGED <<alive, recorded>>
  BY DEF G!Raised
<1>2. OneBehind'
  BY <1>1 DEF OneBehind
<1>3. CASE G!Return(None, FALSE)
  BY <1>1, <1>2, <1>3, ReturnKeeps DEF GicsInv
<1>4. CASE /\ call' = [call EXCEPT !.attempt = call.attempt + 1]
           /\ sent' = G!NextId(sent) /\ UNCHANGED astray
  <2>1. /\ call \in Operations /\ store' \in [DaemonModel -> Sums]
        /\ \A m \in DaemonModel : m # call.model => store'[m] = store[m]
        /\ call.command = "get" => store' = store
        /\ call.command = "put" => store'[call.model] \in {store[call.model], call.fields}
    BY <1>1, StoreAfter
  <2>2. /\ call' \in Operations /\ call'.command = call.command /\ call'.op = call.op
        /\ call'.model = call.model /\ call'.fields = call.fields
    BY <1>4, <2>1 DEF Operations
  <2>3. CallIsTyped' /\ call' # G!Idle
    BY <1>1, <2>2, IdleIsNoOperation DEF GicsInv, CallIsTyped
  <2>4. GicsTypes'
    BY <1>1, <1>4, <2>1, AnswerIsTheStore DEF GicsInv, GicsTypes
  <2>5. \A m \in DaemonModel : recorded'[m] = recorded[m] /\ astray' = astray
    BY <1>1, <1>4
  <2>6. ASSUME NEW m \in DaemonModel \ astray', m # call.model
        PROVE  Kept(store'[m]) = recorded'[m]
    BY <2>1, <2>5, <2>6 DEF GicsInv, CountersHold
  <2>7. ASSUME NEW m \in DaemonModel \ astray', m = call.model PROVE Counted(m)'
    <3>1. Counted(m)
      BY <1>1, <2>5, <2>7 DEF GicsInv, CountersHold
    <3>2. CASE call.command = "get"
      <4>1. Kept(store'[m]) = Kept(store[m])
        BY <2>1, <3>2
      <4>. QED  BY <2>2, <2>5, <3>1, <3>2, <4>1 DEF Counted, Kept
    <3>3. CASE call.command = "put"
      <4>1. Kept(store'[m]) \in {Kept(store[m]), Kept(call.fields)}
        BY <2>1, <2>7, <3>3
      <4>2. Kept(call'.fields) = Kept(call.fields)
        BY <2>2
      <4>3. CASE call.op = "outcome"
        <5>1. /\ Kept(store[m]) \in {recorded[m] - 1, recorded[m]}
              /\ Kept(call.fields) = recorded[m]
          BY <3>1, <3>3, <4>3 DEF Counted
        <5>2. /\ Kept(store'[m]) \in {recorded'[m] - 1, recorded'[m]}
              /\ Kept(call'.fields) = recorded'[m]
          BY <2>5, <4>1, <4>2, <5>1
        <5>. QED  BY <2>2, <3>3, <4>3, <5>2 DEF Counted, Kept
      <4>4. CASE call.op # "outcome"
        <5>1. Kept(store[m]) = recorded[m] /\ Kept(call.fields) = recorded[m]
          BY <3>1, <3>3, <4>4 DEF Counted
        <5>2. Kept(store'[m]) = recorded'[m] /\ Kept(call'.fields) = recorded'[m]
          BY <2>5, <4>1, <4>2, <5>1
        <5>. QED  BY <2>2, <3>3, <4>4, <5>2 DEF Counted, Kept
      <4>. QED  BY <4>3, <4>4
    <3>. QED  BY <2>1, <3>2, <3>3 DEF Operations
  <2>8. CountersHold'
    BY <2>2, <2>3, <2>6, <2>7 DEF CountersHold, Kept
  <2>. QED  BY <1>2, <2>3, <2>4, <2>8 DEF GicsInv
<1>. QED  BY <1>3, <1>4 DEF G!Raised

LEMMA OperationKeeps ==
  ASSUME GicsConstants, GicsInv, NEW m \in DaemonModel, NEW success \in BOOLEAN,
         NEW op \in {"outcome", "seed", "reliability", "health"},
         call = G!Idle, call' = G!Operation(op, m, success),
         recorded' = IF op = "outcome" THEN [recorded EXCEPT ![m] = recorded[m] + 1]
                                       ELSE recorded,
         op = "outcome" => recorded[m] < MaxSamples,
         UNCHANGED <<store, alive, unread, sent, astray>>
  PROVE  GicsInv'
<1>1. /\ call' \in Operations /\ call'.command = "get" /\ call'.op = op /\ call'.model = m
      /\ call' # G!Idle
  <2>1. call' = [op |-> op, model |-> m, success |-> success, command |-> "get",
                 attempt |-> 1, fields |-> None]
    BY DEF G!Operation
  <2>2. None \in Sums
    BY DEF Sums
  <2>3. call' \in Operations
    BY <2>1, <2>2 DEF Operations
  <2>. QED  BY <2>1, <2>3, IdleIsNoOperation
<1>2. recorded \in [DaemonModel -> 0..MaxSamples] /\ MaxSamples \in Nat
  BY DEF GicsInv, GicsTypes, GicsConstants
<1>3. GicsTypes' /\ OneBehind' /\ CallIsTyped'
  BY <1>1, <1>2 DEF GicsInv, GicsTypes, OneBehind, CallIsTyped
<1>4. ASSUME NEW n \in DaemonModel \ astray'
      PROVE  IF n = m THEN Counted(n)' ELSE Kept(store'[n]) = recorded'[n]
  <2>1. Kept(store[n]) = recorded[n] /\ store' = store
    BY DEF GicsInv, CountersHold
  <2>2. CASE n # m
    BY <1>2, <2>1, <2>2
  <2>3. CASE n = m /\ op = "outcome"
    <3>1. recorded'[n] = recorded[n] + 1
      BY <1>2, <2>3
    <3>2. Kept(store'[n]) = recorded'[n] - 1
      BY <1>2, <2>1, <3>1
    <3>. QED  BY <1>1, <2>3, <3>2 DEF Counted, Kept
  <2>4. CASE n = m /\ op # "outcome"
    <3>1. Kept(store'[n]) = recorded'[n]
      BY <2>1, <2>4
    <3>. QED  BY <1>1, <2>4, <3>1 DEF Counted, Kept
  <2>. QED  BY <2>2, <2>3, <2>4
<1>5. CountersHold'
  BY <1>1, <1>4 DEF CountersHold, Kept
<1>. QED  BY <1>3, <1>5 DEF GicsInv

LEMMA NextKeepsGics ==
  ASSUME GicsConstants, GicsInv, [G!Next]_(G!vars)
  PROVE  GicsInv'
<1>1. CASE \E m \in DaemonModel, success \in BOOLEAN : G!RecordOutcome(m, success)
  BY <1>1, OperationKeeps DEF G!RecordOutcome
<1>2. CASE \E m \in DaemonModel, op \in {"seed", "reliability", "health"} : G!Ask(op, m)
  BY <1>2, OperationKeeps DEF G!Ask
<1>3. CASE G!Die \/ G!Restart \/ UNCHANGED G!vars
  <2>1. /\ UNCHANGED <<store, call, sent, recorded, astray>>
        /\ alive' \in {TRUE, FALSE, alive} /\ unread' \in {unread, None}
    BY Zenon, <1>3 DEF G!Die, G!Restart, G!vars
  <2>2. alive' \in BOOLEAN
    BY Zenon, <2>1 DEF GicsInv, GicsTypes
  <2>3. OneBehind'
    BY <2>1 DEF GicsInv, OneBehind
  <2>4. CountersHold'
    BY <2>1 DEF GicsInv, CountersHold, Counted, Kept
  <2>5. GicsTypes' /\ CallIsTyped'
    BY <2>1, <2>2 DEF GicsInv, GicsTypes, CallIsTyped
  <2>. QED  BY <2>3, <2>4, <2>5 DEF GicsInv
<1>. QED  BY <1>1, <1>2, <1>3, AnsweredKeeps, BrokenKeeps, RaisedKeeps DEF G!Next

\* However commands are repeated, answers are late and the daemon dies, for any number
\* of models: at most one answer is left unread, what is kept of a model adds up, and it
\* counts every outcome once unless an answer or a record of the model was lost.
THEOREM OutcomesAreCountedOnce ==
  GicsConstants /\ G!Spec => [](G!TypeOK /\ G!OutcomesAreCounted)
<1>. SUFFICES ASSUME GicsConstants PROVE G!Spec => [](G!TypeOK /\ G!OutcomesAreCounted)
  OBVIOUS
<1>1. ASSUME G!Init PROVE GicsInv
  <2>1. /\ store = [m \in DaemonModel |-> None] /\ recorded = [m \in DaemonModel |-> 0]
        /\ unread = None /\ call = G!Idle /\ sent = 0 /\ alive \in BOOLEAN /\ astray = {}
    BY <1>1 DEF G!Init
  <2>2. GicsTypes
    BY <2>1 DEF GicsTypes, GicsConstants, Sums
  <2>. QED  BY <2>1, <2>2 DEF GicsInv, CallIsTyped, OneBehind, CountersHold, Kept
<1>2. GicsInv /\ [G!Next]_(G!vars) => GicsInv'
  BY NextKeepsGics
<1>3. GicsInv => G!TypeOK /\ G!OutcomesAreCounted
  <2>. SUFFICES ASSUME GicsInv PROVE G!TypeOK /\ G!OutcomesAreCounted
    OBVIOUS
  <2>1. G!TypeOK
    BY DEF GicsInv, GicsTypes, OneBehind, G!TypeOK, Sums
  <2>2. G!AtMostOneBehind
    BY DEF GicsInv, OneBehind, G!AtMostOneBehind
  <2>3. G!RecordsAddUp
    BY DEF GicsInv, GicsTypes, Sums, G!RecordsAddUp
  <2>4. ASSUME NEW m \in DaemonModel \ astray, call = G!Idle \/ call.model # m \/ call.op # "outcome"
        PROVE  recorded[m] = Kept(store[m])
    <3>1. CASE call # G!Idle /\ call.model = m
      <4>1. Counted(m) /\ call.op # "outcome" /\ call.command \in {"get", "put"}
        BY <2>4, <3>1 DEF GicsInv, CountersHold, CallIsTyped, Operations
      <4>. QED  BY <4>1 DEF Counted
    <3>2. CASE ~(call # G!Idle /\ call.model = m)
      BY <3>2 DEF GicsInv, CountersHold
    <3>. QED  BY <3>1, <3>2
  <2>5. G!CountedOnce
    BY <2>4 DEF G!CountedOnce, Kept
  <2>. QED  BY <2>1, <2>2, <2>3, <2>5 DEF G!OutcomesAreCounted
<1>. QED  BY <1>1, <1>2, <1>3, PTL DEF G!Spec

----------------------------------------------------------------------------
(* ModelRouter: no filter leaves a rule out unless it would leave nothing. *)

RouterConstants == None \notin RouterModel

\* The filters, one after the other.
LEMMA FiltersNarrow ==
  ASSUME NEW q
  PROVE  /\ R!Best(q) \subseteq R!Candidates(q)
         /\ R!Candidates(q) \subseteq R!OnHardware(R!Capable(q), q)
         /\ R!OnHardware(R!Capable(q), q) \subseteq R!Capable(q)
         /\ R!Capable(q) \subseteq R!Within(q)
         /\ R!Within(q) \subseteq q.inventory
         /\ R!Candidates(q) = {} => R!Within(q) = {}
<1>1. R!Best(q) \subseteq R!Candidates(q)
  BY Zenon DEF R!Best, R!Unless, R!Least
<1>2. /\ R!Candidates(q) \subseteq R!OnHardware(R!Capable(q), q)
      /\ R!Candidates(q) = {} => R!OnHardware(R!Capable(q), q) = {}
  BY DEF R!Candidates, R!Affordable, R!Unless
<1>3. ASSUME NEW all
      PROVE  /\ R!OnHardware(all, q) \subseteq all
             /\ R!OnHardware(all, q) = {} => all = {}
  BY DEF R!OnHardware, R!Unless
<1>4. /\ R!Capable(q) \subseteq R!Within(q)
      /\ R!Capable(q) = {} => R!Within(q) = {}
  BY DEF R!Capable
<1>5. R!Within(q) \subseteq q.inventory
  BY DEF R!Within
<1>. QED  BY <1>1, <1>2, <1>3, <1>4, <1>5

\* Whom the load and the budgets let through.
LEMMA FiltersHold ==
  ASSUME NEW q, NEW m \in R!Candidates(q)
  PROVE  /\ (\E o \in R!Capable(q) : ~R!Blocked(o, q)) => ~R!Blocked(m, q)
         /\ Info[m].provider \in q.exhausted =>
               ~\E o \in R!Capable(q) : /\ Info[o].provider \notin q.exhausted
                                        /\ ~R!Blocked(o, q)
                                        /\ q.load = "caution" => R!CautionSafe(o)
<1>. DEFINE able == R!Capable(q)
            onHardware == R!OnHardware(able, q)
<1>1. m \in onHardware
  BY FiltersNarrow
<1>2. CASE q.load = "critical"
  <2>1. onHardware = R!Unless({o \in able : ~R!Blocked(o, q)}, able)
    BY <1>2 DEF R!OnHardware
  <2>2. (\E o \in able : ~R!Blocked(o, q)) => ~R!Blocked(m, q)
    BY <1>1, <2>1 DEF R!Unless
  <2>3. \A o \in able : ~R!Blocked(o, q) => o \in onHardware
    BY <2>1 DEF R!Unless
  <2>4. ASSUME NEW o \in onHardware, Info[m].provider \in q.exhausted
        PROVE  Info[o].provider \in q.exhausted
    BY <2>4 DEF R!Candidates, R!Affordable, R!Unless
  <2>. QED  BY <2>2, <2>3, <2>4
<1>3. CASE q.load # "critical"
  <2>1. ~R!Blocked(m, q)
    BY <1>3 DEF R!Blocked
  <2>2. \A o \in able :
           (q.load = "caution" => R!CautionSafe(o)) => o \in onHardware
    BY <1>3 DEF R!OnHardware, R!Unless
  <2>3. ASSUME NEW o \in onHardware, Info[m].provider \in q.exhausted
        PROVE  Info[o].provider \in q.exhausted
    BY <2>3 DEF R!Candidates, R!Affordable, R!Unless
  <2>. QED  BY <2>1, <2>2, <2>3
<1>. QED  BY <1>2, <1>3

\* Whatever models, tasks, settings, loads and budgets there are, a model that the node
\* did not name breaks a rule only where every model that is left would.
THEOREM RoutersAreSound ==
  RouterConstants /\ R!Spec => [](R!TypeOK /\ R!RoutingIsSound)
<1>. SUFFICES ASSUME RouterConstants PROVE R!Spec => [](R!TypeOK /\ R!RoutingIsSound)
  OBVIOUS
<1>1. R!Init => R!TypeOK /\ R!RoutingIsSound
  BY Zenon DEF RouterConstants, R!Init, R!TypeOK, R!RoutingIsSound
<1>2. ASSUME R!TypeOK, R!RoutingIsSound, [R!Next]_(R!vars)
      PROVE  R!TypeOK' /\ R!RoutingIsSound'
  <2>1. CASE UNCHANGED R!vars
    <3>1. query' = query /\ decision' = decision
      BY <2>1 DEF R!vars
    <3>. QED  BY Zenon, <1>2, <3>1 DEF R!TypeOK, R!RoutingIsSound
  <2>2. CASE R!ChooseModel
    <3>1. /\ query' = query /\ query \in R!Query /\ decision' \in R!Choices(query)
          /\ query.inventory \subseteq RouterModel
          /\ query.inventory # {} => ActiveModel \in query.inventory
      BY <1>2, <2>2 DEF R!ChooseModel, R!TypeOK, R!Query
    <3>2. decision' = query.explicit \/ decision' \in R!Candidates(query)
          \/ (R!Candidates(query) = {} /\ decision' = R!Fallback(query))
      BY <3>1, FiltersNarrow DEF R!Choices
    <3>3. decision' \in RouterModel \cup {None, "unknown"}
      BY <3>1, FiltersNarrow DEF R!Choices, R!Fallback
    <3>4. ASSUME decision' \in R!Candidates(query) PROVE R!RoutingIsSound'
      BY Zenon, <3>1, <3>4, FiltersNarrow, FiltersHold DEF R!RoutingIsSound, R!Capable
    <3>5. ASSUME R!Candidates(query) = {} PROVE R!RoutingIsSound'
      <4>1. R!Within(query) = {}
        BY <3>5, FiltersNarrow
      <4>. QED  BY Zenon, <3>1, <4>1 DEF R!RoutingIsSound
    <3>6. ASSUME decision' = query.explicit PROVE R!RoutingIsSound'
      BY Zenon, <3>1, <3>6 DEF R!RoutingIsSound
    <3>. QED  BY <3>1, <3>2, <3>3, <3>4, <3>5, <3>6 DEF R!TypeOK
  <2>. QED  BY <1>2, <2>1, <2>2 DEF R!Next
<1>. QED  BY <1>1, <1>2, PTL DEF R!Spec

----------------------------------------------------------------------------
(* Workflows: type correctness and EdgesAreFollowed are inductive together. *)

Work == [node : GraphNode, iterations : 1..MaxIterations]

WorkflowConstants == W!WorkflowsConstants /\ Absent \notin W!Engine /\ Absent \notin Work

Followed == W!TypeOK /\ W!EdgesAreFollowed

LEMMA LeastIs ==
  ASSUME NEW Items, Items \subseteq Nat, Items # {}
  PROVE  \E x \in Items : \A y \in Items : x <= y
<1>. DEFINE less == OpToRel(<, Nat)
<1>1. IsWellFoundedOn(less, Nat)
  BY NatLessThanWellFounded
<1>2. \A x, y \in Nat : x < y => <<x, y>> \in less
  BY DEF OpToRel
<1>. HIDE DEF less
<1>3. PICK x \in Items : \A y \in Items : ~(<<y, x>> \in less)
  BY <1>1, WFMin
<1>4. \A y \in Items : ~(y < x) /\ x \in Nat /\ y \in Nat
  BY <1>2, <1>3
<1>. QED  BY <1>4

LEMMA MemberIs ==
  ASSUME NEW Items, NEW s \in Seq(Items), NEW i \in 1..Len(s)
  PROVE  s[i] \in Items /\ DOMAIN s = 1..Len(s)
OBVIOUS

\* _get_next_node answers with an edge that the checkpoint leaves open, the first one.
LEMMA NextNodeIs ==
  ASSUME WorkflowConstants, NEW c \in W!Checkpoint
  PROVE  /\ W!After(c) \in GraphNode \cup {None}
         /\ W!After(c) # None => W!LeadsTo(c, W!After(c))
<1>. DEFINE out == Edges[c.node]
            open == {i \in 1..Len(out) : ~out[i].conditional \/ c.holds}
            least == CHOOSE i \in open : \A j \in open : i <= j
<1>1. /\ out \in Seq([to : GraphNode, conditional : BOOLEAN])
      /\ W!After(c) = IF open = {} THEN None ELSE out[least].to
  BY DEF W!After, W!NextNode, W!Checkpoint, WorkflowConstants, W!WorkflowsConstants
<1>2. CASE open = {}
  BY <1>1, <1>2
<1>3. CASE open # {}
  <2>1. open \subseteq Nat
    OBVIOUS
  <2>2. \E i \in open : \A j \in open : i <= j
    BY <1>3, <2>1, LeastIs
  <2>3. least \in open /\ \A j \in open : least <= j
    BY <2>2
  <2>. HIDE DEF least
  <2>4. least \in 1..Len(out) /\ (out[least].conditional => c.holds)
    BY <2>3
  <2>5. \A j \in 1..(least - 1) : ~(out[j].conditional => c.holds)
    <3>. SUFFICES ASSUME NEW j \in 1..(least - 1) PROVE j \notin open /\ j \in 1..Len(out)
      OBVIOUS
    <3>. HIDE DEF open, out
    <3>1. j \in 1..Len(out) /\ ~(least <= j)
      BY <1>1, <2>4
    <3>. QED  BY <2>3, <3>1
  <2>6. DOMAIN out = 1..Len(out) /\ out[least].to \in GraphNode
    <3>1. out \in Seq([to : GraphNode, conditional : BOOLEAN]) /\ least \in 1..Len(out)
      BY <1>1, <2>4
    <3>2. DOMAIN out = 1..Len(out) /\ out[least] \in [to : GraphNode, conditional : BOOLEAN]
      BY <3>1, MemberIs
    <3>. HIDE DEF open, out
    <3>. QED  BY <3>2
  <2>7. W!After(c) = out[least].to
    BY <1>1, <1>3
  <2>8. W!LeadsTo(c, out[least].to)
    <3>. HIDE DEF open
    <3>. QED  BY <2>4, <2>5, <2>6 DEF W!LeadsTo
  <2>. QED  BY <2>6, <2>7, <2>8
<1>. QED  BY <1>2, <1>3

LEMMA OverBudgetIs ==
  ASSUME NEW f \in W!Flags, NEW g \in W!OverBudget(f)
  PROVE  g \in W!Flags /\ (g.paused \/ g.aborted)
<1>1. CASE g = [f EXCEPT !.paused = FALSE, !.aborted = TRUE]
  BY <1>1 DEF W!Flags
<1>2. CASE g = [f EXCEPT !.paused = TRUE, !.reason = TRUE]
  BY <1>2 DEF W!Flags
<1>. QED  BY <1>1, <1>2 DEF W!OverBudget

LEMMA AbortedIs ==
  ASSUME NEW f \in W!Flags
  PROVE  /\ W!Aborted(f) \in W!Flags /\ W!Aborted(f).aborted
         /\ W!Aborted(f).paused = f.paused
BY DEF W!Aborted, W!Flags

\* The loop is over.
LEMMA EndIs ==
  ASSUME NEW f \in W!Flags, NEW place, NEW i
  PROVE  LET o == W!AtTheEnd(f, place, i)
         IN  /\ o.task = Absent /\ o.flags \in W!Flags
             /\ o.flags.paused = f.paused /\ (f.aborted => o.flags.aborted)
             /\ (place = None \/ o.flags.aborted \/ ~(i >= MaxIterations))
<1>1. /\ W!AtTheEnd(f, place, i).task = Absent
      /\ W!AtTheEnd(f, place, i).flags = IF place # None /\ i >= MaxIterations THEN W!Aborted(f) ELSE f
  BY DEF W!AtTheEnd, W!Stop
<1>. QED  BY Zenon, <1>1, AbortedIs

\* The loop goes on or is over.
LEMMA ContinueIs ==
  ASSUME WorkflowConstants, NEW f \in W!Flags, NEW place \in GraphNode \cup {None},
         NEW i \in 0..MaxIterations, NEW o \in W!Continue(f, place, i)
  PROVE  /\ o.flags \in W!Flags
         /\ \/ o.task \in Work /\ o.task.node = place
            \/ o.task = Absent /\ (place = None \/ o.flags.paused \/ o.flags.aborted)
<1>1. MaxIterations \in Nat \ {0}
  BY DEF WorkflowConstants, W!WorkflowsConstants
<1>2. CASE place = None \/ i >= MaxIterations
  <2>1. o = W!AtTheEnd(f, place, i)
    BY <1>2 DEF W!Continue
  <2>. QED  BY <1>2, <2>1, EndIs
<1>3. CASE ~(place = None \/ i >= MaxIterations)
  <2>1. \/ o = [flags |-> f, task |-> [node |-> place, iterations |-> i + 1]]
        \/ o = W!Stop(W!Aborted(f))
        \/ \E g \in W!OverBudget(f) : o = W!Stop(g)
    BY <1>3 DEF W!Continue
  <2>2. CASE o = [flags |-> f, task |-> [node |-> place, iterations |-> i + 1]]
    BY <1>1, <1>3, <2>2 DEF Work
  <2>3. CASE o = W!Stop(W!Aborted(f))
    BY <2>3, AbortedIs DEF W!Stop
  <2>4. CASE \E g \in W!OverBudget(f) : o = W!Stop(g)
    BY <2>4, OverBudgetIs DEF W!Stop
  <2>. QED  BY <2>1, <2>2, <2>3, <2>4
<1>. QED  BY <1>2, <1>3

\* A request goes on with an engine that still has every checkpoint the others rest on.
LEMMA GoKeeps ==
  ASSUME WorkflowConstants, Followed, NEW r \in Requester, NEW made \in Seq(W!Checkpoint), NEW o,
         o.flags \in W!Flags,
         \/ o.task = Absent
         \/ /\ o.task \in Work
            /\ \/ o.task.node = First
               \/ \E i \in 1..Len(made) : W!LeadsTo(made[i], o.task.node),
         engine' = [checkpoints |-> made, flags |-> o.flags],
         request' = [request EXCEPT ![r] = o.task],
         kept' \in Seq(W!Checkpoint), stored' \in BOOLEAN,
         \A q \in Requester : q # r /\ request[q] # Absent =>
            \A i \in 1..Len(engine.checkpoints) :
               i \in 1..Len(made) /\ made[i] = engine.checkpoints[i]
  PROVE  Followed'
<1>1. /\ engine' \in W!Engine /\ engine' # Absent /\ engine'.checkpoints = made
      /\ DOMAIN made = 1..Len(made)
  BY DEF W!Engine, WorkflowConstants
<1>2. /\ request \in [Requester -> Work \cup {Absent}]
      /\ engine # Absent => engine.checkpoints \in Seq(W!Checkpoint)
      /\ \A q \in Requester : request[q] # Absent => engine # Absent
  BY DEF Followed, W!TypeOK, Work, W!Engine, W!UnderWay
<1>3. /\ request' \in [Requester -> Work \cup {Absent}] /\ request'[r] = o.task
      /\ \A q \in Requester : q # r => request'[q] = request[q]
  BY <1>2
<1>4. W!TypeOK'
  BY <1>1, <1>3 DEF W!TypeOK, Work
<1>5. ASSUME NEW q \in Requester, request'[q] # Absent
      PROVE  \/ request'[q].node = First
             \/ \E i \in DOMAIN engine'.checkpoints :
                   W!LeadsTo(engine'.checkpoints[i], request'[q].node)
  <2>1. CASE q = r
    BY <1>1, <1>3, <1>5, <2>1
  <2>2. CASE q # r
    <3>1. request'[q] = request[q] /\ request[q] # Absent
      BY <1>3, <1>5, <2>2
    <3>2. \/ request[q].node = First
          \/ \E i \in DOMAIN engine.checkpoints :
                W!LeadsTo(engine.checkpoints[i], request[q].node)
      BY <3>1 DEF Followed, W!EdgesAreFollowed, W!UnderWay
    <3>3. DOMAIN engine.checkpoints = 1..Len(engine.checkpoints)
      BY <1>2, <3>1
    <3>. QED  BY <1>1, <2>2, <3>1, <3>2, <3>3
  <2>. QED  BY <2>1, <2>2
<1>6. W!EdgesAreFollowed'
  BY <1>5 DEF W!EdgesAreFollowed, W!UnderWay
<1>. QED  BY <1>4, <1>6 DEF Followed

LEMMA WorkersHave ==
  ASSUME WorkflowConstants, Followed, NEW r \in Requester, request[r] # Absent
  PROVE  /\ request[r].node \in GraphNode /\ request[r].iterations \in 1..MaxIterations
         /\ MaxIterations \in Nat /\ Absent \notin W!Engine
         /\ engine \in W!Engine /\ engine.flags \in W!Flags
         /\ engine.checkpoints \in Seq(W!Checkpoint)
BY DEF Followed, W!TypeOK, W!UnderWay, W!Engine, WorkflowConstants, W!WorkflowsConstants

\* A checkpoint more.
LEMMA RecordKeeps ==
  ASSUME WorkflowConstants, Followed, NEW r \in Requester, request[r] # Absent,
         NEW c \in W!Checkpoint, NEW outcomes, W!Record(r, c, outcomes), stored' \in BOOLEAN,
         \A o \in outcomes :
            /\ o.flags \in W!Flags
            /\ o.task = Absent \/ (o.task \in Work /\ W!LeadsTo(c, o.task.node))
  PROVE  /\ Followed'
         /\ \E o \in outcomes :
               /\ engine'.checkpoints[Len(engine'.checkpoints)] = c
               /\ engine'.flags = o.flags /\ request'[r] = o.task
         /\ \A q \in Requester : q # r => request'[q] = request[q]
<1>. DEFINE made == Append(engine.checkpoints, c)
<1>1. PICK o \in outcomes :
         /\ engine' = [checkpoints |-> made, flags |-> o.flags]
         /\ request' = [request EXCEPT ![r] = o.task]
  BY DEF W!Record, W!Go
<1>2. /\ made \in Seq(W!Checkpoint) /\ Len(made) = Len(engine.checkpoints) + 1
      /\ made[Len(made)] = c /\ Len(made) \in 1..Len(made)
      /\ \A i \in 1..Len(engine.checkpoints) : i \in 1..Len(made) /\ made[i] = engine.checkpoints[i]
  BY WorkersHave
<1>. HIDE DEF made
<1>3. kept' \in Seq(W!Checkpoint)
  BY DEF W!Record, Followed, W!TypeOK
<1>4. \/ o.task = Absent
      \/ /\ o.task \in Work
         /\ \/ o.task.node = First
            \/ \E i \in 1..Len(made) : W!LeadsTo(made[i], o.task.node)
  BY <1>2
<1>5. Followed'
  BY <1>1, <1>2, <1>3, <1>4, GoKeeps
<1>6. DOMAIN request = Requester
  BY DEF Followed, W!TypeOK
<1>7. /\ engine'.checkpoints[Len(engine'.checkpoints)] = c
      /\ engine'.flags = o.flags /\ request'[r] = o.task
  BY <1>1, <1>2, <1>6
<1>8. \A q \in Requester : q # r => request'[q] = request[q]
  BY <1>1, <1>6
<1>. QED  BY <1>5, <1>7, <1>8

\* What the caller of r is told when r ends.
Told(r) ==
    LET newest == engine'.checkpoints[Len(engine'.checkpoints)]
    IN  request[r] # Absent /\ request'[r] = Absent /\ engine' # Absent =>
           \/ engine'.flags.paused \/ engine'.flags.aborted \/ engine.flags.reason
           \/ newest.status = "completed" /\ W!After(newest) = None

\* A step of one request does not end another.
LEMMA OthersGoOn ==
  ASSUME NEW r \in Requester, \A q \in Requester : q # r => request'[q] = request[q], Told(r)
  PROVE  \A q \in Requester : Told(q)
BY DEF Told

LEMMA CompleteKeeps ==
  ASSUME WorkflowConstants, Followed, NEW r \in Requester, NEW holds \in BOOLEAN, W!Complete(r, holds)
  PROVE  Followed' /\ \A q \in Requester : Told(q)
<1>. DEFINE place == request[r].node
            flags == [engine.flags EXCEPT !.paused = FALSE]
            next == W!NextNode(place, holds)
            c == [node |-> place, status |-> "completed", holds |-> holds, flags |-> flags]
            outcomes == W!Continue(flags, next, request[r].iterations)
                        \cup {W!AtTheEnd(f, next, request[r].iterations) : f \in W!OverBudget(flags)}
<1>1. request[r] # Absent /\ W!Record(r, c, outcomes) /\ stored' = stored
  BY DEF W!Complete
<1>2. /\ place \in GraphNode /\ request[r].iterations \in 0..MaxIterations /\ flags \in W!Flags
      /\ c \in W!Checkpoint /\ W!After(c) = next /\ c.status = "completed"
  <2>1. /\ place \in GraphNode /\ request[r].iterations \in 1..MaxIterations
        /\ engine.flags \in W!Flags /\ MaxIterations \in Nat
    BY <1>1, WorkersHave
  <2>2. flags \in W!Flags
    BY <2>1 DEF W!Flags
  <2>. HIDE DEF flags, place
  <2>. QED  BY <2>1, <2>2 DEF W!Checkpoint, W!After
<1>. HIDE DEF flags, place, next, c
<1>3. next \in GraphNode \cup {None} /\ (next # None => W!LeadsTo(c, next))
  BY <1>2, NextNodeIs
<1>4. ASSUME NEW o \in outcomes
      PROVE  /\ o.flags \in W!Flags
             /\ \/ o.task \in Work /\ W!LeadsTo(c, o.task.node)
                \/ o.task = Absent /\ (next = None \/ o.flags.paused \/ o.flags.aborted)
  <2>1. CASE o \in W!Continue(flags, next, request[r].iterations)
    <3>1. None \notin GraphNode
      BY DEF WorkflowConstants, W!WorkflowsConstants
    <3>. QED  BY <1>2, <1>3, <2>1, <3>1, ContinueIs DEF Work
  <2>2. CASE \E f \in W!OverBudget(flags) : o = W!AtTheEnd(f, next, request[r].iterations)
    BY <1>2, <2>2, EndIs, OverBudgetIs
  <2>. QED  BY <2>1, <2>2
<1>. HIDE DEF outcomes
<1>5. /\ Followed' /\ \A q \in Requester : q # r => request'[q] = request[q]
      /\ \E o \in outcomes :
            /\ engine'.checkpoints[Len(engine'.checkpoints)] = c
            /\ engine'.flags = o.flags /\ request'[r] = o.task
  <2>1. stored' \in BOOLEAN
    BY <1>1 DEF Followed, W!TypeOK
  <2>. QED  BY <1>1, <1>2, <1>4, <2>1, RecordKeeps
<1>6. Absent \notin Work
  BY DEF WorkflowConstants
<1>7. Told(r)
  BY <1>2, <1>4, <1>5, <1>6 DEF Told
<1>. QED  BY <1>5, <1>7, OthersGoOn

LEMMA FailKeeps ==
  ASSUME WorkflowConstants, Followed, NEW r \in Requester, W!Fail(r)
  PROVE  Followed' /\ \A q \in Requester : Told(q)
<1>1. PICK flags \in {engine.flags} \cup W!OverBudget(engine.flags) :
         /\ request[r] # Absent /\ stored' = stored
         /\ W!Record(r, [node |-> request[r].node, status |-> "failed", holds |-> FALSE,
                         flags |-> flags],
                     {W!AtTheEnd(W!AfterFailure(flags), request[r].node, request[r].iterations)})
  BY DEF W!Fail
<1>. DEFINE c == [node |-> request[r].node, status |-> "failed", holds |-> FALSE, flags |-> flags]
            o == W!AtTheEnd(W!AfterFailure(flags), request[r].node, request[r].iterations)
<1>2. /\ request[r].node \in GraphNode /\ engine.flags \in W!Flags
  BY <1>1, WorkersHave
<1>3. flags \in W!Flags /\ (flags = engine.flags \/ flags.paused \/ flags.aborted)
  BY <1>1, <1>2, OverBudgetIs
<1>4. c \in W!Checkpoint
  BY <1>2, <1>3 DEF W!Checkpoint
<1>5. /\ W!AfterFailure(flags) \in W!Flags
      /\ W!AfterFailure(flags).paused = flags.paused
      /\ flags.reason \/ W!AfterFailure(flags).aborted
  BY <1>3, AbortedIs DEF W!AfterFailure
<1>6. /\ o.task = Absent /\ o.flags \in W!Flags
      /\ o.flags.paused = flags.paused /\ (W!AfterFailure(flags).aborted => o.flags.aborted)
  BY <1>5, EndIs
<1>7. flags.aborted => W!AfterFailure(flags).aborted
  BY Zenon DEF W!AfterFailure
<1>. HIDE DEF c, o
<1>8. /\ Followed' /\ \A q \in Requester : q # r => request'[q] = request[q]
      /\ engine'.flags = o.flags
  <2>1. stored' \in BOOLEAN
    BY <1>1 DEF Followed, W!TypeOK
  <2>2. W!Record(r, c, {o})
    BY <1>1 DEF c, o
  <2>. QED  BY <1>1, <1>4, <1>6, <2>1, <2>2, RecordKeeps
<1>9. engine'.flags.paused \/ engine'.flags.aborted \/ engine.flags.reason
  BY <1>3, <1>5, <1>6, <1>7, <1>8
<1>. QED  BY <1>8, <1>9, OthersGoOn DEF Told

LEMMA PauseKeeps ==
  ASSUME WorkflowConstants, Followed, NEW r \in Requester, W!Pause(r)
  PROVE  Followed' /\ \A q \in Requester : Told(q)
<1>. DEFINE flags == [engine.flags EXCEPT !.paused = TRUE, !.reason = TRUE]
            o == W!AtTheEnd(flags, request[r].node, request[r].iterations)
<1>1. /\ request[r] # Absent /\ UNCHANGED <<kept, stored>>
      /\ engine' = [checkpoints |-> engine.checkpoints, flags |-> o.flags]
      /\ request' = [request EXCEPT ![r] = o.task]
  BY DEF W!Pause, W!Go
<1>2. flags \in W!Flags /\ flags.paused /\ engine.checkpoints \in Seq(W!Checkpoint)
  BY <1>1, WorkersHave DEF W!Flags
<1>. HIDE DEF flags
<1>3. o.task = Absent /\ o.flags \in W!Flags /\ o.flags.paused
  BY <1>2, EndIs
<1>. HIDE DEF o
<1>4. kept' \in Seq(W!Checkpoint) /\ stored' \in BOOLEAN /\ DOMAIN request = Requester
  BY <1>1 DEF Followed, W!TypeOK
<1>5. Followed'
  BY <1>1, <1>2, <1>3, <1>4, GoKeeps
<1>6. engine'.flags.paused /\ \A q \in Requester : q # r => request'[q] = request[q]
  BY <1>1, <1>3, <1>4
<1>. QED  BY <1>5, <1>6, OthersGoOn DEF Told

\* A request that is not under way begins, with a new engine or the checkpoints of one.
LEMMA BeginsKeeps ==
  ASSUME WorkflowConstants, Followed, NEW r \in Requester, request[r] = Absent,
         NEW made \in Seq(W!Checkpoint), NEW f \in W!Flags, NEW place \in GraphNode,
         place = First \/ \E i \in 1..Len(made) : W!LeadsTo(made[i], place),
         W!Go(r, made, W!Continue(f, place, 0)),
         kept' = kept, stored' \in BOOLEAN,
         W!UnderWay = {} \/ made = engine.checkpoints
  PROVE  Followed' /\ \A q \in Requester : Told(q)
<1>1. PICK o \in W!Continue(f, place, 0) :
         /\ engine' = [checkpoints |-> made, flags |-> o.flags]
         /\ request' = [request EXCEPT ![r] = o.task]
  BY DEF W!Go
<1>2. /\ o.flags \in W!Flags
      /\ o.task = Absent \/ (o.task \in Work /\ o.task.node = place)
  <2>1. 0 \in 0..MaxIterations
    BY DEF WorkflowConstants, W!WorkflowsConstants
  <2>. QED  BY <2>1, ContinueIs
<1>3. /\ kept' \in Seq(W!Checkpoint) /\ DOMAIN request = Requester
  BY DEF Followed, W!TypeOK
<1>4. \A q \in Requester : q # r /\ request[q] # Absent =>
         \A i \in 1..Len(engine.checkpoints) :
            i \in 1..Len(made) /\ made[i] = engine.checkpoints[i]
  BY DEF W!UnderWay
<1>5. Followed'
  <2>1. \/ o.task = Absent
        \/ /\ o.task \in Work
           /\ \/ o.task.node = First
              \/ \E i \in 1..Len(made) : W!LeadsTo(made[i], o.task.node)
    BY <1>2
  <2>. QED  BY <1>1, <1>2, <1>3, <1>4, <2>1, GoKeeps
<1>6. \A q \in Requester : q # r => request'[q] = request[q]
  BY <1>1, <1>3
<1>. QED  BY <1>5, <1>6, OthersGoOn DEF Told

LEMMA ExecuteKeeps ==
  ASSUME WorkflowConstants, Followed, NEW r \in Requester, W!Execute(r)
  PROVE  Followed' /\ \A q \in Requester : Told(q)
<1>1. /\ W!UnderWay = {} /\ W!Go(r, <<>>, W!Continue(W!Clear, First, 0))
      /\ stored' \in {stored, TRUE} /\ kept' = kept
  BY DEF W!Execute
<1>2. request[r] = Absent /\ stored' \in BOOLEAN
  BY <1>1 DEF W!UnderWay, Followed, W!TypeOK
<1>3. /\ W!Clear \in W!Flags /\ <<>> \in Seq(W!Checkpoint) /\ First \in GraphNode
  BY DEF W!Clear, W!Flags, WorkflowConstants, W!WorkflowsConstants
<1>. QED  BY <1>1, <1>2, <1>3, BeginsKeeps

LEMMA ResumesKeeps ==
  ASSUME WorkflowConstants, Followed, NEW r \in Requester, NEW made \in Seq(W!Checkpoint),
         NEW i \in 1..Len(made), W!ResumeWith(r, made, i),
         W!UnderWay = {} \/ made = engine.checkpoints
  PROVE  Followed' /\ \A q \in Requester : Told(q)
<1>. DEFINE next == W!After(made[i])
            place == IF next = None THEN First ELSE next
            f == [made[i].flags EXCEPT !.paused = FALSE]
<1>1. /\ request[r] = Absent /\ W!Go(r, made, W!Continue(f, place, 0))
      /\ stored' \in {stored, TRUE} /\ kept' = kept
  BY DEF W!ResumeWith
<1>2. stored' \in BOOLEAN
  BY <1>1 DEF Followed, W!TypeOK
<1>3. made[i] \in W!Checkpoint
  OBVIOUS
<1>4. f \in W!Flags
  BY <1>3 DEF W!Checkpoint, W!Flags
<1>5. next \in GraphNode \cup {None} /\ (next # None => W!LeadsTo(made[i], next))
  BY <1>3, NextNodeIs
<1>. HIDE DEF next, f
<1>6. place \in GraphNode /\ (place = First \/ \E k \in 1..Len(made) : W!LeadsTo(made[k], place))
  BY <1>5 DEF WorkflowConstants, W!WorkflowsConstants
<1>. HIDE DEF place
<1>. QED  BY <1>1, <1>2, <1>4, <1>6, BeginsKeeps

LEMMA RestartKeeps ==
  ASSUME WorkflowConstants, Followed, W!Load \/ W!Die
  PROVE  Followed' /\ \A q \in Requester : Told(q)
<1>1. CASE W!Load
  <2>1. \A q \in Requester : request[q] = Absent
    BY <1>1 DEF W!Load, Followed, W!TypeOK, W!UnderWay
  <2>2. engine' \in W!Engine
    <3>1. kept \in Seq(W!Checkpoint)
      BY DEF Followed, W!TypeOK
    <3>2. CASE kept = <<>>
      BY <1>1, <3>1, <3>2 DEF W!Load, W!Engine, W!Clear, W!Flags
    <3>3. CASE kept # <<>>
      <4>1. kept[Len(kept)] \in W!Checkpoint
        BY <3>1, <3>3
      <4>2. kept[Len(kept)].flags \in W!Flags
        BY <4>1 DEF W!Checkpoint
      <4>. QED  BY <1>1, <3>1, <3>3, <4>2 DEF W!Load, W!Engine
    <3>. QED  BY <3>2, <3>3
  <2>3. UNCHANGED <<kept, stored, request>>
    BY <1>1 DEF W!Load
  <2>4. Followed'
    BY <2>1, <2>2, <2>3 DEF Followed, W!TypeOK, W!EdgesAreFollowed, W!UnderWay
  <2>. QED  BY <2>1, <2>4 DEF Told
<1>2. CASE W!Die
  <2>1. /\ engine' = Absent /\ request' = [q \in Requester |-> Absent] /\ UNCHANGED <<kept, stored>>
    BY <1>2 DEF W!Die
  <2>2. Followed'
    BY <2>1 DEF Followed, W!TypeOK, W!EdgesAreFollowed, W!UnderWay
  <2>. QED  BY <2>1, <2>2 DEF Told
<1>. QED  BY <1>1, <1>2

LEMMA WorkflowStep ==
  ASSUME WorkflowConstants, Followed, W!Next
  PROVE  Followed' /\ \A q \in Requester : Told(q)
<1>1. CASE W!Load \/ W!Die
  BY <1>1, RestartKeeps
<1>2. ASSUME NEW r \in Requester, NEW i \in 1..MaxCheckpoints, W!Resume(r, i) \/ W!Reload(r, i)
      PROVE  Followed' /\ \A q \in Requester : Told(q)
  <2>1. CASE W!Resume(r, i)
    <3>1. /\ engine # Absent /\ i \in 1..Len(engine.checkpoints)
          /\ W!ResumeWith(r, engine.checkpoints, i)
      BY <2>1 DEF W!Resume
    <3>2. engine.checkpoints \in Seq(W!Checkpoint)
      BY <3>1 DEF Followed, W!TypeOK, W!Engine
    <3>. QED  BY <3>1, <3>2, ResumesKeeps
  <2>2. CASE W!Reload(r, i)
    <3>1. engine = Absent /\ i \in 1..Len(kept) /\ W!ResumeWith(r, kept, i)
      BY <2>2 DEF W!Reload
    <3>2. kept \in Seq(W!Checkpoint) /\ W!UnderWay = {}
      BY <3>1 DEF Followed, W!TypeOK
    <3>. QED  BY <3>1, <3>2, ResumesKeeps
  <2>. QED  BY <1>2, <2>1, <2>2
<1>. QED  BY <1>1, <1>2, ExecuteKeeps, CompleteKeeps, PauseKeeps, FailKeeps DEF W!Next

\* GraphEngine, for every graph, number of requests and limit of iterations: across pauses,
\* failures, resumes of any checkpoint, checkpoints that are lost, and restarts, a node is
\* executed only when it is the first one or a checkpoint leads to it.
THEOREM EdgesFollowed ==
  WorkflowConstants /\ W!Spec => [](W!TypeOK /\ W!EdgesAreFollowed)
<1>. SUFFICES ASSUME WorkflowConstants PROVE W!Spec => []Followed
  BY DEF Followed
<1>1. W!Init => Followed
  <2>. SUFFICES ASSUME W!Init PROVE Followed
    OBVIOUS
  <2>1. /\ engine = Absent /\ kept = <<>> /\ stored = FALSE
        /\ request = [r \in Requester |-> Absent]
    BY DEF W!Init
  <2>2. W!UnderWay = {} /\ kept \in Seq(W!Checkpoint)
    BY <2>1 DEF W!UnderWay
  <2>3. stored \in BOOLEAN
    BY Zenon, <2>1
  <2>. QED  BY <2>1, <2>2, <2>3 DEF Followed, W!TypeOK, W!EdgesAreFollowed
<1>2. ASSUME Followed, [W!Next]_(W!vars) PROVE Followed'
  <2>1. CASE UNCHANGED W!vars
    BY <1>2, <2>1 DEF W!vars, Followed, W!TypeOK, W!EdgesAreFollowed, W!UnderWay
  <2>. QED  BY <1>2, <2>1, WorkflowStep
<1>. QED  BY <1>1, <1>2, PTL DEF W!Spec

\* And the caller of an execution that ends before the last node is told that it is paused
\* or aborted, unless a reason was left behind in the engine.
THEOREM OutcomesTold == WorkflowConstants /\ W!Spec => W!OutcomeIsTold
<1>. SUFFICES ASSUME WorkflowConstants PROVE W!Spec => W!OutcomeIsTold
  OBVIOUS
<1>1. W!Spec => []Followed
  BY EdgesFollowed DEF Followed
<1>2. Followed /\ [W!Next]_(W!vars) => [\A r \in Requester : Told(r)]_(W!vars)
  BY WorkflowStep
<1>. QED  BY <1>1, <1>2, PTL DEF W!Spec, W!OutcomeIsTold, Told

----------------------------------------------------------------------------
(* Cascade: what a cascade under way may still do. *)

CascadeConstants ==
    /\ None \notin CascadeModel
    /\ ModelTier \in [CascadeModel -> Nat] /\ ModelCost \in [CascadeModel -> Nat]
    /\ Bindings \in Seq(CascadeModel)
    /\ MaxEscalations \in Nat /\ MaxTier \in Nat
    /\ Budget \in Nat \cup {None}

Job ==
    [stage : {"idle", "ask", "called", "done"}, prompt : Prompt \cup {None},
     model : CascadeModel \cup {None}, by : CascadeModel \cup {None}, chain : Seq(A!Attempt),
     final : CascadeModel \cup {None}, spent : Nat]

\* The attempts that were answered, and what the last one cost.
Replied(chain) == {n \in 1..Len(chain) : chain[n].by # None}

Price(by, hit) == IF hit \/ by = None THEN 0 ELSE ModelCost[by]

Final(j) ==
    /\ j.final = None <=> Replied(j.chain) = {}
    /\ Replied(j.chain) # {} =>
          \E n \in Replied(j.chain) :
             (\A o \in Replied(j.chain) : o <= n) /\ j.final = j.chain[n].by

Climbs(j) ==
    /\ Len(j.chain) <= MaxEscalations + 1
    /\ \A n \in 1..Len(j.chain) : j.chain[n].good => n = Len(j.chain) /\ j.stage = "done"
    /\ \A n \in 2..Len(j.chain) :
          j.chain[n - 1].known => ModelTier[j.chain[n].asked] > ModelTier[j.chain[n - 1].asked]
    /\ Final(j)

\* All but the last attempt were within the budget.
Spends(j) ==
    Budget # None /\ Len(j.chain) > 1 =>
       j.spent - Price(j.chain[Len(j.chain)].by, j.chain[Len(j.chain)].hit) < Budget

\* Another attempt is due.
Due(j) ==
    /\ j.prompt \in Prompt /\ j.model \in CascadeModel
    /\ Len(j.chain) < MaxEscalations + 1
    /\ Len(j.chain) > 0 =>
          /\ Budget # None => j.spent < Budget
          /\ j.chain[Len(j.chain)].known => ModelTier[j.model] > ModelTier[j.chain[Len(j.chain)].asked]

JobInv(j) ==
    /\ j \in Job /\ Climbs(j) /\ Spends(j)
    /\ j.stage \in {"ask", "called"} => Due(j)
    /\ j.stage = "called" => j.by \in CascadeModel

Reply == [by : CascadeModel, good : BOOLEAN]

CascadeInv ==
    /\ inventory \subseteq CascadeModel /\ trust \subseteq CascadeModel
    /\ cached \in [Prompt -> Reply \cup {None}]
    /\ job \in [Caller -> Job] /\ \A c \in Caller : JobInv(job[c])

LEMMA IdleIs == A!Idle \in Job /\ (CascadeConstants => JobInv(A!Idle))
<1>1. A!Idle \in Job /\ A!Idle.chain = <<>> /\ A!Idle.final = None /\ A!Idle.stage = "idle"
  BY DEF A!Idle, Job
<1>2. CascadeConstants => Climbs(A!Idle) /\ Spends(A!Idle)
  BY <1>1 DEF CascadeConstants, Climbs, Spends, Final, Replied
<1>. QED  BY <1>1, <1>2 DEF JobInv

\* The chain of a job gets one attempt more.
LEMMA ChainGrows ==
  ASSUME NEW s \in Seq(A!Attempt), NEW a \in A!Attempt
  PROVE  /\ Append(s, a) \in Seq(A!Attempt) /\ Len(Append(s, a)) = Len(s) + 1
         /\ Append(s, a)[Len(s) + 1] = a /\ Len(s) \in Nat
         /\ \A n \in 1..Len(s) : Append(s, a)[n] = s[n]
<1>. DEFINE Items == A!Attempt
<1>. HIDE DEF Items
<1>1. ASSUME NEW t \in Seq(Items), NEW b \in Items
      PROVE  /\ Append(t, b) \in Seq(Items) /\ Len(Append(t, b)) = Len(t) + 1
             /\ Append(t, b)[Len(t) + 1] = b /\ Len(t) \in Nat
             /\ \A n \in 1..Len(t) : Append(t, b)[n] = t[n]
  OBVIOUS
<1>. QED  BY <1>1 DEF Items

\* The answer that is kept is the last one.
LEMMA FinalKept ==
  ASSUME CascadeConstants, NEW j \in Job, Final(j), NEW a \in A!Attempt, NEW k \in Job,
         k.chain = Append(j.chain, a), k.final = IF a.by = None THEN j.final ELSE a.by
  PROVE  Final(k)
<1>. DEFINE before == Replied(j.chain)
            now == Replied(k.chain)
            size == Len(j.chain)
<1>1. /\ Len(k.chain) = size + 1 /\ size \in Nat /\ k.chain[size + 1] = a
      /\ \A n \in 1..size : k.chain[n] = j.chain[n]
  BY ChainGrows DEF Job
<1>2. a.by = None => now = before
  BY <1>1 DEF Replied
<1>3. a.by # None => now = before \cup {size + 1}
  BY <1>1 DEF Replied
<1>4. before \subseteq 1..size
  BY DEF Replied
<1>5. /\ j.final = None <=> before = {}
      /\ before # {} => \E n \in before : (\A o \in before : o <= n) /\ j.final = j.chain[n].by
  BY DEF Final
<1>. HIDE DEF before, now, size
<1>6. CASE a.by = None
  <2>1. k.final = j.final /\ now = before
    BY <1>2, <1>6
  <2>2. \A n \in before : k.chain[n] = j.chain[n]
    BY <1>1, <1>4
  <2>. QED  BY <1>5, <2>1, <2>2 DEF Final, now
<1>7. CASE a.by # None
  <2>1. k.final = a.by /\ now = before \cup {size + 1}
    BY <1>3, <1>7
  <2>2. \A o \in now : o <= size + 1
    BY <1>1, <1>4, <2>1
  <2>. QED  BY <1>1, <1>7, <2>1, <2>2 DEF Final, now
<1>. QED  BY <1>6, <1>7

\* Fields of a job change.
Answering(j, chain, final, spent) ==
    [j EXCEPT !.chain = chain, !.by = None, !.final = final, !.spent = spent]

AskWith(j, stage, by) == [j EXCEPT !.stage = stage, !.by = by]

Beginning(j, p, m) == [j EXCEPT !.stage = "ask", !.prompt = p, !.model = m]

LEMMA AnsweredIs ==
  ASSUME NEW j \in Job, NEW chain \in Seq(A!Attempt), NEW final \in CascadeModel \cup {None},
         NEW spent \in Nat
  PROVE  /\ Answering(j, chain, final, spent) \in Job
         /\ Answering(j, chain, final, spent).chain = chain
         /\ Answering(j, chain, final, spent).final = final
         /\ Answering(j, chain, final, spent).spent = spent
         /\ Answering(j, chain, final, spent).prompt = j.prompt
<1>. DEFINE k == Answering(j, chain, final, spent)
            chains == Seq(A!Attempt)
<1>1. /\ chain \in chains /\ spent \in Nat
      /\ j \in [stage : {"idle", "ask", "called", "done"}, prompt : Prompt \cup {None},
                model : CascadeModel \cup {None}, by : CascadeModel \cup {None}, chain : chains,
                final : CascadeModel \cup {None}, spent : Nat]
  BY DEF Job
<1>. HIDE DEF chains
<1>2. /\ k.chain = chain /\ k.final = final /\ k.spent = spent /\ k.prompt = j.prompt
  BY <1>1 DEF Answering
<1>3. k \in [stage : {"idle", "ask", "called", "done"}, prompt : Prompt \cup {None},
             model : CascadeModel \cup {None}, by : CascadeModel \cup {None}, chain : chains,
             final : CascadeModel \cup {None}, spent : Nat]
  BY <1>1 DEF Answering
<1>. QED  BY <1>2, <1>3 DEF k, Job, chains

LEMMA AskedIs ==
  ASSUME NEW j \in Job, NEW stage \in {"ask", "called"}, NEW by \in CascadeModel \cup {None}
  PROVE  /\ AskWith(j, stage, by) \in Job
         /\ AskWith(j, stage, by).stage = stage /\ AskWith(j, stage, by).by = by
         /\ AskWith(j, stage, by).prompt = j.prompt /\ AskWith(j, stage, by).model = j.model
         /\ AskWith(j, stage, by).chain = j.chain /\ AskWith(j, stage, by).final = j.final
         /\ AskWith(j, stage, by).spent = j.spent
BY DEF Job, AskWith

LEMMA BegunIs ==
  ASSUME NEW j \in Job, NEW p \in Prompt, NEW m \in CascadeModel
  PROVE  /\ Beginning(j, p, m) \in Job /\ Beginning(j, p, m).stage = "ask"
         /\ Beginning(j, p, m).prompt = p /\ Beginning(j, p, m).model = m
         /\ Beginning(j, p, m).chain = j.chain /\ Beginning(j, p, m).final = j.final
BY DEF Job, Beginning

LEMMA AttemptKeeps ==
  ASSUME CascadeConstants, inventory \subseteq CascadeModel, NEW j, JobInv(j), Due(j),
         j.stage \in {"ask", "called"},
         NEW by \in CascadeModel \cup {None}, NEW good \in BOOLEAN, NEW hit \in BOOLEAN,
         NEW k \in A!After(j, by, good, hit)
  PROVE  JobInv(k)
<1>. DEFINE a == [asked |-> j.model, by |-> by, good |-> good, hit |-> hit,
                  known |-> j.model \in inventory]
            next == [j EXCEPT !.chain = Append(j.chain, a), !.by = None,
                              !.final = IF by = None THEN j.final ELSE by,
                              !.spent = j.spent + IF hit \/ by = None THEN 0 ELSE ModelCost[by]]
            size == Len(j.chain)
<1>1. \/ k = [next EXCEPT !.stage = "done"]
      \/ /\ ~good /\ A!MayEscalate(next)
         /\ \E m \in A!Better(j.model) : k = [next EXCEPT !.stage = "ask", !.model = m]
  BY Zenon DEF A!After
<1>2. j \in Job /\ Climbs(j) /\ j.model \in CascadeModel /\ j.stage # "done" /\ j.prompt \in Prompt
  BY DEF JobInv, Due
<1>3. a \in A!Attempt
  BY <1>2 DEF A!Attempt
<1>4. Price(by, hit) \in Nat /\ j.spent \in Nat
  BY <1>2 DEF Price, CascadeConstants, Job
<1>. HIDE DEF a
<1>5. /\ next \in Job /\ next.chain = Append(j.chain, a) /\ next.prompt = j.prompt
      /\ next.final = (IF by = None THEN j.final ELSE by)
      /\ next.spent = j.spent + Price(by, hit)
  <2>. DEFINE chain == Append(j.chain, a)
              final == IF by = None THEN j.final ELSE by
              spent == j.spent + Price(by, hit)
  <2>1. chain \in Seq(A!Attempt)
    BY <1>2, <1>3, ChainGrows DEF Job
  <2>2. next = Answering(j, chain, final, spent)
    BY DEF Price, Answering
  <2>3. final \in CascadeModel \cup {None} /\ spent \in Nat
    BY <1>2, <1>4 DEF Job
  <2>. HIDE DEF next, chain, final, spent
  <2>4. /\ next \in Job /\ next.chain = chain /\ next.prompt = j.prompt
        /\ next.final = final /\ next.spent = spent
    BY <1>2, <2>1, <2>2, <2>3, AnsweredIs
  <2>. QED  BY <2>4 DEF chain, final, spent
<1>6. /\ k \in Job /\ k.chain = Append(j.chain, a) /\ k.final = next.final
      /\ k.spent = j.spent + Price(by, hit) /\ k.prompt = j.prompt
      /\ \/ k.stage = "done"
         \/ /\ k.stage = "ask" /\ ~good /\ A!MayEscalate(next)
            /\ k.model \in A!Better(j.model) /\ k.model \in CascadeModel
  <2>. HIDE DEF next
  <2>1. CASE k = [next EXCEPT !.stage = "done"]
    BY <1>5, <2>1 DEF Job
  <2>2. ASSUME A!MayEscalate(next), ~good, NEW m \in A!Better(j.model),
               k = [next EXCEPT !.stage = "ask", !.model = m]
        PROVE  /\ k \in Job /\ k.chain = Append(j.chain, a) /\ k.final = next.final
               /\ k.spent = j.spent + Price(by, hit) /\ k.prompt = j.prompt
               /\ k.stage = "ask" /\ k.model = m /\ k.model \in CascadeModel
    <3>1. m \in CascadeModel
      BY DEF A!Better, A!Cheapest
    <3>. QED  BY <1>5, <2>2, <3>1 DEF Job
  <2>. QED  BY <1>1, <2>1, <2>2
<1>7. /\ Len(k.chain) = size + 1 /\ size \in Nat /\ k.chain[size + 1] = a
      /\ \A n \in 1..size : k.chain[n] = j.chain[n]
  BY <1>2, <1>3, <1>6, ChainGrows DEF Job
<1>8. /\ a.asked = j.model /\ a.by = by /\ a.good = good /\ a.hit = hit
      /\ a.known = (j.model \in inventory)
  BY DEF a
<1>9. size < MaxEscalations + 1
  BY DEF Due
<1>10. Climbs(k)
  <2>1. Len(k.chain) <= MaxEscalations + 1
    BY <1>7, <1>9 DEF CascadeConstants
  <2>2. ASSUME NEW n \in 1..Len(k.chain), k.chain[n].good
        PROVE  n = Len(k.chain) /\ k.stage = "done"
    <3>1. CASE n = size + 1
      BY <1>6, <1>7, <1>8, <2>2, <3>1
    <3>2. CASE n \in 1..size
      <4>1. j.chain[n].good
        BY <1>7, <2>2, <3>2
      <4>. QED  BY <1>2, <3>2, <4>1 DEF Climbs
    <3>. QED  BY <1>7, <3>1, <3>2
  <2>3. ASSUME NEW n \in 2..Len(k.chain), k.chain[n - 1].known
        PROVE  ModelTier[k.chain[n].asked] > ModelTier[k.chain[n - 1].asked]
    <3>1. CASE n = size + 1
      <4>1. size \in 1..size /\ n - 1 = size /\ size > 0
        BY <1>7, <3>1
      <4>2. k.chain[n - 1] = j.chain[size] /\ k.chain[n].asked = j.model
        BY <1>7, <1>8, <3>1, <4>1
      <4>. QED  BY <2>3, <4>1, <4>2 DEF Due
    <3>2. CASE n \in 2..size
      <4>1. k.chain[n] = j.chain[n] /\ k.chain[n - 1] = j.chain[n - 1]
        BY <1>7, <3>2
      <4>. QED  BY <1>2, <2>3, <3>2, <4>1 DEF Climbs
    <3>. QED  BY <1>7, <3>1, <3>2
  <2>4. Final(k)
    <3>1. k.final = IF a.by = None THEN j.final ELSE a.by
      BY <1>5, <1>6, <1>8
    <3>. QED  BY <1>2, <1>3, <1>6, <3>1, FinalKept DEF Climbs
  <2>. QED  BY <2>1, <2>2, <2>3, <2>4 DEF Climbs
<1>11. Spends(k)
  <2>. SUFFICES ASSUME Budget # None, Len(k.chain) > 1
                PROVE  k.spent - Price(by, hit) < Budget
    BY <1>7, <1>8 DEF Spends
  <2>1. j.spent < Budget /\ Budget \in Nat
    BY <1>7 DEF Due, CascadeConstants
  <2>. QED  BY <1>4, <1>6, <2>1
<1>12. ASSUME k.stage = "ask" PROVE Due(k)
  <2>1. A!MayEscalate(next) /\ k.model \in A!Better(j.model) /\ k.model \in CascadeModel
    BY <1>6, <1>12
  <2>2. Len(k.chain) < MaxEscalations + 1 /\ (Budget # None => k.spent < Budget)
    <3>1. next.chain = k.chain /\ next.spent = k.spent
      BY <1>5, <1>6
    <3>. HIDE DEF next
    <3>. QED  BY <2>1, <3>1 DEF A!MayEscalate, A!WithinBudget
  <2>3. j.model \in inventory => ModelTier[k.model] > ModelTier[j.model]
    <3>. SUFFICES ASSUME j.model \in inventory PROVE ModelTier[k.model] > ModelTier[j.model]
      OBVIOUS
    <3>1. ModelTier[k.model] \in (ModelTier[j.model] + 1)..MaxTier
      BY <2>1 DEF A!Better, A!Cheapest, A!TierOf
    <3>2. ModelTier[j.model] \in Nat
      BY <1>2 DEF CascadeConstants
    <3>. QED  BY <3>1, <3>2 DEF CascadeConstants
  <2>4. k.chain[Len(k.chain)] = a /\ (a.known => j.model \in inventory) /\ a.asked = j.model
    BY <1>7, <1>8
  <2>. QED  BY <1>2, <1>6, <2>1, <2>2, <2>3, <2>4 DEF Due
<1>13. k.stage \in {"done", "ask"}
  BY <1>6
<1>. QED  BY <1>6, <1>10, <1>11, <1>12, <1>13 DEF JobInv

LEMMA JobChanges ==
  ASSUME CascadeInv, NEW c \in Caller, NEW k, JobInv(k), job' = [job EXCEPT ![c] = k]
  PROVE  job' \in [Caller -> Job] /\ \A q \in Caller : JobInv(job'[q])
<1>1. k \in Job /\ job \in [Caller -> Job] /\ \A q \in Caller : JobInv(job[q])
  BY DEF JobInv, CascadeInv
<1>2. job' \in [Caller -> Job]
  BY <1>1
<1>3. \A q \in Caller : job'[q] = IF q = c THEN k ELSE job[q]
  BY <1>1
<1>. QED  BY <1>1, <1>2, <1>3

LEMMA ExecuteClimbs ==
  ASSUME CascadeConstants, CascadeInv, NEW c \in Caller, NEW p \in Prompt,
         NEW named \in CascadeModel \cup {None}, A!Execute(c, p, named)
  PROVE  CascadeInv'
<1>1. PICK m \in IF named = None THEN A!Lowest ELSE {named} :
         job' = [job EXCEPT ![c] = [A!Idle EXCEPT !.stage = "ask", !.prompt = p, !.model = m]]
  BY DEF A!Execute
<1>2. m \in CascadeModel
  BY DEF A!Lowest, A!Cheapest, CascadeInv
<1>. DEFINE k == Beginning(A!Idle, p, m)
<1>3. /\ A!Idle \in Job /\ A!Idle.chain = <<>> /\ A!Idle.final = None
  BY IdleIs DEF A!Idle
<1>4. k \in Job /\ k.chain = <<>> /\ k.stage = "ask" /\ k.final = None
      /\ k.prompt \in Prompt /\ k.model \in CascadeModel
  BY <1>2, <1>3, BegunIs
<1>. HIDE DEF k
<1>5. JobInv(k)
  BY <1>4 DEF JobInv, Climbs, Spends, Due, Final, Replied, CascadeConstants
<1>6. job' = [job EXCEPT ![c] = k]
  BY <1>1 DEF k, Beginning
<1>7. UNCHANGED <<inventory, trust, cached>>
  BY DEF A!Execute
<1>8. job' \in [Caller -> Job] /\ \A q \in Caller : JobInv(job'[q])
  BY <1>5, <1>6, JobChanges
<1>. QED  BY <1>7, <1>8 DEF CascadeInv

LEMMA AskClimbs ==
  ASSUME CascadeConstants, CascadeInv, NEW c \in Caller, A!Ask(c)
  PROVE  CascadeInv'
<1>1. PICK m \in A!Effective(job[c].model) :
         job' = [job EXCEPT ![c].stage = "called", ![c].by = m]
  BY DEF A!Ask
<1>2. /\ job[c].stage = "ask" /\ UNCHANGED <<inventory, trust, cached>>
      /\ JobInv(job[c]) /\ job \in [Caller -> Job]
  BY DEF A!Ask, CascadeInv
<1>3. job[c].model \in CascadeModel /\ job[c] \in Job
  BY <1>2 DEF JobInv, Due
<1>4. m \in CascadeModel
  BY <1>3 DEF A!Effective, CascadeConstants
<1>. DEFINE j == job[c]
            k == AskWith(j, "called", m)
<1>5. job' = [job EXCEPT ![c] = k]
  BY <1>1, <1>2 DEF AskWith
<1>. HIDE DEF j
<1>7. j \in Job /\ JobInv(j) /\ j.stage = "ask"
  BY <1>2, <1>3 DEF j
<1>9. /\ k \in Job /\ k.stage = "called" /\ k.prompt = j.prompt /\ k.model = j.model /\ k.by = m
      /\ k.chain = j.chain /\ k.final = j.final /\ k.spent = j.spent
  BY <1>4, <1>7, AskedIs
<1>. HIDE DEF k
<1>11. JobInv(k)
  BY <1>4, <1>7, <1>9 DEF JobInv, Climbs, Spends, Due, Final
<1>. QED  BY <1>2, <1>5, <1>11, JobChanges DEF CascadeInv

\* The cache, a model or an error answers.
LEMMA AnswersClimb ==
  ASSUME CascadeConstants, CascadeInv, NEW c \in Caller,
         A!FromCache(c) \/ A!Failed(c) \/ \E good \in BOOLEAN : A!Answered(c, good)
  PROVE  CascadeInv'
<1>. DEFINE j == job[c]
<1>1. JobInv(j) /\ j \in Job
  BY DEF CascadeInv
<1>2. CASE A!FromCache(c)
  <2>1. j.stage = "ask" /\ Due(j) /\ cached[j.prompt] # None
    BY <1>1, <1>2 DEF A!FromCache, JobInv
  <2>2. cached[j.prompt] \in Reply
    BY <2>1 DEF CascadeInv, Due
  <2>3. PICK k \in A!After(j, cached[j.prompt].by, cached[j.prompt].good, TRUE) :
           job' = [job EXCEPT ![c] = k]
    BY <1>2 DEF A!FromCache
  <2>4. cached[j.prompt].by \in CascadeModel \cup {None} /\ cached[j.prompt].good \in BOOLEAN
    BY <2>2 DEF Reply
  <2>. HIDE DEF j
  <2>5. JobInv(k)
    BY <1>1, <2>1, <2>3, <2>4, AttemptKeeps DEF CascadeInv
  <2>. QED  BY <1>2, <2>3, <2>5, JobChanges DEF A!FromCache, CascadeInv
<1>3. CASE A!Failed(c)
  <2>1. j.stage = "called" /\ Due(j)
    BY <1>1, <1>3 DEF A!Failed, JobInv
  <2>2. PICK k \in A!After(j, None, FALSE, FALSE) : job' = [job EXCEPT ![c] = k]
    BY <1>3 DEF A!Failed
  <2>. HIDE DEF j
  <2>3. JobInv(k)
    BY <1>1, <2>1, <2>2, AttemptKeeps DEF CascadeInv
  <2>4. /\ inventory' \subseteq CascadeModel /\ trust' \subseteq CascadeModel /\ cached' = cached
    BY <1>3 DEF A!Failed, CascadeInv
  <2>. QED  BY <2>2, <2>3, <2>4, JobChanges DEF CascadeInv
<1>4. ASSUME NEW good \in BOOLEAN, A!Answered(c, good) PROVE CascadeInv'
  <2>1. j.stage = "called" /\ Due(j) /\ j.by \in CascadeModel
    BY <1>1, <1>4 DEF A!Answered, JobInv
  <2>2. PICK k \in A!After(j, j.by, good, FALSE) : job' = [job EXCEPT ![c] = k]
    BY <1>4 DEF A!Answered
  <2>3. cached' \in [Prompt -> Reply \cup {None}]
    <3>1. [by |-> j.by, good |-> good] \in Reply
      BY <2>1 DEF Reply
    <3>. QED  BY <1>4, <3>1 DEF A!Answered, CascadeInv
  <2>. HIDE DEF j
  <2>4. JobInv(k)
    BY <1>1, <2>1, <2>2, AttemptKeeps DEF CascadeInv
  <2>. QED  BY <1>4, <2>2, <2>3, <2>4, JobChanges DEF A!Answered, CascadeInv
<1>. QED  BY <1>2, <1>3, <1>4

\* CascadeService, for any models, roles, budget and number of escalations: a cascade ends
\* with its first good answer or its last one, climbs the tiers, and asks no more once the
\* budget is spent, while other cascades fill the cache and models come and go.
THEOREM CascadesAreSound ==
  CascadeConstants /\ A!Spec => [](A!TypeOK /\ A!CascadesClimb)
<1>. SUFFICES ASSUME CascadeConstants PROVE A!Spec => [](A!TypeOK /\ A!CascadesClimb)
  OBVIOUS
<1>1. A!Init => CascadeInv
  BY IdleIs DEF A!Init, CascadeInv
<1>2. ASSUME CascadeInv, [A!Next]_(A!vars) PROVE CascadeInv'
  <2>1. CASE UNCHANGED A!vars
    BY <1>2, <2>1 DEF A!vars, CascadeInv
  <2>2. CASE \E p \in Prompt : A!Expire(p)
    BY <1>2, <2>2 DEF A!Expire, CascadeInv
  <2>3. CASE (\E m \in CascadeModel : A!Recover(m)) \/ A!Refresh
    BY <1>2, <2>3 DEF A!Recover, A!Refresh, CascadeInv
  <2>. QED  BY <1>2, <2>1, <2>2, <2>3, ExecuteClimbs, AskClimbs, AnswersClimb DEF A!Next
<1>3. ASSUME CascadeInv PROVE A!TypeOK /\ A!CascadesClimb
  <2>1. A!TypeOK
    BY <1>3 DEF CascadeInv, A!TypeOK, Job
  <2>2. \A c \in Caller : Climbs(job[c]) /\ Spends(job[c])
    BY <1>3 DEF CascadeInv, JobInv
  <2>3. ASSUME NEW c \in Caller, NEW newest, newest = Len(job[c].chain), newest > 1, Budget # None
        PROVE  job[c].spent - (IF newest = 0 \/ job[c].chain[newest].hit
                                  \/ job[c].chain[newest].by = None
                               THEN 0 ELSE ModelCost[job[c].chain[newest].by]) < Budget
    <3>1. Len(job[c].chain) \in Nat
      BY <1>3 DEF CascadeInv, Job
    <3>. QED  BY <2>2, <2>3, <3>1 DEF Spends, Price
  <2>4. A!CascadesClimb
    BY <2>2, <2>3 DEF Climbs, Final, Replied, A!CascadesClimb
  <2>. QED  BY <2>1, <2>4
<1>. QED  BY <1>1, <1>2, <1>3, PTL DEF A!Spec

----------------------------------------------------------------------------
(* CustomPlans: the nodes of the layers that are over have ended, and so   *)
(* have those of the layer at work that stand before the node at work.     *)

NodeProgress == {"pending", "running"} \cup C!Ended

Held == [copy : C!Plan, over : SUBSET C!Node, at : C!Node]

\* Absent is none of the records.
PlansConstants == C!CustomPlansConstants /\ Absent \notin Held

\* The nodes that are settled before the one at work.
Settled(h) ==
    /\ h.at \in C!Ready(h.copy.depends, h.over)
    /\ \A n \in h.over : h.copy.node[n] \in C!Ended
    /\ \A n \in C!Ready(h.copy.depends, h.over) :
          C!Position(n) < C!Position(h.at) => h.copy.node[n] \in C!Ended

\* A file that editors may not touch, while one execution is under way.
Shut == plan = Absent \/ plan.status = "running"

PlansInv ==
    /\ plan \in C!Plan \cup {Absent}
    /\ exec \in [Execution -> Held \cup {Absent}]
    /\ overlapped \in BOOLEAN /\ interrupted \in BOOLEAN
    /\ \A e \in C!UnderWay :
          /\ exec[e].copy.status = "running"
          /\ exec[e].copy.node[exec[e].at] = "running"
          /\ Settled(exec[e])
    /\ C!RunningMeansExecuting
    /\ ~overlapped => /\ \A e, f \in C!UnderWay : e = f
                      /\ C!UnderWay # {} => Shut

LEMMA NodeSet ==
  ASSUME NEW c \in C!Plan, NEW n \in C!Node, NEW v \in NodeProgress
  PROVE  LET k == [c EXCEPT !.node[n] = v]
         IN  /\ k \in C!Plan /\ k.depends = c.depends /\ k.status = c.status
             /\ k.node[n] = v /\ \A m \in C!Node \ {n} : k.node[m] = c.node[m]
<1>. DEFINE k == [c EXCEPT !.node[n] = v]
            nodes == [c.node EXCEPT ![n] = v]
<1>1. /\ nodes \in [C!Node -> NodeProgress] /\ nodes[n] = v
      /\ \A m \in C!Node \ {n} : nodes[m] = c.node[m]
  BY DEF C!Plan, NodeProgress
<1>2. k = [c EXCEPT !.node = nodes]
  BY Zenon
<1>. HIDE DEF nodes, k
<1>3. /\ k \in C!Plan /\ k.depends = c.depends /\ k.status = c.status /\ k.node = nodes
  BY <1>1, <1>2 DEF C!Plan, NodeProgress
<1>. QED  BY <1>1, <1>3 DEF k

LEMMA PassedIs ==
  ASSUME NEW c \in C!Plan, NEW nodes \in SUBSET C!Node
  PROVE  LET k == C!Passed(c, nodes)
         IN  /\ k \in C!Plan /\ k.depends = c.depends /\ k.status = c.status
             /\ \A m \in C!Node : c.node[m] \in C!Ended => k.node[m] \in C!Ended
             /\ Instant \in nodes \cap C!Node => k.node[Instant] \in C!Ended
<1>1. CASE Instant \in nodes /\ c.node[Instant] # "skipped" /\ Instant \in C!Node
  <2>1. C!Passed(c, nodes) = [c EXCEPT !.node[Instant] = "done"]
    BY <1>1 DEF C!Passed
  <2>2. "done" \in NodeProgress /\ "done" \in C!Ended
    BY DEF NodeProgress, C!Ended
  <2>. QED  BY <1>1, <2>1, <2>2, NodeSet
<1>2. CASE ~(Instant \in nodes /\ c.node[Instant] # "skipped")
  BY <1>2 DEF C!Passed, C!Ended
<1>. QED  BY <1>1, <1>2

LEMMA PositionIs ==
  ASSUME C!CustomPlansConstants, NEW n \in C!Node
  PROVE  C!Position(n) \in Nat \ {0} /\ Nodes[C!Position(n)] = n
BY DEF C!Position, C!Node, C!CustomPlansConstants

\* The layers are those of the recursion.
LEMMA OrderIs ==
  ASSUME C!CustomPlansConstants, NEW depends, NEW over
  PROVE  LET before == C!ExecutionOrder(depends, over)
         IN  /\ before[0] = over
             /\ \A i \in 1..Len(Nodes) :
                   before[i] = before[i - 1] \cup C!Ready(depends, before[i - 1])
<1>. DEFINE size == Len(Nodes)
            Is(g, n) == g = [m \in 0..n |-> IF m = 0 THEN over
                                            ELSE g[m - 1] \cup C!Ready(depends, g[m - 1])]
            Lacking == {n \in 0..size : ~\E g : Is(g, n)}
<1>1. size \in Nat
  BY DEF C!CustomPlansConstants
<1>. HIDE DEF size
<1>2. \E g : Is(g, 0)
  <2>1. Is([m \in 0..0 |-> over], 0)
    OBVIOUS
  <2>. QED  BY <2>1
<1>3. ASSUME NEW n \in 0..size, n > 0, NEW g, Is(g, n - 1) PROVE \E h : Is(h, n)
  <2>. DEFINE top == g[n - 1] \cup C!Ready(depends, g[n - 1])
              h == [m \in 0..n |-> IF m = n THEN top ELSE g[m]]
  <2>. HIDE DEF top
  <2>1. DOMAIN h = 0..n /\ h = [m \in 0..n |-> h[m]]
    OBVIOUS
  <2>2. \A m \in 0..(n - 1) : h[m] = g[m]
    BY <1>1
  <2>3. h[0] = over
    BY <1>1, <1>3, <2>2
  <2>. HIDE DEF h
  <2>4. ASSUME NEW m \in 1..n PROVE h[m] = h[m - 1] \cup C!Ready(depends, h[m - 1])
    <3>1. CASE m = n
      <4>1. h[m] = g[n - 1] \cup C!Ready(depends, g[n - 1])
        BY <3>1 DEF top, h
      <4>2. n - 1 \in 0..(n - 1)
        BY <1>1, <1>3
      <4>3. h[n - 1] = g[n - 1]
        BY Zenon, <2>2, <4>2
      <4>. QED  BY <3>1, <4>1, <4>3
    <3>2. CASE m # n
      <4>1. m \in 0..(n - 1) /\ m # 0 /\ m - 1 \in 0..(n - 1)
        BY <1>1, <3>2
      <4>2. g[m] = g[m - 1] \cup C!Ready(depends, g[m - 1])
        BY <1>3, <4>1
      <4>3. h[m] = g[m] /\ h[m - 1] = g[m - 1]
        BY <2>2, <4>1
      <4>. QED  BY <4>2, <4>3
    <3>. QED  BY <3>1, <3>2
  <2>5. \A m \in 0..n : h[m] = IF m = 0 THEN over ELSE h[m - 1] \cup C!Ready(depends, h[m - 1])
    <3>1. ASSUME NEW m \in 0..n, m # 0 PROVE m \in 1..n
      BY <1>1, <3>1
    <3>. QED  BY Zenon, <2>3, <2>4, <3>1
  <2>6. Is(h, n)
    BY <2>1, <2>5
  <2>. QED  BY <2>6
<1>4. Lacking = {}
  <2>1. SUFFICES ASSUME Lacking # {} PROVE FALSE
    OBVIOUS
  <2>2. PICK n \in Lacking : \A m \in Lacking : n <= m
    <3>1. Lacking \subseteq Nat
      BY <1>1
    <3>. HIDE DEF Lacking
    <3>. QED  BY <2>1, <3>1, LeastIs
  <2>. HIDE DEF Is
  <2>3. n \in 0..size /\ n # 0 /\ ~\E g : Is(g, n)
    BY <1>2, <2>2
  <2>4. n - 1 \in 0..size /\ n - 1 \notin Lacking
    BY <1>1, <2>2, <2>3
  <2>5. PICK g : Is(g, n - 1)
    BY <2>4
  <2>. QED  BY <1>1, <1>3, <2>3, <2>5
<1>5. PICK g : Is(g, size)
  <2>. HIDE DEF Is
  <2>. QED  BY <1>1, <1>4
<1>. DEFINE before == CHOOSE h : Is(h, size)
<1>6. Is(before, size)
  <2>. HIDE DEF Is
  <2>. QED  BY <1>5
<1>7. C!ExecutionOrder(depends, over) = before
  BY Zenon DEF C!ExecutionOrder, size
<1>. HIDE DEF before
<1>8. \A m \in 0..size :
         before[m] = IF m = 0 THEN over ELSE before[m - 1] \cup C!Ready(depends, before[m - 1])
  BY <1>6
<1>9. before[0] = over
  <2>1. 0 \in 0..size
    BY <1>1
  <2>. QED  BY Zenon, <1>8, <2>1
<1>10. ASSUME NEW i \in 1..size
       PROVE  before[i] = before[i - 1] \cup C!Ready(depends, before[i - 1])
  <2>1. i \in 0..size /\ i # 0
    BY <1>1
  <2>. QED  BY Zenon, <1>8, <2>1
<1>. QED  BY <1>7, <1>9, <1>10 DEF size

\* Nodes of the layers before the i-th have ended, or end when they are passed, if those
\* before the first one have and no layer before it calls a model.
LEMMA LayersEnd ==
  ASSUME C!CustomPlansConstants, NEW c \in C!Plan, NEW over \in SUBSET C!Node, NEW from \in Int,
         NEW i \in 0..Len(Nodes),
         \A n \in over : c.node[n] \in C!Ended,
         \A n \in C!Ready(c.depends, over) : C!Position(n) <= from => c.node[n] \in C!Ended,
         \A j \in 0..(i - 1) :
            {n \in C!Ready(c.depends, C!ExecutionOrder(c.depends, over)[j]) :
               C!NeedsModel(c, n) /\ (j = 0 => C!Position(n) > from)} = {}
  PROVE  LET ended == C!ExecutionOrder(c.depends, over)[i]
         IN  ended \subseteq C!Node /\ \A n \in ended : c.node[n] \in C!Ended \/ n = Instant
<1>. DEFINE size == Len(Nodes)
            before == C!ExecutionOrder(c.depends, over)
            Ends(k) == before[k] \subseteq C!Node /\ \A n \in before[k] : c.node[n] \in C!Ended \/ n = Instant
            Lacking == {k \in 0..i : ~Ends(k)}
<1>1. size \in Nat /\ i \in 0..size
  BY DEF C!CustomPlansConstants
<1>2. /\ before[0] = over
      /\ \A k \in 1..size : before[k] = before[k - 1] \cup C!Ready(c.depends, before[k - 1])
  BY OrderIs
<1>3. \A j \in 0..(i - 1) : \A n \in C!Ready(c.depends, before[j]) :
         ~C!NeedsModel(c, n) \/ (j = 0 /\ C!Position(n) <= from)
  <2>1. ASSUME NEW j \in 0..(i - 1), NEW n \in C!Ready(c.depends, before[j]), C!NeedsModel(c, n)
        PROVE  j = 0 /\ C!Position(n) <= from
    <3>1. n \in C!Node
      BY DEF C!Ready
    <3>2. C!Position(n) \in Nat
      BY <3>1, PositionIs
    <3>3. ~(j = 0 => C!Position(n) > from)
      BY <2>1
    <3>. QED  BY <3>2, <3>3
  <2>. QED  BY <2>1
<1>. HIDE DEF before, size
<1>4. Ends(0)
  BY <1>2
<1>5. ASSUME NEW k \in 1..i, Ends(k - 1) PROVE Ends(k)
  <2>1. /\ k - 1 \in 0..(i - 1)
        /\ before[k] = before[k - 1] \cup C!Ready(c.depends, before[k - 1])
    BY <1>1, <1>2
  <2>2. ASSUME NEW n \in C!Ready(c.depends, before[k - 1])
        PROVE  n \in C!Node /\ (c.node[n] \in C!Ended \/ n = Instant)
    <3>1. n \in C!Node
      BY DEF C!Ready
    <3>2. CASE ~C!NeedsModel(c, n)
      BY <3>1, <3>2 DEF C!NeedsModel, C!Ended
    <3>3. CASE k - 1 = 0 /\ C!Position(n) <= from
      BY <1>2, <3>1, <3>3
    <3>. QED  BY <1>3, <2>1, <3>2, <3>3
  <2>. QED  BY <1>5, <2>1, <2>2
<1>. HIDE DEF Ends
<1>6. Lacking = {}
  <2>1. SUFFICES ASSUME Lacking # {} PROVE FALSE
    OBVIOUS
  <2>2. PICK k \in Lacking : \A m \in Lacking : k <= m
    <3>1. Lacking \subseteq Nat
      BY <1>1
    <3>. HIDE DEF Lacking
    <3>. QED  BY <2>1, <3>1, LeastIs
  <2>3. k \in 1..i /\ k - 1 \in 0..i /\ k - 1 \notin Lacking /\ ~Ends(k)
    BY <1>1, <1>4, <2>2
  <2>. QED  BY <1>5, <2>3
<1>7. Ends(i)
  BY <1>1, <1>6
<1>. QED  BY <1>7 DEF Ends, before

\* What a visit of the next nodes leaves behind.
LEMMA ProceedKeeps ==
  ASSUME PlansConstants, exec \in [Execution -> Held \cup {Absent}], NEW e \in Execution,
         NEW file, NEW c \in C!Plan, NEW over \in SUBSET C!Node, NEW from \in Int,
         c.status = "running",
         \A n \in over : c.node[n] \in C!Ended,
         \A n \in C!Ready(c.depends, over) : C!Position(n) <= from => c.node[n] \in C!Ended,
         C!Proceed(e, file, c, over, from)
  PROVE  /\ exec' \in [Execution -> Held \cup {Absent}]
         /\ \A f \in Execution \ {e} : exec'[f] = exec[f]
         /\ \/ /\ exec'[e] \in Held /\ exec'[e].copy.status = "running"
               /\ exec'[e].copy.node[exec'[e].at] = "running" /\ Settled(exec'[e])
               /\ plan' = file \/ (plan' \in C!Plan /\ plan'.status = "running")
            \/ /\ exec'[e] = Absent /\ plan' \in C!Plan
               /\ plan'.status = "error" \/ (/\ plan'.status = "done"
                                             /\ \A n \in C!Node : plan'.node[n] \in {"done", "skipped"})
<1>. DEFINE before == C!ExecutionOrder(c.depends, over)
            Layer(i) == C!Ready(c.depends, before[i])
            Calls(i) == {n \in Layer(i) : C!NeedsModel(c, n) /\ (i = 0 => C!Position(n) > from)}
            visited(i, n) == before[i] \cup {m \in Layer(i) : C!Position(m) < C!Position(n)}
            Stops(i, n) == /\ n \in Calls(i) /\ \A m \in Calls(i) : C!Position(n) <= C!Position(m)
                           /\ \A j \in 0..(i - 1) : Calls(j) = {}
                           /\ plan' = IF i = 0 THEN file ELSE C!Passed(c, before[i])
                           /\ exec' = [exec EXCEPT ![e] =
                                 [copy |-> [C!Passed(c, visited(i, n)) EXCEPT !.node[n] = "running"],
                                  over |-> before[i], at |-> n]]
            Finishes == /\ plan' = C!Finished(C!Passed(c, C!Node))
                        /\ exec' = [exec EXCEPT ![e] = Absent]
<1>1. (\E i \in 0..Len(Nodes), n \in C!Node : Stops(i, n)) \/ Finishes
  BY Zenon DEF C!Proceed
<1>2. ASSUME NEW i \in 0..Len(Nodes), NEW n \in C!Node, Stops(i, n)
      PROVE  /\ exec' \in [Execution -> Held \cup {Absent}]
             /\ \A f \in Execution \ {e} : exec'[f] = exec[f]
             /\ exec'[e] \in Held /\ exec'[e].copy.status = "running"
             /\ exec'[e].copy.node[exec'[e].at] = "running" /\ Settled(exec'[e])
             /\ plan' = file \/ (plan' \in C!Plan /\ plan'.status = "running")
  <2>. DEFINE passed == C!Passed(c, visited(i, n))
              copy == [passed EXCEPT !.node[n] = "running"]
              h == [copy |-> copy, over |-> before[i], at |-> n]
  <2>1. before[i] \subseteq C!Node /\ \A m \in before[i] : c.node[m] \in C!Ended \/ m = Instant
    <3>1. \A j \in 0..(i - 1) :
             {m \in C!Ready(c.depends, C!ExecutionOrder(c.depends, over)[j]) :
                C!NeedsModel(c, m) /\ (j = 0 => C!Position(m) > from)} = {}
      BY Zenon, <1>2
    <3>. HIDE DEF Stops
    <3>. QED  BY <3>1, LayersEnd DEF PlansConstants
  <2>2. Layer(i) \subseteq C!Node \ before[i]
    BY DEF C!Ready
  <2>3. n \in Calls(i) /\ \A m \in Calls(i) : C!Position(n) <= C!Position(m)
    BY Zenon, <1>2
  <2>4. n \in Layer(i)
    BY <2>3
  <2>5. visited(i, n) \in SUBSET C!Node
    BY <2>1, <2>2
  <2>6. /\ passed \in C!Plan /\ passed.depends = c.depends /\ passed.status = c.status
        /\ \A m \in C!Node : c.node[m] \in C!Ended => passed.node[m] \in C!Ended
        /\ Instant \in visited(i, n) \cap C!Node => passed.node[Instant] \in C!Ended
    <3>. HIDE DEF visited
    <3>. QED  BY <2>5, PassedIs
  <2>7. ASSUME NEW m \in Layer(i), C!Position(m) < C!Position(n)
        PROVE  c.node[m] \in C!Ended \/ m = Instant
    <3>1. C!Position(m) \in Nat /\ C!Position(n) \in Nat /\ m \in C!Node
      BY <2>2, <2>4, PositionIs DEF PlansConstants
    <3>2. CASE C!NeedsModel(c, m)
      <4>1. m \notin Calls(i)
        BY <2>3, <2>7, <3>1
      <4>2. i = 0 /\ ~(C!Position(m) > from)
        BY <3>2, <4>1
      <4>3. before[0] = over
        BY OrderIs DEF PlansConstants
      <4>4. m \in C!Ready(c.depends, over)
        BY <4>2, <4>3
      <4>5. C!Position(m) <= from
        BY <3>1, <4>2
      <4>. QED  BY <4>4, <4>5
    <3>3. CASE ~C!NeedsModel(c, m)
      BY <3>3 DEF C!NeedsModel, C!Ended
    <3>. QED  BY <3>2, <3>3
  <2>8. \A m \in visited(i, n) : passed.node[m] \in C!Ended
    <3>1. \A m \in visited(i, n) : c.node[m] \in C!Ended \/ m = Instant
      BY <2>1, <2>7
    <3>. HIDE DEF visited
    <3>. QED  BY <2>5, <2>6, <3>1
  <2>9. n \notin visited(i, n)
    <3>1. C!Position(n) \in Nat
      BY PositionIs DEF PlansConstants
    <3>. QED  BY <2>2, <2>4, <3>1
  <2>10. /\ copy \in C!Plan /\ copy.depends = c.depends /\ copy.status = "running"
         /\ copy.node[n] = "running" /\ \A m \in C!Node \ {n} : copy.node[m] = passed.node[m]
    <3>. HIDE DEF passed
    <3>1. "running" \in NodeProgress
      BY DEF NodeProgress
    <3>. QED  BY <2>6, <3>1, NodeSet
  <2>11. \A m \in visited(i, n) : copy.node[m] \in C!Ended
    <3>. HIDE DEF visited, copy
    <3>. QED  BY <2>5, <2>8, <2>9, <2>10
  <2>12. h \in Held /\ h.copy = copy /\ h.over = before[i] /\ h.at = n
    <3>. HIDE DEF copy, before
    <3>. QED  BY <2>1, <2>10 DEF Held
  <2>13. Settled(h)
    <3>1. \A m \in before[i] : m \in visited(i, n)
      OBVIOUS
    <3>2. \A m \in Layer(i) : C!Position(m) < C!Position(n) => m \in visited(i, n)
      OBVIOUS
    <3>3. /\ n \in C!Ready(copy.depends, before[i])
          /\ \A m \in before[i] : copy.node[m] \in C!Ended
          /\ \A m \in C!Ready(copy.depends, before[i]) :
                C!Position(m) < C!Position(n) => copy.node[m] \in C!Ended
      <4>. HIDE DEF visited, copy, before
      <4>. QED  BY <2>4, <2>10, <2>11, <3>1, <3>2
    <3>. HIDE DEF copy, before, h
    <3>. QED  BY <2>12, <3>3 DEF Settled
  <2>14. exec' = [exec EXCEPT ![e] = h]
    BY Zenon, <1>2
  <2>15. plan' = file \/ (plan' \in C!Plan /\ plan'.status = "running")
    <3>1. plan' = IF i = 0 THEN file ELSE C!Passed(c, before[i])
      BY Zenon, <1>2
    <3>2. C!Passed(c, before[i]) \in C!Plan /\ C!Passed(c, before[i]).status = "running"
      <4>. HIDE DEF before
      <4>. QED  BY <2>1, PassedIs
    <3>. QED  BY <3>1, <3>2
  <2>. HIDE DEF h
  <2>16. exec'[e] = h /\ exec' \in [Execution -> Held \cup {Absent}]
         /\ \A f \in Execution \ {e} : exec'[f] = exec[f]
    BY <2>12, <2>14
  <2>. QED  BY <2>10, <2>12, <2>13, <2>15, <2>16
<1>3. CASE Finishes
  <2>. DEFINE passed == C!Passed(c, C!Node)
              allDone == \A n \in C!Node : passed.node[n] \in {"done", "skipped"}
  <2>1. passed \in C!Plan
    BY PassedIs
  <2>2. plan' = [passed EXCEPT !.status = IF allDone THEN "done" ELSE "error"]
    BY Zenon, <1>3 DEF C!Finished
  <2>. HIDE DEF passed
  <2>3. /\ plan' \in C!Plan /\ plan'.node = passed.node
        /\ plan'.status = IF allDone THEN "done" ELSE "error"
    BY <2>1, <2>2 DEF C!Plan
  <2>4. /\ exec' \in [Execution -> Held \cup {Absent}] /\ exec'[e] = Absent
        /\ \A f \in Execution \ {e} : exec'[f] = exec[f]
    BY <1>3
  <2>. QED  BY <2>3, <2>4
<1>. HIDE DEF Stops, Finishes
<1>. QED  BY <1>1, <1>2, <1>3

\* A visit keeps the invariant, however the file was before it.
LEMMA VisitKeeps ==
  ASSUME PlansConstants, PlansInv, NEW e \in Execution,
         NEW file, NEW c \in C!Plan, NEW over \in SUBSET C!Node, NEW from \in Int,
         c.status = "running",
         \A n \in over : c.node[n] \in C!Ended,
         \A n \in C!Ready(c.depends, over) : C!Position(n) <= from => c.node[n] \in C!Ended,
         C!Proceed(e, file, c, over, from),
         file = plan \/ (file \in C!Plan /\ file.status = "running"),
         overlapped' \in BOOLEAN, interrupted' \in BOOLEAN,
         ~overlapped' => ~overlapped /\ C!UnderWay \subseteq {e} /\ (file = plan => Shut)
  PROVE  PlansInv'
<1>1. exec \in [Execution -> Held \cup {Absent}] /\ Absent \notin Held
  BY DEF PlansInv, PlansConstants
<1>. DEFINE Stops == /\ exec'[e] \in Held /\ exec'[e].copy.status = "running"
                     /\ exec'[e].copy.node[exec'[e].at] = "running" /\ Settled(exec'[e])
                     /\ plan' = file \/ (plan' \in C!Plan /\ plan'.status = "running")
            Finishes == /\ exec'[e] = Absent /\ plan' \in C!Plan
                        /\ plan'.status = "error"
                           \/ (/\ plan'.status = "done"
                               /\ \A n \in C!Node : plan'.node[n] \in {"done", "skipped"})
<1>2. /\ exec' \in [Execution -> Held \cup {Absent}]
      /\ \A f \in Execution \ {e} : exec'[f] = exec[f]
      /\ Stops \/ Finishes
  <2>. HIDE DEF Settled
  <2>. QED  BY <1>1, ProceedKeeps
<1>3. plan' \in C!Plan \cup {Absent}
  BY <1>2 DEF PlansInv
<1>4. C!UnderWay' = {f \in Execution : exec'[f] # Absent} /\ C!UnderWay = {f \in Execution : exec[f] # Absent}
  BY DEF C!UnderWay
<1>5. ASSUME NEW f \in C!UnderWay'
      PROVE  /\ exec'[f].copy.status = "running"
             /\ exec'[f].copy.node[exec'[f].at] = "running"
             /\ Settled(exec'[f])
  <2>1. CASE f = e
    BY <1>2, <1>4, <1>5, <2>1
  <2>2. CASE f # e
    <3>1. f \in C!UnderWay /\ exec'[f] = exec[f]
      BY <1>2, <1>4, <1>5, <2>2
    <3>. QED  BY <3>1 DEF PlansInv
  <2>. QED  BY <2>1, <2>2
<1>6. (C!RunningMeansExecuting)'
  <2>1. CASE Stops
    <3>1. e \in C!UnderWay'
      BY <1>1, <1>4, <2>1
    <3>2. plan' = plan \/ (plan' \in C!Plan /\ plan'.status = "running")
      BY <2>1
    <3>3. plan' # Absent /\ plan'.status = "done" => \A n \in C!Node : plan'.node[n] \in {"done", "skipped"}
      BY <3>2 DEF PlansInv, C!RunningMeansExecuting
    <3>. QED  BY <3>1, <3>3 DEF C!RunningMeansExecuting
  <2>2. CASE Finishes
    BY <2>2 DEF C!RunningMeansExecuting
  <2>. QED  BY <1>2, <2>1, <2>2
<1>7. ~overlapped' => /\ \A f, g \in C!UnderWay' : f = g
                      /\ C!UnderWay' # {} => Shut'
  <2>. SUFFICES ASSUME ~overlapped' PROVE (\A f, g \in C!UnderWay' : f = g) /\ (C!UnderWay' # {} => Shut')
    OBVIOUS
  <2>1. C!UnderWay' \subseteq {e}
    BY <1>2, <1>4
  <2>2. CASE Stops
    BY <2>1, <2>2 DEF Shut
  <2>3. CASE Finishes
    BY <1>4, <2>1, <2>3
  <2>. QED  BY <1>2, <2>1, <2>2, <2>3
<1>. QED  BY <1>2, <1>3, <1>5, <1>6, <1>7 DEF PlansInv

LEMMA WrittenIs ==
  ASSUME NEW depends \in Graph, NEW skips, NEW result \in {"draft", "running", "done", "error"},
         NEW edition \in BOOLEAN
  PROVE  /\ C!Written(depends, skips, result, edition) \in C!Plan
         /\ C!Written(depends, skips, result, edition).status = result
BY DEF C!Written, C!Plan, C!Ended

\* A step of an editor: the executions go on.
LEMMA EditKeeps ==
  ASSUME PlansInv, UNCHANGED <<exec, overlapped, interrupted>>,
         plan' \in C!Plan \cup {Absent},
         C!RunningMeansExecuting', ~overlapped /\ C!UnderWay # {} => Shut'
  PROVE  PlansInv'
<1>1. C!UnderWay' = C!UnderWay
  BY DEF C!UnderWay
<1>. QED  BY <1>1 DEF PlansInv

LEMMA PlansInit == C!Init => PlansInv
BY DEF C!Init, PlansInv, C!UnderWay, C!RunningMeansExecuting, Shut

LEMMA PlansStep == PlansConstants /\ PlansInv /\ [C!Next]_<<plan, exec, overlapped, interrupted>> => PlansInv'
<1>. SUFFICES ASSUME PlansConstants, PlansInv, [C!Next]_<<plan, exec, overlapped, interrupted>>
     PROVE PlansInv'
  OBVIOUS
<1>1. plan \in C!Plan \cup {Absent} /\ C!RunningMeansExecuting /\ overlapped \in BOOLEAN /\ interrupted \in BOOLEAN
  BY DEF PlansInv
<1>2. ASSUME NEW depends \in Graph, NEW skips, C!CreatePlan(depends, skips) PROVE PlansInv'
  <2>1. plan' = C!Written(depends, skips, "draft", FALSE) /\ C!UnderWay = {}
        /\ UNCHANGED <<exec, overlapped, interrupted>>
    BY <1>2 DEF C!CreatePlan
  <2>2. plan' \in C!Plan /\ plan'.status = "draft"
    BY <2>1, WrittenIs
  <2>3. C!RunningMeansExecuting'
    BY <2>2 DEF C!RunningMeansExecuting
  <2>. QED  BY <2>1, <2>2, <2>3, EditKeeps
<1>3. ASSUME NEW depends \in Graph, NEW skips, C!UpdatePlan(depends, skips) PROVE PlansInv'
  <2>1. /\ plan \in C!Plan /\ plan.status \in {"draft", "error"}
        /\ plan' = C!Written(depends, skips, plan.status, plan.edition)
        /\ UNCHANGED <<exec, overlapped, interrupted>>
    BY <1>1, <1>3 DEF C!UpdatePlan, C!MayUpdate
  <2>2. plan.edition \in BOOLEAN
    BY <2>1 DEF C!Plan
  <2>3. plan' \in C!Plan /\ plan'.status \in {"draft", "error"}
    BY <2>1, <2>2, WrittenIs
  <2>4. C!RunningMeansExecuting'
    BY <2>3 DEF C!RunningMeansExecuting
  <2>5. overlapped \/ C!UnderWay = {}
    BY <1>3, <2>1 DEF PlansInv, Shut, C!UpdatePlan
  <2>. QED  BY <2>1, <2>3, <2>4, <2>5, EditKeeps
<1>4. ASSUME C!AnnotateNodes PROVE PlansInv'
  <2>1. /\ plan # Absent /\ plan \in C!Plan /\ UNCHANGED <<exec, overlapped, interrupted>>
        /\ plan' = [plan EXCEPT !.edition = ~plan.edition]
    BY <1>1, <1>4 DEF C!AnnotateNodes
  <2>2. plan.edition \in BOOLEAN
    BY <2>1 DEF C!Plan
  <2>3. plan' \in C!Plan /\ plan'.status = plan.status /\ plan'.node = plan.node
    BY <2>1, <2>2 DEF C!Plan
  <2>4. C!UnderWay' = C!UnderWay
    BY <2>1 DEF C!UnderWay
  <2>5. C!RunningMeansExecuting'
    BY <1>1, <2>1, <2>3, <2>4 DEF C!RunningMeansExecuting
  <2>6. ~overlapped /\ C!UnderWay # {} => Shut'
    BY <2>1, <2>3 DEF PlansInv, Shut
  <2>. QED  BY <2>1, <2>3, <2>5, <2>6, EditKeeps
<1>5. ASSUME C!DeletePlan PROVE PlansInv'
  <2>1. plan' = Absent /\ UNCHANGED <<exec, overlapped, interrupted>>
    BY <1>5 DEF C!DeletePlan
  <2>2. C!RunningMeansExecuting' /\ Shut'
    BY <2>1 DEF C!RunningMeansExecuting, Shut
  <2>. QED  BY <2>1, <2>2, EditKeeps
<1>6. ASSUME NEW e \in Execution, C!ExecutePlan(e) PROVE PlansInv'
  <2>. DEFINE c == [plan EXCEPT !.status = "running"]
  <2>1. /\ plan \in C!Plan /\ exec[e] = Absent /\ C!Proceed(e, c, c, {}, 0)
        /\ overlapped' = (overlapped \/ C!UnderWay # {}) /\ interrupted' = FALSE
    BY <1>1, <1>6 DEF C!ExecutePlan
  <2>2. c \in C!Plan /\ c.status = "running"
    BY <2>1 DEF C!Plan
  <2>3. \A n \in C!Ready(c.depends, {}) : ~(C!Position(n) <= 0)
    <3>1. \A n \in C!Node : C!Position(n) \in Nat \ {0}
      BY PositionIs DEF PlansConstants
    <3>. QED  BY <3>1 DEF C!Ready
  <2>. HIDE DEF c
  <2>4. overlapped' \in BOOLEAN /\ (~overlapped' => ~overlapped /\ C!UnderWay = {})
    BY Zenon, <1>1, <2>1
  <2>5. c = plan => Shut
    BY <2>2 DEF Shut
  <2>6. /\ {} \in SUBSET C!Node /\ 0 \in Int /\ interrupted' \in BOOLEAN
        /\ \A n \in {} : c.node[n] \in C!Ended
        /\ \A n \in C!Ready(c.depends, {}) : C!Position(n) <= 0 => c.node[n] \in C!Ended
        /\ ~overlapped' => ~overlapped /\ C!UnderWay \subseteq {e} /\ (c = plan => Shut)
    <3>1. interrupted' \in BOOLEAN
      BY <2>1
    <3>2. ~overlapped' => ~overlapped /\ C!UnderWay \subseteq {e} /\ (c = plan => Shut)
      BY <2>4, <2>5
    <3>. QED  BY <2>3, <3>1, <3>2
  <2>. QED  BY Zenon, <2>1, <2>2, <2>4, <2>6, VisitKeeps
<1>7. ASSUME NEW e \in Execution, NEW result \in {"done", "error"}, C!EndNode(e, result) PROVE PlansInv'
  <2>. DEFINE h == exec[e]
              c == [h.copy EXCEPT !.node[h.at] = result]
  <2>1. /\ h # Absent /\ UNCHANGED <<overlapped, interrupted>>
        /\ C!Proceed(e, plan, c, h.over, C!Position(h.at))
    BY <1>7 DEF C!EndNode, C!NodeResult
  <2>2. e \in C!UnderWay
    BY <2>1 DEF C!UnderWay
  <2>3. h \in Held /\ h.copy.status = "running" /\ Settled(h)
    <3>1. h \in Held
      BY <2>1 DEF PlansInv
    <3>. QED  BY <2>2, <3>1 DEF PlansInv
  <2>4. h.copy \in C!Plan /\ h.over \in SUBSET C!Node /\ h.at \in C!Node
    BY <2>3 DEF Held
  <2>5. result \in NodeProgress /\ result \in C!Ended
    BY DEF NodeProgress, C!Ended
  <2>6. /\ c \in C!Plan /\ c.depends = h.copy.depends /\ c.status = "running"
        /\ c.node[h.at] = result /\ \A m \in C!Node \ {h.at} : c.node[m] = h.copy.node[m]
    <3>. HIDE DEF h
    <3>. QED  BY <2>3, <2>4, <2>5, NodeSet
  <2>. HIDE DEF h, c
  <2>7. \A n \in h.over : c.node[n] \in C!Ended
    BY <2>3, <2>4, <2>5, <2>6 DEF Settled
  <2>8. C!Position(h.at) \in Int
    BY <2>4, PositionIs DEF PlansConstants
  <2>9. ASSUME NEW n \in C!Ready(c.depends, h.over), C!Position(n) <= C!Position(h.at)
        PROVE  c.node[n] \in C!Ended
    <3>1. n \in C!Node
      BY DEF C!Ready
    <3>2. CASE n = h.at
      BY <2>5, <2>6, <3>2
    <3>3. CASE n # h.at
      <4>1. C!Position(n) \in Nat /\ Nodes[C!Position(n)] = n /\ Nodes[C!Position(h.at)] = h.at
        BY <2>4, <3>1, PositionIs DEF PlansConstants
      <4>2. C!Position(n) < C!Position(h.at)
        BY <2>8, <2>9, <3>3, <4>1
      <4>3. h.copy.node[n] \in C!Ended
        BY <2>3, <2>6, <4>2 DEF Settled
      <4>. QED  BY <2>6, <3>1, <3>3, <4>3
    <3>. QED  BY <3>2, <3>3
  <2>10. ~overlapped => C!UnderWay \subseteq {e} /\ Shut
    BY <2>2 DEF PlansInv
  <2>11. overlapped' \in BOOLEAN /\ interrupted' \in BOOLEAN
         /\ (~overlapped' => ~overlapped /\ C!UnderWay \subseteq {e} /\ (plan = plan => Shut))
    BY <1>1, <2>1, <2>10
  <2>. QED  BY <2>1, <2>4, <2>6, <2>7, <2>8, <2>9, <2>11, VisitKeeps
<1>8. ASSUME C!Die PROVE PlansInv'
  <2>1. /\ exec' = [e \in Execution |-> Absent] /\ interrupted' = TRUE /\ overlapped' = FALSE
        /\ UNCHANGED plan
    BY <1>8 DEF C!Die
  <2>2. C!UnderWay' = {}
    BY <2>1 DEF C!UnderWay
  <2>. QED  BY <2>1, <2>2 DEF PlansInv, C!RunningMeansExecuting
<1>9. CASE UNCHANGED <<plan, exec, overlapped, interrupted>>
  BY <1>9 DEF PlansInv, C!UnderWay, C!RunningMeansExecuting, Shut
<1>. QED  BY <1>2, <1>3, <1>4, <1>5, <1>6, <1>7, <1>8, <1>9 DEF C!Next

LEMMA PlansHold == PlansConstants /\ C!Spec => []PlansInv
<1>. SUFFICES ASSUME PlansConstants PROVE C!Spec => []PlansInv
  OBVIOUS
<1>1. PlansInv /\ [C!Next]_(C!vars) => PlansInv'
  BY PlansStep DEF C!vars
<1>. QED  BY <1>1, PlansInit, PTL DEF C!Spec

\* An execution gives the model a node only when every node it needs has ended, and a plan
\* that shows running is being executed or was when the server died.
THEOREM ExecutionsHold == PlansConstants /\ C!Spec => [](C!TypeOK /\ C!ExecutionsAreOrdered)
<1>. SUFFICES ASSUME PlansConstants PROVE C!Spec => [](C!TypeOK /\ C!ExecutionsAreOrdered)
  OBVIOUS
<1>1. PlansInv => C!TypeOK /\ C!ExecutionsAreOrdered
  <2>. SUFFICES ASSUME PlansInv PROVE C!TypeOK /\ C!ExecutionsAreOrdered
    OBVIOUS
  <2>1. \A e \in C!UnderWay : exec[e] \in Held
    BY DEF PlansInv, C!UnderWay
  <2>2. C!TypeOK
    BY <2>1 DEF PlansInv, C!TypeOK, Held
  <2>3. C!DependenciesFirst
    BY DEF PlansInv, C!DependenciesFirst, Settled, C!Ready
  <2>. QED  BY <2>2, <2>3 DEF PlansInv, C!ExecutionsAreOrdered
<1>. QED  BY <1>1, PlansHold, PTL

\* No edit the service accepts is under an execution that read the plan before, unless two
\* executions overlapped.
THEOREM EditsHold == PlansConstants /\ C!Spec => C!EditsAreKept
<1>. SUFFICES ASSUME PlansConstants PROVE C!Spec => C!EditsAreKept
  OBVIOUS
<1>1. ASSUME PlansInv, NEW depends \in Graph, NEW skips \in Skips, C!UpdatePlan(depends, skips)
      PROVE  C!UnderWay = {} \/ overlapped
  BY <1>1 DEF C!UpdatePlan, C!MayUpdate, PlansInv, Shut
<1>2. PlansInv => [C!Edited => C!UnderWay = {} \/ overlapped]_(C!vars)
  BY <1>1 DEF C!Edited
<1>. QED  BY <1>2, PlansHold, PTL DEF C!EditsAreKept

----------------------------------------------------------------------------
(* RunEventLog: the summary of a log is what its replay gives for any base.  *)

Record == [status : RunState, stage : Stage \cup {None}, marks : SUBSET MergeField]

Summary ==
    [length : 0..CompactAt, status : RunState \cup {None}, stage : Stage \cup {None},
     marks : SUBSET MergeField]

EventLogInv ==
    /\ base \in Record /\ log \in Summary
    /\ events \in Seq(L!Event) /\ Len(events) <= MaxEvents
    /\ \A b \in Record : L!Replay(b, events) = L!Materialize(b, log)

\* The recursion of Replay has a solution, and Replay is its final value.
LEMMA ReplayIs ==
  ASSUME NEW run, NEW all \in Seq(L!Event)
  PROVE  \E steps : /\ steps[0] = run /\ L!Replay(run, all) = steps[Len(all)]
                    /\ \A n \in 1..Len(all) : steps[n] = L!ApplyRunEvent(steps[n - 1], all[n])
<1>. DEFINE final == Len(all)
            Is(g, n) == g = [m \in 0..n |-> IF m = 0 THEN run
                                            ELSE L!ApplyRunEvent(g[m - 1], all[m])]
            Lacking == {n \in 0..final : ~\E g : Is(g, n)}
<1>1. final \in Nat
  OBVIOUS
<1>2. \E g : Is(g, 0)
  <2>1. Is([m \in 0..0 |-> run], 0)
    OBVIOUS
  <2>. QED  BY <2>1
<1>3. ASSUME NEW n \in 0..final, n > 0, NEW g, Is(g, n - 1) PROVE \E h : Is(h, n)
  <2>. DEFINE h == [m \in 0..n |-> IF m = n THEN L!ApplyRunEvent(g[n - 1], all[n]) ELSE g[m]]
  <2>1. DOMAIN h = 0..n /\ h = [m \in 0..n |-> h[m]]
    OBVIOUS
  <2>2. \A m \in 0..(n - 1) : h[m] = g[m]
    BY <1>3
  <2>3. h[0] = run
    BY <1>1, <1>3, <2>2
  <2>4. ASSUME NEW m \in 1..n PROVE h[m] = L!ApplyRunEvent(h[m - 1], all[m])
    <3>1. CASE m = n
      BY <1>1, <1>3, <2>2, <3>1
    <3>2. CASE m # n
      <4>1. m \in 0..(n - 1) /\ m # 0 /\ m - 1 \in 0..(n - 1)
        BY <1>1, <3>2
      <4>2. g[m] = L!ApplyRunEvent(g[m - 1], all[m])
        BY <1>3, <4>1
      <4>. QED  BY <2>2, <4>1, <4>2
    <3>. QED  BY <3>1, <3>2
  <2>. HIDE DEF h
  <2>5. \A m \in 0..n : h[m] = IF m = 0 THEN run ELSE L!ApplyRunEvent(h[m - 1], all[m])
    BY <1>1, <2>3, <2>4
  <2>6. Is(h, n)
    BY <2>1, <2>5
  <2>. QED  BY <2>6
<1>4. Lacking = {}
  <2>1. SUFFICES ASSUME Lacking # {} PROVE FALSE
    OBVIOUS
  <2>2. PICK n \in Lacking : \A m \in Lacking : n <= m
    <3>1. Lacking \subseteq Nat
      BY <1>1
    <3>. HIDE DEF Lacking
    <3>. QED  BY <2>1, <3>1, LeastIs
  <2>. HIDE DEF Is
  <2>3. n \in 0..final /\ n # 0 /\ ~\E g : Is(g, n)
    BY <1>2, <2>2
  <2>4. n - 1 \in 0..final /\ n - 1 \notin Lacking
    BY <1>1, <2>2, <2>3
  <2>5. PICK g : Is(g, n - 1)
    BY <2>4
  <2>. QED  BY <1>1, <1>3, <2>3, <2>5
<1>5. PICK g : Is(g, final)
  <2>. HIDE DEF Is
  <2>. QED  BY <1>1, <1>4
<1>. DEFINE steps == CHOOSE h : Is(h, final)
<1>6. Is(steps, final)
  <2>. HIDE DEF Is
  <2>. QED  BY <1>5
<1>7. L!Replay(run, all) = steps[final]
  BY DEF L!Replay
<1>. HIDE DEF steps
<1>8. \A m \in 0..final : steps[m] = IF m = 0 THEN run ELSE L!ApplyRunEvent(steps[m - 1], all[m])
  BY <1>6
<1>. QED  BY <1>1, <1>7, <1>8

\* One more line is applied after the others.
LEMMA ReplayMore ==
  ASSUME NEW run, NEW all \in Seq(L!Event), NEW e \in L!Event
  PROVE  L!Replay(run, Append(all, e)) = L!ApplyRunEvent(L!Replay(run, all), e)
<1>. DEFINE more == Append(all, e)
            final == Len(all)
<1>1. /\ final \in Nat /\ more \in Seq(L!Event) /\ Len(more) = final + 1 /\ more[final + 1] = e
      /\ \A n \in 1..final : more[n] = all[n]
  OBVIOUS
<1>. HIDE DEF more
<1>2. PICK f : /\ f[0] = run /\ L!Replay(run, all) = f[final]
               /\ \A n \in 1..final : f[n] = L!ApplyRunEvent(f[n - 1], all[n])
  BY ReplayIs
<1>3. PICK g : /\ g[0] = run /\ L!Replay(run, more) = g[Len(more)]
               /\ \A n \in 1..Len(more) : g[n] = L!ApplyRunEvent(g[n - 1], more[n])
  BY <1>1, ReplayIs
<1>. DEFINE Apart == {n \in 0..final : f[n] # g[n]}
<1>4. Apart = {}
  <2>1. SUFFICES ASSUME Apart # {} PROVE FALSE
    OBVIOUS
  <2>2. PICK n \in Apart : \A m \in Apart : n <= m
    <3>1. Apart \subseteq Nat
      BY <1>1
    <3>. HIDE DEF Apart
    <3>. QED  BY <2>1, <3>1, LeastIs
  <2>3. n \in 1..final /\ n - 1 \in 0..final /\ n - 1 \notin Apart
    BY <1>1, <1>2, <1>3, <2>2
  <2>4. n \in 1..Len(more) /\ f[n - 1] = g[n - 1]
    BY <1>1, <2>3
  <2>5. f[n] = L!ApplyRunEvent(f[n - 1], all[n]) /\ g[n] = L!ApplyRunEvent(g[n - 1], more[n])
    BY <1>2, <1>3, <2>3, <2>4
  <2>. QED  BY <1>1, <2>2, <2>3, <2>4, <2>5
<1>5. f[final] = g[final]
  BY <1>1, <1>4
<1>6. final + 1 \in 1..Len(more) /\ (final + 1) - 1 = final
  BY <1>1
<1>7. g[final + 1] = L!ApplyRunEvent(g[final], e)
  BY <1>1, <1>3, <1>6
<1>. QED  BY <1>1, <1>2, <1>3, <1>5, <1>7 DEF more

LEMMA ReplayNone ==
  ASSUME NEW run, NEW all \in Seq(L!Event)
  PROVE  Len(all) = 0 => L!Replay(run, all) = run
<1>1. PICK steps : /\ steps[0] = run /\ L!Replay(run, all) = steps[Len(all)]
                   /\ \A n \in 1..Len(all) : steps[n] = L!ApplyRunEvent(steps[n - 1], all[n])
  BY ReplayIs
<1>. QED  BY <1>1

\* A record, by its fields.
Rec(x, y, z) == [status |-> x, stage |-> y, marks |-> z]

LEMMA RecIs ==
  ASSUME NEW b \in Record
  PROVE  /\ b = Rec(b.status, b.stage, b.marks)
         /\ b.status \in RunState /\ b.stage \in Stage \cup {None} /\ b.marks \subseteq MergeField
BY DEF Record, Rec

LEMMA FieldsAre ==
  ASSUME NEW x, NEW y, NEW z
  PROVE  /\ Rec(x, y, z).status = x /\ Rec(x, y, z).stage = y /\ Rec(x, y, z).marks = z
         /\ \A v : /\ [Rec(x, y, z) EXCEPT !.status = v] = Rec(v, y, z)
                   /\ [Rec(x, y, z) EXCEPT !.stage = v] = Rec(x, v, z)
                   /\ [Rec(x, y, z) EXCEPT !.marks = v] = Rec(x, y, v)
         /\ x \in RunState /\ y \in Stage \cup {None} /\ z \subseteq MergeField
               => Rec(x, y, z) \in Record
BY DEF Rec, Record

LEMMA MaterializeIs ==
  ASSUME NEW b \in Record, NEW l \in Summary
  PROVE  /\ L!Materialize(b, l) \in Record
         /\ L!Materialize(b, l) = Rec(L!Overlay(l.status, b.status), L!Overlay(l.stage, b.stage),
                                      b.marks \cup l.marks)
<1>. DEFINE x == L!Overlay(l.status, b.status)
            y == L!Overlay(l.stage, b.stage)
            z == b.marks \cup l.marks
<1>1. L!Materialize(b, l) = [[[b EXCEPT !.status = x] EXCEPT !.stage = y] EXCEPT !.marks = z]
  BY DEF L!Materialize
<1>2. x \in RunState /\ y \in Stage \cup {None} /\ z \subseteq MergeField
  BY RecIs DEF Summary, L!Overlay
<1>. HIDE DEF x, y, z
<1>3. [b EXCEPT !.status = x] = Rec(x, b.stage, b.marks)
  <2>1. [Rec(b.status, b.stage, b.marks) EXCEPT !.status = x] = Rec(x, b.stage, b.marks)
    BY FieldsAre
  <2>. QED  BY <2>1, RecIs
<1>4. [Rec(x, b.stage, b.marks) EXCEPT !.stage = y] = Rec(x, y, b.marks)
  BY FieldsAre
<1>5. [Rec(x, y, b.marks) EXCEPT !.marks = z] = Rec(x, y, z)
  BY FieldsAre
<1>6. L!Materialize(b, l) = Rec(x, y, z)
  BY <1>1, <1>3, <1>4, <1>5
<1>7. Rec(x, y, z) \in Record
  BY <1>2, FieldsAre
<1>. QED  BY <1>6, <1>7 DEF x, y, z

\* A line over a record.
LEMMA AppliesEvent ==
  ASSUME NEW b \in Record, NEW e
  PROVE  /\ e.event = "status" => L!ApplyRunEvent(b, e) = Rec(e.data, b.stage, b.marks)
         /\ e.event = "stage" => L!ApplyRunEvent(b, e) = Rec(b.status, e.data, b.marks)
         /\ e.event = "merge_meta"
               => L!ApplyRunEvent(b, e) = Rec(b.status, b.stage, b.marks \cup {e.data})
<1>. DEFINE more == b.marks \cup {e.data}
<1>1. /\ e.event = "status" => L!ApplyRunEvent(b, e) = [b EXCEPT !.status = e.data]
      /\ e.event = "stage" => L!ApplyRunEvent(b, e) = [b EXCEPT !.stage = e.data]
      /\ e.event = "merge_meta" => L!ApplyRunEvent(b, e) = [b EXCEPT !.marks = more]
  BY DEF L!ApplyRunEvent
<1>. HIDE DEF more
<1>2. [Rec(b.status, b.stage, b.marks) EXCEPT !.status = e.data] = Rec(e.data, b.stage, b.marks)
  BY FieldsAre
<1>3. [Rec(b.status, b.stage, b.marks) EXCEPT !.stage = e.data] = Rec(b.status, e.data, b.marks)
  BY FieldsAre
<1>4. [Rec(b.status, b.stage, b.marks) EXCEPT !.marks = more] = Rec(b.status, b.stage, more)
  BY FieldsAre
<1>5. b = Rec(b.status, b.stage, b.marks)
  BY RecIs
<1>. QED  BY <1>1, <1>2, <1>3, <1>4, <1>5 DEF more

\* A line has the same effect on what a reader sees and on the summary.
LEMMA AddsEvent ==
  ASSUME L!RunEventLogConstants, NEW l \in Summary, NEW e \in L!Event
  PROVE  /\ L!AddEvent(l, e) \in Summary
         /\ \A b \in Record : L!ApplyRunEvent(L!Materialize(b, l), e)
                                 = L!Materialize(b, L!AddEvent(l, e))
<1>. DEFINE length == IF l.length < CompactAt THEN l.length + 1 ELSE l.length
            more == l.marks \cup {e.data}
            next == L!AddEvent(l, e)
<1>1. /\ l = [length |-> l.length, status |-> l.status, stage |-> l.stage, marks |-> l.marks]
      /\ length \in 0..CompactAt /\ l.status \in RunState \cup {None}
      /\ l.stage \in Stage \cup {None} /\ l.marks \subseteq MergeField
  BY DEF Summary, L!RunEventLogConstants
<1>2. L!Longer(l) = [length |-> length, status |-> l.status, stage |-> l.stage, marks |-> l.marks]
  BY <1>1 DEF L!Longer
<1>. HIDE DEF length
<1>3. ASSUME NEW b \in Record
      PROVE  /\ L!Materialize(b, l) \in Record
             /\ L!Materialize(b, l).status = L!Overlay(l.status, b.status)
             /\ L!Materialize(b, l).stage = L!Overlay(l.stage, b.stage)
             /\ L!Materialize(b, l).marks = b.marks \cup l.marks
  <2>. DEFINE x == L!Overlay(l.status, b.status)
              y == L!Overlay(l.stage, b.stage)
              z == b.marks \cup l.marks
  <2>1. L!Materialize(b, l) \in Record /\ L!Materialize(b, l) = Rec(x, y, z)
    BY MaterializeIs
  <2>. HIDE DEF x, y, z
  <2>2. Rec(x, y, z).status = x /\ Rec(x, y, z).stage = y /\ Rec(x, y, z).marks = z
    BY FieldsAre
  <2>. QED  BY <2>1, <2>2 DEF x, y, z
<1>4. ASSUME NEW b \in Record, next \in Summary
      PROVE  L!Materialize(b, next) = Rec(L!Overlay(next.status, b.status),
                                          L!Overlay(next.stage, b.stage), b.marks \cup next.marks)
  BY <1>4, MaterializeIs
<1>5. CASE e.event = "status" /\ e.data \in RunState
  <2>1. next = [length |-> length, status |-> e.data, stage |-> l.stage, marks |-> l.marks]
    BY <1>2, <1>5 DEF L!AddEvent, L!AddStatus
  <2>. HIDE DEF next
  <2>2. /\ next \in Summary /\ next.status = e.data /\ next.stage = l.stage
        /\ next.marks = l.marks
    BY <1>1, <1>5, <2>1 DEF Summary
  <2>3. e.data # None
    BY <1>5 DEF L!RunEventLogConstants
  <2>4. \A b : L!Overlay(e.data, b) = e.data
    BY <2>3 DEF L!Overlay
  <2>5. ASSUME NEW b \in Record
        PROVE  L!ApplyRunEvent(L!Materialize(b, l), e) = L!Materialize(b, next)
    <3>. DEFINE seen == L!Materialize(b, l)
    <3>1. /\ seen \in Record /\ seen.status = L!Overlay(l.status, b.status)
          /\ seen.stage = L!Overlay(l.stage, b.stage) /\ seen.marks = b.marks \cup l.marks
      BY <1>3
    <3>. HIDE DEF seen
    <3>2. L!ApplyRunEvent(seen, e) = Rec(e.data, seen.stage, seen.marks)
      BY <1>5, <3>1, AppliesEvent
    <3>3. L!Materialize(b, next) = Rec(L!Overlay(next.status, b.status),
                                       L!Overlay(next.stage, b.stage), b.marks \cup next.marks)
      BY <1>4, <2>2
    <3>. QED  BY <2>2, <2>4, <3>1, <3>2, <3>3 DEF seen
  <2>. QED  BY <2>2, <2>5 DEF next
<1>6. CASE e.event = "stage" /\ e.data \in Stage
  <2>1. next = [length |-> length, status |-> l.status, stage |-> e.data, marks |-> l.marks]
    BY <1>2, <1>6 DEF L!AddEvent, L!AddStage
  <2>. HIDE DEF next
  <2>2. /\ next \in Summary /\ next.status = l.status /\ next.stage = e.data
        /\ next.marks = l.marks
    BY <1>1, <1>6, <2>1 DEF Summary
  <2>3. e.data # None
    BY <1>6 DEF L!RunEventLogConstants
  <2>4. \A b : L!Overlay(e.data, b) = e.data
    BY <2>3 DEF L!Overlay
  <2>5. ASSUME NEW b \in Record
        PROVE  L!ApplyRunEvent(L!Materialize(b, l), e) = L!Materialize(b, next)
    <3>. DEFINE seen == L!Materialize(b, l)
    <3>1. /\ seen \in Record /\ seen.status = L!Overlay(l.status, b.status)
          /\ seen.stage = L!Overlay(l.stage, b.stage) /\ seen.marks = b.marks \cup l.marks
      BY <1>3
    <3>. HIDE DEF seen
    <3>2. L!ApplyRunEvent(seen, e) = Rec(seen.status, e.data, seen.marks)
      BY <1>6, <3>1, AppliesEvent
    <3>3. L!Materialize(b, next) = Rec(L!Overlay(next.status, b.status),
                                       L!Overlay(next.stage, b.stage), b.marks \cup next.marks)
      BY <1>4, <2>2
    <3>. QED  BY <2>2, <2>4, <3>1, <3>2, <3>3 DEF seen
  <2>. QED  BY <2>2, <2>5 DEF next
<1>7. CASE e.event = "merge_meta" /\ e.data \in MergeField
  <2>1. next = [length |-> length, status |-> l.status, stage |-> l.stage, marks |-> more]
    BY <1>2, <1>7 DEF L!AddEvent, L!AddMark
  <2>2. more \subseteq MergeField
    BY <1>1, <1>7
  <2>. HIDE DEF next, more
  <2>3. /\ next \in Summary /\ next.status = l.status /\ next.stage = l.stage
        /\ next.marks = more
    BY <1>1, <2>1, <2>2 DEF Summary
  <2>4. \A b : (b.marks \cup l.marks) \cup {e.data} = b.marks \cup more
    BY DEF more
  <2>5. ASSUME NEW b \in Record
        PROVE  L!ApplyRunEvent(L!Materialize(b, l), e) = L!Materialize(b, next)
    <3>. DEFINE seen == L!Materialize(b, l)
    <3>1. /\ seen \in Record /\ seen.status = L!Overlay(l.status, b.status)
          /\ seen.stage = L!Overlay(l.stage, b.stage) /\ seen.marks = b.marks \cup l.marks
      BY <1>3
    <3>. HIDE DEF seen
    <3>2. L!ApplyRunEvent(seen, e) = Rec(seen.status, seen.stage, seen.marks \cup {e.data})
      BY <1>7, <3>1, AppliesEvent
    <3>3. L!Materialize(b, next) = Rec(L!Overlay(next.status, b.status),
                                       L!Overlay(next.stage, b.stage), b.marks \cup next.marks)
      BY <1>4, <2>3
    <3>. QED  BY <2>3, <2>4, <3>1, <3>2, <3>3 DEF seen
  <2>. QED  BY <2>3, <2>5 DEF next
<1>. QED  BY <1>5, <1>6, <1>7 DEF L!Event

LEMMA EmptyIs ==
  ASSUME L!RunEventLogConstants
  PROVE  /\ L!EmptyLog \in Summary
         /\ \A b \in Record : L!Replay(b, <<>>) = L!Materialize(b, L!EmptyLog)
<1>1. L!EmptyLog \in Summary
  BY DEF L!EmptyLog, Summary, L!RunEventLogConstants
<1>2. ASSUME NEW b \in Record PROVE L!Materialize(b, L!EmptyLog) = b
  <2>1. /\ L!EmptyLog.status = None /\ L!EmptyLog.stage = None /\ L!EmptyLog.marks = {}
        /\ b.marks \cup {} = b.marks
    BY DEF L!EmptyLog
  <2>2. L!Materialize(b, L!EmptyLog) = Rec(b.status, b.stage, b.marks)
    BY <1>1, <2>1, MaterializeIs DEF L!Overlay
  <2>. QED  BY <2>2, RecIs
<1>3. \A b \in Record : L!Replay(b, <<>>) = b
  <2>1. <<>> \in Seq(L!Event) /\ Len(<<>>) = 0
    OBVIOUS
  <2>. QED  BY <2>1, ReplayNone
<1>. QED  BY <1>1, <1>2, <1>3

\* The lines with one more, replayed over any base.
LEMMA WithLine ==
  ASSUME L!RunEventLogConstants, EventLogInv, NEW e \in L!Event
  PROVE  /\ L!AddEvent(log, e) \in Summary
         /\ Append(events, e) \in Seq(L!Event) /\ Len(Append(events, e)) = Len(events) + 1
         /\ \A b \in Record : /\ L!Replay(b, Append(events, e)) \in Record
                              /\ L!Replay(b, Append(events, e))
                                    = L!Materialize(b, L!AddEvent(log, e))
<1>1. events \in Seq(L!Event) /\ log \in Summary
  BY DEF EventLogInv
<1>2. ASSUME NEW b \in Record
      PROVE  L!Replay(b, Append(events, e)) = L!Materialize(b, L!AddEvent(log, e))
  <2>1. L!Replay(b, Append(events, e)) = L!ApplyRunEvent(L!Replay(b, events), e)
    BY <1>1, ReplayMore
  <2>2. L!Replay(b, events) = L!Materialize(b, log)
    BY DEF EventLogInv
  <2>. QED  BY <1>1, <2>1, <2>2, AddsEvent
<1>3. L!AddEvent(log, e) \in Summary
  BY <1>1, AddsEvent
<1>4. Append(events, e) \in Seq(L!Event) /\ Len(Append(events, e)) = Len(events) + 1
  BY <1>1
<1>. QED  BY <1>2, <1>3, <1>4, MaterializeIs

\* _materialize_run, for any statuses, stages and thresholds: the summary that OpsRunStore
\* keeps of a log is what replaying its lines gives, also when a death leaves lines that the
\* base record already has.
THEOREM SummariesAreExact ==
  L!RunEventLogConstants /\ L!Spec => [](L!TypeOK /\ L!SummaryIsExact)
<1>. SUFFICES ASSUME L!RunEventLogConstants PROVE L!Spec => [](L!TypeOK /\ L!SummaryIsExact)
  OBVIOUS
<1>1. ASSUME L!Init PROVE EventLogInv
  <2>1. /\ base \in [status : RunState, stage : {None}, marks : {{}}]
        /\ events = <<>> /\ log = L!EmptyLog
    BY <1>1 DEF L!Init
  <2>2. base \in Record /\ Len(events) <= MaxEvents /\ events \in Seq(L!Event)
    BY <2>1 DEF Record, L!RunEventLogConstants
  <2>. QED  BY <2>1, <2>2, EmptyIs DEF EventLogInv
<1>2. ASSUME EventLogInv, [L!Next]_(L!vars) PROVE EventLogInv'
  <2>1. CASE UNCHANGED L!vars
    BY <1>2, <2>1 DEF L!vars, EventLogInv
  <2>2. ASSUME NEW e \in L!Event, L!Write(e) PROVE EventLogInv'
    <3>. DEFINE more == Append(events, e)
    <3>1. /\ more \in Seq(L!Event) /\ Len(more) = Len(events) + 1 /\ L!AddEvent(log, e) \in Summary
          /\ \A b \in Record : /\ L!Replay(b, more) \in Record
                               /\ L!Replay(b, more) = L!Materialize(b, L!AddEvent(log, e))
      BY <1>2, WithLine
    <3>2. \/ /\ Len(more) < CompactAt /\ events' = more
             /\ log' = L!AddEvent(log, e) /\ base' = base
          \/ base' = L!Replay(base, more) /\ events' = <<>> /\ log' = L!EmptyLog
      BY <2>2 DEF L!Write
    <3>. HIDE DEF more
    <3>3. base \in Record /\ MaxEvents \in Nat /\ Len(<<>>) = 0 /\ <<>> \in Seq(L!Event)
      BY <1>2 DEF EventLogInv, L!RunEventLogConstants
    <3>4. CASE /\ Len(more) < CompactAt /\ events' = more
               /\ log' = L!AddEvent(log, e) /\ base' = base
      <4>1. Len(more) <= MaxEvents
        BY <3>1, <3>4 DEF L!RunEventLogConstants
      <4>. QED  BY <3>1, <3>3, <3>4, <4>1 DEF EventLogInv
    <3>5. CASE base' = L!Replay(base, more) /\ events' = <<>> /\ log' = L!EmptyLog
      BY <3>1, <3>3, <3>5, EmptyIs DEF EventLogInv
    <3>. QED  BY <3>2, <3>4, <3>5
  <2>3. ASSUME NEW e \in L!Event, L!WriteWithoutTruncation(e) PROVE EventLogInv'
    <3>. DEFINE more == Append(events, e)
    <3>1. /\ more \in Seq(L!Event) /\ L!AddEvent(log, e) \in Summary
          /\ \A b \in Record : /\ L!Replay(b, more) \in Record
                               /\ L!Replay(b, more) = L!Materialize(b, L!AddEvent(log, e))
      BY <1>2, WithLine
    <3>2. /\ Len(more) <= MaxEvents /\ events' = more /\ log' = L!AddEvent(log, e)
          /\ base' = base \/ base' = L!Replay(base, more)
      BY <2>3 DEF L!WriteWithoutTruncation
    <3>. HIDE DEF more
    <3>. QED  BY <1>2, <3>1, <3>2 DEF EventLogInv
  <2>4. ASSUME NEW s \in RunState, L!Overwrite(s) PROVE EventLogInv'
    <3>1. base' \in Record /\ UNCHANGED <<events, log>>
      BY <1>2, <2>4 DEF L!Overwrite, EventLogInv, Record
    <3>. QED  BY <1>2, <3>1 DEF EventLogInv
  <2>. QED  BY <1>2, <2>1, <2>2, <2>3, <2>4 DEF L!Next
<1>3. ASSUME EventLogInv PROVE L!TypeOK /\ L!SummaryIsExact
  BY <1>3 DEF EventLogInv, L!TypeOK, L!SummaryIsExact, Record, Summary
<1>. QED  BY <1>1, <1>2, <1>3, PTL DEF L!Spec

----------------------------------------------------------------------------
(* AgentTask: what children of attempts that are over may still do, and    *)
(* why it changes nothing of what a completed node shows.                  *)

TaskConstants == {TeamSize, MaxParallel, MaxRounds, Retries} \subseteq Nat

ChildStatus == {"waiting", "running", "ok", "error", "cancelled"}

Team == T!Children(node)

TaskTypes ==
    /\ node \in T!Patterns
    /\ try \in 0..Retries + 1
    /\ progress \in {"waiting", "running", "paused", "completed", "failed"}
    /\ child \in [T!Attempts -> [Team -> ChildStatus]]
    /\ approved \subseteq 1..MaxRounds /\ exceeded \in BOOLEAN
    /\ IF progress = "waiting" THEN try <= Retries ELSE try >= 1

\* An attempt to come.
Untouched == \A a \in T!Attempts : a > try => \A c \in Team : child[a][c] = "waiting"

\* The attempt under way.
UnderWay ==
    progress = "running" =>
       /\ approved = {}
       /\ \A c \in Team : /\ child[try][c] # "cancelled"
                          /\ node.policy = "fail_fast" => child[try][c] # "error"

\* An attempt that is over; of those in parallel, only children beside one that failed go on.
IsOver(a) ==
    IF node.pattern = "parallel"
    THEN \/ \A c \in Team : child[a][c] \notin {"waiting", "running"}
         \/ /\ node.policy = "fail_fast"
            /\ \E c \in Team : child[a][c] = "error"
            /\ \A c \in Team : child[a][c] # "cancelled"
         \/ a = try /\ progress = "paused" /\ \A c \in Team : child[a][c] # "running"
    ELSE \A c \in Team : child[a][c] # "running"

ChildrenInOrder(a) ==
    node.pattern \in T!Sequential =>
       \A c, d \in Team : c < d /\ child[a][d] \notin {"waiting", "cancelled"} =>
                             child[a][c] \in {"ok", "error"}

Limited(a) == node.pattern = "parallel" => Cardinality(T!In(a, "running")) <= MaxParallel

AttemptsAre ==
    \A a \in T!Attempts :
       /\ a <= try /\ ~(a = try /\ progress = "running") => IsOver(a)
       /\ ChildrenInOrder(a)
       /\ Limited(a)

AgentInv == TaskTypes /\ Untouched /\ UnderWay /\ AttemptsAre /\ T!OutputIsOfOneAttempt

\* Children are numbered.
LEMMA TeamIs ==
  ASSUME TaskConstants, node \in T!Patterns
  PROVE  /\ Team \subseteq Nat /\ IsFiniteSet(Team)
         /\ node.pattern \in {"parallel", "serial", "reviewer_loop", "handoff", "single"}
         /\ node.policy \in {"fail_fast", "collect_partial"}
         /\ node.policy # "fail_fast" => node.pattern \in {"parallel", "serial"}
<1>1. /\ node.pattern \in {"parallel", "serial", "reviewer_loop", "handoff", "single"}
      /\ node.policy \in {"fail_fast", "collect_partial"}
      /\ node.policy # "fail_fast" => node.pattern \in {"parallel", "serial"}
  BY DEF T!Patterns
<1>2. \E k \in Nat : Team = 1..k
  <2>1. CASE node.pattern \in {"parallel", "serial"}
    BY <2>1 DEF Team, T!Children, TaskConstants
  <2>2. CASE node.pattern = "reviewer_loop"
    <3>1. 2 * MaxRounds \in Nat
      BY DEF TaskConstants
    <3>. QED  BY <2>2, <3>1 DEF Team, T!Children
  <2>3. CASE node.pattern = "handoff"
    BY <2>3 DEF Team, T!Children
  <2>4. CASE node.pattern = "single"
    BY <2>4 DEF Team, T!Children
  <2>. QED  BY <1>1, <2>1, <2>2, <2>3, <2>4
<1>. QED  BY <1>1, <1>2, FS_Interval

\* Reviews follow what they review.
LEMMA ReviewIs ==
  ASSUME TaskConstants, node \in T!Patterns, NEW c \in Team, T!IsReview(c)
  PROVE  /\ node.pattern = "reviewer_loop" /\ node.policy = "fail_fast"
         /\ c \div 2 \in 1..MaxRounds /\ 2 * (c \div 2) = c /\ Team = 1..2 * MaxRounds
<1>1. node.pattern = "reviewer_loop" /\ c % 2 = 0
  BY DEF T!IsReview
<1>2. Team = 1..2 * MaxRounds /\ MaxRounds \in Nat
  BY <1>1 DEF Team, T!Children, TaskConstants
<1>3. c \in Nat /\ c >= 1 /\ c <= 2 * MaxRounds
  BY <1>2
<1>4. c = 2 * (c \div 2) /\ c \div 2 \in Int
  BY <1>1, <1>3
<1>5. node.policy = "fail_fast"
  BY <1>1 DEF T!Patterns
<1>. QED  BY <1>1, <1>2, <1>3, <1>4, <1>5

\* One child moves.
LEMMA SetChild ==
  ASSUME NEW a \in T!Attempts, NEW c \in Team, NEW v \in ChildStatus,
         child \in [T!Attempts -> [Team -> ChildStatus]],
         child' = [child EXCEPT ![a][c] = v]
  PROVE  /\ child' \in [T!Attempts -> [Team -> ChildStatus]]
         /\ child'[a][c] = v
         /\ \A d \in Team \ {c} : child'[a][d] = child[a][d]
         /\ \A b \in T!Attempts \ {a} : child'[b] = child[b]
OBVIOUS

LEMMA CountIs == \A set : T!Cardinality(set) = Cardinality(set)
BY DEF T!Cardinality, Cardinality, T!IsFiniteSet, IsFiniteSet

LEMMA AgentInit == TaskConstants /\ T!Init => AgentInv
<1>. SUFFICES ASSUME TaskConstants, T!Init PROVE AgentInv
  OBVIOUS
<1>1. /\ node \in T!Patterns /\ try = 0 /\ progress = "waiting"
      /\ child = [a \in T!Attempts |-> [c \in Team |-> "waiting"]]
      /\ approved = {} /\ exceeded = FALSE
  BY DEF T!Init, Team
<1>2. \A a \in T!Attempts : \A c \in Team : child[a][c] = "waiting"
  BY <1>1
<1>3. TaskTypes /\ Untouched /\ UnderWay /\ T!OutputIsOfOneAttempt
  <2>1. child \in [T!Attempts -> [Team -> ChildStatus]]
    BY <1>1 DEF ChildStatus
  <2>2. try \in 0..Retries + 1 /\ try <= Retries
    BY <1>1 DEF TaskConstants
  <2>3. TaskTypes
    BY <1>1, <2>1, <2>2 DEF TaskTypes
  <2>. QED  BY <1>1, <1>2, <2>3 DEF Untouched, UnderWay, T!OutputIsOfOneAttempt
<1>4. ASSUME NEW a \in T!Attempts PROVE ChildrenInOrder(a) /\ Limited(a) /\ ~(a <= try)
  <2>1. T!In(a, "running") = {}
    BY <1>2 DEF T!In, Team
  <2>2. Limited(a)
    BY <2>1, FS_EmptySet DEF Limited, TaskConstants
  <2>3. ~(a <= try)
    BY <1>1 DEF T!Attempts, TaskConstants
  <2>. QED  BY <1>2, <2>2, <2>3 DEF ChildrenInOrder
<1>. QED  BY <1>3, <1>4 DEF AgentInv, AttemptsAre

\* The limit when a child starts, and when it ends.
LEMMA StartLimit ==
  ASSUME TaskConstants, AgentInv, NEW a \in T!Attempts, NEW c \in Team, UNCHANGED node,
         child' = [child EXCEPT ![a][c] = "running"], child[a][c] = "waiting",
         node.pattern = "parallel" => Cardinality(T!In(a, "running")) < MaxParallel
  PROVE  \A b \in T!Attempts : Limited(b)'
<1>. SUFFICES ASSUME NEW b \in T!Attempts, node.pattern = "parallel"
              PROVE  Cardinality(T!In(b, "running")') <= MaxParallel
  BY DEF Limited
<1>1. /\ child'[a][c] = "running" /\ \A d \in Team \ {c} : child'[a][d] = child[a][d]
      /\ \A i \in T!Attempts \ {a} : child'[i] = child[i]
  BY SetChild DEF AgentInv, TaskTypes, ChildStatus
<1>2. CASE b = a
  <2>. DEFINE now == T!In(a, "running")
  <2>1. T!In(b, "running")' = now \cup {c} /\ c \notin now
    BY <1>1, <1>2 DEF T!In, Team
  <2>2. IsFiniteSet(now)
    BY TeamIs, FS_Subset DEF T!In, Team, AgentInv, TaskTypes
  <2>. HIDE DEF now
  <2>3. Cardinality(now \cup {c}) = Cardinality(now) + 1 /\ Cardinality(now) \in Nat
    BY <2>1, <2>2, FS_AddElement, FS_CardinalityType
  <2>4. Cardinality(now) < MaxParallel /\ MaxParallel \in Nat
    BY DEF now, TaskConstants
  <2>. QED  BY <2>1, <2>3, <2>4
<1>3. CASE b # a
  <2>1. T!In(b, "running")' = T!In(b, "running")
    BY <1>1, <1>3 DEF T!In
  <2>. QED  BY <2>1 DEF AgentInv, AttemptsAre, Limited
<1>. QED  BY <1>2, <1>3

LEMMA EndLimit ==
  ASSUME TaskConstants, AgentInv, NEW b \in T!Attempts, UNCHANGED node,
         \A d \in Team : child'[b][d] = "running" => child[b][d] = "running"
  PROVE  Limited(b)'
<1>. SUFFICES ASSUME node.pattern = "parallel" PROVE Cardinality(T!In(b, "running")') <= MaxParallel
  BY DEF Limited
<1>. DEFINE now == T!In(b, "running")
            then == T!In(b, "running")'
<1>1. then \subseteq now
  BY DEF T!In, Team
<1>2. IsFiniteSet(now)
  BY TeamIs, FS_Subset DEF T!In, Team, AgentInv, TaskTypes
<1>3. Cardinality(now) <= MaxParallel /\ MaxParallel \in Nat
  BY DEF AgentInv, AttemptsAre, Limited, TaskConstants
<1>. HIDE DEF now, then
<1>4. Cardinality(then) <= Cardinality(now) /\ Cardinality(then) \in Nat /\ Cardinality(now) \in Nat
  BY <1>1, <1>2, FS_Subset, FS_CardinalityType
<1>. QED  BY <1>3, <1>4 DEF then

\* Nothing of a completed attempt can move.
LEMMA Frozen ==
  ASSUME TaskConstants, AgentInv, progress = "completed", NEW c \in Team
  PROVE  try \in T!Attempts /\ child[try][c] # "running" /\ ~T!MayStart(try, c)
<1>1. try \in T!Attempts
  BY DEF AgentInv, TaskTypes, T!Attempts, TaskConstants
<1>2. IsOver(try)
  BY <1>1 DEF AgentInv, AttemptsAre, TaskTypes
<1>3. node.policy = "fail_fast" => \A d \in Team : child[try][d] # "error"
  BY DEF AgentInv, T!OutputIsOfOneAttempt, T!In, Team
<1>4. CASE node.pattern = "parallel"
  BY <1>1, <1>2, <1>3, <1>4 DEF IsOver, T!MayStart
<1>5. CASE node.pattern # "parallel"
  BY <1>1, <1>2, <1>5 DEF IsOver, T!MayStart
<1>. QED  BY <1>1, <1>4, <1>5

\* What a completed node shows stays as it is.
LEMMA OutputStays ==
  ASSUME AgentInv, UNCHANGED <<node, try, progress, output, approved>>,
         progress = "completed" => child'[try] = child[try]
  PROVE  T!OutputIsOfOneAttempt'
<1>. SUFFICES ASSUME progress = "completed" PROVE T!OutputIsOfOneAttempt'
  BY DEF T!OutputIsOfOneAttempt
<1>1. \A s : T!In(try, s)' = T!In(try, s)
  BY DEF T!In
<1>. QED  BY <1>1 DEF AgentInv, T!OutputIsOfOneAttempt

LEMMA StartStep ==
  ASSUME TaskConstants, AgentInv, NEW a \in T!Attempts, NEW c \in Team, T!Start(a, c)
  PROVE  AgentInv'
<1>1. /\ T!MayStart(a, c) /\ child' = [child EXCEPT ![a][c] = "running"]
      /\ UNCHANGED <<node, try, progress, approved, output, exceeded>>
  BY DEF T!Start
<1>2. /\ child' \in [T!Attempts -> [Team -> ChildStatus]]
      /\ child'[a][c] = "running"
      /\ \A d \in Team \ {c} : child'[a][d] = child[a][d]
      /\ \A b \in T!Attempts \ {a} : child'[b] = child[b]
  BY <1>1, SetChild DEF AgentInv, TaskTypes, ChildStatus
<1>3. /\ child[a][c] = "waiting" /\ a <= try
      /\ node.pattern = "parallel" => Cardinality(T!In(a, "running")) < MaxParallel
                                      /\ (a = try => progress # "paused")
      /\ node.pattern # "parallel" =>
            /\ a = try /\ progress = "running"
            /\ \A d \in Team : d < c => child[a][d] \in {"ok", "error"}
  BY <1>1, CountIs DEF T!MayStart, Team
<1>4. Team' = Team
  BY <1>1 DEF Team
<1>5. TaskTypes'
  BY <1>1, <1>2, <1>4 DEF AgentInv, TaskTypes
<1>6. Untouched'
  <2>1. \A b \in T!Attempts : b > try => b # a
    BY <1>3 DEF AgentInv, TaskTypes, T!Attempts, TaskConstants
  <2>. QED  BY <1>1, <1>2, <1>4, <2>1 DEF AgentInv, Untouched
<1>7. progress = "running" => try \in T!Attempts
  BY DEF AgentInv, TaskTypes, T!Attempts, TaskConstants
<1>8. UnderWay'
  <2>1. ASSUME progress = "running", NEW d \in Team
        PROVE  child'[try][d] # "cancelled" /\ (node.policy = "fail_fast" => child'[try][d] # "error")
    <3>1. child[try][d] # "cancelled" /\ (node.policy = "fail_fast" => child[try][d] # "error")
      BY <2>1 DEF AgentInv, UnderWay
    <3>. QED  BY <1>2, <1>7, <2>1, <3>1
  <2>. QED  BY <1>1, <1>4, <2>1 DEF AgentInv, UnderWay
<1>9. \A b \in T!Attempts : Limited(b)'
  BY <1>1, <1>3, StartLimit
<1>10. ASSUME NEW b \in T!Attempts PROVE ChildrenInOrder(b)'
  <2>1. ChildrenInOrder(b)
    BY DEF AgentInv, AttemptsAre
  <2>2. CASE b # a
    BY <1>1, <1>2, <1>4, <2>1, <2>2 DEF ChildrenInOrder
  <2>3. CASE b = a /\ node.pattern \in T!Sequential
    <3>1. node.pattern # "parallel"
      BY <2>3 DEF T!Sequential
    <3>2. ASSUME NEW i \in Team, NEW d \in Team, i < d, child'[a][d] \notin {"waiting", "cancelled"}
          PROVE  child'[a][i] \in {"ok", "error"}
      <4>1. c \in Nat /\ d \in Nat /\ i \in Nat
        BY TeamIs DEF AgentInv, TaskTypes
      <4>2. CASE d = c
        BY <1>2, <1>3, <3>1, <3>2, <4>1, <4>2
      <4>3. CASE d # c
        <5>1. child[a][i] \in {"ok", "error"}
          BY <1>2, <2>1, <2>3, <3>2, <4>3 DEF ChildrenInOrder
        <5>. QED  BY <1>2, <1>3, <5>1
      <4>. QED  BY <4>2, <4>3
    <3>. QED  BY <1>1, <1>4, <2>3, <3>2 DEF ChildrenInOrder
  <2>. QED  BY <1>1, <2>2, <2>3 DEF ChildrenInOrder
<1>11. ASSUME NEW b \in T!Attempts, b <= try, ~(b = try /\ progress = "running") PROVE IsOver(b)'
  <2>1. IsOver(b)
    BY <1>11 DEF AgentInv, AttemptsAre
  <2>2. CASE b # a
    BY <1>1, <1>2, <1>4, <2>1, <2>2 DEF IsOver
  <2>3. CASE b = a
    <3>1. node.pattern = "parallel"
      BY <1>3, <1>11, <2>3
    <3>2. /\ node.policy = "fail_fast" /\ \E d \in Team : child[a][d] = "error"
          /\ \A d \in Team : child[a][d] # "cancelled"
      BY <1>3, <2>1, <2>3, <3>1 DEF IsOver
    <3>3. /\ \E d \in Team : child'[a][d] = "error"
          /\ \A d \in Team : child'[a][d] # "cancelled"
      BY <1>2, <1>3, <3>2
    <3>. QED  BY <1>1, <1>4, <2>3, <3>1, <3>2, <3>3 DEF IsOver
  <2>. QED  BY <2>2, <2>3
<1>12. AttemptsAre'
  BY <1>1, <1>9, <1>10, <1>11 DEF AttemptsAre
<1>13. progress = "completed" => child'[try] = child[try]
  BY <1>1, <1>2, Frozen
<1>. QED  BY <1>1, <1>5, <1>6, <1>8, <1>12, <1>13, OutputStays DEF AgentInv

\* A child ends, or does not start, and the node goes on, completes or raises.
LEMMA ChildEnds ==
  ASSUME TaskConstants, AgentInv, NEW a \in T!Attempts, NEW c \in Team, NEW v \in {"ok", "error"},
         child' = [child EXCEPT ![a][c] = v], UNCHANGED <<node, try>>, exceeded' \in BOOLEAN,
         child[a][c] = "running" \/ (T!MayStart(a, c) /\ v = "error"),
         \/ approved' = approved
         \/ v = "ok" /\ T!IsReview(c) /\ approved' = approved \union {c \div 2},
         T!Gather(a, c)
  PROVE  AgentInv'
<1>. DEFINE over == \A d \in Team : child'[a][d] \in {"ok", "error"}
            final == over \/ (T!IsReview(c) /\ c \div 2 \in approved')
<1>1. /\ child' \in [T!Attempts -> [Team -> ChildStatus]]
      /\ child'[a][c] = v
      /\ \A d \in Team \ {c} : child'[a][d] = child[a][d]
      /\ \A b \in T!Attempts \ {a} : child'[b] = child[b]
  BY SetChild DEF AgentInv, TaskTypes, ChildStatus
<1>2. /\ node \in T!Patterns /\ child \in [T!Attempts -> [Team -> ChildStatus]]
      /\ T!Attempts \subseteq Nat /\ try \in Nat /\ Team \subseteq Nat /\ Team' = Team
      /\ try \in 0..Retries + 1
      /\ progress \in {"waiting", "running", "paused", "completed", "failed"}
  BY TeamIs DEF AgentInv, TaskTypes, T!Attempts, TaskConstants, Team
<1>3. /\ node.pattern \in {"parallel", "serial", "reviewer_loop", "handoff", "single"}
      /\ node.policy \in {"fail_fast", "collect_partial"}
  BY <1>2, TeamIs
<1>4. child[a][c] \in {"waiting", "running"} /\ a <= try
  <2>1. CASE child[a][c] = "running"
    BY <1>2, <2>1 DEF AgentInv, Untouched
  <2>2. CASE T!MayStart(a, c)
    BY <2>2 DEF T!MayStart
  <2>. QED  BY <2>1, <2>2
<1>5. ASSUME node.pattern # "parallel"
      PROVE  /\ a = try /\ progress = "running"
             /\ \A d \in Team : d < c => child[a][d] \in {"ok", "error"}
             /\ \A d \in Team : d > c => child[a][d] \in {"waiting", "cancelled"}
  <2>1. node.pattern \in T!Sequential
    BY <1>3, <1>5 DEF T!Sequential
  <2>2. ChildrenInOrder(a)
    BY DEF AgentInv, AttemptsAre
  <2>3. \A d \in Team : d > c => child[a][d] \in {"waiting", "cancelled"}
    BY <1>2, <1>4, <2>1, <2>2 DEF ChildrenInOrder
  <2>4. CASE child[a][c] = "running"
    <3>1. a = try /\ progress = "running"
      BY <1>4, <1>5, <2>4 DEF AgentInv, AttemptsAre, IsOver
    <3>2. \A d \in Team : d < c => child[a][d] \in {"ok", "error"}
      BY <1>2, <2>1, <2>2, <2>4 DEF ChildrenInOrder
    <3>. QED  BY <2>3, <3>1, <3>2
  <2>5. CASE T!MayStart(a, c)
    BY <1>5, <2>3, <2>5 DEF T!MayStart, Team
  <2>. QED  BY <2>4, <2>5
<1>6. Untouched'
  <2>1. \A b \in T!Attempts : b > try => b # a
    BY <1>2, <1>4
  <2>. QED  BY <1>1, <1>2, <2>1 DEF AgentInv, Untouched
<1>7. \A b \in T!Attempts : Limited(b)'
  <2>1. ASSUME NEW b \in T!Attempts, NEW d \in Team, child'[b][d] = "running"
        PROVE  child[b][d] = "running"
    BY <1>1, <2>1
  <2>. QED  BY <2>1, EndLimit
<1>8. ASSUME NEW b \in T!Attempts PROVE ChildrenInOrder(b)'
  <2>1. ChildrenInOrder(b)
    BY DEF AgentInv, AttemptsAre
  <2>2. CASE b # a
    BY <1>1, <1>2, <2>1, <2>2 DEF ChildrenInOrder
  <2>3. CASE b = a /\ node.pattern \in T!Sequential
    <3>1. node.pattern # "parallel"
      BY <2>3 DEF T!Sequential
    <3>2. ASSUME NEW i \in Team, NEW d \in Team, i < d, child'[a][d] \notin {"waiting", "cancelled"}
          PROVE  child'[a][i] \in {"ok", "error"}
      <4>1. CASE d = c
        BY <1>1, <1>2, <1>5, <3>1, <3>2, <4>1
      <4>2. CASE d # c
        <5>1. child[a][i] \in {"ok", "error"}
          BY <1>1, <2>1, <2>3, <3>2, <4>2 DEF ChildrenInOrder
        <5>. QED  BY <1>1, <1>4, <5>1
      <4>. QED  BY <4>1, <4>2
    <3>. QED  BY <1>2, <2>3, <3>2 DEF ChildrenInOrder
  <2>. QED  BY <2>2, <2>3 DEF ChildrenInOrder
<1>9. ASSUME NEW b \in T!Attempts, b <= try, b # a, ~(b = try /\ progress = "running"),
             progress' = progress \/ b # try
      PROVE  IsOver(b)'
  <2>1. IsOver(b)
    BY <1>9 DEF AgentInv, AttemptsAre
  <2>2. child'[b] = child[b]
    BY <1>1, <1>9
  <2>. QED  BY <1>2, <1>9, <2>1, <2>2 DEF IsOver
<1>10. approved' \subseteq 1..MaxRounds
  <2>1. T!IsReview(c) => c \div 2 \in 1..MaxRounds
    BY <1>2, ReviewIs
  <2>. QED  BY <2>1 DEF AgentInv, TaskTypes
<1>11. CASE progress # "running" \/ a # try
  <2>1. progress' = progress /\ output' = output /\ node.pattern = "parallel"
    BY <1>5, <1>11 DEF T!Gather
  <2>2. approved' = approved
    BY <2>1 DEF T!IsReview
  <2>3. IsOver(a)
    BY <1>4, <1>11 DEF AgentInv, AttemptsAre
  <2>4. /\ node.policy = "fail_fast" /\ \E d \in Team : child[a][d] = "error"
        /\ \A d \in Team : child[a][d] # "cancelled"
    <3>1. ~(a = try /\ progress = "paused" /\ \A d \in Team : child[a][d] # "running")
      BY <2>1 DEF T!MayStart
    <3>. QED  BY <1>4, <2>1, <2>3, <3>1 DEF IsOver
  <2>5. /\ \E d \in Team : child'[a][d] = "error"
        /\ \A d \in Team : child'[a][d] # "cancelled"
    BY <1>1, <1>4, <2>4
  <2>6. IsOver(a)'
    BY <1>2, <2>1, <2>4, <2>5 DEF IsOver
  <2>7. AttemptsAre'
    BY <1>7, <1>8, <1>9, <2>1, <2>6 DEF AttemptsAre
  <2>8. TaskTypes'
    BY <1>1, <1>2, <1>10, <2>1 DEF AgentInv, TaskTypes
  <2>9. progress \in {"running", "completed"} => try \in T!Attempts
    BY DEF AgentInv, TaskTypes, T!Attempts, TaskConstants
  <2>10. UnderWay'
    <3>1. progress = "running" => child'[try] = child[try]
      BY <1>1, <1>11, <2>9
    <3>. QED  BY <1>2, <2>1, <2>2, <3>1 DEF AgentInv, UnderWay
  <2>11. progress = "completed" => child'[try] = child[try]
    BY <1>1, <2>9, Frozen
  <2>12. T!OutputIsOfOneAttempt'
    BY <2>1, <2>2, <2>11, OutputStays
  <2>. QED  BY <1>6, <2>7, <2>8, <2>10, <2>12 DEF AgentInv
<1>12. CASE progress = "running" /\ a = try
  <2>1. /\ approved = {}
        /\ \A d \in Team : /\ child[a][d] # "cancelled"
                           /\ node.policy = "fail_fast" => child[a][d] # "error"
    BY <1>12 DEF AgentInv, UnderWay
  <2>2. try >= 1 /\ try <= Retries + 1 /\ Retries \in Nat
    BY <1>2, <1>12 DEF AgentInv, TaskTypes, TaskConstants
  <2>3. /\ \A d \in Team : child'[a][d] # "cancelled"
        /\ node.pattern # "parallel" => \A d \in Team : child'[a][d] # "running"
    <3>1. \A d \in Team : child'[a][d] # "cancelled"
      BY <1>1, <2>1
    <3>2. ASSUME node.pattern # "parallel", NEW d \in Team PROVE child'[a][d] # "running"
      <4>1. d < c \/ d = c \/ d > c
        BY <1>2
      <4>2. CASE d = c
        BY <1>1, <4>2
      <4>3. CASE d # c
        <5>1. child[a][d] # "running"
          BY <1>5, <3>2, <4>1, <4>3
        <5>. QED  BY <1>1, <4>3, <5>1
      <4>. QED  BY <4>2, <4>3
    <3>. QED  BY <3>1, <3>2
  <2>4. ASSUME progress' # "running", IsOver(a)' PROVE AttemptsAre'
    <3>1. ASSUME NEW b \in T!Attempts, b <= try, b # a PROVE IsOver(b)'
      BY <1>9, <1>12, <3>1
    <3>. QED  BY <1>7, <1>8, <2>4, <3>1 DEF AttemptsAre
  <2>5. CASE v = "error" /\ node.policy = "fail_fast"
    <3>1. progress' = (IF try <= Retries THEN "waiting" ELSE "failed") /\ output' = output
      BY <1>1, <1>12, <2>5 DEF T!Gather, T!Raise
    <3>2. IsOver(a)'
      BY <1>1, <1>2, <2>3, <2>5 DEF IsOver
    <3>3. TaskTypes'
      BY <1>1, <1>2, <1>10, <2>2, <3>1 DEF TaskTypes
    <3>4. UnderWay' /\ T!OutputIsOfOneAttempt'
      BY <3>1 DEF UnderWay, T!OutputIsOfOneAttempt
    <3>. QED  BY <1>6, <2>4, <3>1, <3>2, <3>3, <3>4 DEF AgentInv
  <2>6. CASE ~(v = "error" /\ node.policy = "fail_fast") /\ final
    <3>1. /\ progress' = "completed"
          /\ output' = [results |-> {d \in Team : child'[a][d] = "ok"},
                        errors |-> {d \in Team : child'[a][d] = "error"}]
      BY <1>1, <1>12, <2>6 DEF T!Gather, T!Complete, Team
    <3>2. over \/ (T!IsReview(c) /\ approved' = {c \div 2} /\ v = "ok")
      BY <2>1, <2>6
    <3>3. node.pattern = "parallel" => over
      BY <3>2 DEF T!IsReview
    <3>4. IsOver(a)'
      BY <1>2, <2>3, <3>3 DEF IsOver
    <3>5. TaskTypes'
      BY <1>1, <1>2, <1>10, <2>2, <3>1 DEF TaskTypes
    <3>6. UnderWay'
      BY <3>1 DEF UnderWay
    <3>7. node.policy = "fail_fast" => \A d \in Team : child'[a][d] # "error"
      BY <1>1, <2>1, <2>6
    <3>8. /\ T!In(try, "ok")' = {d \in Team : child'[a][d] = "ok"}
          /\ T!In(try, "error")' = {d \in Team : child'[a][d] = "error"}
          /\ T!Children(node)' = Team
      BY <1>2, <1>12 DEF T!In, Team
    <3>9. ASSUME node.pattern = "reviewer_loop", approved' # {}
          PROVE  \E r \in 1..MaxRounds : approved' = {r} /\ {d \in Team : child'[a][d] = "ok"} = 1..2 * r
      <4>1. T!IsReview(c) /\ approved' = {c \div 2} /\ v = "ok"
        BY <2>1, <3>9
      <4>2. /\ node.policy = "fail_fast" /\ c \div 2 \in 1..MaxRounds /\ 2 * (c \div 2) = c
            /\ Team = 1..2 * MaxRounds
        BY <1>2, <4>1, ReviewIs
      <4>3. \A d \in Team : d < c => child'[a][d] = "ok"
        BY <1>1, <1>2, <1>5, <3>7, <3>9, <4>2
      <4>4. \A d \in Team : d > c => child'[a][d] # "ok"
        BY <1>1, <1>2, <1>5, <3>9
      <4>5. MaxRounds \in Nat /\ c \in 1..2 * MaxRounds
        BY <4>2 DEF TaskConstants
      <4>6. {d \in Team : child'[a][d] = "ok"} = 1..c
        <5>1. \A d \in Int : d \in 1..c <=> d \in Team /\ (d < c \/ d = c)
          BY <4>2, <4>5
        <5>2. \A d \in Team : d \in Int /\ (d < c \/ d = c \/ d > c)
          BY <1>2
        <5>. QED  BY <1>1, <4>1, <4>3, <4>4, <5>1, <5>2
      <4>. QED  BY <4>1, <4>2, <4>6
    <3>10. ASSUME ~(node.pattern = "reviewer_loop" /\ approved' # {}) PROVE over
      BY <3>2, <3>10 DEF T!IsReview
    <3>. HIDE DEF over
    <3>11. T!OutputIsOfOneAttempt'
      <4>1. output'.results = T!In(try, "ok")' /\ output'.errors = T!In(try, "error")'
        BY <3>1, <3>8
      <4>2. node.policy = "fail_fast" => output'.errors = {}
        BY <3>1, <3>7
      <4>3. CASE node.pattern = "reviewer_loop" /\ approved' # {}
        BY <3>1, <3>9, <4>1, <4>2, <4>3 DEF T!OutputIsOfOneAttempt
      <4>4. CASE ~(node.pattern = "reviewer_loop" /\ approved' # {})
        <5>1. output'.results \union output'.errors = T!Children(node)'
          BY <3>1, <3>8, <3>10, <4>4 DEF over
        <5>. QED  BY <4>1, <4>2, <4>4, <5>1 DEF T!OutputIsOfOneAttempt
      <4>. QED  BY <4>3, <4>4
    <3>. QED  BY <1>6, <2>4, <3>1, <3>4, <3>5, <3>6, <3>11 DEF AgentInv
  <2>7. CASE ~(v = "error" /\ node.policy = "fail_fast") /\ ~final
    <3>1. progress' = "running" /\ output' = output
      BY <1>1, <1>12, <2>7 DEF T!Gather, Team
    <3>2. approved' = {}
      BY <2>1, <2>7
    <3>3. UnderWay'
      BY <1>1, <1>2, <1>12, <2>1, <2>3, <2>7, <3>2 DEF UnderWay
    <3>4. TaskTypes'
      BY <1>1, <1>2, <1>10, <2>2, <3>1 DEF TaskTypes
    <3>5. ASSUME NEW b \in T!Attempts, b <= try, ~(b = try /\ progress' = "running") PROVE IsOver(b)'
      BY <1>9, <1>12, <3>1, <3>5
    <3>6. AttemptsAre'
      BY <1>7, <1>8, <3>5 DEF AttemptsAre
    <3>7. T!OutputIsOfOneAttempt'
      BY <3>1 DEF T!OutputIsOfOneAttempt
    <3>. QED  BY <1>6, <3>3, <3>4, <3>6, <3>7 DEF AgentInv
  <2>. QED  BY <2>5, <2>6, <2>7
<1>. QED  BY <1>11, <1>12

LEMMA BeginStep ==
  ASSUME TaskConstants, AgentInv, T!Begin
  PROVE  AgentInv'
<1>1. /\ progress = "waiting" /\ try' = try + 1 /\ progress' = "running" /\ approved' = {}
      /\ UNCHANGED <<node, child, output, exceeded>>
  BY DEF T!Begin
<1>2. /\ try \in 0..Retries + 1 /\ try <= Retries /\ Retries \in Nat
      /\ T!Attempts \subseteq Int /\ try + 1 \in T!Attempts /\ Team' = Team
  BY <1>1 DEF AgentInv, TaskTypes, T!Attempts, TaskConstants, Team
<1>3. TaskTypes'
  BY <1>1, <1>2 DEF AgentInv, TaskTypes
<1>4. Untouched'
  <2>1. \A a \in T!Attempts : a > try' => a > try
    BY <1>1, <1>2
  <2>. QED  BY <1>1, <1>2, <2>1 DEF AgentInv, Untouched
<1>5. UnderWay'
  <2>1. \A c \in Team : child[try + 1][c] = "waiting"
    BY <1>2 DEF AgentInv, Untouched
  <2>. QED  BY <1>1, <1>2, <2>1 DEF UnderWay
<1>6. ASSUME NEW a \in T!Attempts
      PROVE  /\ a <= try' /\ ~(a = try' /\ progress' = "running") => IsOver(a)'
             /\ ChildrenInOrder(a)' /\ Limited(a)'
  <2>1. ChildrenInOrder(a)' /\ Limited(a)'
    BY <1>1, <1>2 DEF AgentInv, AttemptsAre, ChildrenInOrder, Limited, T!In
  <2>2. ASSUME a <= try', ~(a = try' /\ progress' = "running") PROVE IsOver(a)'
    <3>1. a <= try
      BY <1>1, <1>2, <2>2
    <3>2. IsOver(a)
      BY <1>1, <3>1 DEF AgentInv, AttemptsAre
    <3>. QED  BY <1>1, <1>2, <3>2 DEF IsOver
  <2>. QED  BY <2>1, <2>2
<1>7. T!OutputIsOfOneAttempt'
  BY <1>1 DEF T!OutputIsOfOneAttempt
<1>. QED  BY <1>3, <1>4, <1>5, <1>6, <1>7 DEF AgentInv, AttemptsAre

LEMMA DoubtStep ==
  ASSUME TaskConstants, AgentInv, T!Doubt
  PROVE  AgentInv'
<1>1. /\ progress = "running" /\ T!In(try, "waiting") = Team /\ progress' = "paused"
      /\ UNCHANGED <<node, try, child, approved, output, exceeded>>
  BY DEF T!Doubt, Team
<1>2. \A c \in Team : child[try][c] = "waiting"
  BY <1>1 DEF T!In
<1>3. Team' = Team
  BY <1>1 DEF Team
<1>4. TaskTypes' /\ Untouched' /\ UnderWay' /\ T!OutputIsOfOneAttempt'
  BY <1>1, <1>3 DEF AgentInv, TaskTypes, Untouched, UnderWay, T!OutputIsOfOneAttempt
<1>5. ASSUME NEW a \in T!Attempts
      PROVE  /\ a <= try' /\ ~(a = try' /\ progress' = "running") => IsOver(a)'
             /\ ChildrenInOrder(a)' /\ Limited(a)'
  <2>1. ChildrenInOrder(a)' /\ Limited(a)'
    BY <1>1, <1>3 DEF AgentInv, AttemptsAre, ChildrenInOrder, Limited, T!In
  <2>2. CASE a = try
    <3>1. IsOver(a)'
      BY <1>1, <1>2, <1>3, <2>2 DEF IsOver
    <3>. QED  BY <2>1, <3>1
  <2>3. CASE a # try
    <3>1. a <= try => IsOver(a)
      BY <2>3 DEF AgentInv, AttemptsAre
    <3>2. a <= try => IsOver(a)'
      BY <1>1, <1>3, <2>3, <3>1 DEF IsOver
    <3>. QED  BY <1>1, <2>1, <3>2
  <2>. QED  BY <2>2, <2>3
<1>. QED  BY <1>4, <1>5 DEF AgentInv, AttemptsAre

LEMMA TimeOutStep ==
  ASSUME TaskConstants, AgentInv, T!TimeOut
  PROVE  AgentInv'
<1>. DEFINE cancelled == [c \in Team |-> IF child[try][c] \in {"waiting", "running"} THEN "cancelled"
                                         ELSE child[try][c]]
<1>1. /\ progress = "running" /\ child' = [child EXCEPT ![try] = cancelled]
      /\ progress' = IF try <= Retries THEN "waiting" ELSE "failed"
      /\ UNCHANGED <<node, try, approved, output, exceeded>>
  BY DEF T!TimeOut, T!Raise, Team
<1>2. /\ try \in T!Attempts /\ try >= 1 /\ T!Attempts \subseteq Int /\ Team' = Team
      /\ child \in [T!Attempts -> [Team -> ChildStatus]]
  BY <1>1 DEF AgentInv, TaskTypes, T!Attempts, TaskConstants, Team
<1>3. /\ cancelled \in [Team -> ChildStatus]
      /\ \A c \in Team : /\ cancelled[c] \notin {"waiting", "running"}
                         /\ cancelled[c] # "cancelled" => cancelled[c] = child[try][c]
                         /\ child[try][c] \in {"ok", "error"} => cancelled[c] = child[try][c]
  BY <1>2 DEF ChildStatus
<1>. HIDE DEF cancelled
<1>4. /\ child' \in [T!Attempts -> [Team -> ChildStatus]] /\ child'[try] = cancelled
      /\ \A b \in T!Attempts \ {try} : child'[b] = child[b]
  BY <1>1, <1>2, <1>3
<1>5. TaskTypes'
  BY <1>1, <1>2, <1>4 DEF AgentInv, TaskTypes
<1>6. Untouched'
  <2>1. \A b \in T!Attempts : b > try => b # try
    BY <1>2
  <2>. QED  BY <1>1, <1>2, <1>4, <2>1 DEF AgentInv, Untouched
<1>7. UnderWay' /\ T!OutputIsOfOneAttempt'
  BY <1>1 DEF UnderWay, T!OutputIsOfOneAttempt
<1>8. ASSUME NEW a \in T!Attempts
      PROVE  (a <= try => IsOver(a)') /\ ChildrenInOrder(a)' /\ Limited(a)'
  <2>1. CASE a = try
    <3>1. IsOver(a)'
      BY <1>2, <1>3, <1>4, <2>1 DEF IsOver
    <3>2. ChildrenInOrder(a)
      BY DEF AgentInv, AttemptsAre
    <3>3. ChildrenInOrder(a)'
      BY <1>1, <1>2, <1>3, <1>4, <2>1, <3>2 DEF ChildrenInOrder
    <3>4. \A d \in Team : child'[a][d] # "running"
      BY <1>3, <1>4, <2>1
    <3>5. Limited(a)'
      BY <1>1, <3>4, EndLimit
    <3>. QED  BY <3>1, <3>3, <3>5
  <2>2. CASE a # try
    <3>1. child'[a] = child[a] /\ (a <= try => IsOver(a)) /\ ChildrenInOrder(a) /\ Limited(a)
      BY <1>4, <2>2 DEF AgentInv, AttemptsAre
    <3>2. ChildrenInOrder(a)' /\ (a <= try => IsOver(a)')
      BY <1>1, <1>2, <2>2, <3>1 DEF ChildrenInOrder, IsOver
    <3>3. Limited(a)'
      BY <1>1, <3>1, EndLimit
    <3>. QED  BY <3>2, <3>3
  <2>. QED  BY <2>1, <2>2
<1>9. AttemptsAre'
  BY <1>1, <1>8 DEF AttemptsAre
<1>. QED  BY <1>5, <1>6, <1>7, <1>9 DEF AgentInv

LEMMA AgentStep ==
  ASSUME TaskConstants, AgentInv, [T!Next]_(T!vars)
  PROVE  AgentInv'
<1>1. ASSUME NEW a \in T!Attempts, NEW c \in Team, T!Exceed(a, c) PROVE AgentInv'
  <2>1. /\ T!MayStart(a, c) /\ child' = [child EXCEPT ![a][c] = "error"]
        /\ exceeded' = TRUE /\ T!Gather(a, c) /\ UNCHANGED <<node, try, approved>>
    BY <1>1 DEF T!Exceed
  <2>. QED  BY <2>1, ChildEnds
<1>2. ASSUME NEW a \in T!Attempts, NEW c \in Team, NEW ok \in BOOLEAN, T!End(a, c, ok) PROVE AgentInv'
  <2>1. /\ child[a][c] = "running" /\ child' = [child EXCEPT ![a][c] = IF ok THEN "ok" ELSE "error"]
        /\ approved' = approved \/ (ok /\ T!IsReview(c) /\ approved' = approved \union {c \div 2})
        /\ T!Gather(a, c) /\ UNCHANGED <<node, try, exceeded>>
    BY <1>2 DEF T!End
  <2>2. exceeded' \in BOOLEAN
    BY <2>1 DEF AgentInv, TaskTypes
  <2>3. PICK v \in {"ok", "error"} : v = (IF ok THEN "ok" ELSE "error")
    OBVIOUS
  <2>4. ok => v = "ok"
    BY <2>3
  <2>5. child' = [child EXCEPT ![a][c] = v]
    BY Zenon, <2>1, <2>3
  <2>. QED  BY <2>1, <2>2, <2>4, <2>5, ChildEnds
<1>3. CASE UNCHANGED T!vars
  <2>1. UNCHANGED <<node, try, progress, child, approved, output, exceeded>>
    BY <1>3 DEF T!vars
  <2>2. TaskTypes' /\ Untouched' /\ UnderWay'
    BY <2>1 DEF AgentInv, TaskTypes, Untouched, UnderWay, Team
  <2>3. AttemptsAre'
    BY <2>1 DEF AgentInv, AttemptsAre, IsOver, ChildrenInOrder, Limited, Team, T!In
  <2>4. T!OutputIsOfOneAttempt'
    BY <2>1, OutputStays
  <2>. QED  BY <2>2, <2>3, <2>4 DEF AgentInv
<1>. QED  BY <1>1, <1>2, <1>3, BeginStep, DoubtStep, TimeOutStep, StartStep DEF T!Next, Team

\* What a completed node shows is the work of one attempt, and the children of an attempt
\* keep to the limit, the order and, when it is over, to themselves.
THEOREM NodesContained ==
  TaskConstants /\ T!Spec => [](T!TypeOK /\ T!NodesAreContained)
<1>. SUFFICES ASSUME TaskConstants PROVE T!Spec => [](T!TypeOK /\ T!NodesAreContained)
  OBVIOUS
<1>1. T!Spec => []AgentInv
  <2>1. AgentInv /\ [T!Next]_(T!vars) => AgentInv'
    BY AgentStep
  <2>. QED  BY <2>1, AgentInit, PTL DEF T!Spec
<1>2. ASSUME AgentInv PROVE T!TypeOK
  BY <1>2 DEF AgentInv, TaskTypes, T!TypeOK, Team, ChildStatus
<1>3. ASSUME AgentInv, NEW a \in T!Attempts
      PROVE  /\ Cardinality(T!In(a, "running")) <= IF node.pattern = "parallel" THEN MaxParallel ELSE 1
             /\ ChildrenInOrder(a)
             /\ T!In(a, "running") # {} /\ ~(a = try /\ progress = "running") =>
                   /\ node.pattern = "parallel" /\ node.policy = "fail_fast"
                   /\ T!In(a, "error") # {} /\ T!In(a, "cancelled") = {}
  <2>1. ChildrenInOrder(a) /\ Limited(a) /\ (a <= try /\ ~(a = try /\ progress = "running") => IsOver(a))
    BY <1>3 DEF AgentInv, AttemptsAre
  <2>2. /\ Team \subseteq Nat /\ IsFiniteSet(Team)
        /\ node.pattern \in {"parallel", "serial", "reviewer_loop", "handoff", "single"}
    BY <1>3, TeamIs DEF AgentInv, TaskTypes
  <2>3. ASSUME node.pattern # "parallel" PROVE Cardinality(T!In(a, "running")) <= 1
    <3>1. ASSUME NEW c \in T!In(a, "running"), NEW d \in T!In(a, "running") PROVE c = d
      <4>1. node.pattern \in T!Sequential
        BY <2>2, <2>3 DEF T!Sequential
      <4>2. c \in Team /\ d \in Team /\ child[a][c] = "running" /\ child[a][d] = "running"
        BY DEF T!In, Team
      <4>3. c \in Nat /\ d \in Nat
        BY <2>2, <4>2
      <4>. QED  BY <2>1, <4>1, <4>2, <4>3 DEF ChildrenInOrder
    <3>. DEFINE now == T!In(a, "running")
    <3>. HIDE DEF now
    <3>2. CASE now = {}
      <4>1. Cardinality(now) = 0
        BY <3>2, FS_EmptySet
      <4>. QED  BY <4>1 DEF now
    <3>3. CASE now # {}
      <4>1. PICK c \in now : now = {c}
        BY <3>1, <3>3 DEF now
      <4>2. Cardinality(now) = 1
        BY <4>1, FS_Singleton
      <4>. QED  BY <4>2 DEF now
    <3>. QED  BY <3>2, <3>3
  <2>4. Cardinality(T!In(a, "running")) <= IF node.pattern = "parallel" THEN MaxParallel ELSE 1
    BY <2>1, <2>3 DEF Limited
  <2>5. ASSUME T!In(a, "running") # {}, ~(a = try /\ progress = "running")
        PROVE  /\ node.pattern = "parallel" /\ node.policy = "fail_fast"
               /\ T!In(a, "error") # {} /\ T!In(a, "cancelled") = {}
    <3>1. PICK c \in Team : child[a][c] = "running"
      BY <2>5 DEF T!In, Team
    <3>2. a <= try
      BY <1>3, <3>1 DEF AgentInv, Untouched, TaskTypes, T!Attempts, TaskConstants
    <3>3. IsOver(a)
      BY <2>1, <2>5, <3>2
    <3>4. /\ node.pattern = "parallel" /\ node.policy = "fail_fast"
          /\ \E d \in Team : child[a][d] = "error"
          /\ \A d \in Team : child[a][d] # "cancelled"
      BY <3>1, <3>3 DEF IsOver
    <3>. QED  BY <3>4 DEF T!In, Team
  <2>. QED  BY Zenon, <2>1, <2>4, <2>5
<1>4. ASSUME AgentInv PROVE T!NodesAreContained
  <2>1. T!ChildrenAreContained
    BY <1>3, <1>4, CountIs DEF T!ChildrenAreContained, ChildrenInOrder, Team
  <2>. QED  BY <1>4, <2>1 DEF AgentInv, T!NodesAreContained
<1>. QED  BY <1>1, <1>2, <1>4, PTL

----------------------------------------------------------------------------
(* WorkflowNodes: the outer engine is at a node while an inner one works,  *)
(* and what was counted at a checkpoint stays in bounds when it is resumed. *)

CheckpointSet == [pos : 1..Len(Chain[1]), status : {"completed", "failed"}, data : N!Data]

\* None is none of the values it stands beside, and a sub-workflow has none of its own.
NodesConstants ==
    /\ N!WorkflowNodesConstants
    /\ Chain \in Seq(Seq(N!Kind)) /\ Len(Chain) \in {1, 2}
    /\ \A i \in DOMAIN Chain[Len(Chain)] : Chain[Len(Chain)][i] # "sub"
    /\ None \notin Nat /\ None \notin N!Decision /\ None \notin CheckpointSet
    /\ None \notin {"completed", "paused", "aborted"}

Length == Len(Chain[1])

FrameSet == [pos : Nat \cup {None}, attempt : 1..NodeAttempts, data : N!Data]

\* The most that one node of the outer engine may count.
Most == MaxTokens + CallCost

AtOuter(f) ==
    /\ f \in FrameSet /\ f.pos \in 1..Length
    /\ f.data.steps < MaxSteps /\ f.data.tokens <= MaxTokens + resumes * Most
    /\ ~f.data.reason

AtInner(g) ==
    /\ g \in FrameSet
    /\ \/ /\ g.pos = None /\ g.data.steps <= MaxSteps /\ g.data.tokens <= Most
       \/ /\ g.pos \in 1..Len(Chain[2]) /\ g.data.steps < MaxSteps /\ g.data.tokens <= MaxTokens

FramesAre ==
    \/ frames = <<>>
    \/ \E f : frames = <<f>> /\ AtOuter(f)
    \/ \E f, g : frames = <<f, g>> /\ AtOuter(f) /\ Chain[1][f.pos] = "sub" /\ AtInner(g)

\* A checkpoint may be resumed at the node after it.
LastIs ==
    last # None =>
       /\ last \in CheckpointSet
       /\ last.data.steps <= MaxSteps /\ last.data.tokens <= MaxTokens + (resumes + 1) * Most
       /\ ~last.data.reason
       /\ 1..(last.pos - 1) \subseteq done \cup skipped
       /\ last.status = "completed" => last.pos \in done

NodesTypes ==
    /\ outcome \in {None, "completed", "paused", "aborted"}
    /\ done \subseteq 1..Length /\ skipped \subseteq 1..Length
    /\ resumes \in 0..MaxResumes

NodesInv == NodesTypes /\ FramesAre /\ LastIs /\ N!NodesAreHeeded

LEMMA NodesNumbers ==
  ASSUME NodesConstants
  PROVE  /\ NodeAttempts \in Nat \ {0} /\ MaxSteps \in Nat /\ MaxTokens \in Nat /\ CallCost \in Nat
         /\ MaxResumes \in Nat /\ Length \in Nat \ {0} /\ Most \in Nat
         /\ DOMAIN Chain[1] = 1..Length /\ Chain[1] \in Seq(N!Kind)
BY DEF NodesConstants, N!WorkflowNodesConstants, Length, Most

LEMMA OutcomeOfIs ==
  ASSUME NEW d \in N!Data
  PROVE  /\ N!OutcomeOf(d) \in {"completed", "paused", "aborted"}
         /\ d.aborted \/ d.paused => N!OutcomeOf(d) # "completed"
<1>1. CASE d.aborted
  BY <1>1 DEF N!OutcomeOf
<1>2. CASE ~d.aborted
  BY <1>2 DEF N!OutcomeOf
<1>. QED  BY <1>1, <1>2

LEMMA BudgetOverIs ==
  ASSUME NodesConstants, NEW d \in N!Data
  PROVE  LET o == N!OverBudget(d)
         IN  /\ o \in N!Data /\ o.steps = d.steps /\ o.tokens = d.tokens
             /\ o.aborted \/ o.paused
BY DEF N!OverBudget, N!Data

LEMMA CountedIs ==
  ASSUME NEW d \in N!Data, NEW t \in Nat
  PROVE  LET c == N!Counted(d, t)
         IN  /\ c \in N!Data /\ c.steps = d.steps + 1 /\ c.tokens = d.tokens + t
             /\ c.reason = d.reason
<1>1. d.steps \in Nat /\ d.tokens \in Nat
  BY DEF N!Data
<1>2. N!Counted(d, t) = [d EXCEPT !.steps = d.steps + 1, !.tokens = d.tokens + t]
  BY Zenon DEF N!Counted
<1>3. d.steps + 1 \in Nat /\ d.tokens + t \in Nat
  BY <1>1
<1>. QED  BY <1>2, <1>3 DEF N!Data

LEMMA PausedIs ==
  ASSUME NEW d \in N!Data, NEW b \in BOOLEAN
  PROVE  LET c == [d EXCEPT !.paused = b]
         IN  /\ c \in N!Data /\ c.steps = d.steps /\ c.tokens = d.tokens
             /\ c.reason = d.reason /\ c.paused = b /\ c.aborted = d.aborted
BY DEF N!Data

LEMMA FrameIs ==
  ASSUME NodesConstants, NEW p \in Nat, NEW d \in N!Data
  PROVE  LET f == N!Frame(p, d) IN f \in FrameSet /\ f.pos = p /\ f.data = d
BY NodesNumbers DEF N!Frame, FrameSet

\* What is heeded while a node is passed, or another engine answers.
LEMMA PassedKeeps ==
  ASSUME NodesConstants, NodesInv, UNCHANGED given,
         done \subseteq done', skipped \subseteq skipped', done' \cup skipped' \subseteq 1..Length,
         frames' # <<>> => 1..(frames'[1].pos - 1) \subseteq done' \cup skipped',
         outcome' = "completed" => outcome = "completed" \/ 1..Length \subseteq done' \cup skipped',
         \A i \in done' \ done : Chain[1][i] = "review" =>
            given.decision \in N!Allowed \/ (given.decision = None /\ given.default = "approve")
  PROVE  N!NodesAreHeeded'
<1>1. DOMAIN Chain[1] = 1..Length
  BY NodesNumbers
<1>2. outcome' = "completed" => DOMAIN Chain[1] = done' \cup skipped'
  BY <1>1 DEF NodesInv, N!NodesAreHeeded
<1>3. \A i \in done' : Chain[1][i] = "review" =>
         given'.decision \in N!Allowed \/ (given'.decision = None /\ given'.default = "approve")
  BY DEF NodesInv, N!NodesAreHeeded
<1>. QED  BY <1>2, <1>3 DEF N!NodesAreHeeded, N!Allowed

\* A node of the outer engine has answered.
LEMMA AnswerKeeps ==
  ASSUME NodesConstants, NodesInv, NEW f, AtOuter(f), 1..(f.pos - 1) \subseteq done \cup skipped,
         NEW d \in N!Data, d.steps = f.data.steps + 1, d.tokens <= f.data.tokens + Most, ~d.reason,
         last' = [pos |-> f.pos, status |-> "completed", data |-> d],
         done' = done \cup {f.pos}, UNCHANGED <<given, skipped, resumes>>,
         Chain[1][f.pos] = "review" =>
            given.decision \in N!Allowed \/ (given.decision = None /\ given.default = "approve"),
         \/ frames' = <<>> /\ outcome' \in {"paused", "aborted"}
         \/ frames' = <<>> /\ f.pos + 1 > Length /\ outcome' \in {"completed", "paused", "aborted"}
         \/ /\ f.pos + 1 <= Length /\ d.steps < MaxSteps /\ d.tokens <= MaxTokens
            /\ frames' = <<N!Frame(f.pos + 1, d)>> /\ UNCHANGED outcome
  PROVE  NodesInv'
<1>. DEFINE p == f.pos
            g == N!Frame(p + 1, d)
<1>1. /\ p \in 1..Length /\ Length \in Nat /\ f.data \in N!Data /\ f.data.steps < MaxSteps
      /\ f.data.tokens <= MaxTokens + resumes * Most
  BY NodesNumbers DEF AtOuter, FrameSet
<1>2. MaxSteps \in Nat /\ MaxTokens \in Nat /\ Most \in Nat /\ resumes \in Nat /\ resumes * Most \in Nat
  BY NodesNumbers DEF NodesInv, NodesTypes
<1>3. f.data.steps \in Nat /\ f.data.tokens \in Nat /\ d.steps \in Nat /\ d.tokens \in Nat
  BY <1>1 DEF N!Data
<1>4. (resumes + 1) * Most = resumes * Most + Most
  BY <1>2
<1>5. d.steps <= MaxSteps /\ d.tokens <= MaxTokens + (resumes + 1) * Most
  BY <1>1, <1>2, <1>3, <1>4
<1>6. 1..p \subseteq done' \cup skipped'
  BY <1>1
<1>7. /\ last' \in CheckpointSet /\ last'.pos = p /\ last'.data = d /\ p \in done'
  BY <1>1 DEF CheckpointSet, Length
<1>8. LastIs'
  BY <1>1, <1>5, <1>6, <1>7 DEF LastIs
<1>9. NodesTypes'
  BY <1>1 DEF NodesInv, NodesTypes
<1>10. ASSUME frames' = <<g>>, p + 1 <= Length, d.steps < MaxSteps, d.tokens <= MaxTokens
       PROVE  AtOuter(g)' /\ g.pos = p + 1
  <2>1. g \in FrameSet /\ g.pos = p + 1 /\ g.data = d
    BY <1>1, FrameIs
  <2>. HIDE DEF g
  <2>. QED  BY <1>1, <1>2, <1>3, <1>10, <2>1 DEF AtOuter
<1>11. FramesAre'
  BY <1>10 DEF FramesAre
<1>12. frames' # <<>> => 1..(frames'[1].pos - 1) \subseteq done' \cup skipped'
  <2>1. CASE frames' = <<g>>
    <3>1. frames'[1].pos = p + 1
      <4>1. g.pos = p + 1
        BY <1>1, FrameIs
      <4>. HIDE DEF g
      <4>. QED  BY <2>1, <4>1
    <3>. HIDE DEF g
    <3>. QED  BY <1>1, <1>6, <3>1
  <2>2. CASE frames' = <<>>
    BY <2>2
  <2>. QED  BY <2>1, <2>2
<1>13. outcome' = "completed" => outcome = "completed" \/ 1..Length \subseteq done' \cup skipped'
  BY <1>1, <1>6
<1>14. N!NodesAreHeeded'
  <2>1. \A i \in done' \ done : Chain[1][i] = "review" =>
            given.decision \in N!Allowed \/ (given.decision = None /\ given.default = "approve")
    OBVIOUS
  <2>2. done \subseteq done' /\ skipped \subseteq skipped' /\ done' \cup skipped' \subseteq 1..Length
    BY <1>9 DEF NodesTypes
  <2>. HIDE DEF g
  <2>. QED  BY Zenon, <1>12, <1>13, <2>1, <2>2, PassedKeeps
<1>. QED  BY <1>8, <1>9, <1>11, <1>14 DEF NodesInv

\* The outer engine ends at a node that failed, was over budget or paused.
LEMMA StopKeeps ==
  ASSUME NodesConstants, NodesInv, frames' = <<>>, outcome' \in {"paused", "aborted"},
         UNCHANGED <<given, done, skipped, resumes>>, LastIs'
  PROVE  NodesInv'
<1>1. NodesTypes' /\ FramesAre'
  BY DEF NodesInv, NodesTypes, FramesAre
<1>2. done \subseteq done' /\ skipped \subseteq skipped' /\ done' \cup skipped' \subseteq 1..Length
  BY <1>1 DEF NodesTypes
<1>3. N!NodesAreHeeded'
  BY <1>2, PassedKeeps
<1>. QED  BY <1>1, <1>3 DEF NodesInv

\* A step that leaves the outer engine at its node.
LEMMA StayKeeps ==
  ASSUME NodesConstants, NodesInv, frames # <<>>, frames' # <<>>, frames'[1].pos = frames[1].pos,
         UNCHANGED <<given, done, skipped, resumes, last, outcome>>, FramesAre'
  PROVE  NodesInv'
<1>1. NodesTypes' /\ LastIs'
  BY DEF NodesInv, NodesTypes, LastIs
<1>2. N!NodesAreHeeded'
  BY DEF NodesInv, N!NodesAreHeeded, N!Allowed
<1>. QED  BY <1>1, <1>2 DEF NodesInv

\* A step of the inner engine.
LEMMA InnerKeeps ==
  ASSUME NodesConstants, NodesInv, NEW f, NEW g, NEW h, frames = <<f, g>>, AtOuter(f),
         Chain[1][f.pos] = "sub", frames' = <<f, h>>, AtInner(h),
         UNCHANGED <<given, done, skipped, resumes, last, outcome>>
  PROVE  NodesInv'
<1>1. AtOuter(f)' /\ AtInner(h)'
  BY DEF AtOuter, AtInner
<1>2. FramesAre'
  BY <1>1 DEF FramesAre
<1>. QED  BY <1>2, StayKeeps

LEMMA InitNodes == NodesConstants /\ N!Init => NodesInv
<1>. SUFFICES ASSUME NodesConstants, N!Init PROVE NodesInv
  OBVIOUS
<1>1. last = None /\ done = {} /\ skipped = {} /\ resumes = 0
  BY DEF N!Init
<1>2. PICK ok \in BOOLEAN :
         IF N!StepsLeft(N!Fresh(ok)) THEN frames = <<N!Frame(1, N!Fresh(ok))>> /\ outcome = None
         ELSE frames = <<>> /\ outcome = N!OutcomeOf(N!OverBudget(N!Fresh(ok)))
  BY DEF N!Init
<1>. DEFINE d == N!Fresh(ok)
            f == N!Frame(1, d)
<1>3. d \in N!Data /\ d.steps = 0 /\ d.tokens = 0 /\ ~d.reason
  BY DEF N!Fresh, N!Data
<1>4. f \in FrameSet /\ f.pos = 1 /\ f.data = d
  BY <1>3, FrameIs
<1>. HIDE DEF d, f
<1>5. CASE N!StepsLeft(d) /\ frames = <<f>> /\ outcome = None
  <2>1. d.steps < MaxSteps
    BY <1>5 DEF N!StepsLeft
  <2>2. AtOuter(f)
    BY <1>1, <1>3, <1>4, <2>1, NodesNumbers DEF AtOuter
  <2>3. FramesAre
    BY <1>5, <2>2 DEF FramesAre
  <2>4. frames[1].pos = 1 /\ 1..(1 - 1) = {}
    BY <1>4, <1>5
  <2>5. N!NodesAreHeeded
    BY <1>1, <1>5, <2>4 DEF N!NodesAreHeeded, NodesConstants
  <2>. QED  BY <1>1, <1>5, <2>3, <2>5, NodesNumbers DEF NodesInv, NodesTypes, LastIs
<1>6. CASE frames = <<>> /\ outcome = N!OutcomeOf(N!OverBudget(d))
  <2>1. outcome \in {"paused", "aborted"}
    BY <1>3, <1>6, BudgetOverIs, OutcomeOfIs
  <2>2. N!NodesAreHeeded
    BY <1>1, <1>6, <2>1 DEF N!NodesAreHeeded
  <2>. QED  BY <1>1, <1>6, <2>1, <2>2, NodesNumbers DEF NodesInv, NodesTypes, LastIs, FramesAre
<1>. QED  BY <1>2, <1>5, <1>6 DEF d, f

\* The frames an engine at a node has.
LEMMA AtNode ==
  ASSUME NodesConstants, NodesInv, frames # <<>>, N!Top.pos # None
  PROVE  \/ \E f : /\ frames = <<f>> /\ AtOuter(f) /\ 1..(f.pos - 1) \subseteq done \cup skipped
                   /\ N!Depth = 1 /\ N!Top = f /\ N!Node = Chain[1][f.pos]
         \/ \E f, g : /\ frames = <<f, g>> /\ AtOuter(f) /\ Chain[1][f.pos] = "sub" /\ AtInner(g)
                      /\ g.pos \in 1..Len(Chain[2]) /\ g.data.steps < MaxSteps
                      /\ g.data.tokens <= MaxTokens
                      /\ N!Depth = 2 /\ N!Top = g /\ N!Node = Chain[2][g.pos] /\ Len(Chain) = 2
<1>1. ASSUME NEW f, frames = <<f>>, AtOuter(f)
      PROVE  /\ 1..(f.pos - 1) \subseteq done \cup skipped
             /\ N!Depth = 1 /\ N!Top = f /\ N!Node = Chain[1][f.pos]
  <2>1. Len(frames) = 1 /\ frames[1] = f
    BY <1>1
  <2>2. N!Depth = 1 /\ N!Top = f
    BY <2>1 DEF N!Depth, N!Top
  <2>. QED  BY <1>1, <2>1, <2>2 DEF N!Node, NodesInv, N!NodesAreHeeded
<1>2. ASSUME NEW f, NEW g, frames = <<f, g>>, AtOuter(f), Chain[1][f.pos] = "sub", AtInner(g)
      PROVE  /\ g.pos \in 1..Len(Chain[2]) /\ g.data.steps < MaxSteps
             /\ g.data.tokens <= MaxTokens
             /\ N!Depth = 2 /\ N!Top = g /\ N!Node = Chain[2][g.pos] /\ Len(Chain) = 2
  <2>1. Len(frames) = 2 /\ frames[2] = g
    BY <1>2
  <2>2. N!Depth = 2 /\ N!Top = g
    BY <2>1 DEF N!Depth, N!Top
  <2>3. Len(Chain) = 2
    BY <1>2, NodesNumbers DEF NodesConstants, AtOuter
  <2>. QED  BY <1>2, <2>2, <2>3 DEF N!Node, AtInner
<1>. QED  BY <1>1, <1>2 DEF NodesInv, FramesAre

\* The node answers with what it counted, which is no more than a call costs.
LEMMA AnswerStep ==
  ASSUME NodesConstants, NodesInv, frames # <<>>, N!Top.pos # None,
         NEW d \in N!Data, d.steps = N!Top.data.steps, d.tokens = N!Top.data.tokens,
         d.reason = N!Top.data.reason, NEW t \in Nat, t <= CallCost,
         N!Node = "review" =>
            given.decision \in N!Allowed \/ (given.decision = None /\ given.default = "approve"),
         N!Answer(d, t)
  PROVE  NodesInv'
<1>. DEFINE counted == [N!Counted(d, t) EXCEPT !.paused = FALSE]
            over == N!OverBudget(counted)
<1>1. /\ counted \in N!Data /\ counted.steps = d.steps + 1 /\ counted.tokens = d.tokens + t
      /\ counted.reason = d.reason
  <2>. DEFINE c == N!Counted(d, t)
  <2>1. c \in N!Data /\ c.steps = d.steps + 1 /\ c.tokens = d.tokens + t /\ c.reason = d.reason
    BY CountedIs
  <2>. HIDE DEF c
  <2>2. LET e == [c EXCEPT !.paused = FALSE]
        IN  e \in N!Data /\ e.steps = c.steps /\ e.tokens = c.tokens /\ e.reason = c.reason
    BY <2>1, PausedIs
  <2>. QED  BY <2>1, <2>2 DEF c
<1>2. over \in N!Data /\ over.steps = counted.steps /\ over.tokens = counted.tokens
      /\ (over.aborted \/ over.paused)
  BY <1>1, BudgetOverIs
<1>3. /\ N!Checkpoint("completed", counted)
      /\ done' = IF N!Depth = 1 THEN done \cup {N!Top.pos} ELSE done
      /\ \/ N!WithinTokens(counted) /\ N!Continue(N!Top.pos + 1, counted)
         \/ ~N!WithinTokens(counted) /\ N!End(over)
      /\ UNCHANGED <<given, skipped, resumes>>
  BY Zenon DEF N!Answer
<1>. DEFINE Sum == counted.tokens
<1>4. /\ N!OutcomeOf(over) \in {"paused", "aborted"}
      /\ N!OutcomeOf(counted) \in {"completed", "paused", "aborted"}
  BY <1>1, <1>2, OutcomeOfIs
<1>. HIDE DEF counted, over
<1>5. /\ d.steps \in Nat /\ d.tokens \in Nat /\ MaxTokens \in Nat /\ MaxSteps \in Nat /\ CallCost \in Nat
      /\ Length \in Nat
  BY NodesNumbers DEF N!Data
<1>6. ASSUME NEW f, frames = <<f>>, AtOuter(f), 1..(f.pos - 1) \subseteq done \cup skipped,
             N!Depth = 1, N!Top = f, N!Node = Chain[1][f.pos]
      PROVE  NodesInv'
  <2>1. ~counted.reason /\ f.pos \in 1..Length
    BY <1>1, <1>6 DEF AtOuter
  <2>2. counted.steps = f.data.steps + 1 /\ counted.tokens <= f.data.tokens + Most
    BY <1>1, <1>5, <1>6 DEF Most
  <2>3. last' = [pos |-> f.pos, status |-> "completed", data |-> counted]
    BY <1>3, <1>6 DEF N!Checkpoint
  <2>4. done' = done \cup {f.pos}
    BY <1>3, <1>6
  <2>5. \A e : N!End(e) => frames' = <<>> /\ outcome' = N!OutcomeOf(e)
    BY <1>6 DEF N!End
  <2>6. \A e : N!Put(e) => frames' = <<e>>
    BY <1>6 DEF N!Put
  <2>7. \/ frames' = <<>> /\ outcome' \in {"paused", "aborted"}
        \/ frames' = <<>> /\ f.pos + 1 > Length /\ outcome' \in {"completed", "paused", "aborted"}
        \/ /\ f.pos + 1 <= Length /\ counted.steps < MaxSteps /\ counted.tokens <= MaxTokens
           /\ frames' = <<N!Frame(f.pos + 1, counted)>> /\ UNCHANGED outcome
    <3>1. CASE ~N!WithinTokens(counted) /\ N!End(over)
      BY <1>4, <2>5, <3>1
    <3>2. CASE N!WithinTokens(counted) /\ N!Continue(f.pos + 1, counted)
      <4>1. \/ f.pos + 1 > Length /\ N!End(counted)
            \/ f.pos + 1 <= Length /\ ~N!StepsLeft(counted) /\ N!End(over)
            \/ /\ f.pos + 1 <= Length /\ N!StepsLeft(counted)
               /\ N!Put(N!Frame(f.pos + 1, counted)) /\ UNCHANGED outcome
        BY <1>5, <1>6, <2>1, <3>2 DEF N!Continue, Length, over
      <4>2. counted.tokens <= MaxTokens
        BY <3>2 DEF N!WithinTokens
      <4>3. N!StepsLeft(counted) => counted.steps < MaxSteps
        BY DEF N!StepsLeft
      <4>. QED  BY <1>4, <2>5, <2>6, <4>1, <4>2, <4>3
    <3>. QED  BY <1>3, <1>6, <3>1, <3>2
  <2>8. Chain[1][f.pos] = "review" =>
            given.decision \in N!Allowed \/ (given.decision = None /\ given.default = "approve")
    BY <1>6
  <2>9. UNCHANGED <<given, skipped, resumes>>
    BY <1>3
  <2>. QED  BY <1>1, <1>6, <2>1, <2>2, <2>3, <2>4, <2>7, <2>8, <2>9, AnswerKeeps
<1>7. ASSUME NEW f, NEW g, frames = <<f, g>>, AtOuter(f), Chain[1][f.pos] = "sub", AtInner(g),
             g.pos \in 1..Len(Chain[2]), g.data.steps < MaxSteps, g.data.tokens <= MaxTokens,
             N!Depth = 2, N!Top = g, Len(Chain) = 2
      PROVE  NodesInv'
  <2>1. counted.steps <= MaxSteps /\ counted.tokens <= Most
    BY <1>1, <1>5, <1>7 DEF Most
  <2>2. UNCHANGED <<given, done, skipped, resumes, last>>
    BY <1>3, <1>7 DEF N!Checkpoint
  <2>3. ASSUME NEW e \in N!Data, e.steps = counted.steps, e.tokens = counted.tokens, N!End(e)
        PROVE  NodesInv'
    <3>1. frames' = [frames EXCEPT ![2] = [g EXCEPT !.pos = None, !.data = e]] /\ UNCHANGED outcome
      BY <1>7, <2>3 DEF N!End, N!Put
    <3>. DEFINE h == [g EXCEPT !.pos = None, !.data = e]
    <3>2. h \in FrameSet /\ h.pos = None /\ h.data = e
      BY <1>7, <2>3 DEF AtInner, FrameSet
    <3>. HIDE DEF h
    <3>3. frames' = <<f, h>>
      BY <1>7, <3>1 DEF h
    <3>4. AtInner(h)
      BY <2>1, <2>3, <3>2 DEF AtInner
    <3>. QED  BY <1>7, <2>2, <3>1, <3>3, <3>4, InnerKeeps
  <2>4. ASSUME N!Put(N!Frame(g.pos + 1, counted)), UNCHANGED outcome, N!WithinTokens(counted),
               N!StepsLeft(counted), g.pos + 1 <= Len(Chain[2])
        PROVE  NodesInv'
    <3>. DEFINE h == N!Frame(g.pos + 1, counted)
    <3>1. g.pos \in Nat /\ Len(Chain[2]) \in Nat
      BY <1>7 DEF NodesConstants
    <3>2. h \in FrameSet /\ h.pos = g.pos + 1 /\ h.data = counted
      BY <1>1, <3>1, FrameIs
    <3>. HIDE DEF h
    <3>3. frames' = <<f, h>>
      BY <1>7, <2>4 DEF h, N!Put
    <3>4. h.data.steps < MaxSteps /\ h.data.tokens <= MaxTokens /\ h.pos \in 1..Len(Chain[2])
      BY <1>7, <2>4, <3>1, <3>2 DEF N!WithinTokens, N!StepsLeft
    <3>5. AtInner(h)
      BY <3>2, <3>4 DEF AtInner
    <3>. QED  BY <1>7, <2>2, <2>4, <3>3, <3>5, InnerKeeps
  <2>5. g.pos + 1 \in Int /\ Len(Chain[2]) \in Int
    BY <1>7 DEF NodesConstants
  <2>6. CASE ~N!WithinTokens(counted) /\ N!End(over)
    BY <1>2, <2>3, <2>6
  <2>7. CASE N!WithinTokens(counted) /\ N!Continue(g.pos + 1, counted)
    <3>1. \/ N!End(counted) \/ N!End(over)
          \/ /\ g.pos + 1 <= Len(Chain[2]) /\ N!StepsLeft(counted)
             /\ N!Put(N!Frame(g.pos + 1, counted)) /\ UNCHANGED outcome
      BY <1>7, <2>5, <2>7 DEF N!Continue, over
    <3>. QED  BY <1>1, <1>2, <2>3, <2>4, <2>7, <3>1
  <2>. QED  BY <1>3, <1>7, <2>6, <2>7
<1>. QED  BY <1>6, <1>7, AtNode

\* The node pauses the workflow.
LEMMA PauseStep ==
  ASSUME NodesConstants, NodesInv, frames # <<>>, N!Top.pos # None, N!Pause(N!Top.data)
  PROVE  NodesInv'
<1>. DEFINE c == N!Counted(N!Top.data, 0)
            e == [c EXCEPT !.paused = TRUE, !.reason = TRUE]
<1>1. N!End(e) /\ UNCHANGED <<last, given, done, skipped, resumes>>
  BY Zenon DEF N!Pause
<1>2. N!Top.data \in N!Data /\ N!Top.data.steps \in Nat /\ N!Top.data.tokens \in Nat
  <2>1. N!Top.data \in N!Data
    BY AtNode DEF AtOuter, AtInner, FrameSet
  <2>. QED  BY <2>1 DEF N!Data
<1>3. c \in N!Data /\ c.steps = N!Top.data.steps + 1 /\ c.tokens = N!Top.data.tokens
  <2>1. c \in N!Data /\ c.steps = N!Top.data.steps + 1 /\ c.tokens = N!Top.data.tokens + 0
    BY Zenon, <1>2, CountedIs, 0 \in Nat
  <2>. HIDE DEF c
  <2>. QED  BY <1>2, <2>1
<1>. HIDE DEF c
<1>4. e \in N!Data /\ e.steps = c.steps /\ e.tokens = c.tokens /\ e.paused
  BY <1>3 DEF N!Data
<1>. HIDE DEF e
<1>5. ASSUME NEW f, frames = <<f>>, N!Depth = 1 PROVE NodesInv'
  <2>1. frames' = <<>> /\ outcome' = N!OutcomeOf(e)
    BY <1>1, <1>5 DEF N!End
  <2>2. outcome' \in {"paused", "aborted"}
    BY <1>4, <2>1, OutcomeOfIs
  <2>3. LastIs'
    BY <1>1 DEF NodesInv, LastIs
  <2>. QED  BY <1>1, <2>1, <2>2, <2>3, StopKeeps
<1>6. ASSUME NEW f, NEW g, frames = <<f, g>>, AtOuter(f), Chain[1][f.pos] = "sub", AtInner(g),
             g.data.steps < MaxSteps, g.data.tokens <= MaxTokens, N!Depth = 2, N!Top = g
      PROVE  NodesInv'
  <2>. DEFINE h == [g EXCEPT !.pos = None, !.data = e]
  <2>1. frames' = [frames EXCEPT ![2] = h] /\ UNCHANGED outcome
    BY <1>1, <1>6 DEF N!End, N!Put
  <2>2. h \in FrameSet /\ h.pos = None /\ h.data = e
    BY <1>4, <1>6 DEF AtInner, FrameSet
  <2>. HIDE DEF h
  <2>3. frames' = <<f, h>>
    BY <1>6, <2>1
  <2>4. MaxSteps \in Nat /\ MaxTokens \in Nat /\ CallCost \in Nat
    BY NodesNumbers
  <2>5. e.steps <= MaxSteps /\ e.tokens <= Most
    BY <1>2, <1>3, <1>4, <1>6, <2>4 DEF Most
  <2>6. AtInner(h)
    BY <2>2, <2>5 DEF AtInner
  <2>. QED  BY <1>1, <1>6, <2>1, <2>3, <2>6, InnerKeeps
<1>. QED  BY <1>5, <1>6, AtNode

\* The node raises: it is executed again or its engine ends.
LEMMA RaiseStep ==
  ASSUME NodesConstants, NodesInv, frames # <<>>, N!Top.pos # None,
         NEW d \in N!Data, d.steps = N!Top.data.steps, d.tokens = N!Top.data.tokens,
         d.reason = N!Top.data.reason, N!Raise(d)
  PROVE  NodesInv'
<1>. DEFINE a == [d EXCEPT !.aborted = TRUE]
            e == IF d.aborted \/ d.reason THEN d ELSE a
            top == N!Top
<1>1. /\ \/ /\ top.attempt < NodeAttempts /\ UNCHANGED <<outcome, last>>
            /\ N!Put([top EXCEPT !.attempt = top.attempt + 1, !.data = d])
         \/ N!Checkpoint("failed", d) /\ N!End(e)
      /\ UNCHANGED <<given, done, skipped, resumes>>
  BY Zenon DEF N!Raise
<1>2. top \in FrameSet
  BY AtNode DEF AtOuter, AtInner
<1>3. a \in N!Data /\ a.steps = d.steps /\ a.tokens = d.tokens /\ a.aborted
  BY DEF N!Data
<1>. HIDE DEF a
<1>4. e \in N!Data /\ e.steps = d.steps /\ e.tokens = d.tokens /\ (~d.reason => e.aborted)
  BY <1>3
<1>. HIDE DEF e, top
<1>. DEFINE h == [top EXCEPT !.attempt = top.attempt + 1, !.data = d]
<1>5. NodeAttempts \in Nat
  BY NodesNumbers
<1>6. ASSUME top.attempt < NodeAttempts
      PROVE  h \in FrameSet /\ h.pos = top.pos /\ h.data = d
  <2>1. top.attempt + 1 \in 1..NodeAttempts
    BY <1>2, <1>5, <1>6 DEF FrameSet
  <2>. QED  BY <1>2, <2>1 DEF FrameSet
<1>. HIDE DEF h
<1>7. d.steps \in Nat /\ d.tokens \in Nat /\ MaxTokens \in Nat /\ CallCost \in Nat /\ MaxSteps \in Nat
  BY NodesNumbers DEF N!Data
<1>8. ASSUME NEW f, frames = <<f>>, AtOuter(f), 1..(f.pos - 1) \subseteq done \cup skipped,
             N!Depth = 1, top = f
      PROVE  NodesInv'
  <2>1. CASE /\ top.attempt < NodeAttempts /\ UNCHANGED <<outcome, last>> /\ N!Put(h)
    <3>1. frames' = <<h>>
      BY <1>8, <2>1 DEF N!Put
    <3>2. PICK k : k = h
      OBVIOUS
    <3>3. FramesAre'
      <4>1. k \in FrameSet /\ k.pos = f.pos /\ k.data.steps = f.data.steps
            /\ k.data.tokens = f.data.tokens /\ k.data.reason = f.data.reason
        BY <1>6, <1>8, <2>1, <3>2 DEF top
      <4>2. AtOuter(k)'
        BY <1>1, <1>8, <4>1 DEF AtOuter
      <4>3. frames' = <<k>>
        BY <3>1, <3>2
      <4>. QED  BY <4>2, <4>3 DEF FramesAre
    <3>4. frames'[1].pos = frames[1].pos /\ frames' # <<>>
      BY <1>6, <1>8, <2>1, <3>1
    <3>. QED  BY <1>1, <2>1, <3>3, <3>4, StayKeeps
  <2>2. CASE N!Checkpoint("failed", d) /\ N!End(e)
    <3>1. frames' = <<>> /\ outcome' = N!OutcomeOf(e)
      BY <1>8, <2>2 DEF N!End
    <3>2. last' = [pos |-> f.pos, status |-> "failed", data |-> d]
      BY <1>8, <2>2 DEF N!Checkpoint, top
    <3>3. outcome' \in {"paused", "aborted"}
      BY <1>4, <1>8, <3>1, OutcomeOfIs DEF AtOuter, top
    <3>4. resumes \in Nat /\ Most \in Nat
      BY NodesNumbers DEF NodesInv, NodesTypes
    <3>5. resumes * Most \in Nat /\ (resumes + 1) * Most = resumes * Most + Most
      BY <3>4
    <3>6. d.steps <= MaxSteps /\ d.tokens <= MaxTokens + (resumes + 1) * Most /\ ~d.reason
      BY <1>7, <1>8, <3>4, <3>5 DEF AtOuter, top
    <3>7. last' \in CheckpointSet /\ last'.pos = f.pos /\ last'.data = d /\ last'.status = "failed"
      BY <1>8, <3>2 DEF CheckpointSet, AtOuter, Length
    <3>8. LastIs'
      BY <1>1, <1>8, <3>6, <3>7 DEF LastIs
    <3>. QED  BY <1>1, <3>1, <3>3, <3>8, StopKeeps
  <2>. QED  BY <1>1, <2>1, <2>2 DEF h
<1>9. ASSUME NEW f, NEW g, frames = <<f, g>>, AtOuter(f), Chain[1][f.pos] = "sub", AtInner(g),
             g.pos \in 1..Len(Chain[2]), g.data.steps < MaxSteps, g.data.tokens <= MaxTokens,
             N!Depth = 2, top = g
      PROVE  NodesInv'
  <2>1. CASE /\ top.attempt < NodeAttempts /\ UNCHANGED <<outcome, last>> /\ N!Put(h)
    <3>1. frames' = <<f, h>>
      BY <1>9, <2>1 DEF N!Put
    <3>2. AtInner(h)
      BY <1>6, <1>9, <2>1 DEF AtInner, top
    <3>. QED  BY <1>1, <1>9, <2>1, <3>1, <3>2, InnerKeeps
  <2>2. CASE N!Checkpoint("failed", d) /\ N!End(e)
    <3>. DEFINE i == [g EXCEPT !.pos = None, !.data = e]
    <3>1. frames' = [frames EXCEPT ![2] = i] /\ UNCHANGED <<outcome, last>>
      BY <1>9, <2>2 DEF N!End, N!Put, N!Checkpoint, top
    <3>2. i \in FrameSet /\ i.pos = None /\ i.data = e
      BY <1>4, <1>9 DEF AtInner, FrameSet
    <3>. HIDE DEF i
    <3>3. frames' = <<f, i>>
      BY <1>9, <3>1
    <3>4. e.steps <= MaxSteps /\ e.tokens <= Most
      BY <1>4, <1>7, <1>9 DEF Most, top
    <3>5. AtInner(i)
      BY <3>2, <3>4 DEF AtInner
    <3>. QED  BY <1>1, <1>9, <3>1, <3>3, <3>5, InnerKeeps
  <2>. QED  BY <1>1, <2>1, <2>2 DEF h
<1>. QED  BY <1>8, <1>9, AtNode DEF top

LEMMA AppendIs ==
  ASSUME NEW f, NEW g
  PROVE  Append(<<f>>, g) = <<f, g>>
<1>. DEFINE both == {f, g}
            a == Append(<<f>>, g)
            b == <<f, g>>
<1>1. <<f>> \in Seq(both) /\ g \in both /\ b \in Seq(both)
  OBVIOUS
<1>2. a \in Seq(both) /\ Len(a) = 2 /\ a[1] = f /\ a[2] = g
  BY <1>1
<1>3. Len(b) = 2 /\ b[1] = f /\ b[2] = g
  OBVIOUS
<1>4. \A i \in 1..2 : a[i] = b[i]
  BY <1>2, <1>3
<1>. HIDE DEF a, b
<1>5. a = b
  BY <1>1, <1>2, <1>3, <1>4
<1>. QED  BY <1>5 DEF a, b

\* The inner engine starts.
LEMMA SubGraphStep ==
  ASSUME NodesConstants, NodesInv, N!SubGraph
  PROVE  NodesInv'
<1>1. /\ frames # <<>> /\ N!Top.pos # None /\ N!Node = "sub"
      /\ frames' = Append(frames, N!Frame(1, [N!Top.data EXCEPT !.steps = 0, !.tokens = 0]))
      /\ UNCHANGED <<last, outcome, given, done, skipped, resumes>>
  BY DEF N!SubGraph, N!At
<1>2. PICK f : /\ frames = <<f>> /\ AtOuter(f) /\ N!Top = f /\ Chain[1][f.pos] = "sub"
  <2>1. ASSUME NEW g, g.pos \in 1..Len(Chain[2]), Len(Chain) = 2 PROVE Chain[2][g.pos] # "sub"
    BY <2>1 DEF NodesConstants
  <2>. QED  BY <1>1, <2>1, AtNode
<1>. DEFINE d == [f.data EXCEPT !.steps = 0, !.tokens = 0]
            g == N!Frame(1, d)
<1>3. d \in N!Data /\ d.steps = 0 /\ d.tokens = 0
  BY <1>2 DEF AtOuter, FrameSet, N!Data
<1>4. g \in FrameSet /\ g.pos = 1 /\ g.data = d
  BY <1>3, FrameIs
<1>. HIDE DEF d, g
<1>5. Len(Chain) = 2
  BY <1>2, NodesNumbers DEF NodesConstants, AtOuter
<1>6. 1 \in 1..Len(Chain[2])
  BY <1>5 DEF NodesConstants, N!WorkflowNodesConstants
<1>7. 0 < MaxSteps /\ MaxTokens \in Nat
  <2>1. f.data.steps \in Nat /\ f.data.steps < MaxSteps
    BY <1>2 DEF AtOuter, FrameSet, N!Data
  <2>. QED  BY <2>1, NodesNumbers
<1>8. AtInner(g)
  BY <1>3, <1>4, <1>6, <1>7 DEF AtInner
<1>9. frames' = <<f, g>>
  <2>1. frames' = Append(frames, g)
    BY Zenon, <1>1, <1>2 DEF d, g
  <2>. QED  BY Zenon, <1>2, <2>1, AppendIs
<1>10. AtOuter(f)' /\ AtInner(g)'
  BY <1>1, <1>2, <1>8 DEF AtOuter, AtInner
<1>11. FramesAre'
  BY <1>2, <1>9, <1>10 DEF FramesAre
<1>. QED  BY <1>1, <1>2, <1>9, <1>11, StayKeeps

\* The inner engine ends, and the node with it.
LEMMA SubReturnsStep ==
  ASSUME NodesConstants, NodesInv, N!SubReturns
  PROVE  NodesInv'
<1>1. Len(frames) = 2
  BY DEF N!SubReturns, N!Depth
<1>2. PICK f, g : frames = <<f, g>> /\ AtOuter(f) /\ Chain[1][f.pos] = "sub" /\ AtInner(g)
  BY <1>1 DEF NodesInv, FramesAre
<1>3. N!Depth = 2 /\ N!Top = g /\ N!Outer = f /\ g.pos = None
  <2>1. N!Depth = 2
    BY <1>1 DEF N!Depth
  <2>. QED  BY <1>2, <2>1 DEF N!Top, N!Outer, N!SubReturns
<1>4. PICK ok \in BOOLEAN :
         LET d == [N!Counted(f.data, g.data.tokens) EXCEPT !.ok = ok, !.paused = FALSE]
             next == f.pos + 1
             Over(data) == frames' = <<>> /\ outcome' = N!OutcomeOf(data)
         IN  /\ last' = [pos |-> f.pos, status |-> "completed", data |-> d]
             /\ CASE ~N!WithinTokens(d) -> Over(N!OverBudget(d))
                  [] N!WithinTokens(d) /\ next > Len(Chain[1]) -> Over(d)
                  [] N!WithinTokens(d) /\ next <= Len(Chain[1]) /\ ~N!StepsLeft(d) -> Over(N!OverBudget(d))
                  [] OTHER -> frames' = <<N!Frame(next, d)>> /\ UNCHANGED outcome
  BY <1>3 DEF N!SubReturns
<1>5. done' = done \cup {f.pos} /\ UNCHANGED <<given, skipped, resumes>>
  BY <1>3 DEF N!SubReturns
<1>. DEFINE c == N!Counted(f.data, g.data.tokens)
            d == [c EXCEPT !.ok = ok, !.paused = FALSE]
            over == N!OverBudget(d)
<1>6. f.data \in N!Data /\ f.data.tokens \in Nat /\ g.data.tokens \in Nat
  BY <1>2 DEF AtOuter, AtInner, FrameSet, N!Data
<1>7. c \in N!Data /\ c.steps = f.data.steps + 1 /\ c.tokens = f.data.tokens + g.data.tokens
      /\ c.reason = f.data.reason
  BY <1>6, CountedIs
<1>8. /\ last' = [pos |-> f.pos, status |-> "completed", data |-> d]
      /\ CASE ~N!WithinTokens(d) -> frames' = <<>> /\ outcome' = N!OutcomeOf(over)
           [] N!WithinTokens(d) /\ f.pos + 1 > Length -> frames' = <<>> /\ outcome' = N!OutcomeOf(d)
           [] N!WithinTokens(d) /\ f.pos + 1 <= Length /\ ~N!StepsLeft(d) ->
                 frames' = <<>> /\ outcome' = N!OutcomeOf(over)
           [] OTHER -> frames' = <<N!Frame(f.pos + 1, d)>> /\ UNCHANGED outcome
  BY Zenon, <1>4 DEF Length
<1>. HIDE DEF c
<1>9. d \in N!Data /\ d.steps = c.steps /\ d.tokens = c.tokens /\ d.reason = c.reason
  BY <1>7 DEF N!Data
<1>10. over \in N!Data /\ (over.aborted \/ over.paused)
  BY <1>9, BudgetOverIs
<1>11. N!OutcomeOf(over) \in {"paused", "aborted"} /\ N!OutcomeOf(d) \in {"completed", "paused", "aborted"}
  BY <1>9, <1>10, OutcomeOfIs
<1>. HIDE DEF d, over
<1>12. ~d.reason /\ d.steps = f.data.steps + 1 /\ d.tokens <= f.data.tokens + Most
       /\ f.pos \in Nat /\ Length \in Nat
  <2>1. g.data.tokens <= Most
    BY <1>2, <1>3 DEF AtInner, NodesConstants
  <2>2. ~d.reason /\ f.pos \in Nat
    BY <1>2, <1>7, <1>9, NodesNumbers DEF AtOuter
  <2>. QED  BY <1>6, <1>7, <1>9, <2>1, <2>2, NodesNumbers
<1>13. \/ frames' = <<>> /\ outcome' \in {"paused", "aborted"}
       \/ frames' = <<>> /\ f.pos + 1 > Length /\ outcome' \in {"completed", "paused", "aborted"}
       \/ /\ f.pos + 1 <= Length /\ d.steps < MaxSteps /\ d.tokens <= MaxTokens
          /\ frames' = <<N!Frame(f.pos + 1, d)>> /\ UNCHANGED outcome
  BY <1>8, <1>11, <1>12 DEF N!WithinTokens, N!StepsLeft
<1>14. 1..(f.pos - 1) \subseteq done \cup skipped
  <2>1. frames # <<>> /\ frames[1] = f
    BY <1>2
  <2>. QED  BY <2>1 DEF NodesInv, N!NodesAreHeeded
<1>. QED  BY <1>2, <1>5, <1>8, <1>9, <1>12, <1>13, <1>14, AnswerKeeps

\* The data a node may leave but for its counters.
LEMMA KeyIs ==
  ASSUME NEW d \in N!Data, NEW ok \in BOOLEAN
  PROVE  LET e == [d EXCEPT !.ok = ok]
         IN  e \in N!Data /\ e.steps = d.steps /\ e.tokens = d.tokens /\ e.reason = d.reason
BY DEF N!Data

LEMMA TopIs ==
  ASSUME NodesConstants, NodesInv, frames # <<>>, N!Top.pos # None
  PROVE  N!Top.data \in N!Data /\ 0 \in Nat /\ CallCost \in Nat /\ 0 <= CallCost
BY AtNode, NodesNumbers DEF AtOuter, AtInner, FrameSet

LEMMA ComputedStep ==
  ASSUME NodesConstants, NodesInv, frames # <<>>, N!Top.pos # None, N!Node # "review",
         NEW t \in {0, CallCost}, N!Computed(t)
  PROVE  NodesInv'
<1>1. PICK ok \in BOOLEAN : N!Answer([N!Top.data EXCEPT !.ok = ok], t)
  BY Zenon DEF N!Computed
<1>. DEFINE e == [N!Top.data EXCEPT !.ok = ok]
<1>2. e \in N!Data /\ e.steps = N!Top.data.steps /\ e.tokens = N!Top.data.tokens
      /\ e.reason = N!Top.data.reason
  BY TopIs, KeyIs
<1>. HIDE DEF e
<1>3. t \in Nat /\ t <= CallCost /\ N!Answer(e, t)
  BY <1>1, TopIs DEF e
<1>. QED  BY <1>2, <1>3, AnswerStep

LEMMA ContractStep ==
  ASSUME NodesConstants, NodesInv, N!ContractCheck
  PROVE  NodesInv'
<1>1. frames # <<>> /\ N!Top.pos # None /\ N!Node # "review"
  BY DEF N!ContractCheck, N!At
<1>2. \/ N!Answer(N!Top.data, 0) \/ N!Raise(N!Top.data)
      \/ \E ok \in BOOLEAN : N!Raise([N!Top.data EXCEPT !.ok = ok])
  BY Zenon DEF N!ContractCheck
<1>3. CASE N!Answer(N!Top.data, 0)
  BY <1>1, <1>3, TopIs, AnswerStep
<1>4. CASE N!Raise(N!Top.data)
  BY <1>1, <1>4, TopIs, RaiseStep
<1>5. ASSUME NEW ok \in BOOLEAN, N!Raise([N!Top.data EXCEPT !.ok = ok]) PROVE NodesInv'
  <2>. DEFINE e == [N!Top.data EXCEPT !.ok = ok]
  <2>1. e \in N!Data /\ e.steps = N!Top.data.steps /\ e.tokens = N!Top.data.tokens
        /\ e.reason = N!Top.data.reason
    BY <1>1, TopIs, KeyIs
  <2>2. N!Raise(e)
    BY <1>5
  <2>. HIDE DEF e
  <2>. QED  BY <1>1, <2>1, <2>2, RaiseStep
<1>. QED  BY <1>2, <1>3, <1>4, <1>5

LEMMA ReviewStep ==
  ASSUME NodesConstants, NodesInv, N!HumanReview
  PROVE  NodesInv'
<1>. DEFINE Accepted == given.decision \in N!Allowed \/ (given.decision = None /\ given.default = "approve")
<1>1. frames # <<>> /\ N!Top.pos # None
  BY DEF N!HumanReview, N!At
<1>2. None \notin {"approve", "edit", "takeover", "fork"}
  BY DEF NodesConstants, N!Decision
<1>3. \/ N!Pause(N!Top.data) \/ N!Raise(N!Top.data)
      \/ Accepted /\ N!Answer(N!Top.data, 0)
      \/ Accepted /\ \E ok \in BOOLEAN : N!Answer([N!Top.data EXCEPT !.ok = ok], 0)
  <2>1. CASE given.decision = None /\ ~given.overdue
    BY Zenon, <1>2, <2>1 DEF N!HumanReview
  <2>2. CASE given.decision = None /\ given.overdue
    BY <1>2, <2>2 DEF N!HumanReview
  <2>3. CASE given.decision = "approve"
    BY <1>2, <2>3 DEF N!HumanReview, N!Allowed
  <2>4. CASE given.decision \in {"edit", "takeover", "fork"}
    BY <1>2, <2>4 DEF N!HumanReview, N!Allowed
  <2>5. CASE given.decision \notin {None, "approve", "edit", "takeover", "fork"}
    BY <2>5 DEF N!HumanReview
  <2>. QED  BY <2>1, <2>2, <2>3, <2>4, <2>5
<1>. HIDE DEF Accepted
<1>4. CASE N!Pause(N!Top.data)
  BY <1>1, <1>4, PauseStep
<1>5. CASE N!Raise(N!Top.data)
  BY <1>1, <1>5, TopIs, RaiseStep
<1>6. CASE Accepted /\ N!Answer(N!Top.data, 0)
  BY <1>1, <1>6, TopIs, AnswerStep DEF Accepted
<1>7. ASSUME Accepted, NEW ok \in BOOLEAN, N!Answer([N!Top.data EXCEPT !.ok = ok], 0) PROVE NodesInv'
  <2>. DEFINE e == [N!Top.data EXCEPT !.ok = ok]
  <2>1. e \in N!Data /\ e.steps = N!Top.data.steps /\ e.tokens = N!Top.data.tokens
        /\ e.reason = N!Top.data.reason
    BY <1>1, TopIs, KeyIs
  <2>2. N!Answer(e, 0)
    BY <1>7
  <2>. HIDE DEF e
  <2>. QED  BY <1>1, <1>7, <2>1, <2>2, TopIs, AnswerStep DEF Accepted
<1>. QED  BY <1>3, <1>4, <1>5, <1>6, <1>7

\* The last checkpoint is resumed.
LEMMA ResumeStep ==
  ASSUME NodesConstants, NodesInv, N!Resume
  PROVE  NodesInv'
<1>. DEFINE p == IF last.pos < Length THEN last.pos + 1 ELSE 1
            d == [last.data EXCEPT !.paused = FALSE]
            over == N!OverBudget(d)
            f == N!Frame(p, d)
<1>1. /\ frames = <<>> /\ last # None /\ resumes < MaxResumes
      /\ skipped' = skipped \cup IF last.status = "failed" THEN {last.pos} ELSE {}
      /\ resumes' = resumes + 1 /\ UNCHANGED <<last, given, done>>
  BY DEF N!Resume
<1>2. \/ N!StepsLeft(d) /\ frames' = <<f>> /\ outcome' = None
      \/ frames' = <<>> /\ outcome' = N!OutcomeOf(over)
  BY Zenon DEF N!Resume, Length
<1>3. /\ last \in CheckpointSet
      /\ last.data.steps <= MaxSteps /\ last.data.tokens <= MaxTokens + (resumes + 1) * Most
      /\ ~last.data.reason
      /\ 1..(last.pos - 1) \subseteq done \cup skipped
      /\ last.status = "completed" => last.pos \in done
  BY <1>1 DEF NodesInv, LastIs
<1>4. last.data \in N!Data /\ last.pos \in 1..Length /\ last.status \in {"completed", "failed"}
  BY <1>3 DEF CheckpointSet, Length
<1>5. /\ resumes \in Nat /\ Most \in Nat /\ MaxTokens \in Nat /\ MaxSteps \in Nat /\ Length \in Nat \ {0}
      /\ MaxResumes \in Nat
  BY NodesNumbers DEF NodesInv, NodesTypes
<1>6. /\ d \in N!Data /\ d.steps = last.data.steps /\ d.tokens = last.data.tokens
      /\ ~d.reason
  BY <1>3, <1>4, PausedIs
<1>7. over \in N!Data /\ (over.aborted \/ over.paused)
  BY <1>6, BudgetOverIs
<1>8. N!OutcomeOf(over) \in {"paused", "aborted"}
  BY <1>7, OutcomeOfIs
<1>. HIDE DEF over
<1>9. p \in 1..Length /\ p \in Nat
  BY <1>4, <1>5
<1>10. f \in FrameSet /\ f.pos = p /\ f.data = d
  BY <1>6, <1>9, FrameIs
<1>11. last.pos \in done' \cup skipped' /\ done' = done /\ skipped \subseteq skipped'
  BY <1>1, <1>3, <1>4
<1>12. 1..(p - 1) \subseteq done' \cup skipped'
  <2>1. CASE last.pos < Length
    BY <1>3, <1>4, <1>5, <1>11, <2>1
  <2>2. CASE ~(last.pos < Length)
    BY <2>2
  <2>. QED  BY <2>1, <2>2
<1>. HIDE DEF d, f, p
<1>13. NodesTypes'
  <2>1. outcome' \in {None, "completed", "paused", "aborted"}
    BY <1>2, <1>8
  <2>2. resumes + 1 \in 0..MaxResumes
    BY <1>1, <1>5
  <2>. QED  BY <1>1, <1>4, <2>1, <2>2 DEF NodesInv, NodesTypes
<1>14. LastIs'
  <2>1. (resumes + 1) * Most = resumes * Most + Most /\ ((resumes + 1) + 1) * Most = resumes * Most + Most + Most
        /\ resumes * Most \in Nat
    BY <1>5
  <2>2. last.data.tokens <= MaxTokens + ((resumes + 1) + 1) * Most
    <3>1. last.data.tokens \in Nat
      BY <1>4 DEF N!Data
    <3>. QED  BY <1>3, <1>5, <2>1, <3>1
  <2>. QED  BY <1>1, <1>3, <1>11, <2>2 DEF LastIs
<1>15. FramesAre'
  <2>1. CASE N!StepsLeft(d) /\ frames' = <<f>>
    <3>1. PICK k : k = f
      OBVIOUS
    <3>2. k \in FrameSet /\ k.pos \in 1..Length /\ k.data.steps < MaxSteps
          /\ k.data.tokens <= MaxTokens + (resumes + 1) * Most /\ ~k.data.reason
      BY <1>3, <1>6, <1>9, <1>10, <2>1, <3>1 DEF N!StepsLeft
    <3>3. AtOuter(k)'
      BY <1>1, <3>2 DEF AtOuter
    <3>. QED  BY <2>1, <3>1, <3>3 DEF FramesAre
  <2>2. CASE frames' = <<>>
    BY <2>2 DEF FramesAre
  <2>. QED  BY <1>2, <2>1, <2>2
<1>16. N!NodesAreHeeded'
  <2>1. frames' # <<>> => 1..(frames'[1].pos - 1) \subseteq done' \cup skipped'
    BY <1>2, <1>10, <1>12
  <2>2. outcome' # "completed"
    BY <1>2, <1>8 DEF NodesConstants
  <2>3. done' \cup skipped' \subseteq 1..Length
    BY <1>13 DEF NodesTypes
  <2>. QED  BY <1>1, <1>11, <2>1, <2>2, <2>3, PassedKeeps
<1>. QED  BY <1>13, <1>14, <1>15, <1>16 DEF NodesInv

LEMMA NodesStep ==
  ASSUME NodesConstants, NodesInv, [N!Next]_(N!vars)
  PROVE  NodesInv'
<1>1. ASSUME N!At("llm") \/ N!At("tool") \/ N!At("transform") \/ N!At("eval")
      PROVE  frames # <<>> /\ N!Top.pos # None /\ N!Node # "review"
  BY <1>1 DEF N!At
<1>2. ASSUME N!LlmCall PROVE NodesInv'
  BY <1>1, <1>2, TopIs, ComputedStep, RaiseStep DEF N!LlmCall
<1>3. ASSUME N!ToolCall PROVE NodesInv'
  BY <1>1, <1>3, TopIs, ComputedStep, RaiseStep DEF N!ToolCall
<1>4. ASSUME N!Transform PROVE NodesInv'
  BY <1>1, <1>4, ComputedStep DEF N!Transform
<1>5. ASSUME N!Eval PROVE NodesInv'
  BY <1>1, <1>5, ComputedStep DEF N!Eval
<1>6. CASE UNCHANGED N!vars
  <2>1. UNCHANGED <<frames, last, outcome, given, done, skipped, resumes>>
    BY <1>6 DEF N!vars
  <2>. QED  BY <2>1 DEF NodesInv, NodesTypes, FramesAre, AtOuter, AtInner, LastIs, N!NodesAreHeeded,
                        N!Allowed
<1>. QED  BY <1>2, <1>3, <1>4, <1>5, <1>6, ContractStep, ReviewStep, SubGraphStep, SubReturnsStep,
             ResumeStep DEF N!Next

LEMMA NodesHold == NodesConstants /\ N!Spec => []NodesInv
<1>. SUFFICES ASSUME NodesConstants PROVE N!Spec => []NodesInv
  OBVIOUS
<1>1. NodesInv /\ [N!Next]_(N!vars) => NodesInv'
  BY NodesStep
<1>. QED  BY <1>1, InitNodes, PTL DEF N!Spec

\* Every node ahead of the one at work answered, or its failed checkpoint was resumed; and
\* no engine counts more than its budget and one node, and one more for each resume.
THEOREM NodesHeeded ==
  NodesConstants /\ N!Spec => [](N!TypeOK /\ N!NodesAreHeeded /\ N!BudgetsAreKept)
<1>. SUFFICES ASSUME NodesConstants
     PROVE  N!Spec => [](N!TypeOK /\ N!NodesAreHeeded /\ N!BudgetsAreKept)
  OBVIOUS
<1>1. ASSUME NodesInv PROVE N!TypeOK
  <2>1. /\ Len(frames) <= Len(Chain)
        /\ \A i \in DOMAIN frames : /\ frames[i].pos \in DOMAIN Chain[i] \cup {None}
                                    /\ frames[i].data \in N!Data /\ frames[i].attempt \in 1..NodeAttempts
    <3>1. CASE frames = <<>>
      BY <3>1 DEF NodesConstants
    <3>2. ASSUME NEW f, frames = <<f>>, AtOuter(f) PROVE <2>1!:
      BY <3>2, NodesNumbers DEF AtOuter, FrameSet, NodesConstants
    <3>3. ASSUME NEW f, NEW g, frames = <<f, g>>, AtOuter(f), Chain[1][f.pos] = "sub", AtInner(g)
          PROVE  <2>1!:
      <4>1. Len(Chain) = 2 /\ DOMAIN Chain[2] = 1..Len(Chain[2])
        BY <3>3, NodesNumbers DEF NodesConstants, AtOuter
      <4>. QED  BY <3>3, <4>1, NodesNumbers DEF AtOuter, AtInner, FrameSet
    <3>. QED  BY <1>1, <3>1, <3>2, <3>3 DEF NodesInv, FramesAre
  <2>2. last = None \/ (last.pos \in DOMAIN Chain[1] /\ last.data \in N!Data)
    BY <1>1, NodesNumbers DEF NodesInv, LastIs, CheckpointSet, Length
  <2>. QED  BY <1>1, <2>1, <2>2, NodesNumbers DEF NodesInv, NodesTypes, N!TypeOK
<1>2. ASSUME NodesInv PROVE N!BudgetsAreKept
  <2>1. MaxTokens \in Nat /\ MaxSteps \in Nat /\ CallCost \in Nat /\ resumes \in Nat /\ Most \in Nat
    BY <1>2, NodesNumbers DEF NodesInv, NodesTypes
  <2>2. (resumes + 1) * Most = resumes * Most + Most /\ resumes * Most \in Nat /\ 1 * CallCost = CallCost
    BY <2>1
  <2>3. ASSUME NEW f, AtOuter(f)
        PROVE  f.data.steps <= MaxSteps /\ f.data.tokens <= MaxTokens + (resumes + 1) * Most
    <3>1. f.data.steps \in Nat /\ f.data.tokens \in Nat
      BY <2>3 DEF AtOuter, FrameSet, N!Data
    <3>. QED  BY <2>1, <2>2, <2>3, <3>1 DEF AtOuter
  <2>4. ASSUME NEW g, AtInner(g)
        PROVE  g.data.steps <= MaxSteps /\ g.data.tokens <= MaxTokens + 1 * CallCost
    <3>1. g.data.steps \in Nat /\ g.data.tokens \in Nat
      BY <2>4 DEF AtInner, FrameSet, N!Data
    <3>. QED  BY <2>1, <2>2, <2>4, <3>1 DEF AtInner, Most
  <2>5. \A i \in DOMAIN frames :
           /\ frames[i].data.steps <= MaxSteps
           /\ frames[i].data.tokens <= MaxTokens + (IF i = 1 THEN resumes + 1 ELSE 1)
                                       * (IF i = 1 THEN Most ELSE CallCost)
    <3>1. CASE frames = <<>>
      BY <3>1
    <3>2. ASSUME NEW f, frames = <<f>>, AtOuter(f) PROVE <2>5!:
      BY <2>3, <3>2
    <3>3. ASSUME NEW f, NEW g, frames = <<f, g>>, AtOuter(f), AtInner(g) PROVE <2>5!:
      BY <2>3, <2>4, <3>3
    <3>. QED  BY <1>2, <3>1, <3>2, <3>3 DEF NodesInv, FramesAre
  <2>6. last # None => /\ last.data.steps <= MaxSteps
                       /\ last.data.tokens <= MaxTokens + (resumes + 1) * Most
    BY <1>2 DEF NodesInv, LastIs
  <2>. QED  BY <2>5, <2>6 DEF N!BudgetsAreKept, Most
<1>. QED  BY <1>1, <1>2, NodesHold, PTL DEF NodesInv

----------------------------------------------------------------------------
(* Providers: what is written has its roles bound, and reading it again    *)
(* changes nothing.                                                        *)

BindingSet == [id : Id, model : Model]

\* A binding that clients put may leave its model to the provider.
NamedSet == [id : Id, model : Model \cup {None}]

HealthSet == {None} \cup [of : Id, valid : BOOLEAN]

KnownProviders(f) == DOMAIN f \subseteq Id /\ \A i \in DOMAIN f : f[i] \in P!Entry

\* A configuration that is put.
Given(c) ==
    /\ c.active \in Id /\ c.health \in HealthSet /\ KnownProviders(c.providers)
    /\ \/ c.roles = None
       \/ /\ c.roles # None
          /\ c.roles.orchestrator \in NamedSet /\ c.roles.workers \in Seq(NamedSet)

\* None is none of the values it stands beside, and clients put what the schema allows.
ProvidersConstants ==
    /\ AccountId \in Id /\ Model # {} /\ Pulled \subseteq Model
    /\ None # LocalType /\ None \notin P!Type \cup Model \cup BindingSet \cup {"queued", "running", "done"}
    /\ None \notin [orchestrator : BindingSet, workers : Seq(BindingSet)]
    /\ \A c \in Puts : Given(c)

BoundTo(r, providers) ==
    /\ r = [orchestrator |-> r.orchestrator, workers |-> r.workers]
    /\ r.orchestrator \in BindingSet /\ r.workers \in Seq(BindingSet)
    /\ r.orchestrator.id \in DOMAIN providers
    /\ \A n \in 1..Len(r.workers) :
          r.workers[n].id \in DOMAIN providers /\ r.workers[n] # r.orchestrator
    /\ \A m, n \in 1..Len(r.workers) : r.workers[m] = r.workers[n] => m = n

\* A configuration that is written.
Configured(c) ==
    /\ c = [active |-> c.active, providers |-> c.providers, health |-> c.health, roles |-> c.roles]
    /\ c.active \in Id /\ c.health \in HealthSet /\ KnownProviders(c.providers)
    /\ P!WithAccount(c.providers) = c.providers /\ DOMAIN c.providers # {}
    /\ BoundTo(c.roles, c.providers)

LEMMA RangeIs ==
  ASSUME NEW Items, NEW s \in Seq(Items)
  PROVE  P!Range(s) = {s[i] : i \in 1..Len(s)}
BY DEF P!Range

\* The recursion of Deduplicated has a solution, and Deduplicated is its final value.
LEMMA DeduplicatedIs ==
  ASSUME NEW all, Len(all) \in Nat, NEW dropped
  PROVE  \E left : /\ left[0] = <<>> /\ P!Deduplicated(all, dropped) = left[Len(all)]
                   /\ \A n \in 1..Len(all) :
                         left[n] = IF all[n] \in dropped \cup P!Range(left[n - 1]) THEN left[n - 1]
                                   ELSE Append(left[n - 1], all[n])
<1>. DEFINE final == Len(all)
            More(k, n) == IF all[n] \in dropped \cup P!Range(k) THEN k ELSE Append(k, all[n])
            Is(g, n) == g = [m \in 0..n |-> IF m = 0 THEN <<>> ELSE More(g[m - 1], m)]
            Lacking == {n \in 0..final : ~\E g : Is(g, n)}
<1>1. final \in Nat
  OBVIOUS
<1>2. \E g : Is(g, 0)
  <2>1. Is([m \in 0..0 |-> <<>>], 0)
    OBVIOUS
  <2>. QED  BY <2>1
<1>3. ASSUME NEW n \in 0..final, n > 0, NEW g, Is(g, n - 1) PROVE \E h : Is(h, n)
  <2>. DEFINE h == [m \in 0..n |-> IF m = n THEN More(g[n - 1], n) ELSE g[m]]
  <2>. HIDE DEF More
  <2>1. DOMAIN h = 0..n /\ h = [m \in 0..n |-> h[m]]
    OBVIOUS
  <2>2. \A m \in 0..(n - 1) : h[m] = g[m]
    BY <1>3
  <2>3. h[0] = <<>>
    BY <1>1, <1>3, <2>2
  <2>4. ASSUME NEW m \in 1..n PROVE h[m] = More(h[m - 1], m)
    <3>1. CASE m = n
      BY <1>1, <1>3, <2>2, <3>1
    <3>2. CASE m # n
      <4>1. m \in 0..(n - 1) /\ m # 0 /\ m - 1 \in 0..(n - 1)
        BY <1>1, <3>2
      <4>2. g[m] = More(g[m - 1], m)
        BY <1>3, <4>1
      <4>. QED  BY <2>2, <4>1, <4>2
    <3>. QED  BY <3>1, <3>2
  <2>. HIDE DEF h
  <2>5. \A m \in 0..n : h[m] = IF m = 0 THEN <<>> ELSE More(h[m - 1], m)
    BY <1>1, <2>3, <2>4
  <2>6. Is(h, n)
    BY <2>1, <2>5
  <2>. QED  BY <2>6
<1>4. Lacking = {}
  <2>1. SUFFICES ASSUME Lacking # {} PROVE FALSE
    OBVIOUS
  <2>2. PICK n \in Lacking : \A m \in Lacking : n <= m
    <3>1. Lacking \subseteq Nat
      BY <1>1
    <3>. HIDE DEF Lacking
    <3>. QED  BY <2>1, <3>1, LeastIs
  <2>. HIDE DEF Is
  <2>3. n \in 0..final /\ n # 0 /\ ~\E g : Is(g, n)
    BY <1>2, <2>2
  <2>4. n - 1 \in 0..final /\ n - 1 \notin Lacking
    BY <1>1, <2>2, <2>3
  <2>5. PICK g : Is(g, n - 1)
    BY <2>4
  <2>. QED  BY <1>1, <1>3, <2>3, <2>5
<1>5. PICK g : Is(g, final)
  <2>. HIDE DEF Is
  <2>. QED  BY <1>1, <1>4
<1>. DEFINE left == CHOOSE h : Is(h, final)
<1>6. Is(left, final)
  <2>. HIDE DEF Is
  <2>. QED  BY <1>5
<1>7. P!Deduplicated(all, dropped) = left[final]
  BY DEF P!Deduplicated
<1>. HIDE DEF left
<1>8. \A m \in 0..final : left[m] = IF m = 0 THEN <<>> ELSE More(left[m - 1], m)
  <2>. HIDE DEF More
  <2>. QED  BY <1>6
<1>. QED  BY <1>1, <1>7, <1>8

\* What is kept is bound, each once, and not dropped.
LEMMA KeptIs ==
  ASSUME NEW Items, NEW all, Len(all) \in Nat, NEW dropped,
         \A n \in 1..Len(all) : all[n] \in Items \cup dropped
  PROVE  LET left == P!Deduplicated(all, dropped)
         IN  /\ left \in Seq(Items)
             /\ \A n \in 1..Len(left) : left[n] \notin dropped
             /\ \A m, n \in 1..Len(left) : left[m] = left[n] => m = n
<1>. DEFINE Sound(k) == /\ k \in Seq(Items) /\ \A n \in 1..Len(k) : k[n] \notin dropped
                        /\ \A m, n \in 1..Len(k) : k[m] = k[n] => m = n
<1>1. PICK f : /\ f[0] = <<>> /\ P!Deduplicated(all, dropped) = f[Len(all)]
               /\ \A n \in 1..Len(all) :
                     f[n] = IF all[n] \in dropped \cup P!Range(f[n - 1]) THEN f[n - 1]
                            ELSE Append(f[n - 1], all[n])
  BY DeduplicatedIs
<1>2. Sound(<<>>)
  OBVIOUS
<1>3. ASSUME NEW k, Sound(k), NEW x \in Items, x \notin dropped, x \notin P!Range(k)
      PROVE  Sound(Append(k, x))
  <2>1. /\ k \in Seq(Items) /\ Len(Append(k, x)) = Len(k) + 1 /\ Append(k, x)[Len(k) + 1] = x
        /\ Append(k, x) \in Seq(Items) /\ Len(k) \in Nat
        /\ \A i \in 1..Len(k) : Append(k, x)[i] = k[i]
    BY <1>3
  <2>2. \A i \in 1..Len(k) : k[i] # x
    BY <1>3, RangeIs
  <2>. QED  BY <1>3, <2>1, <2>2
<1>. DEFINE Bad == {n \in 0..Len(all) : ~Sound(f[n])}
<1>4. Bad = {}
  <2>1. SUFFICES ASSUME Bad # {} PROVE FALSE
    OBVIOUS
  <2>2. PICK n \in Bad : \A m \in Bad : n <= m
    <3>1. Bad \subseteq Nat
      OBVIOUS
    <3>. HIDE DEF Bad
    <3>. QED  BY <2>1, <3>1, LeastIs
  <2>. HIDE DEF Sound
  <2>3. n \in 1..Len(all) /\ n - 1 \in 0..Len(all) /\ n - 1 \notin Bad
    BY <1>1, <1>2, <2>2
  <2>4. Sound(f[n - 1])
    BY <2>3
  <2>. QED  BY <1>1, <1>3, <2>2, <2>3, <2>4
<1>5. Sound(f[Len(all)])
  <2>. HIDE DEF Sound
  <2>. QED  BY <1>4
<1>. QED  BY <1>1, <1>5

\* Nothing is dropped of what was kept.
LEMMA KeptStays ==
  ASSUME NEW Items, NEW all \in Seq(Items), NEW dropped,
         \A n \in 1..Len(all) : all[n] \notin dropped,
         \A m, n \in 1..Len(all) : all[m] = all[n] => m = n
  PROVE  P!Deduplicated(all, dropped) = all
<1>1. PICK f : /\ f[0] = <<>> /\ P!Deduplicated(all, dropped) = f[Len(all)]
               /\ \A n \in 1..Len(all) :
                     f[n] = IF all[n] \in dropped \cup P!Range(f[n - 1]) THEN f[n - 1]
                            ELSE Append(f[n - 1], all[n])
  BY DeduplicatedIs
<1>. DEFINE Same(k, n) == k \in Seq(Items) /\ Len(k) = n /\ \A i \in 1..n : k[i] = all[i]
            Apart == {n \in 0..Len(all) : ~Same(f[n], n)}
<1>2. Same(f[0], 0)
  BY <1>1
<1>3. ASSUME NEW n \in 1..Len(all), Same(f[n - 1], n - 1) PROVE Same(f[n], n)
  <2>1. f[n - 1] \in Seq(Items) /\ all[n] \in Items /\ n - 1 \in Nat /\ Len(f[n - 1]) = n - 1
    BY <1>3
  <2>2. all[n] \notin P!Range(f[n - 1])
    <3>1. \A i \in 1..(n - 1) : f[n - 1][i] # all[n]
      BY <1>3
    <3>. QED  BY <2>1, <3>1, RangeIs
  <2>3. f[n] = Append(f[n - 1], all[n])
    BY <1>1, <2>2
  <2>. QED  BY <1>3, <2>1, <2>3
<1>4. Apart = {}
  <2>1. SUFFICES ASSUME Apart # {} PROVE FALSE
    OBVIOUS
  <2>2. PICK n \in Apart : \A m \in Apart : n <= m
    <3>1. Apart \subseteq Nat
      OBVIOUS
    <3>. HIDE DEF Apart
    <3>. QED  BY <2>1, <3>1, LeastIs
  <2>. HIDE DEF Same
  <2>3. n \in 1..Len(all) /\ n - 1 \in 0..Len(all) /\ n - 1 \notin Apart
    BY <1>2, <2>2
  <2>. QED  BY <1>3, <2>2, <2>3
<1>5. Same(f[Len(all)], Len(all))
  <2>. HIDE DEF Same
  <2>. QED  BY <1>4
<1>. QED  BY <1>1, <1>5

LEMMA FirstIs ==
  ASSUME NEW x, NEW y, NEW z
  PROVE  P!FirstBound(<<x, y, z>>) = IF x # None THEN x ELSE IF y # None THEN y ELSE z
<1>. DEFINE all == <<x, y, z>>
            bound == {n \in DOMAIN all : all[n] # None}
            first == CHOOSE n \in bound : \A m \in bound : n <= m
<1>1. /\ DOMAIN all = {1, 2, 3} /\ all[1] = x /\ all[2] = y /\ all[3] = z
  OBVIOUS
<1>. HIDE DEF all
<1>2. P!FirstBound(all) = IF bound = {} THEN None ELSE all[first]
  BY DEF P!FirstBound
<1>3. bound = {} <=> x = None /\ y = None /\ z = None
  BY <1>1
<1>4. ASSUME bound # {} PROVE first \in bound /\ \A m \in bound : first <= m
  <2>1. bound \subseteq Nat
    BY <1>1
  <2>. HIDE DEF bound
  <2>2. \E n \in bound : \A m \in bound : n <= m
    BY <1>4, <2>1, LeastIs
  <2>. QED  BY <2>2
<1>. HIDE DEF first
<1>5. bound # {} => all[first] = IF x # None THEN x ELSE IF y # None THEN y ELSE z
  BY <1>1, <1>4
<1>. QED  BY <1>2, <1>3, <1>5 DEF all

LEMMA BindingIs ==
  ASSUME ProvidersConstants, NEW i, NEW m \in Model \cup {None}, NEW f, KnownProviders(f)
  PROVE  /\ i \notin DOMAIN f => P!Binding(i, m, f) = None
         /\ i \in DOMAIN f => /\ P!Binding(i, m, f) \in BindingSet
                              /\ P!Binding(i, m, f).id = i /\ P!Binding(i, m, f) # None
BY DEF P!Binding, KnownProviders, P!Entry, BindingSet, ProvidersConstants

\* A complete binding stays what it is.
LEMMA BindingStays ==
  ASSUME ProvidersConstants, NEW b \in BindingSet, NEW f, b.id \in DOMAIN f
  PROVE  P!Binding(b.id, b.model, f) = b
BY DEF P!Binding, BindingSet, ProvidersConstants

LEMMA OrchestratorIs ==
  ASSUME ProvidersConstants, NEW c, NEW f, KnownProviders(f), DOMAIN f # {},
         c.roles = None \/ (c.roles # None /\ c.roles.orchestrator \in NamedSet)
  PROVE  /\ P!Orchestrator(c, f) \in BindingSet /\ P!Orchestrator(c, f).id \in DOMAIN f
         /\ (c.roles # None /\ c.roles.orchestrator \in BindingSet
                /\ c.roles.orchestrator.id \in DOMAIN f)
               => P!Orchestrator(c, f) = c.roles.orchestrator
<1>. DEFINE named == IF c.roles = None THEN None
                     ELSE P!Binding(c.roles.orchestrator.id, c.roles.orchestrator.model, f)
            anyone == IF c.active \in DOMAIN f THEN c.active ELSE CHOOSE i \in DOMAIN f : TRUE
            other == P!Binding(c.active, None, f)
            fallback == P!Binding(anyone, None, f)
<1>1. P!Orchestrator(c, f) = IF named # None THEN named ELSE IF other # None THEN other ELSE fallback
  BY FirstIs DEF P!Orchestrator
<1>2. anyone \in DOMAIN f
  OBVIOUS
<1>. HIDE DEF anyone
<1>3. fallback \in BindingSet /\ fallback.id \in DOMAIN f
  BY <1>2, BindingIs
<1>4. other # None => other \in BindingSet /\ other.id \in DOMAIN f
  BY BindingIs
<1>5. named # None => named \in BindingSet /\ named.id \in DOMAIN f
  <2>1. CASE c.roles # None
    <3>1. c.roles.orchestrator.model \in Model \cup {None}
      BY <2>1 DEF NamedSet
    <3>. QED  BY <2>1, <3>1, BindingIs
  <2>. QED  BY <2>1
<1>6. c.roles # None /\ c.roles.orchestrator \in BindingSet /\ c.roles.orchestrator.id \in DOMAIN f
         => named = c.roles.orchestrator /\ named # None
  BY BindingStays DEF ProvidersConstants
<1>. HIDE DEF named, other, fallback
<1>. QED  BY <1>1, <1>3, <1>4, <1>5, <1>6

LEMMA WorkersAre ==
  ASSUME ProvidersConstants, NEW c, NEW f, KnownProviders(f), DOMAIN f # {},
         c.roles = None \/ (c.roles # None /\ c.roles.workers \in Seq(NamedSet))
  PROVE  LET w == P!Workers(c, f)
         IN  /\ w \in Seq({b \in BindingSet : b.id \in DOMAIN f})
             /\ \A n \in 1..Len(w) : w[n] # P!Orchestrator(c, f)
             /\ \A m, n \in 1..Len(w) : w[m] = w[n] => m = n
<1>. DEFINE bound == IF c.roles = None THEN <<>>
                     ELSE [n \in 1..Len(c.roles.workers) |->
                             P!Binding(c.roles.workers[n].id, c.roles.workers[n].model, f)]
            Proper == {b \in BindingSet : b.id \in DOMAIN f}
            dropped == {None, P!Orchestrator(c, f)}
<1>1. P!Workers(c, f) = P!Deduplicated(bound, dropped)
  BY DEF P!Workers
<1>2. Len(bound) \in Nat /\ \A n \in 1..Len(bound) : bound[n] \in Proper \cup dropped
  <2>1. CASE c.roles = None
    BY <2>1
  <2>2. CASE c.roles # None
    <3>1. /\ c.roles.workers \in Seq(NamedSet) /\ Len(c.roles.workers) \in Nat
          /\ \A n \in 1..Len(c.roles.workers) : c.roles.workers[n] \in NamedSet
      BY <2>2
    <3>2. Len(bound) = Len(c.roles.workers)
      BY <2>2, <3>1
    <3>3. ASSUME NEW n \in 1..Len(bound) PROVE bound[n] \in Proper \cup dropped
      <4>1. c.roles.workers[n].model \in Model \cup {None}
        BY <3>1, <3>2, <3>3 DEF NamedSet
      <4>2. bound[n] = P!Binding(c.roles.workers[n].id, c.roles.workers[n].model, f)
        BY <2>2, <3>1, <3>2
      <4>. QED  BY <4>1, <4>2, BindingIs
    <3>. QED  BY <3>1, <3>2, <3>3
  <2>. QED  BY <2>1, <2>2
<1>. HIDE DEF bound, Proper
<1>3. LET left == P!Deduplicated(bound, dropped)
      IN  /\ left \in Seq(Proper)
          /\ \A n \in 1..Len(left) : left[n] \notin dropped
          /\ \A m, n \in 1..Len(left) : left[m] = left[n] => m = n
  <2>. HIDE DEF dropped
  <2>. QED  BY <1>2, KeptIs
<1>. QED  BY <1>1, <1>3 DEF Proper

LEMMA WorkersStay ==
  ASSUME ProvidersConstants, NEW c, NEW f, c.roles # None, BoundTo(c.roles, f),
         P!Orchestrator(c, f) = c.roles.orchestrator
  PROVE  P!Workers(c, f) = c.roles.workers
<1>. DEFINE w == c.roles.workers
            bound == [n \in 1..Len(w) |-> P!Binding(w[n].id, w[n].model, f)]
            dropped == {None, P!Orchestrator(c, f)}
<1>1. P!Workers(c, f) = P!Deduplicated(bound, dropped)
  BY DEF P!Workers
<1>2. /\ w \in Seq(BindingSet) /\ Len(w) \in Nat
      /\ \A n \in 1..Len(w) : /\ w[n] \in BindingSet /\ w[n].id \in DOMAIN f
                              /\ w[n] # c.roles.orchestrator /\ w[n] # None
      /\ \A m, n \in 1..Len(w) : w[m] = w[n] => m = n
  BY DEF BoundTo, ProvidersConstants
<1>3. bound = w
  <2>1. ASSUME NEW n \in 1..Len(w) PROVE P!Binding(w[n].id, w[n].model, f) = w[n]
    BY <1>2, BindingStays
  <2>2. w = [n \in 1..Len(w) |-> w[n]]
    BY <1>2
  <2>. QED  BY <2>1, <2>2, Zenon
<1>. HIDE DEF bound, w
<1>4. P!Deduplicated(w, dropped) = w
  <2>1. \A n \in 1..Len(w) : w[n] \notin dropped
    BY <1>2
  <2>. HIDE DEF dropped
  <2>. QED  BY <1>2, <2>1, KeptStays
<1>. QED  BY <1>1, <1>3, <1>4 DEF w

LEMMA AccountIs ==
  ASSUME ProvidersConstants, NEW f, KnownProviders(f)
  PROVE  /\ KnownProviders(P!WithAccount(f)) /\ DOMAIN f \subseteq DOMAIN P!WithAccount(f)
         /\ P!WithAccount(P!WithAccount(f)) = P!WithAccount(f)
<1>. DEFINE known == \E i \in DOMAIN f : TypeOf[i] = TypeOf[AccountId] /\ f[i].auth = "account"
            more == [i \in DOMAIN f \union {AccountId} |->
                       IF i = AccountId THEN [model |-> CHOOSE m \in Model : TRUE, auth |-> "account"]
                       ELSE f[i]]
<1>1. P!WithAccount(f) = IF ~cli \/ AccountId \in DOMAIN f \/ known THEN f ELSE more
  BY DEF P!WithAccount
<1>2. DOMAIN more = DOMAIN f \union {AccountId}
  OBVIOUS
<1>3. KnownProviders(more)
  BY DEF KnownProviders, P!Entry, ProvidersConstants
<1>. HIDE DEF known, more
<1>4. CASE ~cli \/ AccountId \in DOMAIN f \/ known
  BY <1>1, <1>4
<1>5. CASE ~(~cli \/ AccountId \in DOMAIN f \/ known)
  <2>1. P!WithAccount(f) = more
    BY <1>1, <1>5
  <2>2. P!WithAccount(more) = more
    BY <1>2 DEF P!WithAccount
  <2>. QED  BY <1>2, <1>3, <2>1, <2>2
<1>. QED  BY <1>4, <1>5

\* What is read is bound.
LEMMA NormalIs ==
  ASSUME ProvidersConstants, NEW c, Given(c), P!Acceptable(c)
  PROVE  /\ Configured(P!Normalized(c)) /\ P!Normalized(c).active = c.active
         /\ P!Normalized(c).providers = P!WithAccount(c.providers)
<1>. DEFINE f == P!WithAccount(c.providers)
            orchestrator == P!Orchestrator(c, f)
            workers == P!Workers(c, f)
<1>1. P!Normalized(c) = [active |-> c.active, providers |-> f, health |-> c.health,
                         roles |-> [orchestrator |-> orchestrator, workers |-> workers]]
  BY DEF P!Normalized
<1>2. KnownProviders(f) /\ P!WithAccount(f) = f /\ DOMAIN f # {}
  BY AccountIs DEF P!Acceptable, Given
<1>. HIDE DEF f
<1>3. orchestrator \in BindingSet /\ orchestrator.id \in DOMAIN f
  BY <1>2, OrchestratorIs DEF Given
<1>4. /\ workers \in Seq({b \in BindingSet : b.id \in DOMAIN f})
      /\ \A n \in 1..Len(workers) : workers[n] # orchestrator
      /\ \A m, n \in 1..Len(workers) : workers[m] = workers[n] => m = n
  BY <1>2, WorkersAre DEF Given
<1>. HIDE DEF orchestrator, workers
<1>5. workers \in Seq(BindingSet) /\ \A n \in 1..Len(workers) : workers[n].id \in DOMAIN f
  BY <1>4
<1>6. BoundTo([orchestrator |-> orchestrator, workers |-> workers], f)
  BY <1>3, <1>4, <1>5 DEF BoundTo
<1>7. c.active \in Id /\ c.health \in HealthSet
  BY DEF Given
<1>. QED  BY <1>1, <1>2, <1>6, <1>7 DEF Configured, f

\* Reading it again changes nothing.
LEMMA FixedIs ==
  ASSUME ProvidersConstants, NEW c, Configured(c)
  PROVE  P!Normalized(c) = c /\ Given(c) /\ P!Acceptable(c) /\ c.roles # None
<1>1. /\ c = [active |-> c.active, providers |-> c.providers, health |-> c.health, roles |-> c.roles]
      /\ c.active \in Id /\ c.health \in HealthSet /\ KnownProviders(c.providers)
      /\ P!WithAccount(c.providers) = c.providers /\ DOMAIN c.providers # {}
      /\ BoundTo(c.roles, c.providers)
  BY DEF Configured
<1>2. /\ c.roles = [orchestrator |-> c.roles.orchestrator, workers |-> c.roles.workers]
      /\ c.roles.orchestrator \in BindingSet /\ c.roles.workers \in Seq(BindingSet)
      /\ c.roles.orchestrator.id \in DOMAIN c.providers
  BY <1>1 DEF BoundTo
<1>3. c.roles # None
  BY <1>2 DEF ProvidersConstants
<1>4. c.roles.orchestrator \in NamedSet /\ c.roles.workers \in Seq(NamedSet)
  <2>1. BindingSet \subseteq NamedSet
    BY DEF BindingSet, NamedSet
  <2>. QED  BY <1>2, <2>1
<1>5. P!Orchestrator(c, c.providers) = c.roles.orchestrator
  BY <1>1, <1>2, <1>3, <1>4, OrchestratorIs
<1>6. P!Workers(c, c.providers) = c.roles.workers
  BY <1>1, <1>3, <1>5, WorkersStay
<1>7. P!Normalized(c) = [active |-> c.active, providers |-> c.providers, health |-> c.health,
                         roles |-> [orchestrator |-> c.roles.orchestrator, workers |-> c.roles.workers]]
  BY <1>1, <1>5, <1>6 DEF P!Normalized
<1>8. P!Normalized(c) = c
  BY <1>1, <1>2, <1>7
<1>. QED  BY <1>1, <1>3, <1>4, <1>8 DEF Given, P!Acceptable

Catalogue == [type : P!Type, models : SUBSET Model, overtaken : BOOLEAN]

ProvidersTypes ==
    /\ Configured(cfg) /\ runtime \subseteq Model
    /\ check \in [Validator -> [type : P!Type \cup {None}]]
    /\ jobs \in [Pulled -> {None, "queued", "running", "done", "error"}]
    /\ pulls \in [Pulled -> [queued : Nat, running : Nat]]

\* What is installed, of the file as it is.
Listed(t) ==
    IF t = LocalType THEN runtime
    ELSE {cfg.providers[i].model : i \in {i \in DOMAIN cfg.providers : TypeOf[i] = t}}

Shows(t, m) == m.overtaken \/ m.models = Listed(t)

\* A catalogue that is being fetched is overtaken, too, or current.
CataloguesInv ==
    /\ cache \in [P!Type -> {None} \cup Catalogue]
    /\ fetch \in [Reader -> {P!Idle} \cup Catalogue]
    /\ \A t \in P!Type : cache[t] = None \/ Shows(t, cache[t])
    /\ \A r \in Reader, t \in P!Type : fetch[r].type = t => Shows(t, fetch[r])

ProvidersInv == ProvidersTypes /\ CataloguesInv /\ P!JobsAreTrue

LEMMA ReadIs ==
  ASSUME ProvidersConstants
  PROVE  Configured(cfg) => P!Config = cfg /\ \A t \in P!Type : P!Installed(t) = Listed(t)
<1>1. ASSUME Configured(cfg) PROVE P!Config = cfg
  BY <1>1, FixedIs DEF P!Config
<1>. QED  BY <1>1, Zenon DEF P!Installed, Listed

LEMMA ConfiguredStays ==
  ASSUME NEW c, Configured(c), cfg' = c, cli' = cli
  PROVE  Configured(cfg)'
BY Zenon DEF Configured, P!WithAccount, BoundTo, KnownProviders

\* Nothing but a change of what is installed, and of those types, makes a catalogue stale.
LEMMA CataloguesStay ==
  ASSUME CataloguesInv, UNCHANGED <<cache, fetch>>, \A t \in P!Type : Listed(t)' = Listed(t)
  PROVE  CataloguesInv'
<1>1. \A t \in P!Type : \A m : Shows(t, m) => (m.overtaken \/ m.models = Listed(t)')
  BY Zenon DEF Shows
<1>2. \A t \in P!Type : cache'[t] = None \/ (cache'[t].overtaken \/ cache'[t].models = Listed(t)')
  BY <1>1, Zenon DEF CataloguesInv
<1>3. \A r \in Reader, t \in P!Type :
         fetch'[r].type = t => (fetch'[r].overtaken \/ fetch'[r].models = Listed(t)')
  BY <1>1, Zenon DEF CataloguesInv
<1>. QED  BY <1>2, <1>3, Zenon DEF CataloguesInv, Shows, P!Idle, P!Type, Catalogue

LEMMA InvalidateKeeps ==
  ASSUME ProvidersConstants, CataloguesInv, NEW types, P!Invalidate(types), None \notin types,
         \A t \in P!Type \ types : Listed(t)' = Listed(t)
  PROVE  CataloguesInv'
<1>1. /\ cache' = [t \in P!Type |-> IF t \in types THEN None ELSE cache[t]]
      /\ fetch' = [r \in Reader |-> IF fetch[r].type \in types THEN [fetch[r] EXCEPT !.overtaken = TRUE]
                                    ELSE fetch[r]]
  BY Zenon DEF P!Invalidate
<1>2. cache' \in [P!Type -> {None} \cup Catalogue]
  BY <1>1 DEF CataloguesInv
<1>3. \A t \in P!Type : cache'[t] = None \/ Shows(t, cache[t])'
  <2>. SUFFICES ASSUME NEW t \in P!Type, cache'[t] # None
       PROVE  cache'[t].overtaken \/ cache'[t].models = Listed(t)'
    BY Zenon DEF Shows
  <2>1. t \notin types /\ cache'[t] = cache[t] /\ Listed(t)' = Listed(t)
    BY <1>1
  <2>. QED  BY <2>1, Zenon DEF CataloguesInv, Shows
<1>4. ASSUME NEW r \in Reader
      PROVE  /\ fetch'[r] \in {P!Idle} \cup Catalogue
             /\ \A t \in P!Type :
                   fetch'[r].type = t => (fetch'[r].overtaken \/ fetch'[r].models = Listed(t)')
  <2>1. CASE fetch[r].type \in types
    <3>1. fetch[r] \in Catalogue
      BY <2>1 DEF CataloguesInv, P!Idle
    <3>2. fetch'[r] = [fetch[r] EXCEPT !.overtaken = TRUE]
      BY <1>1, <2>1
    <3>3. fetch'[r] \in Catalogue /\ fetch'[r].overtaken
      BY <3>1, <3>2 DEF Catalogue
    <3>. QED  BY <3>3, Zenon
  <2>2. CASE fetch[r].type \notin types
    <3>1. fetch'[r] = fetch[r] /\ fetch[r] \in {P!Idle} \cup Catalogue
      BY <1>1, <2>2 DEF CataloguesInv
    <3>2. ASSUME NEW t \in P!Type, fetch[r].type = t
          PROVE  fetch[r].overtaken \/ fetch[r].models = Listed(t)'
      <4>1. Listed(t)' = Listed(t) /\ Shows(t, fetch[r])
        BY <2>2, <3>2, Zenon DEF CataloguesInv
      <4>. QED  BY <4>1, Zenon DEF Shows
    <3>. QED  BY <3>1, <3>2, Zenon
  <2>. QED  BY <2>1, <2>2
<1>5. fetch' \in [Reader -> {P!Idle} \cup Catalogue]
  <2>1. fetch' = [r \in Reader |-> fetch'[r]]
    BY <1>1
  <2>. QED  BY <1>4, <2>1
<1>. QED  BY <1>2, <1>3, <1>4, <1>5, Zenon DEF CataloguesInv, Shows, P!Idle, P!Type, Catalogue

LEMMA JobsStay ==
  ASSUME P!JobsAreTrue, UNCHANGED <<jobs, pulls, runtime>>
  PROVE  P!JobsAreTrue'
BY Zenon DEF P!JobsAreTrue

\* set_config, of anything that may be put.
LEMMA StoreStep ==
  ASSUME ProvidersConstants, ProvidersInv, NEW c, Given(c), P!Store(c)
  PROVE  ProvidersInv'
<1>1. /\ P!Acceptable(c) /\ cfg' = P!Normalized(c)
      /\ P!Invalidate({TypeOf[i] : i \in DOMAIN P!Config.providers \union DOMAIN cfg'.providers})
      /\ UNCHANGED <<cli, runtime, check, jobs, pulls>>
  BY Zenon DEF P!Store
<1>2. Configured(cfg)'
  BY <1>1, NormalIs, ConfiguredStays
<1>3. P!Config = cfg
  BY ReadIs DEF ProvidersInv, ProvidersTypes
<1>4. ProvidersTypes'
  BY <1>1, <1>2 DEF ProvidersInv, ProvidersTypes, P!Type
<1>. DEFINE types == {TypeOf[i] : i \in DOMAIN cfg.providers \union DOMAIN cfg'.providers}
<1>5. None \notin types
  <2>1. DOMAIN cfg.providers \subseteq Id /\ DOMAIN cfg'.providers \subseteq Id
    BY <1>2 DEF ProvidersInv, ProvidersTypes, Configured, KnownProviders
  <2>. QED  BY <2>1 DEF ProvidersConstants, P!Type
<1>6. ASSUME NEW t \in P!Type \ types PROVE Listed(t)' = Listed(t)
  <2>1. CASE t = LocalType
    BY <1>1, <2>1 DEF Listed
  <2>2. CASE t # LocalType
    <3>1. {i \in DOMAIN cfg.providers : TypeOf[i] = t} = {} /\ {i \in DOMAIN cfg'.providers : TypeOf[i] = t} = {}
      BY <1>6
    <3>. QED  BY <2>2, <3>1 DEF Listed
  <2>. QED  BY <2>1, <2>2
<1>7. CataloguesInv'
  <2>1. P!Invalidate(types)
    BY <1>1, <1>3
  <2>. HIDE DEF types
  <2>. QED  BY <1>5, <1>6, <2>1, InvalidateKeeps DEF ProvidersInv
<1>8. P!JobsAreTrue'
  BY <1>1, JobsStay DEF ProvidersInv
<1>. QED  BY <1>4, <1>7, <1>8 DEF ProvidersInv

LEMMA PlainIsGiven ==
  ASSUME ProvidersConstants, NEW i \in Id, NEW f, KnownProviders(f)
  PROVE  Given(P!Plain(i, f))
BY DEF P!Plain, Given, HealthSet

\* The providers, whatever is put in, taken out, or given another way to log in.
LEMMA ProvidersAre ==
  ASSUME ProvidersInv, ProvidersConstants
  PROVE  /\ P!Config = cfg /\ Given(cfg) /\ P!Acceptable(cfg) /\ Configured(cfg)
         /\ KnownProviders(cfg.providers) /\ cfg.active \in Id
         /\ cfg = [active |-> cfg.active, providers |-> cfg.providers, health |-> cfg.health,
                   roles |-> cfg.roles]
<1>1. Configured(cfg)
  BY DEF ProvidersInv, ProvidersTypes
<1>. QED  BY <1>1, ReadIs, FixedIs DEF Configured

\* Files with another active provider, a validation, or one entry changed.
LEMMA EditIs ==
  ASSUME ProvidersConstants, NEW c, Given(c), DOMAIN c = {"active", "providers", "health", "roles"},
         NEW i \in Id, NEW h \in HealthSet
  PROVE  /\ Given([c EXCEPT !.active = i, !.health = h])
         /\ [c EXCEPT !.active = i, !.health = h].providers = c.providers
         /\ [c EXCEPT !.active = i, !.health = h].roles = c.roles
<1>. DEFINE d == [c EXCEPT !.active = i, !.health = h]
<1>1. d.active = i /\ d.health = h /\ d.providers = c.providers /\ d.roles = c.roles
  OBVIOUS
<1>. QED  BY <1>1, Zenon DEF Given

LEMMA AuthIs ==
  ASSUME ProvidersConstants, NEW f, KnownProviders(f),
         NEW i \in DOMAIN f, NEW auth \in {"none", "account", "api_key"}
  PROVE  KnownProviders([f EXCEPT ![i].auth = auth])
<1>. DEFINE g == [f EXCEPT ![i].auth = auth]
<1>1. DOMAIN g = DOMAIN f /\ \A j \in DOMAIN f : j # i => g[j] = f[j]
  OBVIOUS
<1>2. g[i] = [f[i] EXCEPT !.auth = auth]
  OBVIOUS
<1>3. g[i] \in P!Entry
  BY <1>2 DEF KnownProviders, P!Entry
<1>. HIDE DEF g
<1>4. KnownProviders(g)
  BY <1>1, <1>3 DEF KnownProviders
<1>. QED  BY <1>4 DEF g

LEMMA PutStep ==
  ASSUME ProvidersConstants, ProvidersInv, P!Put
  PROVE  ProvidersInv'
BY StoreStep DEF P!Put, ProvidersConstants

LEMMA AddStep ==
  ASSUME ProvidersConstants, ProvidersInv, NEW i \in Id, NEW m \in Model, P!AddProvider(i, m)
  PROVE  ProvidersInv'
<1>. DEFINE f == [j \in DOMAIN cfg.providers \union {i} |->
                    IF j = i THEN [model |-> m, auth |-> "none"] ELSE cfg.providers[j]]
<1>1. P!Store(P!Plain(IF cfg.active \in DOMAIN f THEN cfg.active ELSE i, f))
  BY ProvidersAre, Zenon DEF P!AddProvider
<1>2. KnownProviders(f)
  BY ProvidersAre DEF KnownProviders, P!Entry
<1>. HIDE DEF f
<1>. QED  BY <1>1, <1>2, PlainIsGiven, ProvidersAre, StoreStep

LEMMA RemoveStep ==
  ASSUME ProvidersConstants, ProvidersInv, NEW i \in Id, P!RemoveProvider(i)
  PROVE  ProvidersInv'
<1>. DEFINE rest == [j \in DOMAIN cfg.providers \ {i} |-> cfg.providers[j]]
<1>1. PICK a \in DOMAIN rest : P!Store(P!Plain(IF cfg.active = i THEN a ELSE cfg.active, rest))
  <2>1. P!Restrict(P!Config.providers, DOMAIN P!Config.providers \ {i}) = rest
    BY ProvidersAre, Zenon DEF P!Restrict
  <2>. QED  BY <2>1, ProvidersAre, Zenon DEF P!RemoveProvider
<1>2. KnownProviders(rest)
  BY ProvidersAre DEF KnownProviders
<1>3. a \in Id
  BY <1>2 DEF KnownProviders
<1>. HIDE DEF rest
<1>. QED  BY <1>1, <1>2, <1>3, PlainIsGiven, ProvidersAre, StoreStep

LEMMA RefreshStep ==
  ASSUME ProvidersConstants, ProvidersInv, NEW i \in Id, P!Refresh(i)
  PROVE  ProvidersInv'
<1>. DEFINE f == [cfg.providers EXCEPT ![i].auth = "account"]
            d == [active |-> i, providers |-> f, health |-> cfg.health, roles |-> cfg.roles]
<1>1. i \in DOMAIN cfg.providers /\ P!Store([cfg EXCEPT !.active = i, !.providers = [@ EXCEPT ![i].auth = "account"]])
  BY ProvidersAre, Zenon DEF P!Refresh
<1>2. [cfg EXCEPT !.active = i, !.providers = [@ EXCEPT ![i].auth = "account"]] = d
  <2>1. cfg = [active |-> cfg.active, providers |-> cfg.providers, health |-> cfg.health,
               roles |-> cfg.roles]
    BY ProvidersAre
  <2>2. ASSUME NEW c, NEW p, NEW h, NEW a, NEW g, NEW e,
               c = [active |-> p, providers |-> a, health |-> h, roles |-> cfg.roles],
               e = [c EXCEPT !.active = i, !.providers = g]
        PROVE  e = [active |-> i, providers |-> g, health |-> h, roles |-> cfg.roles]
    BY <2>2
  <2>. QED  BY <2>1, <2>2, Zenon
<1>3. KnownProviders(f)
  BY <1>1, ProvidersAre, AuthIs
<1>. HIDE DEF f
<1>4. Given(d)
  <2>1. d.active = i /\ d.providers = f /\ d.health = cfg.health /\ d.roles = cfg.roles
    OBVIOUS
  <2>. HIDE DEF d
  <2>. QED  BY <1>3, <2>1, ProvidersAre, Zenon DEF Given
<1>. QED  BY <1>1, <1>2, <1>4, StoreStep, Zenon

LEMMA LogoutStep ==
  ASSUME ProvidersConstants, ProvidersInv, NEW i \in Id, P!Logout(i)
  PROVE  ProvidersInv'
<1>. DEFINE f == [cfg.providers EXCEPT ![i].auth = "none"]
            d == [active |-> cfg.active, providers |-> f, health |-> cfg.health, roles |-> cfg.roles]
<1>1. i \in DOMAIN cfg.providers /\ P!Store([cfg EXCEPT !.providers[i].auth = "none"])
  BY ProvidersAre, Zenon DEF P!Logout
<1>2. [cfg EXCEPT !.providers[i].auth = "none"] = d
  <2>1. cfg = [active |-> cfg.active, providers |-> cfg.providers, health |-> cfg.health,
               roles |-> cfg.roles]
    BY ProvidersAre
  <2>. DEFINE b == cfg.providers
              k == [active |-> cfg.active, providers |-> b, health |-> cfg.health, roles |-> cfg.roles]
  <2>2. [k EXCEPT !.providers[i].auth = "none"]
           = [active |-> cfg.active, providers |-> [b EXCEPT ![i].auth = "none"], health |-> cfg.health,
              roles |-> cfg.roles]
    OBVIOUS
  <2>. QED  BY <2>1, <2>2, Zenon
<1>3. KnownProviders(f)
  BY <1>1, ProvidersAre, AuthIs
<1>. HIDE DEF f
<1>4. Given(d)
  <2>1. d.active = cfg.active /\ d.providers = f /\ d.health = cfg.health /\ d.roles = cfg.roles
    OBVIOUS
  <2>. HIDE DEF d
  <2>. QED  BY <1>3, <2>1, ProvidersAre, Zenon DEF Given
<1>. QED  BY <1>1, <1>2, <1>4, StoreStep, Zenon

\* The file is written again as it was, and nothing installed has changed.
LEMMA SameFile ==
  ASSUME ProvidersConstants, ProvidersInv, cfg' = P!Config, UNCHANGED <<cli, runtime>>
  PROVE  Configured(cfg)' /\ \A t \in P!Type : Listed(t)' = Listed(t)
<1>1. cfg' = cfg /\ Configured(cfg)
  BY ProvidersAre
<1>2. Configured(cfg)'
  BY <1>1, ConfiguredStays
<1>. QED  BY <1>1, <1>2, Zenon DEF Listed

LEMMA StartCatalogStep ==
  ASSUME ProvidersConstants, ProvidersInv, NEW r \in Reader, NEW t \in P!Type, P!StartCatalog(r, t)
  PROVE  ProvidersInv'
<1>1. /\ cfg' = P!Config
      /\ fetch' = [fetch EXCEPT ![r] = [type |-> t, models |-> P!Installed(t), overtaken |-> FALSE]]
      /\ UNCHANGED <<cli, runtime, cache, check, jobs, pulls, edits>>
  BY Zenon DEF P!StartCatalog
<1>2. Configured(cfg)' /\ \A q \in P!Type : Listed(q)' = Listed(q)
  BY <1>1, SameFile
<1>3. P!Installed(t) = Listed(t) /\ Listed(t) \in SUBSET Model
  <2>1. P!Installed(t) = Listed(t)
    BY ReadIs, ProvidersAre
  <2>2. runtime \subseteq Model /\ \A i \in DOMAIN cfg.providers : cfg.providers[i].model \in Model
    BY ProvidersAre DEF ProvidersInv, ProvidersTypes, KnownProviders, P!Entry
  <2>. QED  BY <2>1, <2>2 DEF Listed
<1>. DEFINE m == [type |-> t, models |-> Listed(t), overtaken |-> FALSE]
<1>4. m \in Catalogue /\ m.type = t /\ Shows(t, m)
  BY <1>3 DEF Catalogue, Shows
<1>. HIDE DEF m
<1>5. /\ fetch' \in [Reader -> {P!Idle} \cup Catalogue]
      /\ fetch'[r] = m /\ \A q \in Reader \ {r} : fetch'[q] = fetch[q]
  <2>1. fetch' = [fetch EXCEPT ![r] = m]
    BY <1>1, <1>3 DEF m
  <2>. QED  BY <1>4, <2>1 DEF ProvidersInv, CataloguesInv
<1>6. ASSUME NEW q \in Reader, NEW s \in P!Type, fetch'[q].type = s
      PROVE  fetch'[q].overtaken \/ fetch'[q].models = Listed(s)'
  <2>1. Listed(s)' = Listed(s)
    BY <1>2
  <2>2. CASE q = r
    BY <1>4, <1>5, <1>6, <2>1, <2>2, Zenon DEF Shows
  <2>3. CASE q # r
    BY <1>5, <1>6, <2>1, <2>3, Zenon DEF ProvidersInv, CataloguesInv, Shows
  <2>. QED  BY <2>2, <2>3
<1>7. \A s \in P!Type : cache'[s] = None \/ (cache'[s].overtaken \/ cache'[s].models = Listed(s)')
  BY <1>1, <1>2, Zenon DEF ProvidersInv, CataloguesInv, Shows
<1>8. CataloguesInv'
  <2>1. cache' \in [P!Type -> {None} \cup Catalogue]
    BY <1>1, Zenon DEF ProvidersInv, CataloguesInv
  <2>. QED  BY <1>5, <1>6, <1>7, <2>1, Zenon DEF CataloguesInv, Shows, P!Idle, P!Type, Catalogue
<1>9. ProvidersTypes'
  BY <1>1, <1>2 DEF ProvidersInv, ProvidersTypes, P!Type
<1>. QED  BY <1>1, <1>8, <1>9, JobsStay DEF ProvidersInv

LEMMA EndCatalogStep ==
  ASSUME ProvidersConstants, ProvidersInv, NEW r \in Reader, P!EndCatalog(r)
  PROVE  ProvidersInv'
<1>1. /\ fetch[r] # P!Idle
      /\ cache' = [cache EXCEPT ![fetch[r].type] = fetch[r]]
      /\ fetch' = [fetch EXCEPT ![r] = P!Idle]
      /\ UNCHANGED <<cfg, cli, runtime, check, jobs, pulls, edits>>
  BY Zenon DEF P!EndCatalog
<1>2. cfg' = P!Config
  BY <1>1, ProvidersAre
<1>3. Configured(cfg)' /\ \A q \in P!Type : Listed(q)' = Listed(q)
  BY <1>1, <1>2, SameFile
<1>4. /\ cache \in [P!Type -> {None} \cup Catalogue] /\ fetch \in [Reader -> {P!Idle} \cup Catalogue]
      /\ fetch[r] \in Catalogue /\ fetch[r].type \in P!Type /\ Shows(fetch[r].type, fetch[r])
  BY <1>1 DEF ProvidersInv, CataloguesInv, Catalogue
<1>5. cache' \in [P!Type -> {None} \cup Catalogue] /\ fetch' \in [Reader -> {P!Idle} \cup Catalogue]
  BY <1>1, <1>4
<1>6. ASSUME NEW s \in P!Type, cache'[s] # None
      PROVE  cache'[s].overtaken \/ cache'[s].models = Listed(s)'
  <2>1. Listed(s)' = Listed(s)
    BY <1>3
  <2>2. CASE s = fetch[r].type
    <3>1. cache'[s] = fetch[r]
      BY <1>1, <1>4, <2>2
    <3>. QED  BY <1>4, <2>1, <2>2, <3>1, Zenon DEF Shows
  <2>3. CASE s # fetch[r].type
    <3>1. cache'[s] = cache[s]
      BY <1>1, <1>4, <2>3
    <3>. QED  BY <1>6, <2>1, <3>1, Zenon DEF ProvidersInv, CataloguesInv, Shows
  <2>. QED  BY <2>2, <2>3
<1>7. ASSUME NEW q \in Reader, NEW s \in P!Type, fetch'[q].type = s
      PROVE  fetch'[q].overtaken \/ fetch'[q].models = Listed(s)'
  <2>1. q # r /\ fetch'[q] = fetch[q]
    <3>1. P!Idle.type # s
      BY DEF P!Idle, ProvidersConstants
    <3>. QED  BY <1>1, <1>4, <1>7, <3>1
  <2>2. Listed(s)' = Listed(s)
    BY <1>3
  <2>. QED  BY <1>7, <2>1, <2>2, Zenon DEF ProvidersInv, CataloguesInv, Shows
<1>8. CataloguesInv'
  BY <1>5, <1>6, <1>7, Zenon DEF CataloguesInv, Shows, P!Idle, P!Type, Catalogue
<1>9. ProvidersTypes'
  BY <1>1, <1>3 DEF ProvidersInv, ProvidersTypes, P!Type
<1>. QED  BY <1>1, <1>8, <1>9, JobsStay DEF ProvidersInv

LEMMA ExpireStep ==
  ASSUME ProvidersConstants, ProvidersInv, NEW t \in P!Type, P!Expire(t)
  PROVE  ProvidersInv'
<1>1. /\ cache' = [cache EXCEPT ![t] = None]
      /\ UNCHANGED <<cfg, cli, runtime, fetch, check, jobs, pulls, edits>>
  BY Zenon DEF P!Expire
<1>2. cfg' = P!Config
  BY <1>1, ProvidersAre
<1>3. Configured(cfg)' /\ \A q \in P!Type : Listed(q)' = Listed(q)
  BY <1>1, <1>2, SameFile
<1>4. cache' \in [P!Type -> {None} \cup Catalogue] /\ \A s \in P!Type : cache'[s] = None \/ cache'[s] = cache[s]
  BY <1>1 DEF ProvidersInv, CataloguesInv
<1>5. \A s \in P!Type : cache'[s] = None \/ (cache'[s].overtaken \/ cache'[s].models = Listed(s)')
  BY <1>3, <1>4, Zenon DEF ProvidersInv, CataloguesInv, Shows
<1>6. \A q \in Reader, s \in P!Type :
         fetch'[q].type = s => (fetch'[q].overtaken \/ fetch'[q].models = Listed(s)')
  BY <1>1, <1>3, Zenon DEF ProvidersInv, CataloguesInv, Shows
<1>7. CataloguesInv'
  <2>1. fetch' \in [Reader -> {P!Idle} \cup Catalogue]
    BY <1>1, Zenon DEF ProvidersInv, CataloguesInv
  <2>. QED  BY <1>4, <1>5, <1>6, <2>1, Zenon DEF CataloguesInv, Shows, P!Idle, P!Type, Catalogue
<1>8. ProvidersTypes'
  BY <1>1, <1>3 DEF ProvidersInv, ProvidersTypes, P!Type
<1>. QED  BY <1>1, <1>7, <1>8, JobsStay DEF ProvidersInv

LEMMA StartValidationStep ==
  ASSUME ProvidersConstants, ProvidersInv, NEW v \in Validator, NEW t \in P!Type,
         P!StartValidation(v, t)
  PROVE  ProvidersInv'
<1>1. /\ check' = [check EXCEPT ![v] = [type |-> t]] /\ P!Invalidate({t})
      /\ UNCHANGED <<cfg, cli, runtime, jobs, pulls, edits>>
  BY Zenon DEF P!StartValidation
<1>2. cfg' = P!Config
  BY <1>1, ProvidersAre
<1>3. Configured(cfg)' /\ \A q \in P!Type : Listed(q)' = Listed(q)
  BY <1>1, <1>2, SameFile
<1>4. None \notin {t}
  BY DEF ProvidersConstants
<1>5. CataloguesInv'
  BY <1>1, <1>3, <1>4, InvalidateKeeps DEF ProvidersInv
<1>6. ProvidersTypes'
  BY <1>1, <1>3 DEF ProvidersInv, ProvidersTypes, P!Type
<1>. QED  BY <1>1, <1>5, <1>6, JobsStay DEF ProvidersInv

LEMMA EndValidationStep ==
  ASSUME ProvidersConstants, ProvidersInv, NEW v \in Validator, NEW ok \in BOOLEAN,
         P!EndValidation(v, ok)
  PROVE  ProvidersInv'
<1>1. /\ check' = [check EXCEPT ![v] = P!Idle]
      /\ UNCHANGED <<cli, runtime, cache, fetch, jobs, pulls, edits>>
      /\ cfg' = cfg \/ cfg' \in P!Validated(cfg, check[v].type, ok)
  BY ProvidersAre, Zenon DEF P!EndValidation
<1>2. cfg' = cfg \/ \E i \in Id : cfg' = [cfg EXCEPT !.active = i, !.health = [of |-> i, valid |-> ok]]
  <2>1. DOMAIN cfg.providers \subseteq Id
    BY ProvidersAre DEF KnownProviders
  <2>. QED  BY <1>1, <2>1 DEF P!Validated
<1>3. /\ Configured(cfg)' /\ cfg'.providers = cfg.providers
  <2>1. CASE cfg' = cfg
    BY <1>1, <2>1, ProvidersAre, ConfiguredStays
  <2>2. ASSUME NEW i \in Id, cfg' = [cfg EXCEPT !.active = i, !.health = [of |-> i, valid |-> ok]]
        PROVE  Configured(cfg)' /\ cfg'.providers = cfg.providers
    <3>. DEFINE h == [of |-> i, valid |-> ok]
    <3>1. h \in HealthSet
      BY DEF HealthSet
    <3>. HIDE DEF h
    <3>. DEFINE k == [active |-> i, providers |-> cfg.providers, health |-> h, roles |-> cfg.roles]
    <3>2. cfg' = k
      <4>1. cfg = [active |-> cfg.active, providers |-> cfg.providers, health |-> cfg.health,
                   roles |-> cfg.roles]
        BY ProvidersAre
      <4>2. cfg' = [cfg EXCEPT !.active = i, !.health = h]
        BY <2>2 DEF h
      <4>. QED  BY <4>1, <4>2
    <3>3. k.active = i /\ k.providers = cfg.providers /\ k.health = h /\ k.roles = cfg.roles
      OBVIOUS
    <3>4. k = [active |-> k.active, providers |-> k.providers, health |-> k.health, roles |-> k.roles]
      OBVIOUS
    <3>. HIDE DEF k
    <3>5. Configured(k)
      BY <3>1, <3>3, <3>4, ProvidersAre, Zenon DEF Configured
    <3>. QED  BY <1>1, <3>2, <3>3, <3>5, ConfiguredStays
  <2>. QED  BY <1>2, <2>1, <2>2
<1>4. \A q \in P!Type : Listed(q)' = Listed(q)
  BY <1>1, <1>3, Zenon DEF Listed
<1>5. CataloguesInv'
  BY <1>1, <1>4, CataloguesStay DEF ProvidersInv
<1>6. ProvidersTypes'
  BY <1>1, <1>3 DEF ProvidersInv, ProvidersTypes, P!Type, P!Idle
<1>. QED  BY <1>1, <1>5, <1>6, JobsStay DEF ProvidersInv

\* An installation changes its own record.
LEMMA InstallStep ==
  ASSUME ProvidersConstants, ProvidersInv, NEW m \in Pulled, P!Install(m)
  PROVE  ProvidersInv'
<1>1. /\ jobs' = [jobs EXCEPT ![m] = "queued"]
      /\ pulls' = [pulls EXCEPT ![m].queued = @ + 1]
      /\ UNCHANGED <<cfg, cli, runtime, cache, fetch, check, edits>>
  BY Zenon DEF P!Install
<1>2. cfg' = P!Config
  BY <1>1, ProvidersAre
<1>3. Configured(cfg)' /\ \A q \in P!Type : Listed(q)' = Listed(q)
  BY <1>1, <1>2, SameFile
<1>4. /\ jobs' \in [Pulled -> {None, "queued", "running", "done", "error"}]
      /\ pulls' \in [Pulled -> [queued : Nat, running : Nat]]
      /\ jobs'[m] = "queued" /\ pulls'[m].queued > 0 /\ pulls'[m].running >= 0
      /\ \A q \in Pulled \ {m} : jobs'[q] = jobs[q] /\ pulls'[q] = pulls[q]
  BY <1>1 DEF ProvidersInv, ProvidersTypes
<1>5. P!JobsAreTrue'
  BY <1>1, <1>4 DEF ProvidersInv, ProvidersTypes, P!JobsAreTrue
<1>6. CataloguesInv'
  BY <1>1, <1>3, CataloguesStay DEF ProvidersInv
<1>7. ProvidersTypes'
  BY <1>1, <1>3, <1>4 DEF ProvidersInv, ProvidersTypes, P!Type
<1>. QED  BY <1>5, <1>6, <1>7 DEF ProvidersInv

LEMMA StartPullStep ==
  ASSUME ProvidersConstants, ProvidersInv, NEW m \in Pulled, P!StartPull(m)
  PROVE  ProvidersInv'
<1>1. /\ pulls[m].queued > 0 /\ jobs' = [jobs EXCEPT ![m] = "running"]
      /\ pulls' = [pulls EXCEPT ![m].queued = @ - 1, ![m].running = @ + 1]
      /\ UNCHANGED <<cfg, cli, runtime, cache, fetch, check, edits>>
  BY Zenon DEF P!StartPull
<1>2. cfg' = P!Config
  BY <1>1, ProvidersAre
<1>3. Configured(cfg)' /\ \A q \in P!Type : Listed(q)' = Listed(q)
  BY <1>1, <1>2, SameFile
<1>4. /\ jobs' \in [Pulled -> {None, "queued", "running", "done", "error"}]
      /\ pulls' \in [Pulled -> [queued : Nat, running : Nat]]
      /\ jobs'[m] = "running" /\ pulls'[m].running > 0 /\ pulls'[m].queued >= 0
      /\ \A q \in Pulled \ {m} : jobs'[q] = jobs[q] /\ pulls'[q] = pulls[q]
  BY <1>1 DEF ProvidersInv, ProvidersTypes
<1>5. P!JobsAreTrue'
  BY <1>1, <1>4 DEF ProvidersInv, ProvidersTypes, P!JobsAreTrue
<1>6. CataloguesInv'
  BY <1>1, <1>3, CataloguesStay DEF ProvidersInv
<1>7. ProvidersTypes'
  BY <1>1, <1>3, <1>4 DEF ProvidersInv, ProvidersTypes, P!Type
<1>. QED  BY <1>5, <1>6, <1>7 DEF ProvidersInv

LEMMA EndPullStep ==
  ASSUME ProvidersConstants, ProvidersInv, NEW m \in Pulled, P!EndPull(m)
  PROVE  ProvidersInv'
<1>. DEFINE Done == /\ runtime' = runtime \union {m} /\ jobs' = [jobs EXCEPT ![m] = "done"]
                    /\ P!Invalidate({LocalType})
            Failed == jobs' = [jobs EXCEPT ![m] = "error"] /\ UNCHANGED <<runtime, cache, fetch>>
<1>1. /\ pulls[m].running > 0 /\ pulls' = [pulls EXCEPT ![m].running = @ - 1]
      /\ UNCHANGED <<cfg, cli, check, edits>>
      /\ Done \/ Failed
  BY Zenon DEF P!EndPull
<1>2. Configured(cfg)'
  BY <1>1, ProvidersAre, ConfiguredStays
<1>3. /\ pulls' \in [Pulled -> [queued : Nat, running : Nat]]
      /\ \A q \in Pulled \ {m} : pulls'[q] = pulls[q]
  BY <1>1 DEF ProvidersInv, ProvidersTypes
<1>4. ASSUME Done PROVE ProvidersInv'
  <2>1. \A t \in P!Type \ {LocalType} : Listed(t)' = Listed(t)
    BY <1>1, Zenon DEF Listed
  <2>2. None \notin {LocalType}
    BY DEF ProvidersConstants
  <2>3. CataloguesInv'
    BY <1>4, <2>1, <2>2, InvalidateKeeps DEF ProvidersInv
  <2>4. /\ jobs' \in [Pulled -> {None, "queued", "running", "done", "error"}]
        /\ jobs'[m] = "done" /\ m \in runtime' /\ runtime \subseteq runtime' /\ runtime' \subseteq Model
        /\ \A q \in Pulled \ {m} : jobs'[q] = jobs[q]
    BY <1>4 DEF ProvidersInv, ProvidersTypes, ProvidersConstants
  <2>5. P!JobsAreTrue'
    BY <1>3, <2>4 DEF ProvidersInv, ProvidersTypes, P!JobsAreTrue
  <2>6. ProvidersTypes'
    BY <1>1, <1>2, <1>3, <2>4 DEF ProvidersInv, ProvidersTypes, P!Type
  <2>. QED  BY <2>3, <2>5, <2>6 DEF ProvidersInv
<1>5. ASSUME Failed PROVE ProvidersInv'
  <2>1. \A t \in P!Type : Listed(t)' = Listed(t)
    BY <1>1, <1>5, Zenon DEF Listed
  <2>2. CataloguesInv'
    BY <1>5, <2>1, CataloguesStay DEF ProvidersInv
  <2>3. /\ jobs' \in [Pulled -> {None, "queued", "running", "done", "error"}]
        /\ jobs'[m] = "error" /\ \A q \in Pulled \ {m} : jobs'[q] = jobs[q]
    BY <1>5 DEF ProvidersInv, ProvidersTypes
  <2>4. P!JobsAreTrue'
    BY <1>3, <1>5, <2>3 DEF ProvidersInv, ProvidersTypes, P!JobsAreTrue
  <2>5. ProvidersTypes'
    BY <1>1, <1>2, <1>3, <1>5, <2>3 DEF ProvidersInv, ProvidersTypes, P!Type
  <2>. QED  BY <2>2, <2>4, <2>5 DEF ProvidersInv
<1>. HIDE DEF Done, Failed
<1>. QED  BY <1>1, <1>4, <1>5

\* After a start nothing is cached, asked, or installed.
LEMMA Empty ==
  ASSUME ProvidersConstants, Configured(cfg), runtime \subseteq Model,
         cache = [t \in P!Type |-> None],
         fetch = [r \in Reader |-> P!Idle], check = [v \in Validator |-> P!Idle],
         jobs = [m \in Pulled |-> None],
         pulls = [m \in Pulled |-> [queued |-> 0, running |-> 0]]
  PROVE  ProvidersInv
<1>1. ProvidersTypes
  BY DEF ProvidersTypes, P!Idle
<1>2. CataloguesInv
  <2>1. P!Idle.type \notin P!Type
    BY DEF P!Idle, ProvidersConstants
  <2>. QED  BY <2>1 DEF CataloguesInv
<1>3. P!JobsAreTrue
  BY DEF P!JobsAreTrue, ProvidersConstants
<1>. QED  BY <1>1, <1>2, <1>3 DEF ProvidersInv

LEMMA InitProviders ==
  ASSUME ProvidersConstants, P!Init
  PROVE  ProvidersInv
<1>1. PICK c \in Puts \union {P!Plain(AccountId, <<>>)} : P!Acceptable(c) /\ cfg = P!Normalized(c)
  BY Zenon DEF P!Init
<1>2. Given(c)
  <2>1. KnownProviders(<<>>)
    BY DEF KnownProviders
  <2>2. Given(P!Plain(AccountId, <<>>))
    BY <2>1, PlainIsGiven DEF ProvidersConstants
  <2>. QED  BY <2>2 DEF ProvidersConstants
<1>3. Configured(cfg)
  BY <1>1, <1>2, NormalIs
<1>4. /\ runtime = {} /\ cache = [t \in P!Type |-> None]
      /\ fetch = [r \in Reader |-> P!Idle] /\ check = [v \in Validator |-> P!Idle]
      /\ jobs = [m \in Pulled |-> None]
      /\ pulls = [m \in Pulled |-> [queued |-> 0, running |-> 0]]
  BY Zenon DEF P!Init
<1>. QED  BY <1>3, <1>4, Empty

LEMMA RestartProviders ==
  ASSUME ProvidersConstants, ProvidersInv, P!Restart
  PROVE  ProvidersInv'
<1>1. /\ cfg' = P!Config /\ cache' = [t \in P!Type |-> None]
      /\ fetch' = [r \in Reader |-> P!Idle] /\ check' = [v \in Validator |-> P!Idle]
      /\ jobs' = [m \in Pulled |-> None]
      /\ pulls' = [m \in Pulled |-> [queued |-> 0, running |-> 0]]
      /\ UNCHANGED <<cli, runtime, edits>>
  BY Zenon DEF P!Restart
<1>2. Configured(cfg)'
  BY <1>1, SameFile
<1>3. ProvidersTypes'
  BY <1>1, <1>2 DEF ProvidersInv, ProvidersTypes, P!Idle, P!Type
<1>4. CataloguesInv'
  <2>1. P!Idle.type \notin P!Type
    BY DEF P!Idle, ProvidersConstants
  <2>2. \A s \in P!Type : cache'[s] = None
    BY <1>1
  <2>3. \A q \in Reader, s \in P!Type : fetch'[q].type # s
    BY <1>1, <2>1
  <2>4. cache' \in [P!Type -> {None} \cup Catalogue] /\ fetch' \in [Reader -> {P!Idle} \cup Catalogue]
    BY <1>1
  <2>. QED  BY <2>2, <2>3, <2>4, Zenon DEF CataloguesInv, P!Idle, P!Type, Catalogue
<1>5. P!JobsAreTrue'
  <2>1. \A m \in Pulled : jobs'[m] = None
    BY <1>1
  <2>2. None # "queued" /\ None # "running" /\ None # "done"
    BY DEF ProvidersConstants
  <2>. QED  BY <2>1, <2>2 DEF P!JobsAreTrue
<1>. QED  BY <1>3, <1>4, <1>5 DEF ProvidersInv

LEMMA ProvidersStep ==
  ASSUME ProvidersConstants, ProvidersInv, [P!Next]_(P!vars)
  PROVE  ProvidersInv'
<1>1. CASE P!Next
  BY <1>1, PutStep, AddStep, RemoveStep, RefreshStep, LogoutStep, StartCatalogStep,
     EndCatalogStep, ExpireStep, StartValidationStep, EndValidationStep, InstallStep,
     StartPullStep, EndPullStep, RestartProviders, Zenon DEF P!Next
<1>2. CASE UNCHANGED P!vars
  <2>1. UNCHANGED <<cfg, cli, runtime, cache, fetch, check, jobs, pulls, edits>>
    BY <1>2, Zenon DEF P!vars
  <2>2. Configured(cfg)'
    BY <2>1, ProvidersAre, ConfiguredStays
  <2>3. \A t \in P!Type : Listed(t)' = Listed(t)
    BY <2>1, Zenon DEF Listed
  <2>4. CataloguesInv'
    BY <2>1, <2>3, CataloguesStay DEF ProvidersInv
  <2>5. ProvidersTypes'
    BY <2>1, <2>2 DEF ProvidersInv, ProvidersTypes, P!Type
  <2>. QED  BY <2>1, <2>4, <2>5, JobsStay DEF ProvidersInv
<1>. QED  BY <1>1, <1>2

\* Whatever clients put, add, remove, validate or install, and whatever they ask meanwhile:
\* the file's roles are bound and reading it changes nothing, a catalogue is current unless
\* it was overtaken, and installations are as they show.
THEOREM ProvidersShown ==
  ProvidersConstants /\ P!Spec => [](P!TypeOK /\ P!ProvidersAreShown)
<1>. SUFFICES ASSUME ProvidersConstants PROVE P!Spec => [](P!TypeOK /\ P!ProvidersAreShown)
  OBVIOUS
<1>1. P!Init => ProvidersInv
  BY InitProviders
<1>2. ProvidersInv /\ [P!Next]_(P!vars) => ProvidersInv'
  BY ProvidersStep
<1>3. ProvidersInv => P!TypeOK /\ P!ProvidersAreShown
  <2>. SUFFICES ASSUME ProvidersInv PROVE P!TypeOK /\ P!ProvidersAreShown
    OBVIOUS
  <2>1. Configured(cfg) /\ P!Config = cfg /\ KnownProviders(cfg.providers)
    BY ProvidersAre
  <2>2. P!TypeOK
    <3>1. P!Range(cfg.providers) \subseteq P!Entry
      BY <2>1 DEF P!Range, KnownProviders
    <3>. QED  BY <2>1, <3>1 DEF P!TypeOK, ProvidersInv, ProvidersTypes, Configured, KnownProviders,
                                HealthSet
  <2>3. P!RolesAreBound
    <3>. DEFINE o == cfg.roles.orchestrator
                w == cfg.roles.workers
    <3>1. /\ o.id \in DOMAIN cfg.providers /\ w \in Seq(BindingSet)
          /\ \A n \in 1..Len(w) : w[n].id \in DOMAIN cfg.providers /\ w[n] # o
          /\ \A m, n \in 1..Len(w) : w[m] = w[n] => m = n
      BY <2>1 DEF Configured, BoundTo
    <3>. HIDE DEF o, w
    <3>2. P!Range(w) = {w[i] : i \in 1..Len(w)} /\ DOMAIN w = 1..Len(w)
      BY <3>1, RangeIs
    <3>3. P!IsInjective(w)
      BY <3>1, <3>2 DEF P!IsInjective
    <3>4. \A b \in {o} \union P!Range(w) : b.id \in DOMAIN cfg.providers
      BY <3>1, <3>2
    <3>5. o \notin P!Range(w)
      BY <3>1, <3>2
    <3>. QED  BY <2>1, <3>3, <3>4, <3>5, Zenon DEF P!RolesAreBound, o, w
  <2>4. P!CatalogIsCurrent
    <3>1. \A t \in P!Type : P!Installed(t) = Listed(t)
      BY <2>1, ReadIs
    <3>. QED  BY <3>1, Zenon DEF P!CatalogIsCurrent, ProvidersInv, CataloguesInv, Shows
  <2>. QED  BY <2>2, <2>3, <2>4, Zenon DEF P!ProvidersAreShown, ProvidersInv
<1>. QED  BY <1>1, <1>2, <1>3, PTL DEF P!Spec

----------------------------------------------------------------------------
(* The services beside each other: a step of one leaves the others alone.   *)

\* A step is one of the service that moves.
LEMMA OneMoves ==
  ASSUME MCNext
  PROVE  \/ (Only("pipeline") /\ Next) \/ (Only("plans") /\ C!Next) \/ (Only("log") /\ L!Next)
         \/ (Only("daemon") /\ G!Next)
         \/ (Only("providers") /\ P!Next) \/ (Only("installs") /\ P!Next)
         \/ (Only("cascade") /\ A!Next) \/ (Only("router") /\ R!Next)
         \/ (Only("workflow") /\ W!Next)
         \/ (Only("agent") /\ T!Next) \/ (Only("nodes") /\ N!Next)
BY Zenon DEF MCNext, PipelineMoves, PlansMove, LogMoves, DaemonMoves, ProvidersMove,
             InstallsMove, CascadeMoves, RouterMoves, WorkflowMoves, AgentMoves, NodesMove

LEMMA PlansAreBeside == MCSpec => C!Spec
<1>1. MCInit => C!Init
  BY Zenon DEF MCInit
<1>2. [MCNext]_<<service, vars, varsC, varsL, varsG, varsP, varsA, varsR, varsW, varsT, varsN>>
        => [C!Next]_(C!vars)
  <2>1. UNCHANGED varsC => UNCHANGED C!vars
    BY Zenon DEF varsC, C!vars
  <2>2. UNCHANGED <<service, vars, varsC, varsL, varsG, varsP, varsA, varsR, varsW, varsT, varsN>>
          => UNCHANGED varsC
    BY Zenon
  <2>3. ASSUME NEW s \in Service \ {"plans"}, Only(s) PROVE UNCHANGED varsC
    BY <2>3 DEF Only, Service
  <2>4. Service \ {"plans"} = {"pipeline", "log", "daemon", "providers", "installs", "cascade", "router", "workflow", "agent", "nodes"}
    BY DEF Service
  <2>5. ASSUME MCNext PROVE C!Next \/ UNCHANGED varsC
    BY Zenon, <2>3, <2>4, <2>5, OneMoves
  <2>. QED  BY Zenon, <2>1, <2>2, <2>5
<1>. QED  BY <1>1, <1>2, PTL DEF MCSpec, C!Spec

LEMMA DaemonIsBeside == MCSpec => G!Spec
<1>1. MCInit => G!Init
  BY Zenon DEF MCInit
<1>2. [MCNext]_<<service, vars, varsC, varsL, varsG, varsP, varsA, varsR, varsW, varsT, varsN>>
        => [G!Next]_(G!vars)
  <2>1. UNCHANGED varsG => UNCHANGED G!vars
    BY Zenon DEF varsG, G!vars
  <2>2. UNCHANGED <<service, vars, varsC, varsL, varsG, varsP, varsA, varsR, varsW, varsT, varsN>>
          => UNCHANGED varsG
    BY Zenon
  <2>3. ASSUME NEW s \in Service \ {"daemon"}, Only(s) PROVE UNCHANGED varsG
    BY <2>3 DEF Only, Service
  <2>4. Service \ {"daemon"} = {"pipeline", "plans", "log", "providers", "installs", "cascade", "router", "workflow", "agent", "nodes"}
    BY DEF Service
  <2>5. ASSUME MCNext PROVE G!Next \/ UNCHANGED varsG
    BY Zenon, <2>3, <2>4, <2>5, OneMoves
  <2>. QED  BY Zenon, <2>1, <2>2, <2>5
<1>. QED  BY <1>1, <1>2, PTL DEF MCSpec, G!Spec

LEMMA CascadeIsBeside == MCSpec => A!Spec
<1>1. MCInit => A!Init
  BY Zenon DEF MCInit
<1>2. [MCNext]_<<service, vars, varsC, varsL, varsG, varsP, varsA, varsR, varsW, varsT, varsN>>
        => [A!Next]_(A!vars)
  <2>1. UNCHANGED varsA => UNCHANGED A!vars
    BY Zenon DEF varsA, A!vars
  <2>2. UNCHANGED <<service, vars, varsC, varsL, varsG, varsP, varsA, varsR, varsW, varsT, varsN>>
          => UNCHANGED varsA
    BY Zenon
  <2>3. ASSUME NEW s \in Service \ {"cascade"}, Only(s) PROVE UNCHANGED varsA
    BY <2>3 DEF Only, Service
  <2>4. Service \ {"cascade"} = {"pipeline", "plans", "log", "daemon", "providers", "installs", "router", "workflow", "agent", "nodes"}
    BY DEF Service
  <2>5. ASSUME MCNext PROVE A!Next \/ UNCHANGED varsA
    BY Zenon, <2>3, <2>4, <2>5, OneMoves
  <2>. QED  BY Zenon, <2>1, <2>2, <2>5
<1>. QED  BY <1>1, <1>2, PTL DEF MCSpec, A!Spec

LEMMA RouterIsBeside == MCSpec => R!Spec
<1>1. MCInit => R!Init
  BY Zenon DEF MCInit
<1>2. [MCNext]_<<service, vars, varsC, varsL, varsG, varsP, varsA, varsR, varsW, varsT, varsN>>
        => [R!Next]_(R!vars)
  <2>1. UNCHANGED varsR => UNCHANGED R!vars
    BY Zenon DEF varsR, R!vars
  <2>2. UNCHANGED <<service, vars, varsC, varsL, varsG, varsP, varsA, varsR, varsW, varsT, varsN>>
          => UNCHANGED varsR
    BY Zenon
  <2>3. ASSUME NEW s \in Service \ {"router"}, Only(s) PROVE UNCHANGED varsR
    BY <2>3 DEF Only, Service
  <2>4. Service \ {"router"} = {"pipeline", "plans", "log", "daemon", "providers", "installs", "cascade", "workflow", "agent", "nodes"}
    BY DEF Service
  <2>5. ASSUME MCNext PROVE R!Next \/ UNCHANGED varsR
    BY Zenon, <2>3, <2>4, <2>5, OneMoves
  <2>. QED  BY Zenon, <2>1, <2>2, <2>5
<1>. QED  BY <1>1, <1>2, PTL DEF MCSpec, R!Spec

LEMMA WorkflowIsBeside == MCSpec => W!Spec
<1>1. MCInit => W!Init
  BY Zenon DEF MCInit
<1>2. [MCNext]_<<service, vars, varsC, varsL, varsG, varsP, varsA, varsR, varsW, varsT, varsN>>
        => [W!Next]_(W!vars)
  <2>1. UNCHANGED varsW => UNCHANGED W!vars
    BY Zenon DEF varsW, W!vars
  <2>2. UNCHANGED <<service, vars, varsC, varsL, varsG, varsP, varsA, varsR, varsW, varsT, varsN>>
          => UNCHANGED varsW
    BY Zenon
  <2>3. ASSUME NEW s \in Service \ {"workflow"}, Only(s) PROVE UNCHANGED varsW
    BY <2>3 DEF Only, Service
  <2>4. Service \ {"workflow"} = {"pipeline", "plans", "log", "daemon", "providers", "installs", "cascade", "router", "agent", "nodes"}
    BY DEF Service
  <2>5. ASSUME MCNext PROVE W!Next \/ UNCHANGED varsW
    BY Zenon, <2>3, <2>4, <2>5, OneMoves
  <2>. QED  BY Zenon, <2>1, <2>2, <2>5
<1>. QED  BY <1>1, <1>2, PTL DEF MCSpec, W!Spec

LEMMA LogIsBeside == MCSpec => L!Spec
<1>1. MCInit => L!Init
  BY Zenon DEF MCInit
<1>2. [MCNext]_<<service, vars, varsC, varsL, varsG, varsP, varsA, varsR, varsW, varsT, varsN>>
        => [L!Next]_(L!vars)
  <2>1. UNCHANGED varsL => UNCHANGED L!vars
    BY Zenon DEF varsL, L!vars
  <2>2. UNCHANGED <<service, vars, varsC, varsL, varsG, varsP, varsA, varsR, varsW, varsT, varsN>>
          => UNCHANGED varsL
    BY Zenon
  <2>3. ASSUME NEW s \in Service \ {"log"}, Only(s) PROVE UNCHANGED varsL
    BY <2>3 DEF Only, Service
  <2>4. Service \ {"log"} = {"pipeline", "plans", "daemon", "providers", "installs", "cascade", "router", "workflow", "agent", "nodes"}
    BY DEF Service
  <2>5. ASSUME MCNext PROVE L!Next \/ UNCHANGED varsL
    BY Zenon, <2>3, <2>4, <2>5, OneMoves
  <2>. QED  BY Zenon, <2>1, <2>2, <2>5
<1>. QED  BY <1>1, <1>2, PTL DEF MCSpec, L!Spec

LEMMA AgentIsBeside == MCSpec => T!Spec
<1>1. MCInit => T!Init
  BY Zenon DEF MCInit
<1>2. [MCNext]_<<service, vars, varsC, varsL, varsG, varsP, varsA, varsR, varsW, varsT, varsN>>
        => [T!Next]_(T!vars)
  <2>1. UNCHANGED varsT => UNCHANGED T!vars
    BY Zenon DEF varsT, T!vars
  <2>2. UNCHANGED <<service, vars, varsC, varsL, varsG, varsP, varsA, varsR, varsW, varsT, varsN>>
          => UNCHANGED varsT
    BY Zenon
  <2>3. ASSUME NEW s \in Service \ {"agent"}, Only(s) PROVE UNCHANGED varsT
    BY <2>3 DEF Only, Service
  <2>4. Service \ {"agent"} = {"pipeline", "plans", "log", "daemon", "providers", "installs", "cascade", "router", "workflow", "nodes"}
    BY DEF Service
  <2>5. ASSUME MCNext PROVE T!Next \/ UNCHANGED varsT
    BY Zenon, <2>3, <2>4, <2>5, OneMoves
  <2>. QED  BY Zenon, <2>1, <2>2, <2>5
<1>. QED  BY <1>1, <1>2, PTL DEF MCSpec, T!Spec

LEMMA NodesAreBeside == MCSpec => N!Spec
<1>1. MCInit => N!Init
  BY Zenon DEF MCInit
<1>2. [MCNext]_<<service, vars, varsC, varsL, varsG, varsP, varsA, varsR, varsW, varsT, varsN>>
        => [N!Next]_(N!vars)
  <2>1. UNCHANGED varsN => UNCHANGED N!vars
    BY Zenon DEF varsN, N!vars
  <2>2. UNCHANGED <<service, vars, varsC, varsL, varsG, varsP, varsA, varsR, varsW, varsT, varsN>>
          => UNCHANGED varsN
    BY Zenon
  <2>3. ASSUME NEW s \in Service \ {"nodes"}, Only(s) PROVE UNCHANGED varsN
    BY <2>3 DEF Only, Service
  <2>4. Service \ {"nodes"} = {"pipeline", "plans", "log", "daemon", "providers", "installs", "cascade", "router", "workflow", "agent"}
    BY DEF Service
  <2>5. ASSUME MCNext PROVE N!Next \/ UNCHANGED varsN
    BY Zenon, <2>3, <2>4, <2>5, OneMoves
  <2>. QED  BY Zenon, <2>1, <2>2, <2>5
<1>. QED  BY <1>1, <1>2, PTL DEF MCSpec, N!Spec

LEMMA ProvidersAreBeside == MCSpec => P!Spec
<1>1. MCInit => P!Init
  BY Zenon DEF MCInit
<1>2. [MCNext]_<<service, vars, varsC, varsL, varsG, varsP, varsA, varsR, varsW, varsT, varsN>>
        => [P!Next]_(P!vars)
  <2>1. UNCHANGED varsP => UNCHANGED P!vars
    BY Zenon DEF varsP, P!vars
  <2>2. UNCHANGED <<service, vars, varsC, varsL, varsG, varsP, varsA, varsR, varsW, varsT, varsN>>
          => UNCHANGED varsP
    BY Zenon
  <2>3. ASSUME NEW s \in Service \ {"providers", "installs"}, Only(s) PROVE UNCHANGED varsP
    BY <2>3 DEF Only, Service
  <2>4. Service \ {"providers", "installs"} = {"pipeline", "plans", "log", "daemon", "cascade", "router", "workflow", "agent", "nodes"}
    BY DEF Service
  <2>5. ASSUME MCNext PROVE P!Next \/ UNCHANGED varsP
    BY Zenon, <2>3, <2>4, <2>5, OneMoves
  <2>. QED  BY Zenon, <2>1, <2>2, <2>5
<1>. QED  BY <1>1, <1>2, PTL DEF MCSpec, P!Spec

LEMMA PipelineIsBeside == MCSpec => Spec
<1>1. MCInit => Init
  BY Zenon DEF MCInit
<1>2. [MCNext]_<<service, vars, varsC, varsL, varsG, varsP, varsA, varsR, varsW, varsT, varsN>>
        => [Next]_vars
  <2>2. UNCHANGED <<service, vars, varsC, varsL, varsG, varsP, varsA, varsR, varsW, varsT, varsN>>
          => UNCHANGED vars
    BY Zenon
  <2>3. ASSUME NEW s \in Service \ {"pipeline"}, Only(s) PROVE UNCHANGED vars
    BY <2>3 DEF Only, Service
  <2>4. Service \ {"pipeline"} = {"plans", "log", "daemon", "providers", "installs", "cascade", "router", "workflow", "agent", "nodes"}
    BY DEF Service
  <2>5. ASSUME MCNext PROVE Next \/ UNCHANGED vars
    BY Zenon, <2>3, <2>4, <2>5, OneMoves
  <2>. QED  BY Zenon, <2>2, <2>5
<1>. QED  BY <1>1, <1>2, PTL DEF MCSpec, Spec

\* For any plan, editors and executions: no model is given a node before those it depends
\* on have ended, and a plan shows running only while it is executed, or after a death.
THEOREM ExecutionsOrdered ==
  ASSUME PlansConstants
  PROVE  MCSpec => []ExecutionsAreOrdered
<1>1. C!TypeOK /\ C!ExecutionsAreOrdered => ExecutionsAreOrdered
  BY Zenon DEF ExecutionsAreOrdered
<1>. QED  BY <1>1, ExecutionsHold, PlansAreBeside, PTL

\* No execution overwrites an edit that update_plan accepted, unless two overlapped.
THEOREM EditsKept ==
  ASSUME PlansConstants
  PROVE  MCSpec => EditsAreKept
BY EditsHold, PlansAreBeside, PTL DEF EditsAreKept

\* For any models, prices and budgets: CascadeService asks better models until an answer
\* is good or the budget spent, and ModelRouterService breaks a rule only where every
\* model would.
THEOREM ModelsChosen ==
  ASSUME CascadeConstants, RouterConstants
  PROVE  MCSpec => []ModelsAreChosen
<1>1. A!CascadesClimb /\ R!RoutingIsSound => ModelsAreChosen
  BY Zenon DEF ModelsAreChosen
<1>2. MCSpec => []A!CascadesClimb
  BY CascadesAreSound, CascadeIsBeside, PTL
<1>3. MCSpec => []R!RoutingIsSound
  BY RoutersAreSound, RouterIsBeside, PTL
<1>. QED  BY <1>1, <1>2, <1>3, PTL

\* For any graph: the answer of a workflow's execution says whether it came to its end.
THEOREM OutcomeTold ==
  ASSUME WorkflowConstants
  PROVE  MCSpec => OutcomeIsTold
BY OutcomesTold, WorkflowIsBeside, PTL DEF OutcomeIsTold

\* For any graph, chain of nodes, retries and budgets: a workflow goes where its edges
\* lead, what a child of an attempt that is over does is lost, and no checkpoint passes
\* a node that failed or a budget that is spent.
THEOREM WorkflowsFollowed ==
  ASSUME WorkflowConstants, TaskConstants, NodesConstants
  PROVE  MCSpec => []WorkflowsAreFollowed
<1>1. W!EdgesAreFollowed /\ T!NodesAreContained /\ N!NodesAreHeeded /\ N!BudgetsAreKept
          => WorkflowsAreFollowed
  BY Zenon DEF WorkflowsAreFollowed
<1>2. MCSpec => []W!EdgesAreFollowed
  BY EdgesFollowed, WorkflowIsBeside, PTL
<1>3. MCSpec => []T!NodesAreContained
  BY NodesContained, AgentIsBeside, PTL
<1>4. MCSpec => [](N!NodesAreHeeded /\ N!BudgetsAreKept)
  BY NodesHeeded, NodesAreBeside, PTL
<1>. QED  BY <1>1, <1>2, <1>3, <1>4, PTL

\* What is kept is what happened: for any log the summary gives what replaying its lines
\* does; however commands are repeated, outcomes are counted once; and whatever clients put,
\* validate or install, the provider file, the catalogue and the installations are shown.
THEOREM RecordsExact ==
  ASSUME GicsConstants, ProvidersConstants
  PROVE  MCSpec => []RecordsAreExact
<1>1. L!SummaryIsExact /\ G!OutcomesAreCounted /\ P!ProvidersAreShown => RecordsAreExact
  BY Zenon DEF RecordsAreExact
<1>2. MCSpec => []L!SummaryIsExact
  BY SummariesAreExact, LogAssumption, LogIsBeside, PTL
<1>3. MCSpec => []G!OutcomesAreCounted
  BY OutcomesAreCountedOnce, DaemonIsBeside, PTL
<1>4. MCSpec => []P!ProvidersAreShown
  BY ProvidersShown, ProvidersAreBeside, PTL
<1>. QED  BY <1>1, <1>2, <1>3, <1>4, PTL

\* Every variable of every service has its type, for any values of the constants.
THEOREM TypesRight ==
  ASSUME PlansConstants, GicsConstants, ProvidersConstants, CascadeConstants, RouterConstants,
         WorkflowConstants, TaskConstants, NodesConstants
  PROVE  MCSpec => []TypesOK
<1>1. MCInit => service \in Service
  BY Zenon DEF MCInit
<1>2. service \in Service /\ [MCNext]_<<service, vars, varsC, varsL, varsG, varsP, varsA, varsR, varsW, varsT, varsN>>
        => (service \in Service)'
  <2>1. ASSUME NEW s, Only(s) PROVE service' = service
    BY <2>1, Zenon DEF Only
  <2>2. MCNext => service' = service
    BY <2>1, OneMoves, Zenon
  <2>3. UNCHANGED <<service, vars, varsC, varsL, varsG, varsP, varsA, varsR, varsW, varsT, varsN>>
           => service' = service
    BY Zenon
  <2>4. service \in Service /\ service' = service => service' \in Service
    BY Zenon
  <2>. QED  BY <2>2, <2>3, <2>4, Zenon DEF Service
<1>3. MCSpec => [](service \in Service)
  BY <1>1, <1>2, PTL DEF MCSpec
<1>4. service \in Service /\ TypeOK /\ C!TypeOK /\ L!TypeOK /\ G!TypeOK /\ P!TypeOK
         /\ A!TypeOK /\ R!TypeOK /\ W!TypeOK /\ T!TypeOK /\ N!TypeOK
         => TypesOK
  BY Zenon DEF TypesOK, Service
<1>5. MCSpec => [](TypeOK /\ C!TypeOK)
  BY TypeCorrect, PipelineIsBeside, ExecutionsHold, PlansAreBeside, PTL
<1>6. MCSpec => [](L!TypeOK /\ G!TypeOK)
  BY SummariesAreExact, LogAssumption, LogIsBeside, OutcomesAreCountedOnce, DaemonIsBeside, PTL
<1>7. MCSpec => [](P!TypeOK /\ A!TypeOK)
  BY ProvidersShown, ProvidersAreBeside, CascadesAreSound, CascadeIsBeside, PTL
<1>8. MCSpec => [](R!TypeOK /\ W!TypeOK)
  BY RoutersAreSound, RouterIsBeside, EdgesFollowed, WorkflowIsBeside, PTL
<1>9. MCSpec => [](T!TypeOK /\ N!TypeOK)
  BY NodesContained, AgentIsBeside, NodesHeeded, NodesAreBeside, PTL
<1>. QED  BY <1>3, <1>4, <1>5, <1>6, <1>7, <1>8, <1>9, PTL

=============================================================================
