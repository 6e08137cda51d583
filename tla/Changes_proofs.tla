--------------------------- MODULE Changes_proofs ---------------------------
(***************************************************************************)
(* Proofs about MergeGate, for every set of runs, repositories, branches   *)
(* and changes; and about DraftRuns, beside merges as MCChanges puts it,   *)
(* for any number of drafts, entries and runs, any requests and any        *)
(* policies.                                                               *)
(***************************************************************************)
EXTENDS MCChanges, FiniteSetTheorems, TLAPS

----------------------------------------------------------------------------
(* The inductive invariants. *)

\* The gate of run r before it has merged.
Early == {"queued", "locked", "tests", "lint", "dry_run", "checkout", "merge"}

\* A run that is being merged is running, unless it was cancelled meanwhile.
EarlyStatus(r) ==
    /\ gate[r] = "queued" => status[r] \in {"pending", "running", "cancelled"}
    /\ gate[r] \in (Early \ {"queued"}) \cup {"merged", "rollback", "undone", "kept"} =>
          status[r] \in {"running", "cancelled"}

\* A pipeline that is over has set a status, or it has raised an exception.
LateStatus(r) ==
    gate[r] \in {"cleanup", "crashed", "drain"} =>
       r \in raised \/ status[r] \notin {Absent, "pending", "running"}

\* The branch on which each stage works, and the commit to return to.
SandboxBranch(r) ==
    /\ gate[r] \in {"tests", "lint", "dry_run", "checkout"} => sandbox[r] = Source[r]
    /\ gate[r] \in {"merge", "merged", "rollback"} =>
          sandbox[r] = Target[r] /\ before[r] \in SUBSET Change

\* What a run that was rolled back shows at the end, unless it was never told.
ToldStatus == {"ROLLBACK_EXECUTED", "cancelled", "error", "WORKER_CRASHED_RECOVERABLE"}

\* How far a run is that was rolled back, and what it shows.
ToldInTime(r) ==
    r \in undone =>
       \/ gate[r] = "undone"
       \/ /\ gate[r] \in {"cleanup", "crashed", "drain", "none"}
          /\ \/ status[r] \in ToldStatus
             \/ gate[r] # "none" /\ r \in raised /\ status[r] = "running"

Local(r) == EarlyStatus(r) /\ LateStatus(r) /\ SandboxBranch(r) /\ ToldInTime(r)

BaseInv == TypeOK /\ \A r \in Run : Local(r)

\* No run merges a branch that another one merges into.
SourcesAreNotTargets == \A q, r \in Run : Source[q] # Target[r]

\* The event loop is blocked by one pipeline at most.
OnePipeline == \A r, q \in Run : gate[r] \in Stage /\ gate[q] \in Stage => r = q

SourcesStay == \A r \in Run : tip[Source[r]] = Tip0[Source[r]]

\* commit_before is the commit of the source.
BeforeIsSource ==
    \A r \in Run : gate[r] \in {"merge", "merged", "rollback"} => before[r] = Tip0[Source[r]]

MergedIsIn ==
    \A r \in Run : gate[r] = "merged" => Tip0[Source[r]] \subseteq tip[Target[r]]

\* Run r may have merged.
Validated(r) == status[r] \notin Refused /\ gate[r] \notin Early

Earned(b, c) ==
    \E r \in Run : Target[r] = b /\ Validated(r) /\ c \in Tip0[Source[r]]

OnlyEarned == \A b \in Branch : \A c \in tip[b] : c \in Tip0[b] \/ Earned(b, c)

IInv ==
    /\ BaseInv
    /\ OnePipeline
    /\ SourcesStay
    /\ BeforeIsSource
    /\ MergedIsIn
    /\ OnlyEarned
    /\ MergesSurvive

----------------------------------------------------------------------------
(* What the FSM allows. *)

UndoneStatus == {"ROLLBACK_EXECUTED", "cancelled"}

LEMMA BecomesDone ==
  ASSUME NEW s \in GateStatus, CanBecome(s, "done")
  PROVE  s \in {"done", "pending", "running"}
BY DEF CanBecome, GateStatus, ValidTransitions, Status, ActiveStatus,
       TerminalStatus, ParkedStatus

LEMMA UndoneIsFinal ==
  ASSUME NEW s \in UndoneStatus, NEW s2, CanBecome(s, s2)
  PROVE  s2 = s
BY DEF CanBecome, UndoneStatus, ValidTransitions, Status, ActiveStatus,
       TerminalStatus, ParkedStatus

LEMMA RunningRollsBack == CanBecome("running", "ROLLBACK_EXECUTED")
BY DEF CanBecome, ValidTransitions, Status, ActiveStatus,
       TerminalStatus, ParkedStatus

\* What execute_run's last update can leave behind.
LEMMA FinalStatusIs ==
  ASSUME NEW r \in Run, NEW s, NEW final \in {"done", "error"}
  PROVE  /\ FinalStatus(r, s, final) \in {final, "error", s}
         /\ s \in UndoneStatus => FinalStatus(r, s, final) = s
         /\ s \in GateStatus /\ FinalStatus(r, s, final) = "done" =>
               s = "done" \/ (final = "done" /\ s \in {"pending", "running"})
<1>1. s \in UndoneStatus => ~CanBecome(s, final) /\ ~CanBecome(s, "error")
  BY UndoneIsFinal DEF UndoneStatus
<1>2. s \in GateStatus /\ CanBecome(s, "done") => s \in {"done", "pending", "running"}
  BY BecomesDone
<1>. QED  BY <1>1, <1>2 DEF FinalStatus


----------------------------------------------------------------------------
(* Types, and what each gate knows of its own run. *)

\* Nothing that Local speaks of changes for any run but r.
OnlyRun(r) ==
    \A q \in Run \ {r} :
       /\ status'[q] = status[q] /\ gate'[q] = gate[q]
       /\ sandbox'[q] = sandbox[q] /\ before'[q] = before[q]
       /\ q \in raised' <=> q \in raised
       /\ q \in undone' <=> q \in undone

LEMMA LocalStep ==
  ASSUME BaseInv, NEW r \in Run, OnlyRun(r), TypeOK', Local(r)'
  PROVE  BaseInv'
<1>1. ASSUME NEW q \in Run \ {r}  PROVE Local(q)'
  BY <1>1 DEF BaseInv, Local, EarlyStatus, LateStatus, SandboxBranch, ToldInTime, OnlyRun
<1>. QED  BY <1>1 DEF BaseInv

LEMMA InitBase == Init => BaseInv
<1> SUFFICES ASSUME Init PROVE BaseInv
  OBVIOUS
<1>1. TypeOK
  BY GateAssumption DEF Init, TypeOK
<1>2. \A r \in Run : Local(r)
  BY DEF Init, Local, EarlyStatus, LateStatus, SandboxBranch, ToldInTime, ToldStatus, Early
<1>. QED  BY <1>1, <1>2 DEF BaseInv

\* The types of what a stage of run r changes besides tip.
LEMMA StopIsTyped ==
  ASSUME TypeOK, NEW r \in Run, NEW s \in GateStatus,
         NEW next \in {"cleanup", "drain"}, Stop(r, s, next)
  PROVE  /\ status' \in [Run -> GateStatus \cup {Absent}]
         /\ gate' \in [Run -> {"none", "queued", "locked", "crashed", "drain"} \cup Stage]
         /\ raised' \subseteq Run
         /\ gate'[r] \in {"cleanup", "crashed", "drain"}
         /\ next = "cleanup" => gate'[r] = "cleanup"
         /\ r \in raised' \/ status'[r] = s
         /\ \A q \in Run \ {r} : /\ status'[q] = status[q] /\ gate'[q] = gate[q]
                                 /\ q \in raised' <=> q \in raised
         /\ status'[r] \in {s, status[r]}
         /\ CanBecome(status[r], s) => status'[r] = s
BY DEF TypeOK, Stop, Raise, Stage

LEMMA RaiseIsTyped ==
  ASSUME TypeOK, NEW r \in Run, Raise(r, "cleanup")
  PROVE  /\ status' = status
         /\ gate' \in [Run -> {"none", "queued", "locked", "crashed", "drain"} \cup Stage]
         /\ raised' \subseteq Run
         /\ gate'[r] = "cleanup"
         /\ r \in raised'
         /\ \A q \in Run \ {r} : gate'[q] = gate[q] /\ (q \in raised' <=> q \in raised)
BY DEF TypeOK, Raise, Stage

LEMMA ContinueIsTyped ==
  ASSUME TypeOK, NEW r \in Run, NEW next \in Stage, Continue(r, next)
  PROVE  /\ status' = status /\ raised' = raised
         /\ gate' \in [Run -> {"none", "queued", "locked", "crashed", "drain"} \cup Stage]
         /\ gate'[r] = next
         /\ \A q \in Run \ {r} : gate'[q] = gate[q]
BY DEF TypeOK, Continue

\* A run that has not merged yet was not rolled back.
LEMMA NotUndone ==
  ASSUME BaseInv, NEW r \in Run, gate[r] \in Early \cup {"merged", "rollback", "kept"}
  PROVE  r \notin undone
BY DEF BaseInv, Local, ToldInTime, Early

LEMMA BegunIs ==
  ASSUME BaseInv, NEW r \in Run, gate[r] = "queued"
  PROVE  Begun(r) \in {"running", "cancelled"} /\ (status[r] = "cancelled" => Begun(r) = "cancelled")
BY DEF BaseInv, Local, EarlyStatus, Begun

----------------------------------------------------------------------------
(* BaseInv is preserved by each action. *)

LEMMA CreateRunBase == ASSUME BaseInv, NEW r \in Run, CreateRun(r) PROVE BaseInv'
<1>1. TypeOK'
  BY DEF BaseInv, TypeOK, CreateRun, GateStatus
<1>2. OnlyRun(r)
  BY DEF BaseInv, TypeOK, CreateRun, OnlyRun
<1>3. r \notin undone
  BY GateAssumption
     DEF CreateRun, BaseInv, TypeOK, Local, EarlyStatus, LateStatus, ToldInTime, ToldStatus,
         Status, ActiveStatus, TerminalStatus
<1>4. Local(r)'
  BY <1>3 DEF BaseInv, TypeOK, CreateRun, Local, EarlyStatus, LateStatus, SandboxBranch,
     ToldInTime, Early
<1>. QED  BY <1>1, <1>2, <1>4, LocalStep

LEMMA StartPendingBase == ASSUME BaseInv, NEW r \in Run, StartPending(r) PROVE BaseInv'
<1>1. TypeOK'
  BY DEF BaseInv, TypeOK, StartPending
<1>2. OnlyRun(r)
  BY DEF BaseInv, TypeOK, StartPending, OnlyRun
<1>3. Local(r)'
  BY DEF BaseInv, TypeOK, StartPending, Local, EarlyStatus, LateStatus, SandboxBranch, ToldInTime, ToldStatus, Early
<1>. QED  BY <1>1, <1>2, <1>3, LocalStep

LEMMA CancelBase == ASSUME BaseInv, NEW r \in Run, Cancel(r) PROVE BaseInv'
<1>1. TypeOK'
  BY DEF BaseInv, TypeOK, Cancel, GateStatus
<1>2. OnlyRun(r)
  BY DEF BaseInv, TypeOK, Cancel, OnlyRun
<1>3. Local(r)'
  BY GateAssumption DEF BaseInv, TypeOK, Cancel, Local, EarlyStatus, LateStatus,
     SandboxBranch, ToldInTime, ToldStatus, Early, Status, TerminalStatus
<1>. QED  BY <1>1, <1>2, <1>3, LocalStep

LEMMA ExpireBase == ASSUME BaseInv, NEW p \in Repo, Expire(p) PROVE BaseInv'
<1>1. TypeOK'
  BY DEF BaseInv, TypeOK, Expire
<1>2. \A r \in Run : Local(r)'
  BY DEF BaseInv, Expire, Local, EarlyStatus, LateStatus, SandboxBranch, ToldInTime, ToldStatus
<1>. QED  BY <1>1, <1>2 DEF BaseInv

LEMMA RestartBase == ASSUME BaseInv, Restart PROVE BaseInv'
<1>1. TypeOK'
  BY DEF BaseInv, TypeOK, Restart, GateStatus
<1>2. \A r \in Run : Local(r)'
  <2>. SUFFICES ASSUME NEW r \in Run PROVE Local(r)'
    OBVIOUS
  <2>1. /\ gate'[r] = "none" /\ undone' = undone
        /\ status'[r] = IF status[r] = "running" THEN "error" ELSE status[r]
    BY DEF Restart
  <2>2. Local(r) /\ status[r] \in GateStatus \cup {Absent}
    BY DEF BaseInv, TypeOK
  <2>. QED  BY <2>1, <2>2 DEF Local, EarlyStatus, LateStatus, SandboxBranch, ToldInTime,
            ToldStatus, Early
<1>. QED  BY <1>1, <1>2 DEF BaseInv

\* The gate of run r ends with some status.
LEMMA LeaveBase ==
  ASSUME BaseInv, NEW r \in Run, NEW s \in GateStatus \cup {Absent}, Leave(r, s),
         raised' \in {raised, raised \ {r}},
         lock' \in [Repo -> [run : Run, expired : BOOLEAN] \cup {None}],
         UNCHANGED <<tip, sandbox, before, undone>>,
         r \in undone => s \in ToldStatus
  PROVE  BaseInv'
<1>1. TypeOK'
  BY DEF BaseInv, TypeOK, Leave
<1>2. OnlyRun(r)
  BY DEF BaseInv, TypeOK, Leave, OnlyRun
<1>3. Local(r)'
  BY DEF BaseInv, TypeOK, Leave, Local, EarlyStatus, LateStatus, SandboxBranch, ToldInTime, ToldStatus, Early
<1>. QED  BY <1>1, <1>2, <1>3, LocalStep

\* What the gate leaves when it ends with a verdict.
LEMMA VerdictIs ==
  ASSUME BaseInv, NEW r \in Run, gate[r] = "queued",
         NEW v \in Verdict \cup {"MERGE_LOCKED"}, EndsWith(r, v)
  PROVE  \E s \in {v, "error", "running", "cancelled"} :
            /\ Leave(r, s)
            /\ status[r] = "cancelled" => s = "cancelled"
<1>1. Begun(r) \in {"running", "cancelled"} /\ (status[r] = "cancelled" => Begun(r) = "cancelled")
  BY BegunIs
<1>2. v \in GateStatus /\ v \notin {"done", "pending", "running", "cancelled"}
  BY DEF Verdict, GateStatus
<1>3. CASE CanBecome(Begun(r), v)
  <2>1. Begun(r) # "cancelled"
    BY <1>2, <1>3, UndoneIsFinal DEF UndoneStatus
  <2>2. Handled(r, v) \in {v, "error"}
    BY <1>2, BecomesDone DEF Handled, FinalStatus
  <2>. QED  BY <1>1, <1>3, <2>1, <2>2 DEF EndsWith
<1>4. CASE ~CanBecome(Begun(r), v)
  <2>1. Failed(r, Begun(r)) \in {"error", Begun(r)}
    BY FinalStatusIs DEF Failed
  <2>2. Begun(r) = "cancelled" => Failed(r, Begun(r)) = "cancelled"
    BY FinalStatusIs DEF Failed, UndoneStatus
  <2>. QED  BY <1>1, <1>4, <2>1, <2>2 DEF EndsWith
<1>. QED  BY <1>3, <1>4


LEMMA RefuseBase == ASSUME BaseInv, NEW r \in Run, Refuse(r) PROVE BaseInv'
<1>1. PICK s \in GateStatus \cup {Absent} : Leave(r, s)
  <2>1. CASE \E v \in Verdict : EndsWith(r, v)
    BY <2>1, VerdictIs DEF Refuse, GateStatus, Verdict
  <2>2. Failed(r, Begun(r)) \in {"error", Begun(r)} /\ Begun(r) \in {"running", "cancelled"}
    BY BegunIs, FinalStatusIs DEF Failed, Refuse
  <2>. QED  BY <2>1, <2>2 DEF Refuse, GateStatus
<1>2. r \notin undone
  BY NotUndone DEF Refuse, Early
<1>. QED  BY <1>1, <1>2, LeaveBase DEF Refuse, BaseInv, TypeOK

LEMMA FindLockedBase == ASSUME BaseInv, NEW r \in Run, FindLocked(r) PROVE BaseInv'
<1>1. PICK s \in GateStatus : Leave(r, s)
  BY VerdictIs DEF FindLocked, GateStatus
<1>2. r \notin undone
  BY NotUndone DEF FindLocked, Early
<1>. QED  BY <1>1, <1>2, LeaveBase DEF FindLocked, BaseInv, TypeOK

LEMMA AcquireBase == ASSUME BaseInv, NEW r \in Run, Acquire(r) PROVE BaseInv'
<1>0. Begun(r) \in {"running", "cancelled"}
  BY BegunIs DEF Acquire
<1>1. TypeOK'
  BY <1>0, GateAssumption DEF BaseInv, TypeOK, Acquire, GateStatus
<1>2. OnlyRun(r)
  BY DEF BaseInv, TypeOK, Acquire, OnlyRun
<1>3. Local(r)'
  BY <1>0 DEF BaseInv, TypeOK, Acquire, Local, EarlyStatus, LateStatus, SandboxBranch, ToldInTime, ToldStatus, Early
<1>. QED  BY <1>1, <1>2, <1>3, LocalStep

LEMMA AddWorktreeBase == ASSUME BaseInv, NEW r \in Run, AddWorktree(r) PROVE BaseInv'
<1>0. /\ gate[r] = "locked" /\ status[r] \in {"running", "cancelled"} /\ Source[r] \in Branch
      /\ r \notin undone /\ undone' = undone
  BY GateAssumption, NotUndone DEF AddWorktree, BaseInv, Local, EarlyStatus, Early
<1>1. CASE /\ sandbox' = [sandbox EXCEPT ![r] = Source[r]]
           /\ Continue(r, "tests")
  <2>1. TypeOK'
    BY <1>0, <1>1, ContinueIsTyped DEF BaseInv, TypeOK, AddWorktree, Stage
  <2>2. OnlyRun(r)
    BY <1>1, ContinueIsTyped DEF BaseInv, TypeOK, AddWorktree, OnlyRun, Stage
  <2>3. Local(r)'
    BY <1>0, <1>1, ContinueIsTyped
       DEF BaseInv, TypeOK, Local, EarlyStatus, LateStatus, SandboxBranch, ToldInTime, ToldStatus, Early, Stage
  <2>. QED  BY <2>1, <2>2, <2>3, LocalStep
<1>2. CASE /\ sandbox' = [sandbox EXCEPT ![r] = None]
           /\ Stop(r, "WORKTREE_CORRUPTED", "drain")
  <2>0. "WORKTREE_CORRUPTED" \in GateStatus
    BY DEF GateStatus
  <2>1. TypeOK'
    BY <1>2, <2>0, StopIsTyped DEF BaseInv, TypeOK, AddWorktree
  <2>2. OnlyRun(r)
    BY <1>2, <2>0, StopIsTyped DEF BaseInv, TypeOK, AddWorktree, OnlyRun
  <2>3. gate'[r] \in {"cleanup", "crashed", "drain"} /\ (r \in raised' \/ status'[r] = "WORKTREE_CORRUPTED")
    BY <1>2, <2>0, StopIsTyped DEF BaseInv
  <2>4. Local(r)'
    BY <1>0, <2>0, <2>3, GateAssumption
       DEF Local, EarlyStatus, LateStatus, SandboxBranch, ToldInTime, ToldStatus, Early, Status, TerminalStatus
  <2>. QED  BY <2>1, <2>2, <2>4, LocalStep
<1>. QED  BY <1>1, <1>2 DEF AddWorktree

\* A stage stops, or raises, and the sandbox is cleaned up next.
LEMMA StoppedBase ==
  ASSUME BaseInv, NEW r \in Run, NEW s \in GateStatus,
         s \notin {Absent, "pending", "running"},
         Stop(r, s, "cleanup") \/ Raise(r, "cleanup"),
         sandbox' = sandbox, lock' = lock,
         tip' \in [Branch -> SUBSET Change],
         before' \in [Run -> (SUBSET Change) \cup {None}],
         \A q \in Run \ {r} : before'[q] = before[q] /\ (q \in undone' <=> q \in undone),
         undone' \subseteq Run,
         r \in undone' => \/ status'[r] \in ToldStatus
                           \/ (r \in raised' /\ status'[r] = "running")
  PROVE  BaseInv'
<1>1. /\ status' \in [Run -> GateStatus \cup {Absent}]
      /\ gate' \in [Run -> {"none", "queued", "locked", "crashed", "drain"} \cup Stage]
      /\ raised' \subseteq Run
      /\ gate'[r] = "cleanup"
      /\ r \in raised' \/ status'[r] = s
      /\ \A q \in Run \ {r} : /\ status'[q] = status[q] /\ gate'[q] = gate[q]
                              /\ q \in raised' <=> q \in raised
  <2>1. CASE Stop(r, s, "cleanup")
    BY <2>1, StopIsTyped DEF BaseInv
  <2>2. CASE Raise(r, "cleanup")
    BY <2>2, RaiseIsTyped DEF BaseInv, TypeOK
  <2>. QED  BY <2>1, <2>2
<1>2. TypeOK'
  BY <1>1 DEF BaseInv, TypeOK
<1>3. OnlyRun(r)
  BY <1>1 DEF OnlyRun
<1>4. Local(r)'
  BY <1>1 DEF Local, EarlyStatus, LateStatus, SandboxBranch, ToldInTime, ToldStatus, Early
<1>. QED  BY <1>2, <1>3, <1>4, LocalStep

\* A stage is over and the next one begins.
LEMMA ContinuedBase ==
  ASSUME BaseInv, NEW r \in Run, NEW next \in Stage, Continue(r, next),
         lock' = lock, sandbox' \in [Run -> Branch \cup {None}],
         \A q \in Run \ {r} : sandbox'[q] = sandbox[q],
         tip' \in [Branch -> SUBSET Change],
         before' \in [Run -> (SUBSET Change) \cup {None}],
         \A q \in Run \ {r} : before'[q] = before[q] /\ (q \in undone' <=> q \in undone),
         undone' \subseteq Run, r \in undone' => next = "undone",
         status[r] \in {"running", "cancelled"},
         next \in {"lint", "dry_run", "checkout"} => sandbox'[r] = Source[r],
         next \in {"merge", "merged", "rollback"} =>
            sandbox'[r] = Target[r] /\ before'[r] \in SUBSET Change,
         next \notin {"tests", "cleanup"}
  PROVE  BaseInv'
<1>1. TypeOK'
  BY ContinueIsTyped DEF BaseInv, TypeOK
<1>2. OnlyRun(r)
  BY ContinueIsTyped DEF BaseInv, OnlyRun
<1>3. Local(r)'
  BY ContinueIsTyped DEF BaseInv, Local, EarlyStatus, LateStatus, SandboxBranch, ToldInTime, ToldStatus, Early, Stage
<1>. QED  BY <1>1, <1>2, <1>3, LocalStep

\* The statuses with which stages stop.
LEMMA StopStatuses ==
  LET S == {"VALIDATION_FAILED_TESTS", "VALIDATION_FAILED_LINT", "MERGE_CONFLICT",
            "ROLLBACK_EXECUTED", "WORKER_CRASHED_RECOVERABLE", "done"}
  IN  S \subseteq GateStatus /\ \A s \in S : s \notin {Absent, "pending", "running"}
BY GateAssumption DEF GateStatus, Status, ActiveStatus, TerminalStatus, ParkedStatus

LEMMA ValidateBase ==
  ASSUME BaseInv, NEW r \in Run,
         RunTests(r) \/ RunLint(r) \/ DryRunMerge(r)
  PROVE  BaseInv'
<1>1. PICK next \in {"lint", "dry_run", "checkout"},
           s \in {"VALIDATION_FAILED_TESTS", "VALIDATION_FAILED_LINT", "MERGE_CONFLICT"} :
        Continue(r, next) \/ Stop(r, s, "cleanup") \/ Raise(r, "cleanup")
  BY DEF RunTests, RunLint, DryRunMerge, Validate
<1>2. gate[r] \in {"tests", "lint", "dry_run"} /\ UNCHANGED <<lock, tip, sandbox, before, undone>>
  BY DEF RunTests, RunLint, DryRunMerge, Validate
<1>3. status[r] \in {"running", "cancelled"} /\ sandbox[r] = Source[r] /\ r \notin undone
  BY <1>2, NotUndone DEF BaseInv, Local, EarlyStatus, SandboxBranch, Early
<1>4. CASE Continue(r, next)
  BY <1>2, <1>3, <1>4, ContinuedBase DEF BaseInv, TypeOK, Stage
<1>5. CASE ~Continue(r, next)
  BY <1>1, <1>2, <1>3, <1>5, StopStatuses, StoppedBase DEF BaseInv, TypeOK
<1>. QED  BY <1>4, <1>5

LEMMA CheckoutTargetBase == ASSUME BaseInv, NEW r \in Run, CheckoutTarget(r) PROVE BaseInv'
<1>1. /\ status[r] \in {"running", "cancelled"} /\ sandbox[r] = Source[r]
      /\ gate[r] = "checkout" /\ r \notin undone
  BY NotUndone DEF CheckoutTarget, BaseInv, Local, EarlyStatus, SandboxBranch, Early
<1>2. UNCHANGED <<lock, tip, undone>>
  BY DEF CheckoutTarget
<1>3. CASE Raise(r, "cleanup") /\ UNCHANGED <<sandbox, before>>
  BY <1>1, <1>2, <1>3, StopStatuses, StoppedBase DEF BaseInv, TypeOK
<1>4. CASE before' = [before EXCEPT ![r] = tip[sandbox[r]]]
  <2>1. /\ before' \in [Run -> (SUBSET Change) \cup {None}]
        /\ before'[r] \in SUBSET Change
        /\ \A q \in Run \ {r} : before'[q] = before[q]
    BY <1>1, <1>4, GateAssumption DEF BaseInv, TypeOK
  <2>2. CASE Continue(r, "merge") /\ sandbox' = [sandbox EXCEPT ![r] = Target[r]]
    BY <1>1, <1>2, <2>1, <2>2, ContinuedBase, GateAssumption DEF BaseInv, TypeOK, Stage
  <2>3. CASE Stop(r, "MERGE_CONFLICT", "cleanup") /\ UNCHANGED sandbox
    BY <1>1, <1>2, <2>1, <2>3, StopStatuses, StoppedBase DEF BaseInv, TypeOK
  <2>. QED  BY <1>3, <2>2, <2>3 DEF CheckoutTarget
<1>. QED  BY <1>3, <1>4 DEF CheckoutTarget

LEMMA PerformMergeBase == ASSUME BaseInv, NEW r \in Run, PerformMerge(r) PROVE BaseInv'
<1>1. /\ status[r] \in {"running", "cancelled"} /\ sandbox[r] = Target[r]
      /\ before[r] \in SUBSET Change /\ r \notin undone
  BY NotUndone DEF PerformMerge, BaseInv, Local, EarlyStatus, SandboxBranch, Early
<1>2. tip' \in [Branch -> SUBSET Change] /\ UNCHANGED <<lock, sandbox, before, undone>>
  BY GateAssumption DEF PerformMerge, BaseInv, TypeOK
<1>3. CASE Continue(r, "merged")
  BY <1>1, <1>2, <1>3, ContinuedBase DEF BaseInv, TypeOK, Stage
<1>4. CASE Stop(r, "MERGE_CONFLICT", "cleanup") \/ Raise(r, "cleanup")
  BY <1>1, <1>2, <1>4, StopStatuses, StoppedBase DEF BaseInv, TypeOK
<1>. QED  BY <1>3, <1>4 DEF PerformMerge

LEMMA RecordMergeBase == ASSUME BaseInv, NEW r \in Run, RecordMerge(r) PROVE BaseInv'
<1>1. /\ status[r] \in {"running", "cancelled"} /\ sandbox[r] = Target[r]
      /\ before[r] \in SUBSET Change /\ r \notin undone
      /\ gate[r] = "merged" /\ UNCHANGED <<lock, tip, sandbox, before, undone>>
  BY NotUndone DEF RecordMerge, BaseInv, Local, EarlyStatus, SandboxBranch, Early
<1>2. CASE Continue(r, "rollback")
  BY <1>1, <1>2, ContinuedBase DEF BaseInv, TypeOK, Stage
<1>3. CASE /\ status' = [status EXCEPT ![r] = "done"]
           /\ gate' = [gate EXCEPT ![r] = "cleanup"]
           /\ UNCHANGED raised
  <2>1. TypeOK'
    BY <1>1, <1>3, StopStatuses DEF BaseInv, TypeOK, Stage
  <2>2. OnlyRun(r)
    BY <1>1, <1>3 DEF BaseInv, TypeOK, OnlyRun
  <2>3. Local(r)'
    BY <1>1, <1>3, StopStatuses
       DEF BaseInv, TypeOK, Local, EarlyStatus, LateStatus, SandboxBranch, ToldInTime, Early
  <2>. QED  BY <2>1, <2>2, <2>3, LocalStep
<1>. QED  BY <1>2, <1>3 DEF RecordMerge

LEMMA RollbackBase == ASSUME BaseInv, NEW r \in Run, Rollback(r) PROVE BaseInv'
<1>1. /\ status[r] \in {"running", "cancelled"} /\ sandbox[r] = Target[r]
      /\ before[r] \in SUBSET Change /\ r \notin undone
      /\ gate[r] = "rollback" /\ UNCHANGED <<lock, sandbox, before>>
  BY NotUndone DEF Rollback, BaseInv, Local, EarlyStatus, SandboxBranch, Early
<1>2. /\ tip' \in [Branch -> SUBSET Change] /\ undone' \subseteq Run
      /\ \A q \in Run \ {r} : q \in undone' <=> q \in undone
      /\ r \in undone' => ~Continue(r, "kept")
  <2>1. ~(Continue(r, "undone") /\ Continue(r, "kept")) /\ ~(Raise(r, "cleanup") /\ Continue(r, "kept"))
    BY DEF Continue, Raise, BaseInv, TypeOK
  <2>. QED  BY <1>1, <2>1, GateAssumption DEF Rollback, BaseInv, TypeOK
<1>3. CASE Continue(r, "undone") \/ Continue(r, "kept")
  BY <1>1, <1>2, <1>3, ContinuedBase DEF BaseInv, TypeOK, Stage
<1>4. CASE Raise(r, "cleanup")
  <2>1. status'[r] \in {"running", "cancelled"} /\ r \in raised'
    BY <1>1, <1>4, RaiseIsTyped DEF BaseInv
  <2>. QED  BY <1>1, <1>2, <1>4, <2>1, StopStatuses, StoppedBase DEF BaseInv, TypeOK, ToldStatus
<1>. QED  BY <1>3, <1>4 DEF Rollback

LEMMA RecordRollbackBase == ASSUME BaseInv, NEW r \in Run, RecordRollback(r) PROVE BaseInv'
<1>1. /\ status[r] \in {"running", "cancelled"} /\ gate[r] \in {"undone", "kept"}
      /\ UNCHANGED <<lock, tip, sandbox, before, undone>>
  BY DEF RecordRollback, BaseInv, Local, EarlyStatus
<1>2. PICK s \in {"ROLLBACK_EXECUTED", "WORKER_CRASHED_RECOVERABLE"} :
        Stop(r, s, "cleanup") \/ Raise(r, "cleanup")
  BY DEF RecordRollback
<1>3. \/ status'[r] = s
      \/ status'[r] = status[r] /\ r \in raised'
  BY <1>2 DEF Stop, Raise, BaseInv, TypeOK
<1>. QED  BY <1>1, <1>2, <1>3, StopStatuses, StoppedBase DEF BaseInv, TypeOK, ToldStatus

LEMMA RemoveWorktreeBase == ASSUME BaseInv, NEW r \in Run, RemoveWorktree(r) PROVE BaseInv'
<1>1. TypeOK'
  BY DEF BaseInv, TypeOK, RemoveWorktree, Stage
<1>2. OnlyRun(r)
  BY DEF BaseInv, TypeOK, RemoveWorktree, OnlyRun
<1>3. Local(r)'
  BY DEF BaseInv, TypeOK, RemoveWorktree, Local, EarlyStatus, LateStatus, SandboxBranch, ToldInTime, ToldStatus, Early
<1>. QED  BY <1>1, <1>2, <1>3, LocalStep

LEMMA ReportCrashBase == ASSUME BaseInv, NEW r \in Run, ReportCrash(r) PROVE BaseInv'
<1>1. TypeOK'
  BY StopStatuses DEF BaseInv, TypeOK, ReportCrash
<1>2. OnlyRun(r)
  BY DEF BaseInv, TypeOK, ReportCrash, OnlyRun
<1>3. Local(r)'
  BY StopStatuses
     DEF BaseInv, TypeOK, ReportCrash, Local, EarlyStatus, LateStatus, SandboxBranch, ToldInTime, ToldStatus, Early
<1>. QED  BY <1>1, <1>2, <1>3, LocalStep

\* The status that execute_run leaves.
LEMMA FinishStatusIs ==
  ASSUME BaseInv, NEW r \in Run, Finish(r)
  PROVE  \E s \in GateStatus \cup {Absent} :
            /\ Leave(r, s)
            /\ s \in {"done", "error", status[r]}
            /\ status[r] \in UndoneStatus => s = status[r]
            /\ s = "done" => status[r] = "done"
            /\ r \in undone => s \in ToldStatus
<1>0. /\ status[r] \in GateStatus \cup {Absent} /\ gate[r] = "drain"
      /\ r \in undone => status[r] \in ToldStatus \/ (r \in raised /\ status[r] = "running")
  BY DEF BaseInv, TypeOK, Finish, Local, ToldInTime
<1>a. CanBecome("running", "error")
  BY DEF CanBecome, ValidTransitions, Status, ActiveStatus, TerminalStatus, ParkedStatus
<1>1. CASE r \in raised
  <2>1. Failed(r, status[r]) \in {"error", status[r]}
    BY FinalStatusIs DEF Failed
  <2>2. status[r] = "running" => Failed(r, status[r]) = "error"
    BY <1>a DEF Failed, FinalStatus
  <2>3. status[r] \in UndoneStatus => Failed(r, status[r]) = status[r]
    BY FinalStatusIs DEF Failed
  <2>4. Leave(r, Failed(r, status[r]))
    BY <1>1 DEF Finish
  <2>. QED  BY <1>0, <2>1, <2>2, <2>3, <2>4 DEF GateStatus, ToldStatus
<1>2. CASE r \notin raised
  <2>1. status[r] \in GateStatus \ {"pending", "running"}
    BY <1>0, <1>2 DEF BaseInv, Local, LateStatus
  <2>2. /\ Handled(r, status[r]) \in {"done", "error", status[r]}
        /\ status[r] \in UndoneStatus => Handled(r, status[r]) = status[r]
        /\ Handled(r, status[r]) = "done" => status[r] = "done"
    BY <2>1, FinalStatusIs DEF Handled
  <2>3. Leave(r, Handled(r, status[r]))
    BY <1>2 DEF Finish
  <2>4. Handled(r, status[r]) \in GateStatus
    BY <2>1, <2>2 DEF GateStatus
  <2>. QED  BY <1>0, <1>2, <2>2, <2>3, <2>4 DEF ToldStatus
<1>. QED  BY <1>1, <1>2

LEMMA FinishBase == ASSUME BaseInv, NEW r \in Run, Finish(r) PROVE BaseInv'
<1>1. PICK s \in GateStatus \cup {Absent} : Leave(r, s) /\ (r \in undone => s \in ToldStatus)
  BY FinishStatusIs
<1>2. lock' \in [Repo -> [run : Run, expired : BOOLEAN] \cup {None}]
  BY GateAssumption DEF Finish, Released, BaseInv, TypeOK
<1>. QED  BY <1>1, <1>2, LeaveBase DEF Finish

LEMMA BaseNext == BaseInv /\ [Next]_vars => BaseInv'
<1> SUFFICES ASSUME BaseInv, [Next]_vars PROVE BaseInv'
  OBVIOUS
<1>1. CASE UNCHANGED vars
  BY <1>1 DEF vars, BaseInv, TypeOK, Local, EarlyStatus, LateStatus, SandboxBranch, ToldInTime
<1>2. ASSUME NEW r \in Run,
             \/ CreateRun(r) \/ StartPending(r) \/ Cancel(r) \/ Refuse(r)
             \/ FindLocked(r) \/ Acquire(r) \/ AddWorktree(r)
      PROVE BaseInv'
  BY <1>2, CreateRunBase, StartPendingBase, CancelBase, RefuseBase, FindLockedBase,
     AcquireBase, AddWorktreeBase
<1>3. ASSUME NEW r \in Run,
             \/ RunTests(r) \/ RunLint(r) \/ DryRunMerge(r) \/ CheckoutTarget(r)
             \/ PerformMerge(r) \/ RecordMerge(r) \/ Rollback(r) \/ RecordRollback(r)
             \/ RemoveWorktree(r) \/ ReportCrash(r) \/ Finish(r)
      PROVE BaseInv'
  BY <1>3, ValidateBase, CheckoutTargetBase, PerformMergeBase, RecordMergeBase,
     RollbackBase, RecordRollbackBase, RemoveWorktreeBase, ReportCrashBase, FinishBase
<1>. QED  BY <1>1, <1>2, <1>3, ExpireBase, RestartBase DEF Next, Proceed

----------------------------------------------------------------------------
(* Types, and the merge lock. *)

\* Whatever is cancelled, fails or crashes, files, worktrees and coroutines
\* stay well formed, and no run ever shows PIPELINE_TIMEOUT.
THEOREM TypeCorrect == Spec => []TypeOK
<1>1. BaseInv => TypeOK
  BY DEF BaseInv
<1>. QED  BY InitBase, BaseNext, <1>1, PTL DEF Spec

LockKept ==
    \A p \in Repo :
       lock[p] # None /\ ~lock[p].expired =>
          \/ lock'[p] # None /\ lock'[p].run = lock[p].run
          \/ gate[lock[p].run] = "drain" /\ gate'[lock[p].run] = "none"

\* release_merge_lock and acquire_merge_lock never touch a lock in force that
\* another run holds.
THEOREM LockSafe == Spec => LockIsKept
<1>1. BaseInv /\ [Next]_vars => [LockKept]_vars
  <2> SUFFICES ASSUME BaseInv, Next, NEW p \in Repo, lock[p] # None, ~lock[p].expired
               PROVE  \/ lock'[p] # None /\ lock'[p].run = lock[p].run
                      \/ gate[lock[p].run] = "drain" /\ gate'[lock[p].run] = "none"
    BY DEF LockKept
  <2>1. lock[p] \in [run : Run, expired : BOOLEAN]
    BY DEF BaseInv, TypeOK
  <2>2. ASSUME NEW r \in Run, Acquire(r)  PROVE lock'[p] = lock[p]
    BY <2>2, GateAssumption DEF Acquire, LockFree, BaseInv, TypeOK
  <2>3. ASSUME NEW r \in Run, Finish(r)
        PROVE  lock'[p] = lock[p] \/ r = lock[p].run
    BY <2>3 DEF Finish, Released, BaseInv, TypeOK
  <2>4. ASSUME NEW r \in Run, Finish(r)
        PROVE  gate[r] = "drain" /\ gate'[r] = "none"
    BY <2>4 DEF Finish, Leave, BaseInv, TypeOK
  <2>5. ASSUME NEW q \in Repo, Expire(q)
        PROVE  lock'[p] # None /\ lock'[p].run = lock[p].run
    <3>1. CASE q = p
      <4>1. lock'[p] = [lock[p] EXCEPT !.expired = TRUE]
        BY <2>5, <3>1 DEF Expire, BaseInv, TypeOK
      <4>2. lock'[p] \in [run : Run, expired : BOOLEAN] /\ lock'[p].run = lock[p].run
        BY <4>1, <2>1
      <4>. QED  BY <4>2, GateAssumption
    <3>2. CASE q # p
      BY <2>5, <3>2 DEF Expire, BaseInv, TypeOK
    <3>. QED  BY <3>1, <3>2
  <2>6. ASSUME \/ Restart
               \/ \E r \in Run : \/ CreateRun(r) \/ StartPending(r) \/ Cancel(r) \/ Refuse(r)
                                 \/ FindLocked(r) \/ AddWorktree(r)
                                 \/ RunTests(r) \/ RunLint(r) \/ DryRunMerge(r)
                                 \/ CheckoutTarget(r) \/ PerformMerge(r) \/ RecordMerge(r)
                                 \/ Rollback(r) \/ RecordRollback(r)
                                 \/ RemoveWorktree(r) \/ ReportCrash(r)
        PROVE  lock' = lock
    BY <2>6 DEF Restart, CreateRun, StartPending, Cancel, Refuse, FindLocked, AddWorktree,
       RunTests, RunLint, DryRunMerge, Validate, CheckoutTarget, PerformMerge,
       RecordMerge, Rollback, RecordRollback, RemoveWorktree, ReportCrash
  <2>. QED  BY <2>2, <2>3, <2>4, <2>5, <2>6 DEF Next, Proceed
<1>. QED  BY InitBase, BaseNext, <1>1, PTL DEF Spec, LockIsKept, LockKept


----------------------------------------------------------------------------
(* What is merged, and what survives. *)

\* What a step must respect in every run q, seen from the branches.
Respects(q) ==
    /\ Validated(q) => Validated(q)'
    /\ status'[q] = "done" =>
          status[q] = "done" \/ Tip0[Source[q]] \subseteq tip'[Target[q]]
    /\ gate'[q] = "merged" =>
          gate[q] = "merged" \/ Tip0[Source[q]] \subseteq tip'[Target[q]]

\* Branches grow by what runs may have merged into them, sources do not change.
Grows ==
    /\ \A b \in Branch : tip[b] \subseteq tip'[b]
    /\ \A b \in Branch : \A c \in tip'[b] : c \in tip[b] \/ Earned(b, c)'
    /\ \A q \in Run : tip'[Source[q]] = tip[Source[q]]
    /\ undone \subseteq undone'

LEMMA GrowingStep ==
  ASSUME IInv, BaseInv', OnePipeline', BeforeIsSource', Grows,
         \A q \in Run : Respects(q)
  PROVE  IInv'
<1>1. SourcesStay'
  BY DEF IInv, SourcesStay, Grows
<1>2. MergedIsIn'
  <2> SUFFICES ASSUME NEW r \in Run, gate'[r] = "merged"
               PROVE  Tip0[Source[r]] \subseteq tip'[Target[r]]
    BY DEF MergedIsIn
  <2>1. Target[r] \in Branch
    BY GateAssumption
  <2>. QED  BY <2>1 DEF IInv, MergedIsIn, Grows, Respects
<1>3. OnlyEarned'
  <2> SUFFICES ASSUME NEW b \in Branch, NEW c \in tip'[b], c \notin Tip0[b]
               PROVE  Earned(b, c)'
    BY DEF OnlyEarned
  <2>1. CASE c \in tip[b]
    <3>1. Earned(b, c)
      BY <2>1 DEF IInv, OnlyEarned
    <3>. QED  BY <3>1 DEF Earned, Respects
  <2>2. CASE c \notin tip[b]
    BY <2>2 DEF Grows
  <2>. QED  BY <2>1, <2>2
<1>4. MergesSurvive'
  <2>1. ASSUME NEW b \in Branch, Undone(b)  PROVE Undone(b)'
    BY <2>1 DEF Undone, Grows
  <2>2. ASSUME NEW b \in Branch  PROVE Tip0[b] \subseteq tip'[b] \/ Undone(b)'
    BY <2>1 DEF IInv, MergesSurvive, Grows
  <2>3. ASSUME NEW r \in Run, status'[r] = "done"
        PROVE  \/ Tip0[Source[r]] \subseteq tip'[Target[r]]
               \/ Undone(Source[r])' \/ Undone(Target[r])'
    <3>1. Source[r] \in Branch /\ Target[r] \in Branch
      BY GateAssumption
    <3>2. status[r] = "done" \/ Tip0[Source[r]] \subseteq tip'[Target[r]]
      BY <2>3 DEF Respects
    <3>3. CASE status[r] = "done"
      <4>1. \/ Tip0[Source[r]] \subseteq tip[Target[r]]
            \/ Undone(Source[r]) \/ Undone(Target[r])
        BY <3>3 DEF IInv, MergesSurvive
      <4>. QED  BY <2>1, <3>1, <4>1 DEF Grows
    <3>. QED  BY <3>2, <3>3
  <2>4. \A r \in undone' : gate'[r] = "none" =>
           status'[r] \in {"ROLLBACK_EXECUTED", "cancelled", "error", "WORKER_CRASHED_RECOVERABLE"}
    BY DEF BaseInv, TypeOK, Local, ToldInTime, ToldStatus
  <2>. QED  BY <2>2, <2>3, <2>4 DEF MergesSurvive
<1>. QED  BY <1>1, <1>2, <1>3, <1>4 DEF IInv

\* A step of run r that leaves the branches alone.
Calm(r) ==
    /\ Validated(r) => Validated(r)'
    /\ status'[r] = "done" =>
          status[r] = "done" \/ Tip0[Source[r]] \subseteq tip[Target[r]]
    /\ gate'[r] \in Stage => gate[r] \in Stage \/ LoopFree
    /\ gate'[r] \in {"merge", "merged", "rollback"} => before'[r] = Tip0[Source[r]]

\* The pipeline stays the only one, and knows the commit of its source.
LEMMA PipelineStep ==
  ASSUME IInv, NEW r \in Run, OnlyRun(r),
         gate'[r] \in Stage => gate[r] \in Stage \/ LoopFree,
         gate'[r] \in {"merge", "merged", "rollback"} => before'[r] = Tip0[Source[r]]
  PROVE  OnePipeline' /\ BeforeIsSource'
<1>1. OnePipeline'
  BY DEF IInv, OnePipeline, OnlyRun, LoopFree
<1>2. BeforeIsSource'
  BY DEF IInv, BeforeIsSource, OnlyRun
<1>. QED  BY <1>1, <1>2

LEMMA CalmStep ==
  ASSUME IInv, BaseInv', NEW r \in Run, OnlyRun(r), Calm(r), tip' = tip, undone' = undone,
         gate'[r] = "merged" => gate[r] = "merged"
  PROVE  IInv'
<1>1. OnePipeline' /\ BeforeIsSource'
  BY PipelineStep DEF Calm
<1>2. Grows
  BY DEF Grows
<1>3. \A q \in Run : Respects(q)
  BY DEF Respects, Calm, OnlyRun, Validated
<1>. QED  BY <1>1, <1>2, <1>3, GrowingStep

LEMMA InitInv == Init => IInv
<1> SUFFICES ASSUME Init PROVE IInv
  OBVIOUS
<1>1. OnePipeline /\ BeforeIsSource /\ MergedIsIn
  BY DEF Init, OnePipeline, BeforeIsSource, MergedIsIn, Stage
<1>2. SourcesStay /\ OnlyEarned
  BY DEF Init, SourcesStay, OnlyEarned
<1>3. MergesSurvive
  BY GateAssumption DEF Init, MergesSurvive, Status, TerminalStatus
<1>. QED  BY <1>1, <1>2, <1>3, InitBase DEF IInv

----------------------------------------------------------------------------
(* Steps outside the pipeline. *)

LEMMA ClientInv ==
  ASSUME IInv, BaseInv', NEW r \in Run, CreateRun(r) \/ StartPending(r) \/ Cancel(r)
  PROVE  IInv'
<1>1. OnlyRun(r) /\ tip' = tip /\ before' = before /\ undone' = undone
  BY DEF CreateRun, StartPending, Cancel, OnlyRun, IInv, BaseInv, TypeOK
<1>2. CASE CreateRun(r)
  BY <1>1, <1>2, CalmStep, GateAssumption
     DEF CreateRun, Calm, Validated, Refused, UndoneStatus, IInv, BaseInv, TypeOK,
         Stage, Status, TerminalStatus
<1>3. CASE StartPending(r)
  BY <1>1, <1>3, CalmStep DEF StartPending, Calm, Validated, Refused, UndoneStatus,
     IInv, BaseInv, TypeOK, Stage
<1>4. CASE Cancel(r)
  <2>1. status'[r] = "cancelled" /\ gate' = gate
    BY <1>4 DEF Cancel, IInv, BaseInv, TypeOK
  <2>2. Calm(r)
    BY <1>1, <2>1, GateAssumption
       DEF Calm, Validated, Refused, UndoneStatus, IInv, BeforeIsSource, Status, TerminalStatus
  <2>. QED  BY <1>1, <2>1, <2>2, CalmStep
<1>. QED  BY <1>2, <1>3, <1>4

LEMMA QueuedInv ==
  ASSUME IInv, BaseInv', NEW r \in Run, Refuse(r) \/ FindLocked(r) \/ Acquire(r)
  PROVE  IInv'
<1>1. /\ gate[r] = "queued" /\ tip' = tip /\ before' = before /\ undone' = undone
      /\ Begun(r) \in {"running", "cancelled"}
      /\ status[r] = "cancelled" => Begun(r) = "cancelled"
      /\ status[r] \in {"pending", "running", "cancelled"}
  BY BegunIs DEF Refuse, FindLocked, Acquire, IInv, BaseInv, Local, EarlyStatus
<1>2. PICK s, g :
         /\ status' = [status EXCEPT ![r] = s] /\ gate' = [gate EXCEPT ![r] = g]
         /\ g \in {"none", "locked"}
         /\ s # "done" /\ (status[r] = "cancelled" => s = "cancelled")
  <2>1. CASE Acquire(r)
    BY <1>1, <2>1 DEF Acquire
  <2>2. CASE \E v \in Verdict \cup {"MERGE_LOCKED"} : EndsWith(r, v)
    <3>1. PICK s \in Verdict \cup {"MERGE_LOCKED", "error", "running", "cancelled"} :
             Leave(r, s) /\ (status[r] = "cancelled" => s = "cancelled")
      BY <1>1, <2>2, VerdictIs DEF IInv
    <3>2. s # "done"
      BY <3>1 DEF Verdict
    <3>. QED  BY <3>1, <3>2 DEF Leave
  <2>3. CASE Leave(r, Failed(r, Begun(r)))
    <3>1. /\ Failed(r, Begun(r)) \in {"error", Begun(r)}
          /\ Begun(r) = "cancelled" => Failed(r, Begun(r)) = "cancelled"
      BY FinalStatusIs DEF Failed, UndoneStatus
    <3>. QED  BY <1>1, <2>3, <3>1 DEF Leave
  <2>4. CASE Leave(r, Begun(r))
    BY <1>1, <2>4 DEF Leave
  <2>. QED  BY <2>1, <2>2, <2>3, <2>4 DEF Refuse, FindLocked
<1>3. OnlyRun(r)
  BY <1>2 DEF Refuse, FindLocked, Acquire, OnlyRun, IInv, BaseInv, TypeOK
<1>4. status'[r] = s /\ gate'[r] = g
  BY <1>2 DEF IInv, BaseInv, TypeOK
<1>5. Calm(r)
  BY <1>1, <1>2, <1>4 DEF Calm, Validated, Early, UndoneStatus, Stage
<1>. QED  BY <1>1, <1>2, <1>3, <1>4, <1>5, CalmStep

LEMMA FinishInv ==
  ASSUME IInv, BaseInv', NEW r \in Run, Finish(r) \/ ReportCrash(r) \/ RemoveWorktree(r)
  PROVE  IInv'
<1>1. /\ gate[r] \in {"cleanup", "crashed", "drain"} /\ tip' = tip /\ before' = before
      /\ undone' = undone
      /\ OnlyRun(r)
  BY DEF Finish, ReportCrash, RemoveWorktree, Leave, OnlyRun, IInv, BaseInv, TypeOK
<1>2. /\ gate'[r] \in {"none", "crashed", "drain"}
      /\ status'[r] \in {"done", "error", "WORKER_CRASHED_RECOVERABLE", status[r]}
      /\ status[r] \in UndoneStatus => status'[r] = status[r]
      /\ status'[r] = "done" => status[r] = "done"
  <2>1. CASE Finish(r)
    <3>1. PICK s \in GateStatus \cup {Absent} :
             /\ Leave(r, s)
             /\ s \in {"done", "error", status[r]}
             /\ status[r] \in UndoneStatus => s = status[r]
             /\ s = "done" => status[r] = "done"
      BY <2>1, FinishStatusIs DEF IInv
    <3>. QED  BY <3>1 DEF Leave, IInv, BaseInv, TypeOK
  <2>2. CASE ReportCrash(r)
    <3>1. status[r] \in UndoneStatus => ~CanBecome(status[r], "WORKER_CRASHED_RECOVERABLE")
      BY UndoneIsFinal DEF UndoneStatus
    <3>. QED  BY <2>2, <3>1 DEF ReportCrash, IInv, BaseInv, TypeOK
  <2>3. CASE RemoveWorktree(r)
    BY <2>3 DEF RemoveWorktree, IInv, BaseInv, TypeOK
  <2>. QED  BY <2>1, <2>2, <2>3
<1>3. Calm(r)
  <2>1. Validated(r) => Validated(r)'
    BY <1>2, GateAssumption
       DEF Validated, Refused, Early, Status, ActiveStatus, TerminalStatus
  <2>. QED  BY <1>1, <1>2, <2>1 DEF Calm, Stage
<1>. QED  BY <1>1, <1>2, <1>3, CalmStep

LEMMA RestartInv == ASSUME IInv, BaseInv', Restart PROVE IInv'
<1>1. \A q \in Run : /\ gate'[q] = "none"
                     /\ status'[q] \in {status[q], "error"}
                     /\ status'[q] # status[q] => status[q] = "running"
  BY DEF Restart
<1>2. OnePipeline' /\ BeforeIsSource'
  BY <1>1 DEF OnePipeline, BeforeIsSource, Stage
<1>3. Grows
  BY DEF Restart, Grows
<1>4. \A q \in Run : Respects(q)
  BY <1>1, GateAssumption DEF Respects, Validated, Refused, Early, UndoneStatus, Status,
     TerminalStatus
<1>. QED  BY <1>2, <1>3, <1>4, GrowingStep

LEMMA ExpireInv == ASSUME IInv, BaseInv', NEW p \in Repo, Expire(p) PROVE IInv'
BY DEF Expire, IInv, OnePipeline, SourcesStay, BeforeIsSource, MergedIsIn, OnlyEarned,
   Earned, Validated, MergesSurvive, Undone


----------------------------------------------------------------------------
(* The pipeline. *)

\* A stage before the merge stops, raises or continues.
LEMMA EarlyStageInv ==
  ASSUME IInv, BaseInv', NEW r \in Run,
         AddWorktree(r) \/ RunTests(r) \/ RunLint(r) \/ DryRunMerge(r) \/ CheckoutTarget(r)
  PROVE  IInv'
<1>1. /\ gate[r] \in {"locked", "tests", "lint", "dry_run", "checkout"}
      /\ status[r] \in {"running", "cancelled"} /\ tip' = tip /\ undone' = undone
      /\ gate[r] = "locked" => LoopFree
  BY DEF AddWorktree, RunTests, RunLint, DryRunMerge, Validate, CheckoutTarget,
     IInv, BaseInv, Local, EarlyStatus, Early
<1>2. PICK next \in Stage \cup {"drain"}, s \in GateStatus \ {"done", "cancelled"} :
        \/ Continue(r, next) /\ next \in {"tests", "lint", "dry_run", "checkout", "merge"}
        \/ Stop(r, s, next) /\ next \in {"cleanup", "drain"}
        \/ Raise(r, "cleanup")
  BY DEF AddWorktree, RunTests, RunLint, DryRunMerge, Validate, CheckoutTarget,
     Stage, GateStatus
<1>3. /\ gate'[r] \in (Stage \ {"merged", "rollback"}) \cup {"crashed", "drain"}
      /\ status'[r] # "done"
      /\ status[r] = "cancelled" => status'[r] = "cancelled"
      /\ \A q \in Run \ {r} : /\ status'[q] = status[q] /\ gate'[q] = gate[q]
                              /\ q \in raised' <=> q \in raised
  <2>1. CASE Continue(r, next) /\ next \in {"tests", "lint", "dry_run", "checkout", "merge"}
    BY <1>1, <1>2, <2>1, ContinueIsTyped DEF IInv, BaseInv, Stage
  <2>2. CASE Stop(r, s, next) /\ next \in {"cleanup", "drain"}
    <3>1. status[r] = "cancelled" => ~CanBecome(status[r], s)
      BY <1>2, UndoneIsFinal DEF UndoneStatus
    <3>2. status'[r] \in {s, status[r]} /\ gate'[r] \in {"cleanup", "crashed", "drain"}
      BY <1>2, <2>2, StopIsTyped DEF IInv, BaseInv
    <3>3. status[r] = "cancelled" => status'[r] = "cancelled"
      BY <2>2, <3>1 DEF Stop, Raise
    <3>4. \A q \in Run \ {r} : /\ status'[q] = status[q] /\ gate'[q] = gate[q]
                               /\ q \in raised' <=> q \in raised
      BY <1>2, <2>2, StopIsTyped DEF IInv, BaseInv
    <3>. QED  BY <1>1, <1>2, <3>2, <3>3, <3>4 DEF Stage
  <2>3. CASE Raise(r, "cleanup")
    BY <1>1, <2>3, RaiseIsTyped DEF IInv, BaseInv, Stage
  <2>. QED  BY <1>2, <2>1, <2>2, <2>3
<1>4. /\ \A q \in Run \ {r} : sandbox'[q] = sandbox[q] /\ before'[q] = before[q]
      /\ undone' = undone
  BY DEF AddWorktree, RunTests, RunLint, DryRunMerge, Validate, CheckoutTarget,
     IInv, BaseInv, TypeOK
<1>5. OnlyRun(r)
  BY <1>3, <1>4 DEF OnlyRun
<1>6. ASSUME gate'[r] = "merge"  PROVE before'[r] = Tip0[Source[r]]
  <2>1. CheckoutTarget(r)
    BY <1>1, <1>6
       DEF AddWorktree, RunTests, RunLint, DryRunMerge, Validate, Continue, Stop, Raise,
           IInv, BaseInv, TypeOK
  <2>2. before'[r] = tip[sandbox[r]]
    BY <1>6, <2>1 DEF CheckoutTarget, Raise, IInv, BaseInv, TypeOK
  <2>3. sandbox[r] = Source[r]
    BY <2>1 DEF CheckoutTarget, IInv, BaseInv, Local, SandboxBranch
  <2>. QED  BY <2>2, <2>3 DEF IInv, SourcesStay
<1>7. Calm(r)
  BY <1>1, <1>3, <1>6 DEF Calm, Validated, Early, UndoneStatus, Stage
<1>. QED  BY <1>1, <1>3, <1>5, <1>7, CalmStep

LEMMA PerformMergeInv ==
  ASSUME IInv, BaseInv', SourcesAreNotTargets, NEW r \in Run, PerformMerge(r)
  PROVE  IInv'
<1>1. /\ gate[r] = "merge" /\ status[r] \in {"running", "cancelled"}
      /\ before'[r] = Tip0[Source[r]] /\ UNCHANGED <<lock, sandbox, before, undone>>
      /\ Target[r] \in Branch /\ Source[r] \in Branch
  BY GateAssumption DEF PerformMerge, IInv, BaseInv, Local, EarlyStatus, Early, BeforeIsSource
<1>2. /\ OnlyRun(r)
      /\ gate'[r] \in {"merged", "cleanup"}
      /\ status'[r] \in {"MERGE_CONFLICT", status[r]}
      /\ status[r] = "cancelled" => status'[r] = "cancelled"
  <2>1. CASE Continue(r, "merged")
    BY <1>1, <2>1, ContinueIsTyped DEF OnlyRun, IInv, BaseInv, Stage
  <2>2. CASE Stop(r, "MERGE_CONFLICT", "cleanup")
    <3>1. status[r] = "cancelled" => ~CanBecome(status[r], "MERGE_CONFLICT")
      BY UndoneIsFinal DEF UndoneStatus
    <3>. QED  BY <1>1, <2>2, <3>1 DEF Stop, Raise, OnlyRun, IInv, BaseInv, TypeOK
  <2>3. CASE Raise(r, "cleanup")
    BY <1>1, <2>3, RaiseIsTyped DEF OnlyRun, IInv, BaseInv
  <2>. QED  BY <2>1, <2>2, <2>3 DEF PerformMerge
<1>3. Validated(r)'
  BY <1>1, <1>2, GateAssumption
     DEF Validated, Refused, Early, Status, ActiveStatus, TerminalStatus, ParkedStatus
<1>4. /\ tip' \in {tip, [tip EXCEPT ![Target[r]] = @ \cup tip[Source[r]]]}
      /\ gate'[r] = "merged" => Tip0[Source[r]] \subseteq tip'[Target[r]]
  <2>1. tip[Source[r]] = Tip0[Source[r]]
    BY DEF IInv, SourcesStay
  <2>. QED  BY <1>1, <2>1 DEF PerformMerge, Stop, Raise, IInv, BaseInv, TypeOK
<1>5. Grows
  <2>1. \A b \in Branch : tip[b] \subseteq tip'[b]
    BY <1>4 DEF IInv, BaseInv, TypeOK
  <2>2. ASSUME NEW b \in Branch, NEW c \in tip'[b], c \notin tip[b]
        PROVE  Earned(b, c)'
    <3>1. b = Target[r] /\ c \in tip[Source[r]]
      BY <1>1, <1>4, <2>2 DEF IInv, BaseInv, TypeOK
    <3>2. c \in Tip0[Source[r]]
      BY <3>1 DEF IInv, SourcesStay
    <3>. QED  BY <1>3, <3>1, <3>2 DEF Earned
  <2>3. \A q \in Run : tip'[Source[q]] = tip[Source[q]]
    BY <1>1, <1>4, GateAssumption DEF IInv, BaseInv, TypeOK, SourcesAreNotTargets
  <2>. QED  BY <1>1, <2>1, <2>2, <2>3 DEF Grows
<1>6. OnePipeline' /\ BeforeIsSource'
  BY <1>1, <1>2, PipelineStep DEF Stage
<1>7. \A q \in Run : Respects(q)
  <2>1. Respects(r)
    BY <1>1, <1>2, <1>3, <1>4 DEF Respects, UndoneStatus
  <2>2. \A q \in Run \ {r} : Respects(q)
    BY <1>2 DEF Respects, OnlyRun, Validated
  <2>. QED  BY <2>1, <2>2
<1>. QED  BY <1>5, <1>6, <1>7, GrowingStep

\* A rollback takes the target branch back to the source.
LEMMA ResetInv ==
  ASSUME IInv, BaseInv', SourcesAreNotTargets, NEW r \in Run, gate[r] = "rollback",
         gate'[r] \in {"undone", "cleanup"}, status' = status, undone' = undone \cup {r},
         \A q \in Run \ {r} : gate'[q] = gate[q] /\ (q \in raised' <=> q \in raised),
         UNCHANGED <<sandbox, before>>,
         tip' = [tip EXCEPT ![Target[r]] = Tip0[Source[r]]]
  PROVE  IInv'
<1>0. OnlyRun(r) /\ status[r] \in {"running", "cancelled"}
  BY DEF OnlyRun, IInv, BaseInv, Local, EarlyStatus
<1>1. /\ Validated(r)'
      /\ Target[r] \in Branch /\ Source[r] \in Branch
      /\ \A b \in Branch : tip'[b] = IF b = Target[r] THEN Tip0[Source[r]] ELSE tip[b]
  BY <1>0, GateAssumption
     DEF Validated, Refused, Early, IInv, BaseInv, TypeOK, Status, ActiveStatus, TerminalStatus
<1>2. OnePipeline' /\ BeforeIsSource'
  BY <1>0, PipelineStep DEF Stage
<1>3. SourcesStay'
  BY <1>1, GateAssumption DEF IInv, SourcesStay, SourcesAreNotTargets
<1>4. MergedIsIn'
  <2> SUFFICES ASSUME NEW q \in Run, gate'[q] = "merged"
               PROVE  Tip0[Source[q]] \subseteq tip'[Target[q]]
    BY DEF MergedIsIn
  <2>1. q # r /\ gate[q] = "merged"
    OBVIOUS
  <2>. QED  BY <2>1 DEF IInv, OnePipeline, Stage
<1>5. OnlyEarned'
  <2> SUFFICES ASSUME NEW b \in Branch, NEW c \in tip'[b], c \notin Tip0[b]
               PROVE  Earned(b, c)'
    BY DEF OnlyEarned
  <2>1. CASE b = Target[r]
    BY <1>1, <2>1 DEF Earned
  <2>2. CASE b # Target[r]
    <3>1. Earned(b, c)
      BY <1>1, <2>2 DEF IInv, OnlyEarned
    <3>2. PICK q \in Run : Target[q] = b /\ Validated(q) /\ c \in Tip0[Source[q]]
      BY <3>1 DEF Earned
    <3>3. Validated(q)'
      BY <1>0, <2>2, <3>2 DEF Validated, OnlyRun
    <3>. QED  BY <3>2, <3>3 DEF Earned
  <2>. QED  BY <2>1, <2>2
<1>6. MergesSurvive'
  <2>1. Undone(Target[r])'
    BY DEF Undone
  <2>2. ASSUME NEW b \in Branch, Undone(b)  PROVE Undone(b)'
    BY <2>2 DEF Undone
  <2>3. ASSUME NEW b \in Branch  PROVE Tip0[b] \subseteq tip'[b] \/ Undone(b)'
    BY <1>1, <2>1, <2>2 DEF IInv, MergesSurvive
  <2>4. ASSUME NEW q \in Run, status'[q] = "done"
        PROVE  \/ Tip0[Source[q]] \subseteq tip'[Target[q]]
               \/ Undone(Source[q])' \/ Undone(Target[q])'
    <3>1. status[q] = "done"
      BY <2>4
    <3>2. \/ Tip0[Source[q]] \subseteq tip[Target[q]]
          \/ Undone(Source[q]) \/ Undone(Target[q])
      BY <3>1 DEF IInv, MergesSurvive
    <3>3. Target[q] \in Branch /\ Source[q] \in Branch /\ Source[q] # Target[r]
      BY GateAssumption DEF SourcesAreNotTargets
    <3>. QED  BY <1>1, <2>1, <2>2, <3>2, <3>3
  <2>5. \A q \in undone' : gate'[q] = "none" =>
           status'[q] \in {"ROLLBACK_EXECUTED", "cancelled", "error", "WORKER_CRASHED_RECOVERABLE"}
    BY DEF BaseInv, TypeOK, Local, ToldInTime, ToldStatus
  <2>. QED  BY <2>3, <2>4, <2>5 DEF MergesSurvive
<1>. QED  BY <1>2, <1>3, <1>4, <1>5, <1>6 DEF IInv

LEMMA RecordMergeInv ==
  ASSUME IInv, BaseInv', NEW r \in Run, RecordMerge(r)
  PROVE  IInv'
<1>1. /\ gate[r] = "merged" /\ status[r] \in {"running", "cancelled"}
      /\ before[r] = Tip0[Source[r]] /\ Tip0[Source[r]] \subseteq tip[Target[r]]
      /\ UNCHANGED <<lock, tip, sandbox, before, undone>>
  BY DEF RecordMerge, IInv, BaseInv, Local, EarlyStatus, BeforeIsSource, MergedIsIn
<1>2. /\ OnlyRun(r) /\ gate'[r] \in {"rollback", "cleanup"}
      /\ status'[r] \in {"done", status[r]}
  BY <1>1 DEF RecordMerge, Continue, OnlyRun, IInv, BaseInv, TypeOK
<1>3. Calm(r)
  BY <1>1, <1>2, GateAssumption
     DEF Calm, Validated, Refused, Early, Stage, Status, ActiveStatus, TerminalStatus
<1>. QED  BY <1>1, <1>2, <1>3, CalmStep

LEMMA RollbackInv ==
  ASSUME IInv, BaseInv', SourcesAreNotTargets, NEW r \in Run, Rollback(r)
  PROVE  IInv'
<1>1. /\ gate[r] = "rollback" /\ status[r] \in {"running", "cancelled"}
      /\ sandbox[r] = Target[r] /\ before[r] = Tip0[Source[r]]
      /\ UNCHANGED <<lock, sandbox, before>>
  BY DEF Rollback, IInv, BaseInv, Local, EarlyStatus, SandboxBranch, BeforeIsSource
<1>2. /\ status' = status /\ gate'[r] \in {"undone", "kept", "cleanup"}
      /\ \A q \in Run \ {r} : gate'[q] = gate[q] /\ (q \in raised' <=> q \in raised)
  BY <1>1 DEF Rollback, Continue, Raise, IInv, BaseInv, TypeOK
<1>3. CASE tip' = [tip EXCEPT ![sandbox[r]] = before[r]] /\ undone' = undone \cup {r}
  <2>1. gate'[r] # "kept"
    BY <1>1, <1>3 DEF Rollback, Continue, Raise, IInv, BaseInv, TypeOK, Local, ToldInTime
  <2>. QED  BY <1>1, <1>2, <1>3, <2>1, ResetInv
<1>4. CASE tip' = tip /\ undone' = undone
  <2>1. OnlyRun(r)
    BY <1>1, <1>2, <1>4 DEF OnlyRun
  <2>2. Calm(r)
    BY <1>1, <1>2, GateAssumption
       DEF Calm, Validated, Refused, Early, Stage, Status, ActiveStatus, TerminalStatus
  <2>. QED  BY <1>2, <1>4, <2>1, <2>2, CalmStep
<1>. QED  BY <1>3, <1>4 DEF Rollback

LEMMA RecordRollbackInv ==
  ASSUME IInv, BaseInv', NEW r \in Run, RecordRollback(r)
  PROVE  IInv'
<1>1. /\ gate[r] \in {"undone", "kept"} /\ status[r] \in {"running", "cancelled"}
      /\ UNCHANGED <<lock, tip, sandbox, before, undone>>
  BY DEF RecordRollback, IInv, BaseInv, Local, EarlyStatus
<1>2. /\ OnlyRun(r) /\ gate'[r] = "cleanup"
      /\ status'[r] \in {"ROLLBACK_EXECUTED", "WORKER_CRASHED_RECOVERABLE", status[r]}
  BY <1>1 DEF RecordRollback, Stop, Raise, OnlyRun, IInv, BaseInv, TypeOK
<1>3. Calm(r)
  BY <1>1, <1>2, GateAssumption
     DEF Calm, Validated, Refused, Early, Stage, Status, ActiveStatus, TerminalStatus
<1>. QED  BY <1>1, <1>2, <1>3, CalmStep

----------------------------------------------------------------------------

LEMMA NextInv == SourcesAreNotTargets => (IInv /\ [Next]_vars => IInv')
<1> SUFFICES ASSUME SourcesAreNotTargets, IInv, [Next]_vars PROVE IInv'
  OBVIOUS
<1>0. BaseInv'
  BY BaseNext DEF IInv
<1>1. CASE UNCHANGED vars
  BY <1>0, <1>1
     DEF vars, IInv, OnePipeline, SourcesStay, BeforeIsSource, MergedIsIn, OnlyEarned,
         Earned, Validated, MergesSurvive, Undone
<1>2. ASSUME NEW r \in Run,
             \/ CreateRun(r) \/ StartPending(r) \/ Cancel(r) \/ Refuse(r)
             \/ FindLocked(r) \/ Acquire(r) \/ Finish(r) \/ ReportCrash(r)
             \/ RemoveWorktree(r)
      PROVE IInv'
  BY <1>0, <1>2, ClientInv, QueuedInv, FinishInv
<1>3. ASSUME NEW r \in Run,
             \/ AddWorktree(r) \/ RunTests(r) \/ RunLint(r) \/ DryRunMerge(r)
             \/ CheckoutTarget(r) \/ PerformMerge(r) \/ RecordMerge(r)
             \/ Rollback(r) \/ RecordRollback(r)
      PROVE IInv'
  BY <1>0, <1>3, EarlyStageInv, PerformMergeInv, RecordMergeInv, RollbackInv, RecordRollbackInv
<1>. QED  BY <1>0, <1>1, <1>2, <1>3, ExpireInv, RestartInv DEF Next, Proceed

\* Whatever git, the gates, clients and crashes do, a branch only gains the
\* changes of runs that no gate, test or linter has stopped.
THEOREM ValidatedMerges ==
  ASSUME SourcesAreNotTargets
  PROVE  Spec => []OnlyValidatedMerges
<1>1. IInv => OnlyValidatedMerges
  <2> SUFFICES ASSUME IInv, NEW b \in Branch, NEW c \in tip[b], c \notin Tip0[b]
               PROVE  \E r \in Run : /\ Target[r] = b /\ status[r] \notin Refused
                                     /\ c \in tip[Source[r]]
    BY DEF OnlyValidatedMerges
  <2>1. PICK r \in Run : Target[r] = b /\ Validated(r) /\ c \in Tip0[Source[r]]
    BY DEF IInv, OnlyEarned, Earned
  <2>. QED  BY <2>1 DEF IInv, SourcesStay, Validated
<1>2. IInv /\ [Next]_vars => IInv'
  BY NextInv
<1>. QED  BY InitInv, <1>1, <1>2, PTL DEF Spec

\* No commit of a branch and no merge that is done is ever lost, but to the
\* rollback of a run into the same branch.
THEOREM MergesSurviveAlways ==
  ASSUME SourcesAreNotTargets
  PROVE  Spec => []MergesSurvive
<1>1. IInv => MergesSurvive
  BY DEF IInv
<1>2. IInv /\ [Next]_vars => IInv'
  BY NextInv
<1>. QED  BY InitInv, <1>1, <1>2, PTL DEF Spec

-----------------------------------------------------------------------------
(* Contexts and judgements. *)

LEMMA JudgedContextType ==
  ASSUME NEW rules \in Policy, NEW request \in Request
  PROVE  D!JudgedContext(rules, request) \in D!Context
BY DEF D!Context

LEMMA ContextOfType ==
  ASSUME D!TypeOK, NEW d \in Draft
  PROVE  D!ContextOf(d) \in D!Context
BY DEF D!TypeOK, D!ContextOf, D!DraftFile, D!Context

\* Both gates pass only what the judgement of a new draft, under a policy that
\* allows it, finds eligible for an automatic run.
LEMMA GatesPassEligible ==
  ASSUME NEW rules, NEW context, context.risk \in Int, D!Gates(rules, context) = "continue"
  PROVE  LET declared == IF context.declared = Absent THEN "SAFE_REFACTOR"
                         ELSE context.declared
         IN  /\ D!Intent(declared, context.pathScope, context.risk, "allow").decision
                  = "AUTO_RUN_ELIGIBLE"
             /\ context.risk <= 300
<1>. DEFINE declared == IF context.declared = Absent THEN "SAFE_REFACTOR" ELSE context.declared
            verdict == D!PolicyVerdict(D!PolicyStatus(rules, context.pathScope,
                                                  context.files, context.loc))
            intent == D!Intent(declared, context.pathScope, context.risk, verdict)
<1>1. D!PolicyGate(rules, context) = "continue" /\ D!RiskGate(context.risk) = "continue"
  BY DEF D!Gates
<1>2. context.risk <= 300
  BY <1>1 DEF D!RiskGate
<1>3. /\ intent.decision # "DRAFT_REJECTED_FORBIDDEN_SCOPE"
      /\ intent.decision # "HUMAN_APPROVAL_REQUIRED"
      /\ verdict # "review"
  BY <1>1 DEF D!PolicyGate
<1>4. verdict \in {"allow", "review", "deny"}
  BY DEF D!PolicyVerdict
<1>5. verdict # "deny"
  BY <1>3 DEF D!Intent
<1>6. verdict = "allow"
  BY <1>3, <1>4, <1>5
<1>. HIDE DEF verdict, declared
<1>7. intent.decision = "AUTO_RUN_ELIGIBLE"
  BY <1>2, <1>3, <1>6 DEF D!Intent
<1>. QED BY <1>2, <1>6, <1>7 DEF declared

-----------------------------------------------------------------------------
(* Types. *)

\* Steps that change one draft file and nothing else.
LEMMA WriteDraftType ==
  ASSUME D!TypeOK, NEW d \in Draft, NEW file \in D!DraftFile \cup {Absent}, D!WriteDraft(d, file),
         UNCHANGED <<policy, entry, run, stale, crashes>>
  PROVE  D!TypeOK'
BY DEF D!TypeOK, D!WriteDraft, D!Existing

\* Steps that change one run: a run that is written stays, and what it was is kept.
LEMMA WriteRunType ==
  ASSUME D!TypeOK, D!DraftRunsConstants, NEW r \in DraftRun, NEW record \in D!RunRecord,
         record.entry \in D!Existing(entry), run' = [run EXCEPT ![r] = record],
         UNCHANGED <<policy, draft, entry, stale, crashes>>
  PROVE  D!TypeOK'
<1>1. record # Absent
  BY DEF D!DraftRunsConstants
<1>2. run' \in [DraftRun -> D!RunRecord \cup {Absent}]
  BY DEF D!TypeOK
<1>3. \A q \in D!Existing(run)' : run'[q].entry \in D!Existing(entry)'
  BY DEF D!TypeOK, D!Existing
<1>4. D!Existing(run) \subseteq D!Existing(run)'
  BY <1>1, <1>2 DEF D!TypeOK, D!Existing
<1>. QED BY <1>2, <1>3, <1>4 DEF D!TypeOK

\* Approvals write one entry file.
LEMMA WriteEntryType ==
  ASSUME D!TypeOK, D!DraftRunsConstants, NEW d \in Draft, NEW a \in Entry, draft[d] # Absent,
         entry[a] = Absent, entry' = [entry EXCEPT ![a] = D!NewEntry(d)]
  PROVE  /\ entry' \in [Entry -> D!EntryFile \cup {Absent}]
         /\ D!Existing(entry)' = D!Existing(entry) \cup {a}
<1>1. D!NewEntry(d) \in D!EntryFile
  BY DEF D!TypeOK, D!NewEntry, D!DraftFile, D!EntryFile
<1>2. D!NewEntry(d) # Absent
  BY <1>1 DEF D!DraftRunsConstants
<1>. QED BY <1>1, <1>2 DEF D!TypeOK, D!Existing

LEMMA NewRunType ==
  ASSUME D!TypeOK, NEW a \in D!Existing(entry), NEW s \in D!Status
  PROVE  D!NewRun(a, s) \in D!RunRecord /\ D!NewRun(a, s).entry = a
<1>1. a \in Entry /\ entry[a].draft \in Draft
  BY DEF D!TypeOK, D!Existing, D!EntryFile
<1>2. D!ContextOf(entry[a].draft) \in D!Context
  BY <1>1, ContextOfType
<1>. QED BY <1>1, <1>2 DEF D!NewRun, D!RunKey, D!RunRecord

LEMMA CreateDraftType ==
  ASSUME D!TypeOK, NEW d \in Draft, NEW t \in Text, NEW q \in Request, D!CreateDraft(d, t, q)
  PROVE  D!TypeOK'
<1>1. D!JudgedContext(policy, q) \in D!Context
  BY JudgedContextType DEF D!TypeOK
<1>. QED BY <1>1, WriteDraftType DEF D!CreateDraft, D!DraftFile

LEMMA GenerateDraftType ==
  ASSUME D!TypeOK, NEW d \in Draft, NEW t \in Text, NEW c \in GeneratedContext,
         NEW s \in {"draft", "error"}, D!GenerateDraft(d, t, c, s)
  PROVE  D!TypeOK'
BY WriteDraftType DEF D!GenerateDraft, D!DraftFile, D!Context

LEMMA UpdateDraftType ==
  ASSUME D!TypeOK, NEW d \in Draft, NEW t \in Text, NEW c \in EditedContext,
         D!UpdateDraft(d, t, c)
  PROVE  D!TypeOK'
<1>1. draft[d] \in D!DraftFile
  BY DEF D!TypeOK, D!UpdateDraft
<1>2. c \in D!Context
  BY DEF D!Context
<1>3. [draft[d] EXCEPT !.text = t, !.context = c] \in D!DraftFile
  BY <1>1, <1>2 DEF D!DraftFile
<1>. QED BY <1>3, WriteDraftType DEF D!UpdateDraft

LEMMA RejectDraftType ==
  ASSUME D!TypeOK, NEW d \in Draft, D!RejectDraft(d)
  PROVE  D!TypeOK'
<1>1. draft[d] \in D!DraftFile
  BY DEF D!TypeOK, D!RejectDraft
<1>2. [draft[d] EXCEPT !.status = "rejected"] \in D!DraftFile
  BY <1>1 DEF D!DraftFile
<1>. QED BY <1>2, WriteDraftType DEF D!RejectDraft

LEMMA CleanupOldDraftType ==
  ASSUME D!TypeOK, NEW d \in Draft, D!CleanupOldDraft(d)
  PROVE  D!TypeOK'
BY WriteDraftType DEF D!CleanupOldDraft

LEMMA ApproveDraftType ==
  ASSUME D!TypeOK, D!DraftRunsConstants, NEW d \in Draft, NEW a \in Entry, D!ApproveDraft(d, a)
  PROVE  D!TypeOK'
<1>1. /\ entry' \in [Entry -> D!EntryFile \cup {Absent}]
      /\ D!Existing(entry)' = D!Existing(entry) \cup {a}
  BY WriteEntryType DEF D!ApproveDraft, D!MayAddEntry
<1>2. draft' \in [Draft -> D!DraftFile \cup {Absent}]
  <2>1. draft[d] \in D!DraftFile
    BY DEF D!TypeOK, D!ApproveDraft
  <2>2. [draft[d] EXCEPT !.status = "approved"] \in D!DraftFile
    BY <2>1 DEF D!DraftFile
  <2>. QED BY <2>2 DEF D!TypeOK, D!ApproveDraft, D!WriteDraft
<1>. QED BY <1>1, <1>2 DEF D!TypeOK, D!ApproveDraft, D!Existing

LEMMA CrashInApproveType ==
  ASSUME D!TypeOK, D!DraftRunsConstants, NEW d \in Draft, NEW a \in Entry, D!CrashInApprove(d, a)
  PROVE  D!TypeOK'
<1>1. /\ entry' \in [Entry -> D!EntryFile \cup {Absent}]
      /\ D!Existing(entry)' = D!Existing(entry) \cup {a}
  BY WriteEntryType DEF D!CrashInApprove, D!MayAddEntry
<1>2. crashes' \in [Draft -> Nat]
  BY DEF D!TypeOK, D!CrashInApprove
<1>. QED BY <1>1, <1>2 DEF D!TypeOK, D!CrashInApprove, D!Existing

LEMMA AutoRunType ==
  ASSUME D!TypeOK, D!DraftRunsConstants, NEW r \in DraftRun, NEW d \in Draft, NEW a \in Entry,
         D!AutoRun(r, d, a)
  PROVE  D!TypeOK'
<1>1. a \in D!Existing(entry)
  BY DEF D!AutoRun, D!EntriesOf
<1>2. "pending" \in D!Status
  BY DEF D!Status, D!ActiveStatus
<1>3. D!NewRun(a, "pending") \in D!RunRecord /\ D!NewRun(a, "pending").entry = a
  BY <1>1, <1>2, NewRunType
<1>. QED BY <1>1, <1>3, WriteRunType DEF D!AutoRun

LEMMA CreateRunType ==
  ASSUME D!TypeOK, D!DraftRunsConstants, NEW r \in DraftRun, NEW a \in Entry, D!CreateRun(r, a)
  PROVE  D!TypeOK'
<1>1. a \in D!Existing(entry)
  BY DEF D!CreateRun, D!CanCreateRun, D!Existing, D!TypeOK
<1>2. "running" \in D!Status
  BY DEF D!Status, D!ActiveStatus
<1>3. D!NewRun(a, "running") \in D!RunRecord /\ D!NewRun(a, "running").entry = a
  BY <1>1, <1>2, NewRunType
<1>. QED BY <1>1, <1>3, WriteRunType DEF D!CreateRun

\* What Execute writes: the context it read, a status, and what was sent or begun.
LEMMA ExecuteWrites ==
  ASSUME D!TypeOK, NEW r \in DraftRun, D!Execute(r)
  PROVE  \E record \in D!RunRecord :
            /\ run' = [run EXCEPT ![r] = record]
            /\ record.entry = run[r].entry
            /\ record.context \in D!Context
            /\ record.sent # Absent \/ record.merging =>
                  \/ run[r].sent # Absent \/ run[r].merging
                  \/ D!Gates(policy, record.context) = "continue"
            /\ record.context = D!ContextOf(entry[run[r].entry].draft)
<1>. DEFINE d == entry[run[r].entry].draft
            context == D!ContextOf(d)
            read == [run[r] EXCEPT !.context = context]
            refusal == D!MergeVerdict(context, run[r].recorded)
<1>1. run[r] \in D!RunRecord /\ run[r].entry \in D!Existing(entry)
  BY DEF D!TypeOK, D!Execute, D!Existing
<1>2. d \in Draft /\ entry[run[r].entry] \in D!EntryFile
  BY <1>1 DEF D!TypeOK, D!Existing, D!EntryFile
<1>3. context \in D!Context
  BY <1>2, ContextOfType
<1>4. {"error", "running", "WORKER_CRASHED_RECOVERABLE", "HUMAN_APPROVAL_REQUIRED",
       "RISK_SCORE_TOO_HIGH"} \subseteq D!Status
  BY DEF D!Status, D!ActiveStatus, D!TerminalStatus, D!ParkedStatus
<1>5. refusal # "merge" => refusal \in D!Status
  BY <1>4 DEF D!MergeVerdict
<1>. HIDE DEF context, refusal, d
<1>6. /\ read \in D!RunRecord
      /\ read.entry = run[r].entry /\ read.context = context
      /\ read.sent = run[r].sent /\ read.merging = run[r].merging
  BY <1>1, <1>3 DEF D!RunRecord
<1>. HIDE DEF read
<1>7. CASE run' = [run EXCEPT ![r] = [read EXCEPT !.status = "error"]]
  <2>1. [read EXCEPT !.status = "error"] \in D!RunRecord
    BY <1>4, <1>6 DEF D!RunRecord
  <2>. QED BY <1>3, <1>6, <1>7, <2>1 DEF D!RunRecord, context, d
<1>8. CASE run' = [run EXCEPT ![r] = [read EXCEPT !.status = "running"]]
  <2>1. [read EXCEPT !.status = "running"] \in D!RunRecord
    BY <1>4, <1>6 DEF D!RunRecord
  <2>. QED BY <1>3, <1>6, <1>8, <2>1 DEF D!RunRecord, context, d
<1>9. CASE /\ D!Gates(policy, context) = "continue"
           /\ draft[d] # Absent
           /\ run' = [run EXCEPT ![r] = [read EXCEPT !.status = "running",
                                                    !.sent = draft[d].text]]
  <2>1. draft[d].text \in Text
    BY <1>2, <1>9 DEF D!TypeOK, D!DraftFile
  <2>2. [read EXCEPT !.status = "running", !.sent = draft[d].text] \in D!RunRecord
    BY <1>4, <1>6, <2>1 DEF D!RunRecord
  <2>. QED BY <1>3, <1>6, <1>9, <2>2 DEF D!RunRecord, context, d
<1>10. CASE /\ D!Gates(policy, context) = "continue"
            /\ run' = [run EXCEPT ![r] = [read EXCEPT !.status = "running", !.merging = TRUE]]
  <2>1. [read EXCEPT !.status = "running", !.merging = TRUE] \in D!RunRecord
    BY <1>4, <1>6 DEF D!RunRecord
  <2>. QED BY <1>3, <1>6, <1>10, <2>1 DEF D!RunRecord, context, d
<1>11. CASE \E s \in {refusal, "error"} :
              refusal # "merge" /\ run' = [run EXCEPT ![r] = [read EXCEPT !.status = s]]
  <2>1. PICK s \in {refusal, "error"} :
           refusal # "merge" /\ run' = [run EXCEPT ![r] = [read EXCEPT !.status = s]]
    BY <1>11
  <2>2. [read EXCEPT !.status = s] \in D!RunRecord
    BY <1>4, <1>5, <1>6, <2>1 DEF D!RunRecord
  <2>. QED BY <1>3, <1>6, <2>1, <2>2 DEF D!RunRecord, context, d
<1>. DEFINE outcome == IF D!Gates(policy, context) # "continue" THEN D!Gates(policy, context)
                    ELSE IF D!Composition(context) # "merge_gate"
                    THEN IF draft[d] = Absent THEN "fail" ELSE "model"
                    ELSE IF refusal # "merge" THEN "refuse" ELSE "merge"
<1>12. D!Gates(policy, context) \in {"continue", "fail", "halt"}
  BY DEF D!Gates, D!PolicyGate, D!RiskGate
<1>13. /\ outcome = "model" => D!Gates(policy, context) = "continue" /\ draft[d] # Absent
       /\ outcome = "merge" => D!Gates(policy, context) = "continue"
       /\ outcome = "refuse" => refusal # "merge"
  BY <1>12
<1>14. \/ outcome = "fail" /\ run' = [run EXCEPT ![r] = [read EXCEPT !.status = "error"]]
       \/ outcome = "halt" /\ run' = [run EXCEPT ![r] = [read EXCEPT !.status = "running"]]
       \/ /\ outcome = "model"
          /\ run' = [run EXCEPT ![r] = [read EXCEPT !.status = "running",
                                                   !.sent = draft[d].text]]
       \/ /\ outcome = "merge"
          /\ run' = [run EXCEPT ![r] = [read EXCEPT !.status = "running", !.merging = TRUE]]
       \/ /\ outcome = "refuse"
          /\ \E s \in {refusal} \cup IF run[r].status = "pending"
                                     THEN {"error"} \cap D!ValidTransitions[refusal] ELSE {} :
                run' = [run EXCEPT ![r] = [read EXCEPT !.status = s]]
  BY Zenon DEF D!Execute, read, context, d, refusal
<1>. HIDE DEF outcome
<1>. QED BY <1>7, <1>8, <1>9, <1>10, <1>11, <1>13, <1>14

LEMMA ExecuteType ==
  ASSUME D!TypeOK, D!DraftRunsConstants, NEW r \in DraftRun, D!Execute(r)
  PROVE  D!TypeOK'
<1>1. run[r].entry \in D!Existing(entry)
  BY DEF D!TypeOK, D!Execute, D!Existing
<1>2. PICK record \in D!RunRecord :
         run' = [run EXCEPT ![r] = record] /\ record.entry = run[r].entry
  BY ExecuteWrites
<1>. QED BY <1>1, <1>2, WriteRunType DEF D!Execute

LEMMA EndType ==
  ASSUME D!TypeOK, D!DraftRunsConstants, NEW r \in DraftRun, NEW s \in {"done", "error"}, D!End(r, s)
  PROVE  D!TypeOK'
<1>1. run[r] \in D!RunRecord /\ run[r].entry \in D!Existing(entry)
  BY DEF D!TypeOK, D!End, D!Existing
<1>2. s \in D!Status
  BY DEF D!Status, D!TerminalStatus
<1>3. [run[r] EXCEPT !.status = s, !.merging = FALSE] \in D!RunRecord
  BY <1>1, <1>2 DEF D!RunRecord
<1>4. run' = [run EXCEPT ![r] = [run[r] EXCEPT !.status = s, !.merging = FALSE]]
  BY <1>1 DEF D!End, D!TypeOK
<1>. QED BY <1>1, <1>3, <1>4, WriteRunType DEF D!End, D!RunRecord

LEMMA CancelType ==
  ASSUME D!TypeOK, D!DraftRunsConstants, NEW r \in DraftRun, D!Cancel(r)
  PROVE  D!TypeOK'
<1>1. run[r] \in D!RunRecord /\ run[r].entry \in D!Existing(entry)
  BY DEF D!TypeOK, D!Cancel, D!Existing
<1>2. "cancelled" \in D!Status
  BY DEF D!Status, D!TerminalStatus
<1>3. [run[r] EXCEPT !.status = "cancelled"] \in D!RunRecord
  BY <1>1, <1>2 DEF D!RunRecord
<1>. QED BY <1>1, <1>3, WriteRunType DEF D!Cancel, D!RunRecord

LEMMA InitType == D!Init => D!TypeOK
BY DEF D!Init, D!TypeOK, D!Existing

LEMMA StepType ==
  ASSUME D!TypeOK, D!DraftRunsConstants, [D!Next]_(D!vars)
  PROVE  D!TypeOK'
<1>1. ASSUME NEW r \in DraftRun, D!GrowStale(r) PROVE D!TypeOK'
  BY <1>1 DEF D!TypeOK, D!GrowStale, D!Existing
<1>2. CASE D!ChangePolicy
  BY <1>2 DEF D!TypeOK, D!ChangePolicy, D!Existing
<1>3. ASSUME NEW d \in Draft, D!RefuseRisky(d) PROVE D!TypeOK'
  BY <1>3, RejectDraftType DEF D!RefuseRisky
<1>4. CASE UNCHANGED D!vars
  BY <1>4 DEF D!TypeOK, D!vars, D!Existing
<1>. QED
  BY <1>1, <1>2, <1>3, <1>4, CreateDraftType, GenerateDraftType, UpdateDraftType,
     RejectDraftType, CleanupOldDraftType, ApproveDraftType, CrashInApproveType, AutoRunType,
     CreateRunType, ExecuteType, EndType, CancelType DEF D!Next

\* Every reachable state has its type: no run refers to an approved entry that is
\* not there, whatever is edited, rejected, cleaned up or lost in a crash.
THEOREM DraftsTypeCorrect ==
  ASSUME D!DraftRunsConstants
  PROVE  D!Spec => []D!TypeOK
<1>1. D!TypeOK /\ [D!Next]_(D!vars) => D!TypeOK'
  BY StepType
<1>. QED BY <1>1, InitType, PTL DEF D!Spec

-----------------------------------------------------------------------------
(* Approvals. *)

\* Drafts whose first approval is still to come: only crashes have given them entries.
Open(d) == draft[d] # Absent /\ draft[d].status \in {"draft", "error"}

\* A draft that is approved, or was, has one entry more; it does not open again.
Counted(d) ==
    /\ IsFiniteSet(D!EntriesOf(d))
    /\ Cardinality(D!EntriesOf(d)) <= (IF Open(d) THEN 0 ELSE 1) + crashes[d]

CountedAll == \A d \in Draft : Counted(d)

\* Entries are written for one draft at a time.
LEMMA EntriesGrow ==
  ASSUME D!TypeOK, NEW d \in Draft, NEW a \in Entry, entry[a] = Absent,
         entry' = [entry EXCEPT ![a] = D!NewEntry(d)]
  PROVE  /\ \A e \in Draft \ {d} : D!EntriesOf(e)' = D!EntriesOf(e)
         /\ D!EntriesOf(d)' \subseteq D!EntriesOf(d) \cup {a}
         /\ a \notin D!EntriesOf(d)
BY DEF D!TypeOK, D!EntriesOf, D!Existing, D!NewEntry

\* An approval, whether it ends or not.
LEMMA ApprovalCounts ==
  ASSUME D!TypeOK, CountedAll, NEW d \in Draft, NEW a \in Entry, draft[d] # Absent,
         D!MayAddEntry(d, a), entry' = [entry EXCEPT ![a] = D!NewEntry(d)],
         \A e \in Draft \ {d} : draft'[e] = draft[e] /\ crashes'[e] = crashes[e],
         \/ ~Open(d)' /\ crashes'[d] = crashes[d]
         \/ draft'[d] = draft[d] /\ crashes'[d] = crashes[d] + 1
  PROVE  CountedAll'
<1>1. /\ \A e \in Draft \ {d} : D!EntriesOf(e)' = D!EntriesOf(e)
      /\ D!EntriesOf(d)' \subseteq D!EntriesOf(d) \cup {a}
      /\ a \notin D!EntriesOf(d)
  BY EntriesGrow DEF D!MayAddEntry
<1>2. ASSUME NEW e \in Draft \ {d} PROVE Counted(e)'
  BY <1>1 DEF CountedAll, Counted, Open
<1>3. /\ IsFiniteSet(D!EntriesOf(d)) /\ Cardinality(D!EntriesOf(d)) \in Nat
      /\ Cardinality(D!EntriesOf(d)) <= (IF Open(d) THEN 0 ELSE 1) + crashes[d]
      /\ crashes[d] \in Nat
  BY FS_CardinalityType DEF CountedAll, Counted, D!TypeOK
<1>4. /\ IsFiniteSet(D!EntriesOf(d) \cup {a})
      /\ Cardinality(D!EntriesOf(d) \cup {a}) = Cardinality(D!EntriesOf(d)) + 1
  BY <1>1, <1>3, FS_AddElement
<1>5. /\ IsFiniteSet(D!EntriesOf(d)')
      /\ Cardinality(D!EntriesOf(d)') \in Nat
      /\ Cardinality(D!EntriesOf(d)') <= Cardinality(D!EntriesOf(d)) + 1
  BY <1>1, <1>3, <1>4, FS_Subset, FS_CardinalityType
<1>6. Counted(d)'
  <2>1. CASE Open(d)
    BY <1>3, <1>5, <2>1 DEF Counted, Open
  <2>2. CASE ~Open(d)
    <3>1. D!EntriesOf(d) = {}
      BY <2>2 DEF D!MayAddEntry, Open, D!TypeOK, D!DraftFile
    <3>2. Cardinality(D!EntriesOf(d)) = 0
      BY <3>1, FS_EmptySet
    <3>. QED BY <1>3, <1>5, <2>2, <3>2 DEF Counted, Open
  <2>. QED BY <2>1, <2>2
<1>. QED BY <1>2, <1>6 DEF CountedAll

\* A draft's file may change in any way that does not open it again, and in any way
\* at all while it has no entry.
LEMMA FileCounts ==
  ASSUME D!TypeOK, CountedAll, NEW d \in Draft, NEW file, D!WriteDraft(d, file),
         UNCHANGED <<entry, crashes>>, D!EntriesOf(d) = {} \/ (Open(d)' => Open(d))
  PROVE  CountedAll'
<1>1. \A e \in Draft : D!EntriesOf(e)' = D!EntriesOf(e)
  BY DEF D!EntriesOf, D!Existing
<1>2. ASSUME NEW e \in Draft \ {d} PROVE Counted(e)'
  BY <1>1 DEF CountedAll, Counted, Open, D!WriteDraft, D!TypeOK
<1>3. Counted(d) /\ crashes[d] \in Nat /\ Cardinality(D!EntriesOf(d)) \in Nat
  BY FS_CardinalityType DEF CountedAll, Counted, D!TypeOK
<1>4. Counted(d)'
  <2>1. CASE D!EntriesOf(d) = {}
    BY <1>1, <1>3, <2>1, FS_EmptySet DEF Counted
  <2>2. CASE Open(d)' => Open(d)
    BY <1>1, <1>3, <2>2 DEF Counted
  <2>. QED BY <2>1, <2>2
<1>. QED BY <1>2, <1>4 DEF CountedAll

\* Runs, time and the policy have no part in it.
LEMMA OthersCount ==
  ASSUME CountedAll, UNCHANGED <<draft, entry, crashes>>
  PROVE  CountedAll'
BY DEF CountedAll, Counted, Open, D!EntriesOf, D!Existing

LEMMA InitCounted == D!Init => CountedAll
<1>. SUFFICES ASSUME D!Init, NEW d \in Draft PROVE Counted(d)
  BY DEF CountedAll
<1>1. D!EntriesOf(d) = {}
  BY DEF D!Init, D!EntriesOf, D!Existing
<1>. QED BY <1>1, FS_EmptySet DEF D!Init, Counted

LEMMA StepCounted ==
  ASSUME D!TypeOK, CountedAll, [D!Next]_(D!vars)
  PROVE  CountedAll'
<1>1. ASSUME NEW d \in Draft, NEW t \in Text, NEW q \in Request, D!CreateDraft(d, t, q)
      PROVE  CountedAll'
  BY <1>1, FileCounts DEF D!CreateDraft, D!IsNew
<1>2. ASSUME NEW d \in Draft, NEW t \in Text, NEW c \in GeneratedContext,
             NEW s \in {"draft", "error"}, D!GenerateDraft(d, t, c, s)
      PROVE  CountedAll'
  BY <1>2, FileCounts DEF D!GenerateDraft, D!IsNew
<1>3. ASSUME NEW d \in Draft, NEW t \in Text, NEW c \in EditedContext, D!UpdateDraft(d, t, c)
      PROVE  CountedAll'
  <2>1. draft[d] \in D!DraftFile
    BY <1>3 DEF D!TypeOK, D!UpdateDraft
  <2>2. draft'[d] = [draft[d] EXCEPT !.text = t, !.context = c]
    BY <1>3 DEF D!TypeOK, D!UpdateDraft, D!WriteDraft
  <2>3. draft'[d].status = draft[d].status
    BY <2>1, <2>2 DEF D!DraftFile
  <2>4. Open(d)' => Open(d)
    BY <1>3, <2>3 DEF Open, D!UpdateDraft
  <2>. QED BY <1>3, <2>4, FileCounts DEF D!UpdateDraft
<1>4. ASSUME NEW d \in Draft, D!RejectDraft(d) PROVE CountedAll'
  <2>1. draft[d] \in D!DraftFile
    BY <1>4 DEF D!TypeOK, D!RejectDraft
  <2>2. draft'[d] = [draft[d] EXCEPT !.status = "rejected"]
    BY <1>4 DEF D!TypeOK, D!RejectDraft, D!WriteDraft
  <2>3. ~Open(d)'
    BY <2>1, <2>2 DEF D!DraftFile, Open
  <2>. QED BY <1>4, <2>3, FileCounts DEF D!RejectDraft
<1>5. ASSUME NEW d \in Draft, D!RefuseRisky(d) PROVE CountedAll'
  BY <1>4, <1>5 DEF D!RefuseRisky
<1>6. ASSUME NEW d \in Draft, D!CleanupOldDraft(d) PROVE CountedAll'
  <2>1. ~Open(d)'
    BY <1>6 DEF D!CleanupOldDraft, D!WriteDraft, Open, D!TypeOK
  <2>. QED BY <1>6, <2>1, FileCounts DEF D!CleanupOldDraft
<1>7. ASSUME NEW d \in Draft, NEW a \in Entry, D!ApproveDraft(d, a) PROVE CountedAll'
  <2>1. draft[d] \in D!DraftFile
    BY <1>7 DEF D!TypeOK, D!ApproveDraft
  <2>2. draft'[d] = [draft[d] EXCEPT !.status = "approved"]
    BY <1>7 DEF D!TypeOK, D!ApproveDraft, D!WriteDraft
  <2>3. ~Open(d)'
    BY <2>1, <2>2 DEF D!DraftFile, Open
  <2>4. \A e \in Draft \ {d} : draft'[e] = draft[e] /\ crashes'[e] = crashes[e]
    BY <1>7 DEF D!TypeOK, D!ApproveDraft, D!WriteDraft
  <2>. QED BY <1>7, <2>3, <2>4, ApprovalCounts DEF D!ApproveDraft
<1>8. ASSUME NEW d \in Draft, NEW a \in Entry, D!CrashInApprove(d, a) PROVE CountedAll'
  BY <1>8, ApprovalCounts DEF D!CrashInApprove, D!TypeOK
<1>9. ASSUME NEW r \in DraftRun PROVE
         /\ \A a \in Entry : D!CreateRun(r, a) => CountedAll'
         /\ \A d \in Draft, a \in Entry : D!AutoRun(r, d, a) => CountedAll'
         /\ D!Execute(r) => CountedAll'
         /\ \A s \in {"done", "error"} : D!End(r, s) => CountedAll'
         /\ D!Cancel(r) => CountedAll'
         /\ D!GrowStale(r) => CountedAll'
  BY OthersCount DEF D!CreateRun, D!AutoRun, D!Execute, D!End, D!Cancel, D!GrowStale
<1>10. D!ChangePolicy \/ UNCHANGED D!vars => CountedAll'
  BY OthersCount DEF D!ChangePolicy, D!vars
<1>. QED BY <1>1, <1>2, <1>3, <1>4, <1>5, <1>6, <1>7, <1>8, <1>9, <1>10 DEF D!Next

\* The instance counts as the module does.
LEMMA CountIs == \A set : D!Cardinality(set) = Cardinality(set)
BY DEF D!Cardinality, Cardinality

\* The approved entries of each draft, over the drafts' own steps.
LEMMA CountedInDrafts ==
  ASSUME D!DraftRunsConstants
  PROVE  D!Spec => []D!ApprovalsAreCounted
<1>1. D!TypeOK /\ CountedAll /\ [D!Next]_(D!vars) => CountedAll'
  BY StepCounted
<1>2. D!TypeOK /\ CountedAll => D!ApprovalsAreCounted
  <2>. SUFFICES ASSUME D!TypeOK, CountedAll, NEW d \in Draft
                PROVE  Cardinality(D!EntriesOf(d)) <= 1 + crashes[d]
    BY CountIs DEF D!ApprovalsAreCounted
  <2>. QED BY FS_CardinalityType DEF CountedAll, Counted, D!TypeOK
<1>. QED BY <1>1, <1>2, InitCounted, DraftsTypeCorrect, PTL DEF D!Spec

-----------------------------------------------------------------------------
(* Gates. *)

\* What a run that was sent to a model, or merges, read from its draft.
Eligible(context) ==
    LET declared == IF context.declared = Absent THEN "SAFE_REFACTOR" ELSE context.declared
    IN  /\ D!Intent(declared, context.pathScope, context.risk, "allow").decision
             = "AUTO_RUN_ELIGIBLE"
        /\ context.risk <= 300

LEMMA EligibleRuns ==
  D!OnlyEligibleChangesRun
    <=> \A r \in D!Existing(run) : run[r].sent # Absent \/ run[r].merging
                                   => Eligible(run[r].context)
BY DEF D!OnlyEligibleChangesRun, Eligible

\* A run is sent nothing before its gates, and they read its context once.
ReadOnce ==
    \A r \in D!Existing(run) :
       run[r].sent # Absent \/ run[r].merging => run[r].context # Absent

Passed == ReadOnce /\ D!OnlyEligibleChangesRun

\* A record that replaces run r keeps what Passed says, if it says the same of it.
LEMMA RecordPasses ==
  ASSUME D!TypeOK, Passed, NEW r \in DraftRun, NEW record, run' = [run EXCEPT ![r] = record],
         record.sent # Absent \/ record.merging
           => record.context # Absent /\ Eligible(record.context)
  PROVE  Passed'
<1>1. \A q \in D!Existing(run)' :
         \/ q = r /\ run'[q] = record
         \/ q \in D!Existing(run) /\ run'[q] = run[q]
  <2>1. DOMAIN run = DraftRun /\ DOMAIN run' = DraftRun
    BY DEF D!TypeOK
  <2>2. run'[r] = record /\ \A q \in DraftRun \ {r} : run'[q] = run[q]
    BY DEF D!TypeOK
  <2>. QED BY <2>1, <2>2 DEF D!Existing
<1>2. ReadOnce'
  BY <1>1 DEF Passed, ReadOnce
<1>3. \A q \in D!Existing(run)' : run'[q].sent # Absent \/ run'[q].merging
                                => Eligible(run'[q].context)
  BY <1>1, EligibleRuns DEF Passed
<1>4. D!OnlyEligibleChangesRun'
  BY <1>3 DEF D!OnlyEligibleChangesRun, Eligible
<1>. QED BY <1>2, <1>4 DEF Passed

LEMMA NewRunPasses ==
  ASSUME D!TypeOK, Passed, NEW r \in DraftRun, NEW a, NEW s, run' = [run EXCEPT ![r] = D!NewRun(a, s)]
  PROVE  Passed'
<1>1. D!NewRun(a, s).sent = Absent /\ D!NewRun(a, s).merging = FALSE
  BY DEF D!NewRun
<1>. QED BY <1>1, RecordPasses

LEMMA ExecutePasses ==
  ASSUME D!TypeOK, D!DraftRunsConstants, Passed, NEW r \in DraftRun, D!Execute(r)
  PROVE  Passed'
<1>1. PICK record \in D!RunRecord :
         /\ run' = [run EXCEPT ![r] = record]
         /\ record.context \in D!Context
         /\ record.sent # Absent \/ record.merging =>
               \/ run[r].sent # Absent \/ run[r].merging
               \/ D!Gates(policy, record.context) = "continue"
         /\ record.context = D!ContextOf(entry[run[r].entry].draft)
  BY ExecuteWrites
<1>2. ~(run[r].sent # Absent \/ run[r].merging)
  BY DEF D!Execute, D!Existing, D!TypeOK, Passed, ReadOnce
<1>3. record.context.risk \in Int
  BY <1>1 DEF D!DraftRunsConstants
<1>4. CASE D!Gates(policy, record.context) = "continue"
  <2>1. Eligible(record.context)
    BY <1>3, <1>4, GatesPassEligible DEF Eligible
  <2>2. record.context # Absent
    BY <1>1 DEF D!DraftRunsConstants
  <2>. QED BY <1>1, <2>1, <2>2, RecordPasses
<1>5. CASE D!Gates(policy, record.context) # "continue"
  BY <1>1, <1>2, <1>5, RecordPasses
<1>. QED BY <1>4, <1>5

LEMMA EndPasses ==
  ASSUME D!TypeOK, Passed, NEW r \in DraftRun, NEW s, D!End(r, s)
  PROVE  Passed'
<1>1. run[r] \in D!RunRecord /\ r \in D!Existing(run)
  BY DEF D!TypeOK, D!End, D!Existing
<1>. DEFINE record == [run[r] EXCEPT !.status = s, !.merging = FALSE]
<1>2. run' = [run EXCEPT ![r] = record]
  BY <1>1 DEF D!End, D!TypeOK
<1>3. record.sent = run[r].sent /\ ~record.merging /\ record.context = run[r].context
  BY <1>1 DEF D!RunRecord
<1>4. run[r].sent # Absent => run[r].context # Absent /\ Eligible(run[r].context)
  BY <1>1, EligibleRuns DEF Passed, ReadOnce
<1>. HIDE DEF record
<1>. QED BY <1>2, <1>3, <1>4, RecordPasses

LEMMA CancelPasses ==
  ASSUME D!TypeOK, Passed, NEW r \in DraftRun, D!Cancel(r)
  PROVE  Passed'
<1>1. run[r] \in D!RunRecord /\ r \in D!Existing(run)
  BY DEF D!TypeOK, D!Cancel, D!Existing
<1>. DEFINE record == [run[r] EXCEPT !.status = "cancelled"]
<1>2. run' = [run EXCEPT ![r] = record]
  BY <1>1 DEF D!Cancel, D!TypeOK
<1>3. /\ record.sent = run[r].sent /\ record.merging = run[r].merging
      /\ record.context = run[r].context
  BY <1>1 DEF D!RunRecord
<1>4. run[r].sent # Absent \/ run[r].merging
        => run[r].context # Absent /\ Eligible(run[r].context)
  BY <1>1, EligibleRuns DEF Passed, ReadOnce
<1>. HIDE DEF record
<1>. QED BY <1>2, <1>3, <1>4, RecordPasses

LEMMA StepPasses ==
  ASSUME D!TypeOK, D!DraftRunsConstants, Passed, [D!Next]_(D!vars)
  PROVE  Passed'
<1>1. UNCHANGED run => Passed'
  BY DEF Passed, ReadOnce, D!OnlyEligibleChangesRun, D!Existing
<1>2. \A d \in Draft : D!RefuseRisky(d) => UNCHANGED run
  BY DEF D!RefuseRisky, D!RejectDraft
<1>3. \A d \in Draft, t \in Text :
         /\ \A q \in Request : D!CreateDraft(d, t, q) => UNCHANGED run
         /\ \A c \in GeneratedContext, s \in {"draft", "error"} :
               D!GenerateDraft(d, t, c, s) => UNCHANGED run
         /\ \A c \in EditedContext : D!UpdateDraft(d, t, c) => UNCHANGED run
  BY DEF D!CreateDraft, D!GenerateDraft, D!UpdateDraft
<1>4. \A d \in Draft : D!RejectDraft(d) \/ D!CleanupOldDraft(d) => UNCHANGED run
  BY DEF D!RejectDraft, D!CleanupOldDraft
<1>5. \A d \in Draft, a \in Entry : D!ApproveDraft(d, a) \/ D!CrashInApprove(d, a) => UNCHANGED run
  BY DEF D!ApproveDraft, D!CrashInApprove
<1>6. \A r \in DraftRun, a \in Entry :
         /\ D!CreateRun(r, a) => Passed'
         /\ \A d \in Draft : D!AutoRun(r, d, a) => Passed'
  BY NewRunPasses DEF D!CreateRun, D!AutoRun
<1>7. \A r \in DraftRun : D!GrowStale(r) => UNCHANGED run
  BY DEF D!GrowStale
<1>8. D!ChangePolicy \/ UNCHANGED D!vars => UNCHANGED run
  BY DEF D!ChangePolicy, D!vars
<1>. QED BY <1>1, <1>2, <1>3, <1>4, <1>5, <1>6, <1>7, <1>8, ExecutePasses, EndPasses, CancelPasses
         DEF D!Next

\* What passes the gates, over the drafts' own steps.
LEMMA EligibleInDrafts ==
  ASSUME D!DraftRunsConstants
  PROVE  D!Spec => []D!OnlyEligibleChangesRun
<1>1. D!Init => Passed
  BY DEF D!Init, Passed, ReadOnce, D!OnlyEligibleChangesRun, D!Existing
<1>2. D!TypeOK /\ Passed /\ [D!Next]_(D!vars) => Passed'
  BY StepPasses
<1>3. Passed => D!OnlyEligibleChangesRun
  BY DEF Passed
<1>. QED BY <1>1, <1>2, <1>3, DraftsTypeCorrect, PTL DEF D!Spec

-----------------------------------------------------------------------------
(* Beside merges: their steps leave drafts, entries and runs alone. *)

LEMMA DraftsAreBeside == MCSpec => D!Spec
<1>1. MCInit => D!Init
  BY DEF MCInit
<1>2. [MCNext]_<<step, vars, varsD>> => [D!Next]_(D!vars)
  <2>1. UNCHANGED varsD => UNCHANGED D!vars
    BY DEF varsD, D!vars
  <2>2. UNCHANGED <<step, vars, varsD>> => UNCHANGED varsD
    OBVIOUS
  <2>. QED BY <2>1, <2>2, Zenon DEF MCNext, DraftsMove, MergesMove
<1>. QED BY <1>1, <1>2, PTL DEF MCSpec, D!Spec

\* OpsService.approve_draft is idempotent but for crashes: for any number of drafts,
\* approvals, edits and rejections, a draft has at most one approved entry, and one
\* more for each death between its two files.
THEOREM ApprovedOnce ==
  ASSUME D!DraftRunsConstants
  PROVE  MCSpec => []ApprovalsAreCounted
<1>1. D!TypeOK /\ D!ApprovalsAreCounted => ApprovalsAreCounted
  BY DEF ApprovalsAreCounted
<1>. QED BY <1>1, DraftsTypeCorrect, CountedInDrafts, DraftsAreBeside, PTL

\* Whatever was approved, edited or decided before, and whatever policy is in force:
\* EngineService sends a model nothing, and merges nothing, that IntentClassification-
\* Service would not find eligible for an automatic run, with a risk of at most 30.
THEOREM EligibleOnly ==
  ASSUME D!DraftRunsConstants
  PROVE  MCSpec => []OnlyEligibleChangesRun
<1>1. D!OnlyEligibleChangesRun => OnlyEligibleChangesRun
  BY DEF OnlyEligibleChangesRun
<1>. QED BY <1>1, EligibleInDrafts, DraftsAreBeside, PTL

=============================================================================
