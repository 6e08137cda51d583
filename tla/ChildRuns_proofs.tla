-------------------------- MODULE ChildRuns_proofs --------------------------
(***************************************************************************)
(* Proofs about ChildRuns, for every tree of runs, number of tasks and     *)
(* limit.                                                                  *)
(***************************************************************************)
EXTENDS ChildRuns, FiniteSetTheorems, TLAPS

----------------------------------------------------------------------------
(* The inductive invariant. *)

\* Clients add children only to runs that have no parent.
ClientsSpawnUnderRoots ==
    \/ "spawn" \notin Events
    \/ \A c \in Run \ Planned : Parent[c] # None => Parent[Parent[c]] = None

IsChild(t) == Parent[task[t].run] # None

\* A child is executed by one task at most.
OneTaskPerChild ==
    \A t, u \in Live : IsChild(t) /\ task[t].run = task[u].run => t = u

\* The end of whoever executes a child will be reported, and has not been.
ChildTasksReport ==
    \A t \in Live :
       IsChild(t) => /\ task[t].by = "worker"
                     /\ status[task[t].run] \notin {Absent, "done", "error"}

\* The worker knows the pending children it has picked up.
PickedUpIsKnown ==
    \A t \in Live :
       IsChild(t) /\ status[task[t].run] = "pending" => task[t].run \in runningIds

\* A child that is executed has no child left that could still wake it.
NothingUnreported ==
    \A p \in Run :
       Parent[p] # None /\ Executing(p) # {} => Unreported(p) = {}

\* Children are created by parents that have begun.
ParentsStarted ==
    \A c \in Run :
       status[c] # Absent /\ Parent[c] # None =>
          status[Parent[c]] \notin {Absent, "pending"}

TasksExist == \A t \in Live : status[task[t].run] # Absent

IInv ==
    /\ TypeOK
    /\ AwaitingIsExact
    /\ OneTaskPerChild
    /\ ChildTasksReport
    /\ PickedUpIsKnown
    /\ NothingUnreported
    /\ ParentsStarted
    /\ TasksExist

----------------------------------------------------------------------------
(* Facts about statuses and tasks. *)

LEMMA LiveTask ==
  ASSUME TypeOK, NEW t \in Live
  PROVE  /\ t \in Task /\ task[t] \in Execution
         /\ task[t].run \in Run
         /\ status[task[t].run] \in RunState \cup {Absent}
BY DEF TypeOK, Live, Execution

LEMMA ParentIsRun ==
  ASSUME NEW r \in Run, Parent[r] # None
  PROVE  Parent[r] \in Run /\ Parent[r] # r
BY TreeAssumption

\* Nothing leaves a terminal status.
LEMMA LeavesOnlyLive ==
  ASSUME NEW s \in RunState, NEW s2 \in RunState \ TerminalStatus, CanBecome(s, s2)
  PROVE  s \notin TerminalStatus
BY DEF CanBecome, ValidTransitions, TerminalStatus, RunState, Status,
       ActiveStatus, ParkedStatus

LEMMA RunStateIsStatus == RunState \subseteq Status /\ Absent \notin RunState
BY LimitsAssumption DEF RunState, Status, ActiveStatus, TerminalStatus, ParkedStatus

LEMMA UnreportedFinite ==
  ASSUME NEW p \in Run
  PROVE  /\ IsFiniteSet(Unreported(p))
         /\ Cardinality(Unreported(p)) \in Nat
<1>1. Unreported(p) \subseteq Run
  BY DEF Unreported, Children
<1>. QED  BY <1>1, TreeAssumption, FS_Subset, FS_CardinalityType

----------------------------------------------------------------------------
(* Steps that report nothing and create nothing. *)

\* The tasks that are live after the step executed the same runs before it.
KeepsTasks ==
    \A t \in Live' :
       t \in Live /\ task'[t].run = task[t].run /\ task'[t].by = task[t].by

\* How such a step may change the status of run q.
Moves(q) ==
    \/ status'[q] = status[q]
    \/ /\ status[q] # Absent /\ status'[q] \notin {Absent, "pending"}
       /\ status'[q] \notin TerminalStatus => status[q] \notin TerminalStatus
       /\ Parent[q] # None => /\ status[q] \notin {"done", "error"}
                              /\ status'[q] \notin {"done", "error"}

KeepsPickedUp ==
    \A t \in Live' :
       IsChild(t) /\ status[task[t].run] = "pending" /\ task[t].run \in runningIds
         => task[t].run \in runningIds'

LEMMA SilentStep ==
  ASSUME IInv, TypeOK', KeepsTasks, \A q \in Run : Moves(q), KeepsPickedUp,
         awaiting' = awaiting
  PROVE  IInv'
<1>0. \A t \in Live' : /\ t \in Live /\ task'[t].run = task[t].run
                       /\ task'[t].by = task[t].by /\ task[t].run \in Run
  BY LiveTask DEF IInv, KeepsTasks
<1>1. \A q \in Run : status'[q] = Absent <=> status[q] = Absent
  BY DEF Moves
<1>2. \A p \in Run : Unreported(p)' = Unreported(p)
  <2> SUFFICES ASSUME NEW p \in Run, NEW c \in Run, Parent[c] = p
               PROVE  status'[c] # Absent /\ status'[c] \notin {"done", "error"}
                        <=> status[c] # Absent /\ status[c] \notin {"done", "error"}
    BY DEF Unreported, Children
  <2>1. Parent[c] # None
    BY TreeAssumption
  <2>. QED  BY <1>1, <2>1 DEF Moves
<1>3. AwaitingIsExact'
  <2> SUFFICES ASSUME NEW p \in Run, status'[p] \notin TerminalStatus
               PROVE  awaiting'[p] = Cardinality(Unreported(p)')
    BY DEF AwaitingIsExact
  <2>1. status[p] \notin TerminalStatus
    BY DEF Moves
  <2>. QED  BY <1>2, <2>1 DEF IInv, AwaitingIsExact
<1>4. OneTaskPerChild'
  BY <1>0 DEF OneTaskPerChild, IInv, IsChild
<1>5. ChildTasksReport'
  <2> SUFFICES ASSUME NEW t \in Live', Parent[task'[t].run] # None
               PROVE  /\ task'[t].by = "worker"
                      /\ status'[task'[t].run] \notin {Absent, "done", "error"}
    BY DEF ChildTasksReport, IsChild
  <2>1. /\ task[t].by = "worker"
        /\ status[task[t].run] \notin {Absent, "done", "error"}
    BY <1>0 DEF IInv, ChildTasksReport, IsChild
  <2>2. Moves(task[t].run)
    BY <1>0
  <2>. QED  BY <1>0, <2>1, <2>2 DEF Moves
<1>6. PickedUpIsKnown'
  <2> SUFFICES ASSUME NEW t \in Live', Parent[task'[t].run] # None,
                      status'[task'[t].run] = "pending"
               PROVE  task'[t].run \in runningIds'
    BY DEF PickedUpIsKnown, IsChild
  <2>1. Moves(task[t].run)
    BY <1>0
  <2>2. status[task[t].run] = "pending"
    BY <1>0, <2>1 DEF Moves
  <2>. QED  BY <1>0, <2>2 DEF IInv, PickedUpIsKnown, KeepsPickedUp, IsChild
<1>7. NothingUnreported'
  <2> SUFFICES ASSUME NEW p \in Run, Parent[p] # None, NEW t \in Live', task'[t].run = p
               PROVE  Unreported(p)' = {}
    BY DEF NothingUnreported, Executing
  <2>1. Unreported(p) = {}
    BY <1>0 DEF IInv, NothingUnreported, Executing
  <2>. QED  BY <1>2, <2>1
<1>8. ParentsStarted'
  <2> SUFFICES ASSUME NEW c \in Run, status'[c] # Absent, Parent[c] # None
               PROVE  status'[Parent[c]] \notin {Absent, "pending"}
    BY DEF ParentsStarted
  <2>1. Parent[c] \in Run
    BY ParentIsRun
  <2>2. status[Parent[c]] \notin {Absent, "pending"}
    BY <1>1 DEF IInv, ParentsStarted
  <2>. QED  BY <2>1, <2>2 DEF Moves
<1>9. TasksExist'
  BY <1>0, <1>1 DEF IInv, TasksExist
<1>. QED  BY <1>3, <1>4, <1>5, <1>6, <1>7, <1>8, <1>9 DEF IInv

----------------------------------------------------------------------------
(* The end of an execution. *)

\* What every stage that halts with status s guarantees.
Sound(t, s) ==
    /\ t \in Live
    /\ s \in RunState
    /\ s \notin TerminalStatus => status[task[t].run] \notin TerminalStatus
    /\ s = status[task[t].run] \/ s # "pending"

\* Finish, when there is nothing to report.
LEMMA FinishSilently ==
  ASSUME NEW t, NEW s, NEW st, NEW aw, st[task[t].run] = s, Finish(t, st, aw),
         ~Reports(t, s)
  PROVE  /\ awaiting' = aw /\ status' = st
         /\ task' = [task EXCEPT ![t] = None]
         /\ runningIds' = Discarded(t)
BY DEF Finish

\* An execution ends and nobody else begins.
LEMMA TaskEnds ==
  ASSUME IInv, NEW t \in Live, task' = [task EXCEPT ![t] = None],
         Discarded(t) \subseteq runningIds'
  PROVE  /\ KeepsTasks /\ KeepsPickedUp
         /\ \A u \in Live' : u # t
<1>1. \A u \in Live' : u # t /\ u \in Live /\ task'[u] = task[u]
  BY DEF Live, IInv, TypeOK
<1>2. KeepsPickedUp
  BY <1>1 DEF KeepsPickedUp, Discarded, IInv, OneTaskPerChild, IsChild
<1>. QED  BY <1>1, <1>2 DEF KeepsTasks

LEMMA DiscardedKnown == ASSUME NEW t PROVE Discarded(t) \subseteq runningIds
BY DEF Discarded

\* An execution that ends unreported.
LEMMA HaltSilently ==
  ASSUME IInv, NEW t, NEW s, Sound(t, s), ~Reports(t, s),
         awaiting' = awaiting,
         status' = [status EXCEPT ![task[t].run] = s],
         task' = [task EXCEPT ![t] = None],
         runningIds' = Discarded(t)
  PROVE  IInv'
<1>. DEFINE r == task[t].run
<1>1. t \in Live /\ r \in Run /\ s \in RunState /\ Absent \notin RunState
  BY LiveTask, RunStateIsStatus DEF Sound, IInv
<1>2. /\ status'[r] = s
      /\ \A q \in Run : q # r => status'[q] = status[q]
  BY <1>1 DEF IInv, TypeOK
<1>3. TypeOK'
  BY <1>1, <1>2 DEF IInv, TypeOK, Discarded
<1>4. KeepsTasks /\ KeepsPickedUp
  BY <1>1, TaskEnds
<1>5. \A q \in Run : Moves(q)
  <2>1. CASE s = status[r]
    BY <1>2, <2>1 DEF Moves
  <2>2. CASE s # status[r]
    <3>1. status[r] # Absent /\ s \notin {Absent, "pending"}
      BY <1>1, <2>2 DEF Sound, IInv, TasksExist
    <3>2. s \notin TerminalStatus => status[r] \notin TerminalStatus
      BY DEF Sound
    <3>3. Parent[r] # None => /\ status[r] \notin {"done", "error"}
                             /\ s \notin {"done", "error"}
      BY <1>1 DEF IInv, ChildTasksReport, IsChild, Reports
    <3>. QED  BY <1>2, <3>1, <3>2, <3>3 DEF Moves
  <2>. QED  BY <2>1, <2>2
<1>. QED  BY <1>3, <1>4, <1>5, SilentStep

\* What is common to the two ways a report can go: s ends the child r of p.
Reported(t, s) ==
    LET r == task[t].run
        p == Parent[r]
    IN  /\ awaiting' = [awaiting EXCEPT ![p] = Remaining(@)]
        /\ status'[r] = s
        /\ \A q \in Run \ {r, p} : status'[q] = status[q]
        /\ \/ status'[p] = status[p]
           \/ status[p] \notin TerminalStatus /\ status'[p] = "running"
        /\ \A u \in Live' : u # t => u \in Live /\ task'[u] = task[u]

\* The counter of a parent that is not over goes down with the number of its
\* unreported children; the others keep theirs.
LEMMA ReportCounts ==
  ASSUME IInv, NEW t \in Live, NEW s \in {"done", "error"},
         Parent[task[t].run] # None, Reported(t, s)
  PROVE  /\ AwaitingIsExact'
         /\ \A q \in Run : /\ Unreported(q)' \subseteq Unreported(q)
                           /\ q # Parent[task[t].run] => Unreported(q)' = Unreported(q)
<1>. DEFINE r == task[t].run
            p == Parent[r]
<1>1. r \in Run /\ p \in Run /\ p # r
  BY LiveTask, ParentIsRun DEF IInv
<1>2. status[r] \notin {Absent, "done", "error"} /\ status[p] \notin {Absent, "pending"}
  BY <1>1 DEF IInv, ChildTasksReport, IsChild, ParentsStarted
<1>3. status'[r] = s /\ s # Absent
  BY <1>1, RunStateIsStatus DEF Reported, RunState
<1>4. \A q \in Run \ {r, p} : status'[q] = status[q]
  BY DEF Reported
<1>5. \/ status'[p] = status[p]
      \/ status[p] \notin TerminalStatus /\ status'[p] = "running"
  BY DEF Reported
<1>6. status'[p] # Absent /\ (status'[p] \in {"done", "error"} <=> status[p] \in {"done", "error"})
  BY <1>2, <1>5, RunStateIsStatus DEF TerminalStatus, RunState
<1>7. \A c \in Run \ {r} :
         status'[c] # Absent /\ status'[c] \notin {"done", "error"}
           <=> status[c] # Absent /\ status[c] \notin {"done", "error"}
  BY <1>2, <1>4, <1>6
<1>8. \A q \in Run : Unreported(q)' = Unreported(q) \ {r}
  BY <1>3, <1>7 DEF Unreported, Children
<1>9. \A q \in Run : r \in Unreported(q) <=> q = p
  BY <1>1, <1>2 DEF Unreported, Children
<1>10. \A q \in Run \ {p} : Unreported(q)' = Unreported(q)
  BY <1>8, <1>9
<1>11. ASSUME NEW q \in Run, status'[q] \notin TerminalStatus
       PROVE  awaiting'[q] = Cardinality(Unreported(q)')
  <2>1. CASE q = p
    <3>1. status[p] \notin TerminalStatus
      BY <1>5, <1>11, <2>1
    <3>2. awaiting[p] = Cardinality(Unreported(p))
      BY <1>1, <3>1 DEF IInv, AwaitingIsExact
    <3>3. /\ Cardinality(Unreported(p) \ {r}) = Cardinality(Unreported(p)) - 1
          /\ Cardinality(Unreported(p)) \in Nat
          /\ Cardinality(Unreported(p) \ {r}) \in Nat
      BY <1>1, <1>9, UnreportedFinite, FS_RemoveElement, FS_CardinalityType
    <3>4. awaiting'[p] = Remaining(awaiting[p])
      BY <1>1 DEF Reported, IInv, TypeOK
    <3>5. Unreported(q)' = Unreported(p) \ {r}
      BY <1>8, <2>1
    <3>6. awaiting'[q] = Cardinality(Unreported(p)) - 1
      BY <2>1, <3>2, <3>3, <3>4 DEF Remaining
    <3>. QED  BY <3>3, <3>5, <3>6
  <2>2. CASE q = r
    BY <1>3, <1>11, <2>2 DEF TerminalStatus
  <2>3. CASE q \notin {p, r}
    <3>1. awaiting'[q] = awaiting[q]
      BY <1>1, <2>3 DEF Reported, IInv, TypeOK
    <3>. QED  BY <1>4, <1>10, <1>11, <2>3, <3>1 DEF IInv, AwaitingIsExact
  <2>. QED  BY <2>1, <2>2, <2>3
<1>. QED  BY <1>8, <1>10, <1>11 DEF AwaitingIsExact

\* An execution that ends with a report, whether or not it wakes the parent.
LEMMA ReportKeeps ==
  ASSUME IInv, TypeOK', NEW t \in Live, NEW s \in {"done", "error"},
         Parent[task[t].run] # None, Reported(t, s),
         Discarded(t) \subseteq runningIds',
         t \in Live' => /\ task'[t].run = Parent[task[t].run]
                        /\ task'[t].by = "worker"
                        /\ awaiting'[Parent[task[t].run]] = 0
                        /\ status'[Parent[task[t].run]] = "running"
  PROVE  IInv'
<1>. DEFINE r == task[t].run
            p == Parent[r]
<1>1. r \in Run /\ p \in Run /\ p # r
  BY LiveTask, ParentIsRun DEF IInv
<1>2. status[r] \notin {Absent, "done", "error"} /\ status[p] \notin {Absent, "pending"}
  BY <1>1 DEF IInv, ChildTasksReport, IsChild, ParentsStarted
<1>3. status'[r] = s /\ s \notin {Absent, "pending"} /\ Absent # "running"
  BY <1>1, RunStateIsStatus DEF Reported, RunState
<1>4. /\ \A q \in Run \ {r, p} : status'[q] = status[q]
      /\ \/ status'[p] = status[p]
         \/ status[p] \notin TerminalStatus /\ status'[p] = "running"
  BY DEF Reported
<1>5. \A q \in Run : /\ status'[q] = Absent <=> status[q] = Absent
                     /\ status'[q] = "pending" => status[q] = "pending" /\ q # r
  BY <1>1, <1>2, <1>3, <1>4
<1>6. AwaitingIsExact' /\ \A q \in Run : Unreported(q)' \subseteq Unreported(q)
  BY ReportCounts
<1>7. ASSUME NEW u \in Live', u # t
      PROVE  /\ u \in Live /\ task'[u] = task[u] /\ task[u].run \in Run
             /\ IsChild(u) => task[u].run # r /\ task[u].run # p
  <2>1. u \in Live /\ task'[u] = task[u] /\ task[u].run \in Run
    BY <1>7, LiveTask DEF Reported, IInv
  <2>2. IsChild(u) => task[u].run # r
    BY <1>7, <2>1 DEF IInv, OneTaskPerChild
  <2>3. r \in Unreported(p)
    BY <1>1, <1>2 DEF Unreported, Children
  <2>4. IsChild(u) => task[u].run # p
    BY <1>1, <2>1, <2>3 DEF IInv, NothingUnreported, Executing, IsChild
  <2>. QED  BY <2>1, <2>2, <2>4
<1>8. OneTaskPerChild'
  <2> SUFFICES ASSUME NEW u \in Live', NEW v \in Live', Parent[task'[u].run] # None,
                      task'[u].run = task'[v].run
               PROVE  u = v
    BY DEF OneTaskPerChild, IsChild
  <2>1. CASE u # t /\ v # t
    BY <1>7, <2>1 DEF IInv, OneTaskPerChild, IsChild
  <2>2. CASE u = t /\ v # t
    BY <1>7, <2>2 DEF IsChild
  <2>3. CASE u # t /\ v = t
    BY <1>7, <2>3 DEF IsChild
  <2>. QED  BY <2>1, <2>2, <2>3
<1>9. ChildTasksReport'
  <2> SUFFICES ASSUME NEW u \in Live', Parent[task'[u].run] # None
               PROVE  /\ task'[u].by = "worker"
                      /\ status'[task'[u].run] \notin {Absent, "done", "error"}
    BY DEF ChildTasksReport, IsChild
  <2>1. CASE u = t
    BY <1>3, <2>1
  <2>2. CASE u # t
    BY <1>4, <1>7, <2>2 DEF IInv, ChildTasksReport, IsChild
  <2>. QED  BY <2>1, <2>2
<1>10. PickedUpIsKnown'
  <2> SUFFICES ASSUME NEW u \in Live', Parent[task'[u].run] # None,
                      status'[task'[u].run] = "pending"
               PROVE  task'[u].run \in runningIds'
    BY DEF PickedUpIsKnown, IsChild
  <2>1. CASE u = t
    BY <2>1
  <2>2. CASE u # t
    BY <1>5, <1>7, <2>2 DEF IInv, PickedUpIsKnown, IsChild, Discarded
  <2>. QED  BY <2>1, <2>2
<1>11. NothingUnreported'
  <2> SUFFICES ASSUME NEW q \in Run, Parent[q] # None, NEW u \in Live', task'[u].run = q
               PROVE  Unreported(q)' = {}
    BY DEF NothingUnreported, Executing
  <2>1. CASE u = t
    <3>1. q = p /\ awaiting'[q] = 0 /\ status'[q] \notin TerminalStatus
      BY <2>1 DEF TerminalStatus
    <3>2. Cardinality(Unreported(q)') = 0
      BY <1>6, <3>1 DEF AwaitingIsExact
    <3>3. IsFiniteSet(Unreported(q)')
      BY <1>6, UnreportedFinite, FS_Subset
    <3>. QED  BY <3>2, <3>3, FS_EmptySet
  <2>2. CASE u # t
    <3>1. Unreported(q) = {}
      BY <1>7, <2>2 DEF IInv, NothingUnreported, Executing
    <3>. QED  BY <1>6, <3>1
  <2>. QED  BY <2>1, <2>2
<1>12. ParentsStarted'
  BY <1>5, ParentIsRun DEF IInv, ParentsStarted
<1>13. TasksExist'
  BY <1>1, <1>2, <1>5, <1>7 DEF IInv, TasksExist
<1>. QED  BY <1>6, <1>8, <1>9, <1>10, <1>11, <1>12, <1>13 DEF IInv

\* What a halt that reports leaves behind.
LEMMA HaltReports ==
  ASSUME IInv, NEW t, NEW s, Sound(t, s), Halt(t, s), Reports(t, s)
  PROVE  LET r == task[t].run
             p == Parent[r]
             st == [status EXCEPT ![r] = s]
         IN  /\ awaiting' = [awaiting EXCEPT ![p] = Remaining(@)]
             /\ \/ /\ awaiting'[p] # 0 \/ ~CanBecome(st[p], "running")
                   /\ status' = st
                   /\ task' = [task EXCEPT ![t] = None]
                   /\ runningIds' = Discarded(t)
                \/ /\ awaiting'[p] = 0
                   /\ CanBecome(st[p], "running")
                   /\ status' = [st EXCEPT ![p] = "running"]
                   /\ task' = [task EXCEPT ![t] = [run |-> p, by |-> "worker",
                                                  phase |-> "queued"]]
                   /\ runningIds' = Discarded(t) \cup {p}
<1>. DEFINE r == task[t].run
            p == Parent[r]
            st == [status EXCEPT ![r] = s]
            remaining == [awaiting EXCEPT ![p] = Remaining(@)]
            wakes == remaining[p] = 0 /\ CanBecome(st[p], "running")
<1>1. Finish(t, st, awaiting)
  BY DEF Halt
<1>2. Reports(t, st[task[t].run])
  <2>1. r \in Run
    BY LiveTask DEF Sound, IInv
  <2>. QED  BY <2>1 DEF IInv, TypeOK
<1>3. /\ awaiting' = remaining
      /\ status' = IF wakes THEN [st EXCEPT ![p] = "running"] ELSE st
      /\ task' = [task EXCEPT ![t] =
            IF wakes THEN [run |-> p, by |-> "worker", phase |-> "queued"] ELSE None]
      /\ runningIds' = Discarded(t) \cup (IF wakes THEN {p} ELSE {})
  BY <1>1, <1>2 DEF Finish
<1>4. CASE wakes
  BY <1>3, <1>4
<1>5. CASE ~wakes
  BY <1>3, <1>5
<1>. QED  BY <1>4, <1>5

\* Every halt, reported or not, keeps the invariant.
LEMMA HaltKeeps ==
  ASSUME IInv, NEW t, NEW s, Sound(t, s), Halt(t, s)
  PROVE  IInv'
<1>. DEFINE r == task[t].run
            p == Parent[r]
            st == [status EXCEPT ![r] = s]
<1>1. t \in Live /\ t \in Task /\ r \in Run /\ s \in RunState /\ Absent \notin RunState
  BY LiveTask, RunStateIsStatus DEF Sound, IInv
<1>2. /\ st[r] = s /\ status[r] # Absent
      /\ \A q \in Run : q # r => st[q] = status[q]
      /\ st \in [Run -> RunState \cup {Absent}]
  BY <1>1 DEF IInv, TypeOK, TasksExist
<1>3. Finish(t, st, awaiting)
  BY DEF Halt
<1>4. CASE ~Reports(t, s)
  <2>1. /\ awaiting' = awaiting /\ status' = st
        /\ task' = [task EXCEPT ![t] = None]
        /\ runningIds' = Discarded(t)
    BY <1>2, <1>3, <1>4, FinishSilently
  <2>. QED  BY <1>4, <2>1, HaltSilently
<1>5. CASE Reports(t, s)
  <2>0. /\ awaiting' = [awaiting EXCEPT ![p] = Remaining(@)]
        /\ \/ /\ awaiting'[p] # 0 \/ ~CanBecome(st[p], "running")
              /\ status' = st
              /\ task' = [task EXCEPT ![t] = None]
              /\ runningIds' = Discarded(t)
           \/ /\ awaiting'[p] = 0
              /\ CanBecome(st[p], "running")
              /\ status' = [st EXCEPT ![p] = "running"]
              /\ task' = [task EXCEPT ![t] = [run |-> p, by |-> "worker",
                                             phase |-> "queued"]]
              /\ runningIds' = Discarded(t) \cup {p}
    BY <1>5, HaltReports
  <2>1. Parent[r] # None /\ s \in {"done", "error"} /\ p \in Run /\ p # r
    BY <1>1, <1>5, ParentIsRun DEF Reports
  <2>2. status[p] \in RunState
    BY <1>1, <1>2, <2>1 DEF IInv, TypeOK, ParentsStarted
  <2>3. /\ awaiting' = [awaiting EXCEPT ![p] = Remaining(@)]
        /\ awaiting' \in [Run -> Nat]
    <3>1. awaiting' = [awaiting EXCEPT ![p] = Remaining(@)]
      BY <2>0
    <3>2. \A n \in Nat : Remaining(n) \in Nat
      BY DEF Remaining
    <3>. QED  BY <3>1, <3>2 DEF IInv, TypeOK
  <2>4. CASE /\ status' = st
             /\ task' = [task EXCEPT ![t] = None]
             /\ runningIds' = Discarded(t)
    <3>1. TypeOK'
      BY <1>1, <1>2, <2>3, <2>4 DEF IInv, TypeOK, Discarded
    <3>2. t \notin Live' /\ \A u \in Live' : u \in Live /\ task'[u] = task[u]
      BY <1>1, <2>4 DEF Live, IInv, TypeOK
    <3>3. Reported(t, s)
      BY <1>2, <2>1, <2>3, <2>4, <3>2 DEF Reported
    <3>. QED  BY <1>1, <2>1, <2>4, <3>1, <3>2, <3>3, ReportKeeps
  <2>5. CASE /\ awaiting'[p] = 0
             /\ CanBecome(st[p], "running")
             /\ status' = [st EXCEPT ![p] = "running"]
             /\ task' = [task EXCEPT ![t] = [run |-> p, by |-> "worker", phase |-> "queued"]]
             /\ runningIds' = Discarded(t) \cup {p}
    <3>1. status[p] \notin TerminalStatus
      BY <1>2, <2>1, <2>2, <2>5, LeavesOnlyLive DEF RunState, TerminalStatus
    <3>2. /\ status'[p] = "running" /\ status'[r] = s
          /\ \A q \in Run \ {r, p} : status'[q] = status[q]
          /\ status' \in [Run -> RunState \cup {Absent}]
      <4>1. "running" \in RunState
        BY DEF RunState
      <4>. QED  BY <1>2, <2>1, <2>5, <4>1
    <3>3. task' \in [Task -> Execution \cup {None}]
      <4>1. [run |-> p, by |-> "worker", phase |-> "queued"] \in Execution
        BY <2>1 DEF Execution
      <4>. QED  BY <1>1, <2>5, <4>1 DEF IInv, TypeOK
    <3>4. runningIds' \subseteq {q \in Run : status'[q] # Absent}
      BY <1>1, <2>1, <2>5, <3>2, RunStateIsStatus DEF IInv, TypeOK, Discarded, RunState
    <3>5. TypeOK'
      BY <2>3, <3>2, <3>3, <3>4 DEF TypeOK
    <3>6. \A u \in Live' : u # t => u \in Live /\ task'[u] = task[u]
      BY <1>1, <2>5 DEF Live, IInv, TypeOK
    <3>7. task'[t].run = p /\ task'[t].by = "worker"
      BY <1>1, <2>5 DEF IInv, TypeOK
    <3>8. Reported(t, s)
      BY <2>3, <3>1, <3>2, <3>6 DEF Reported
    <3>. QED  BY <1>1, <2>1, <2>5, <3>2, <3>5, <3>7, <3>8, ReportKeeps
  <2>. QED  BY <2>0, <2>4, <2>5
<1>. QED  BY <1>4, <1>5

\* The first status update of execute_run.
LEMMA BegunSound ==
  ASSUME IInv, NEW t \in Live
  PROVE  /\ Sound(t, Begun(task[t].run))
         /\ Sound(t, status[task[t].run])
<1>1. status[task[t].run] \in RunState
  BY LiveTask DEF IInv, TasksExist
<1>. QED  BY <1>1 DEF Sound, Begun, RunState, TerminalStatus

\* The last one.
LEMMA CloseKeeps ==
  ASSUME IInv, NEW t, NEW s, Sound(t, s), NEW final \in {"done", "error"},
         Close(t, s, final)
  PROVE  IInv'
<1>1. FinalStatus(t, s, final) \in {s, "done", "error"}
  BY DEF FinalStatus
<1>2. Sound(t, FinalStatus(t, s, final))
  BY <1>1 DEF Sound, TerminalStatus, RunState
<1>. QED  BY <1>2, HaltKeeps DEF Close

----------------------------------------------------------------------------
(* The steps of an execution. *)

LEMMA GateKeeps ==
  ASSUME IInv, NEW t \in Task, GateHolds(t) \/ GateFails(t)
  PROVE  IInv'
<1>1. t \in Live
  BY DEF GateHolds, GateFails, Queued
<1>. QED  BY <1>1, BegunSound, HaltKeeps, CloseKeeps DEF GateHolds, GateFails

\* A halt with a status that the FSM accepts.
LEMMA AcceptedSound ==
  ASSUME IInv, NEW t \in Live,
         NEW s \in {"running", "awaiting_subagents", "awaiting_review"},
         CanBecome(status[task[t].run], s) \/ CanBecome(Begun(task[t].run), s)
  PROVE  Sound(t, s)
<1>1. /\ status[task[t].run] \in RunState
      /\ s \in RunState \ TerminalStatus /\ s # "pending"
  BY LiveTask DEF IInv, TasksExist, RunState, TerminalStatus
<1>2. Begun(task[t].run) \in RunState
  BY <1>1 DEF Begun, RunState
<1>3. Begun(task[t].run) \notin TerminalStatus => status[task[t].run] \notin TerminalStatus
  BY DEF Begun, TerminalStatus
<1>. QED  BY <1>1, <1>2, <1>3, LeavesOnlyLive DEF Sound

LEMMA ParentHaltKeeps ==
  ASSUME IInv, NEW t \in Task,
         \/ WaitForChildren(t) \/ Escalate(t)
         \/ StageRaises(t) \/ OrchestrationEnds(t)
  PROVE  IInv'
<1>1. t \in Live
  BY DEF WaitForChildren, Escalate, StageRaises, OrchestrationEnds, Queued
<1>2. CASE WaitForChildren(t)
  BY <1>1, <1>2, AcceptedSound, HaltKeeps DEF WaitForChildren
<1>3. CASE Escalate(t)
  BY <1>1, <1>3, AcceptedSound, HaltKeeps DEF Escalate
<1>4. CASE StageRaises(t)
  BY <1>1, <1>4, BegunSound, CloseKeeps DEF StageRaises
<1>5. CASE OrchestrationEnds(t)
  BY <1>1, <1>5, BegunSound, CloseKeeps DEF OrchestrationEnds
<1>. QED  BY <1>2, <1>3, <1>4, <1>5

\* A leaf keeps its task through a wait.
LEMMA KeepsExecuting ==
  ASSUME IInv, NEW t \in Live, NEW ph \in {"queued", "working", "review"},
         task' = [task EXCEPT ![t].phase = ph], UNCHANGED runningIds
  PROVE  /\ task' \in [Task -> Execution \cup {None}]
         /\ KeepsTasks /\ KeepsPickedUp
<1>1. t \in Task /\ task[t] \in Execution
  BY LiveTask DEF IInv
<1>2. /\ [task[t] EXCEPT !.phase = ph] \in Execution
      /\ [task[t] EXCEPT !.phase = ph].run = task[t].run
      /\ [task[t] EXCEPT !.phase = ph].by = task[t].by
  BY <1>1 DEF Execution
<1>3. /\ task'[t] = [task[t] EXCEPT !.phase = ph]
      /\ \A u \in Task \ {t} : task'[u] = task[u]
  BY <1>1 DEF IInv, TypeOK
<1>4. task' \in [Task -> Execution \cup {None}]
  BY <1>1, <1>2, <1>3 DEF IInv, TypeOK
<1>5. KeepsTasks
  BY <1>2, <1>3 DEF KeepsTasks, Live
<1>. QED  BY <1>4, <1>5 DEF KeepsPickedUp

LEMMA WaitKeeps ==
  ASSUME IInv, NEW t \in Task, CallModel(t) \/ AskForReview(t)
  PROVE  IInv'
<1>. DEFINE r == task[t].run
<1>1. t \in Live
  BY DEF CallModel, AskForReview, Queued, Working
<1>2. r \in Run /\ status[r] \in RunState /\ Absent \notin RunState
  BY <1>1, LiveTask, RunStateIsStatus DEF IInv, TasksExist
<1>3. PICK s \in RunState : /\ Sound(t, s)
                            /\ s \notin {"done", "error"} \/ s = status[r]
                            /\ status' = [status EXCEPT ![r] = s]
  <2>1. CASE CallModel(t)
    <3>1. status' = [status EXCEPT ![r] = Begun(r)]
      BY <2>1 DEF CallModel
    <3>2. Begun(r) \in RunState /\ (Begun(r) \notin {"done", "error"} \/ Begun(r) = status[r])
      BY <1>2 DEF Begun, RunState
    <3>. QED  BY <1>1, <3>1, <3>2, BegunSound
  <2>2. CASE AskForReview(t)
    <3>1. "awaiting_review" \in RunState
      BY DEF RunState
    <3>. QED  BY <1>1, <2>2, <3>1, AcceptedSound DEF AskForReview
  <2>. QED  BY <2>1, <2>2
<1>4. UNCHANGED <<awaiting, runningIds>>
  BY DEF CallModel, AskForReview
<1>5. /\ task' \in [Task -> Execution \cup {None}]
      /\ KeepsTasks /\ KeepsPickedUp
  BY <1>1, <1>4, KeepsExecuting DEF CallModel, AskForReview
<1>6. /\ status'[r] = s
      /\ \A q \in Run : q # r => status'[q] = status[q]
      /\ status' \in [Run -> RunState \cup {Absent}]
  BY <1>2, <1>3 DEF IInv, TypeOK
<1>7. TypeOK'
  BY <1>2, <1>4, <1>5, <1>6 DEF IInv, TypeOK
<1>8. \A q \in Run : Moves(q)
  <2>1. CASE s = status[r]
    BY <1>6, <2>1 DEF Moves
  <2>2. CASE s # status[r]
    <3>1. Parent[r] # None => status[r] \notin {"done", "error"}
      BY <1>1 DEF IInv, ChildTasksReport, IsChild
    <3>. QED  BY <1>2, <1>3, <1>6, <2>2, <3>1 DEF Moves, Sound
  <2>. QED  BY <2>1, <2>2
<1>. QED  BY <1>4, <1>5, <1>7, <1>8, SilentStep

LEMMA LeafHaltKeeps ==
  ASSUME IInv, NEW t \in Task,
         \/ AssessmentEscalates(t) \/ WorkFails(t) \/ WorkEnds(t) \/ Subdivides(t)
         \/ ReviewRefused(t) \/ ReviewGo(t) \/ ReviewNoGo(t)
  PROVE  IInv'
<1>1. t \in Live
  BY DEF AssessmentEscalates, WorkFails, WorkEnds, Subdivides, ReviewRefused,
         ReviewGo, ReviewNoGo, Queued, Working, InReview
<1>2. CASE AssessmentEscalates(t)
  BY <1>1, <1>2, AcceptedSound, HaltKeeps DEF AssessmentEscalates
<1>3. CASE WorkFails(t) \/ WorkEnds(t) \/ ReviewRefused(t)
  BY <1>1, <1>3, BegunSound, CloseKeeps DEF WorkFails, WorkEnds, ReviewRefused
<1>4. CASE Subdivides(t) \/ ReviewNoGo(t)
  BY <1>1, <1>4, BegunSound, HaltKeeps DEF Subdivides, ReviewNoGo
<1>5. CASE ReviewGo(t)
  <2>1. CASE CanBecome(status[task[t].run], "running")
    BY <1>1, <1>5, <2>1, AcceptedSound, CloseKeeps DEF ReviewGo
  <2>2. CASE ~CanBecome(status[task[t].run], "running")
    BY <1>1, <1>5, <2>2, BegunSound, CloseKeeps DEF ReviewGo
  <2>. QED  BY <2>1, <2>2
<1>. QED  BY <1>2, <1>3, <1>4, <1>5

\* A wave of children: they are counted as they are created.
LEMMA SpawnWaveKeeps ==
  ASSUME IInv, NEW t \in Task, SpawnWave(t)
  PROVE  IInv'
<1>. DEFINE r == task[t].run
            wave == Ready(r)
            st == [q \in Run |-> IF q = r THEN "awaiting_subagents"
                                 ELSE IF q \in wave THEN "pending" ELSE status[q]]
            aw == [awaiting EXCEPT ![r] = @ + Cardinality(wave)]
<1>1. t \in Live
  BY DEF SpawnWave, Queued
<1>2. r \in Run /\ status[r] \in RunState /\ Absent \notin RunState
  BY <1>1, LiveTask, RunStateIsStatus DEF IInv, TasksExist
<1>3. \A c \in wave : c \in Run /\ Parent[c] = r /\ status[c] = Absent /\ c # r
  BY <1>2, TreeAssumption DEF Ready, ChildTasks
<1>4. status[r] \in {"pending", "running", "awaiting_subagents"}
  BY DEF SpawnWave, Spawnable, Begun
<1>5. ~Reports(t, st[r])
  BY <1>2 DEF Reports
<1>6. /\ awaiting' = aw /\ status' = st
      /\ task' = [task EXCEPT ![t] = None]
      /\ runningIds' = Discarded(t)
  <2>1. Finish(t, st, aw)
    BY DEF SpawnWave
  <2>. QED  BY <1>5, <2>1, FinishSilently
<1>7. /\ status'[r] = "awaiting_subagents"
      /\ \A q \in wave : status'[q] = "pending"
      /\ \A q \in Run : q # r /\ q \notin wave => status'[q] = status[q]
  BY <1>2, <1>3, <1>6
<1>8. /\ KeepsTasks /\ KeepsPickedUp
      /\ \A u \in Live' : u # t
  BY <1>1, <1>6, TaskEnds
<1>9. \A u \in Live' : /\ u \in Live /\ task'[u] = task[u] /\ task[u].run \in Run
                       /\ task[u].run \notin wave
                       /\ IsChild(u) => task[u].run # r
  BY <1>1, <1>3, <1>6, <1>8, LiveTask
     DEF IInv, TypeOK, KeepsTasks, TasksExist, OneTaskPerChild, IsChild
<1>10. IsFiniteSet(wave) /\ Cardinality(wave) \in Nat
  <2>1. wave \subseteq Run
    BY <1>3
  <2>. QED  BY <2>1, TreeAssumption, FS_Subset, FS_CardinalityType
<1>11. awaiting' \in [Run -> Nat]
  BY <1>2, <1>6, <1>10 DEF IInv, TypeOK
<1>12. TypeOK'
  <2>1. status' \in [Run -> RunState \cup {Absent}]
    BY <1>6, <1>7 DEF IInv, TypeOK, RunState
  <2>2. \A q \in Run : status[q] # Absent => status'[q] # Absent
    BY <1>2, <1>3, <1>7 DEF RunState
  <2>3. task' \in [Task -> Execution \cup {None}]
    BY <1>6 DEF IInv, TypeOK
  <2>4. runningIds' \subseteq {q \in Run : status'[q] # Absent}
    BY <1>6, <2>2 DEF IInv, TypeOK, Discarded
  <2>. QED  BY <1>11, <2>1, <2>3, <2>4 DEF TypeOK
<1>13. \A c \in Run : c \notin wave =>
          (status'[c] # Absent /\ status'[c] \notin {"done", "error"}
             <=> status[c] # Absent /\ status[c] \notin {"done", "error"})
  BY <1>2, <1>4, <1>7 DEF RunState
<1>14. \A p \in Run : p # r => Unreported(p)' = Unreported(p)
  BY <1>3, <1>13 DEF Unreported, Children
<1>15. /\ \A p \in Run : p = r => Unreported(p)' = Unreported(p) \cup wave
       /\ Unreported(r) \cap wave = {}
  <2>1. \A c \in wave : status'[c] # Absent /\ status'[c] \notin {"done", "error"}
    BY <1>2, <1>7 DEF RunState
  <2>. QED  BY <1>3, <1>13, <2>1 DEF Unreported, Children
<1>16. AwaitingIsExact'
  <2> SUFFICES ASSUME NEW p \in Run, status'[p] \notin TerminalStatus
               PROVE  awaiting'[p] = Cardinality(Unreported(p)')
    BY DEF AwaitingIsExact
  <2>1. CASE p = r
    <3>1. awaiting[r] = Cardinality(Unreported(r))
      BY <1>2, <1>4 DEF IInv, AwaitingIsExact, TerminalStatus
    <3>2. Cardinality(Unreported(r) \cup wave)
            = Cardinality(Unreported(r)) + Cardinality(wave)
      <4>1. Cardinality(Unreported(r) \cap wave) = 0
        BY <1>15, FS_EmptySet
      <4>2. /\ IsFiniteSet(Unreported(r)) /\ Cardinality(Unreported(r)) \in Nat
        BY <1>2, UnreportedFinite
      <4>3. Cardinality(Unreported(r) \cup wave)
              = Cardinality(Unreported(r)) + Cardinality(wave)
                - Cardinality(Unreported(r) \cap wave)
        BY <1>10, <4>2, FS_Union
      <4>. QED  BY <1>10, <4>1, <4>2, <4>3
    <3>3. awaiting'[r] = awaiting[r] + Cardinality(wave)
      BY <1>2, <1>6 DEF IInv, TypeOK
    <3>4. Unreported(p)' = Unreported(r) \cup wave
      BY <1>15, <2>1
    <3>. QED  BY <2>1, <3>1, <3>2, <3>3, <3>4
  <2>2. CASE p # r
    <3>1. awaiting'[p] = awaiting[p]
      BY <1>2, <1>6, <2>2 DEF IInv, TypeOK
    <3>2. status[p] \notin TerminalStatus
      <4>1. Absent \notin TerminalStatus
        BY LimitsAssumption DEF Status
      <4>. QED  BY <1>3, <1>7, <2>2, <4>1
    <3>. QED  BY <1>14, <2>2, <3>1, <3>2 DEF IInv, AwaitingIsExact
  <2>. QED  BY <2>1, <2>2
<1>17. OneTaskPerChild'
  BY <1>9 DEF IInv, OneTaskPerChild, IsChild
<1>18. ChildTasksReport' /\ PickedUpIsKnown' /\ TasksExist'
  <2>1. \A u \in Live' : Parent[task[u].run] # None => status'[task[u].run] = status[task[u].run]
    BY <1>7, <1>9 DEF IsChild
  <2>2. ChildTasksReport'
    BY <1>9, <2>1 DEF IInv, ChildTasksReport, IsChild
  <2>3. PickedUpIsKnown'
    BY <1>8, <1>9, <2>1 DEF IInv, PickedUpIsKnown, KeepsPickedUp, IsChild
  <2>4. TasksExist'
    BY <1>2, <1>7, <1>9 DEF IInv, TasksExist, RunState
  <2>. QED  BY <2>2, <2>3, <2>4
<1>19. NothingUnreported'
  <2> SUFFICES ASSUME NEW p \in Run, Parent[p] # None, NEW u \in Live', task'[u].run = p
               PROVE  Unreported(p)' = {}
    BY DEF NothingUnreported, Executing
  <2>1. p # r
    BY <1>9 DEF IsChild
  <2>2. Unreported(p) = {}
    BY <1>9 DEF IInv, NothingUnreported, Executing
  <2>. QED  BY <1>14, <2>1, <2>2
<1>20. ParentsStarted'
  <2> SUFFICES ASSUME NEW c \in Run, status'[c] # Absent, Parent[c] # None
               PROVE  status'[Parent[c]] \notin {Absent, "pending"}
    BY DEF ParentsStarted
  <2>1. Parent[c] \in Run
    BY ParentIsRun
  <2>2. CASE Parent[c] = r
    BY <1>2, <1>7, <2>2 DEF RunState
  <2>3. CASE Parent[c] # r
    <3>1. status[c] # Absent
      BY <1>2, <1>3, <1>7, <2>3
    <3>2. status[Parent[c]] \notin {Absent, "pending"}
      BY <3>1 DEF IInv, ParentsStarted
    <3>. QED  BY <1>3, <1>7, <2>1, <2>3, <3>2
  <2>. QED  BY <2>2, <2>3
<1>. QED  BY <1>12, <1>16, <1>17, <1>18, <1>19, <1>20 DEF IInv

----------------------------------------------------------------------------
(* The worker and the clients. *)

\* A new task takes an idle place.
LEMMA NewTask ==
  ASSUME TypeOK, NEW r \in Run, NEW by \in {"worker", "router"}, CreateTask(r, by)
  PROVE  /\ task' \in [Task -> Execution \cup {None}]
         /\ \E i \in Idle : /\ task'[i].run = r /\ task'[i].by = by
                            /\ \A u \in Live' : u # i => u \in Live /\ task'[u] = task[u]
<1>1. PICK i \in Idle : task' = [task EXCEPT ![i] = [run |-> r, by |-> by, phase |-> "queued"]]
  BY DEF CreateTask
<1>2. i \in Task /\ [run |-> r, by |-> by, phase |-> "queued"] \in Execution
  BY DEF Idle, Execution
<1>3. /\ task' \in [Task -> Execution \cup {None}]
      /\ task'[i].run = r /\ task'[i].by = by
      /\ \A u \in Live' : u # i => u \in Live /\ task'[u] = task[u]
  BY <1>1, <1>2 DEF TypeOK, Live
<1>. QED  BY <1>3

LEMMA StillActiveKnown ==
  ASSUME IInv
  PROVE  /\ StillActive \subseteq {q \in Run : status[q] # Absent}
         /\ \A q \in runningIds : status[q] = "pending" => q \in StillActive
BY DEF StillActive, IInv, TypeOK

\* The worker starts a child that nothing executes yet and that has no
\* children of its own.
LEMMA StartPendingKeeps ==
  ASSUME IInv, NEW r \in Run, StartPending(r)
  PROVE  IInv'
<1>1. /\ status[r] = "pending" /\ r \notin StillActive
      /\ CreateTask(r, "worker")
      /\ runningIds' = StillActive \cup {r}
      /\ status' = status /\ awaiting' = awaiting
  BY DEF StartPending
<1>2. "pending" # Absent
  BY RunStateIsStatus DEF RunState
<1>3. TypeOK'
  BY <1>1, <1>2, NewTask, StillActiveKnown DEF IInv, TypeOK
<1>4. PICK i \in Idle :
         /\ task'[i].run = r /\ task'[i].by = "worker"
         /\ \A u \in Live' : u # i => u \in Live /\ task'[u] = task[u]
  BY <1>1, NewTask DEF IInv
<1>5. \A u \in Live : IsChild(u) => task[u].run # r
  BY <1>1, StillActiveKnown DEF IInv, PickedUpIsKnown
<1>6. \A p \in Run : Unreported(p)' = Unreported(p)
  BY <1>1 DEF Unreported, Children
<1>7. Unreported(r) = {}
  BY <1>1, TreeAssumption DEF IInv, ParentsStarted, Unreported, Children
<1>8. AwaitingIsExact'
  BY <1>1, <1>6 DEF IInv, AwaitingIsExact
<1>9. OneTaskPerChild'
  <2> SUFFICES ASSUME NEW u \in Live', NEW v \in Live', Parent[task'[u].run] # None,
                      task'[u].run = task'[v].run
               PROVE  u = v
    BY DEF OneTaskPerChild, IsChild
  <2>1. CASE u # i /\ v # i
    BY <1>4, <2>1 DEF IInv, OneTaskPerChild, IsChild
  <2>2. CASE u = i /\ v # i
    BY <1>4, <1>5, <2>2 DEF IsChild
  <2>3. CASE u # i /\ v = i
    BY <1>4, <1>5, <2>3 DEF IsChild
  <2>. QED  BY <2>1, <2>2, <2>3
<1>10. ChildTasksReport' /\ TasksExist'
  <2> SUFFICES ASSUME NEW u \in Live'
               PROVE  /\ Parent[task'[u].run] # None =>
                           /\ task'[u].by = "worker"
                           /\ status[task'[u].run] \notin {Absent, "done", "error"}
                      /\ status[task'[u].run] # Absent
    BY <1>1 DEF ChildTasksReport, TasksExist, IsChild
  <2>1. CASE u = i
    BY <1>1, <1>2, <1>4, <2>1
  <2>2. CASE u # i
    BY <1>4, <2>2 DEF IInv, ChildTasksReport, TasksExist, IsChild
  <2>. QED  BY <2>1, <2>2
<1>11. PickedUpIsKnown'
  <2> SUFFICES ASSUME NEW u \in Live', Parent[task'[u].run] # None,
                      status[task'[u].run] = "pending"
               PROVE  task'[u].run \in runningIds'
    BY <1>1 DEF PickedUpIsKnown, IsChild
  <2>1. CASE u = i
    BY <1>1, <1>4, <2>1
  <2>2. CASE u # i
    BY <1>1, <1>4, <2>2, StillActiveKnown DEF IInv, PickedUpIsKnown, IsChild
  <2>. QED  BY <2>1, <2>2
<1>12. NothingUnreported'
  <2> SUFFICES ASSUME NEW p \in Run, Parent[p] # None, NEW u \in Live', task'[u].run = p
               PROVE  Unreported(p)' = {}
    BY DEF NothingUnreported, Executing
  <2>1. CASE u = i
    BY <1>4, <1>6, <1>7, <2>1
  <2>2. CASE u # i
    BY <1>4, <1>6, <2>2 DEF IInv, NothingUnreported, Executing
  <2>. QED  BY <2>1, <2>2
<1>13. ParentsStarted'
  BY <1>1 DEF IInv, ParentsStarted
<1>. QED  BY <1>3, <1>8, <1>9, <1>10, <1>11, <1>12, <1>13 DEF IInv

LEMMA TickOnlyKeeps ==
  ASSUME IInv, TickOnly
  PROVE  IInv'
<1>1. TypeOK'
  BY StillActiveKnown DEF IInv, TypeOK, TickOnly
<1>2. KeepsTasks /\ KeepsPickedUp
  BY StillActiveKnown DEF KeepsTasks, KeepsPickedUp, TickOnly, Live
<1>3. \A q \in Run : Moves(q)
  BY DEF Moves, TickOnly
<1>. QED  BY <1>1, <1>2, <1>3, SilentStep DEF TickOnly

\* A client creates a run of its own, and perhaps the task that executes it.
LEMMA NewRootKeeps ==
  ASSUME IInv, NEW r \in Run, CreateRun(r) \/ QueueRun(r) \/ AutoRun(r)
  PROVE  IInv'
<1>1. PICK s \in {"pending", "running"} : status' = [status EXCEPT ![r] = s]
  BY DEF CreateRun, QueueRun, AutoRun
<1>2. /\ Parent[r] = None /\ status[r] = Absent
      /\ awaiting' = awaiting /\ runningIds' = runningIds
      /\ task' = task \/ CreateTask(r, "router")
  BY DEF CreateRun, QueueRun, AutoRun, Root
<1>3. s \in RunState /\ s # Absent /\ s \notin TerminalStatus /\ Absent \notin TerminalStatus
  BY RunStateIsStatus, LimitsAssumption DEF RunState, TerminalStatus, Status
<1>4. /\ status'[r] = s /\ \A q \in Run \ {r} : status'[q] = status[q]
      /\ status' \in [Run -> RunState \cup {Absent}]
  BY <1>1, <1>3 DEF IInv, TypeOK
<1>5. task' \in [Task -> Execution \cup {None}]
  BY <1>2, NewTask DEF IInv, TypeOK
<1>6. TypeOK'
  BY <1>2, <1>3, <1>4, <1>5 DEF IInv, TypeOK
<1>7. \A u \in Live' : task'[u].run = r \/ (u \in Live /\ task'[u] = task[u])
  <2>1. CASE task' = task
    BY <2>1 DEF Live
  <2>2. CASE CreateTask(r, "router")
    BY <2>2, NewTask DEF IInv
  <2>. QED  BY <1>2, <2>1, <2>2
<1>8. \A p \in Run : Unreported(p)' = Unreported(p)
  <2>1. \A p, c \in Run : Parent[c] = p => c # r
    BY <1>2, TreeAssumption
  <2>. QED  BY <1>4, <2>1 DEF Unreported, Children
<1>9. AwaitingIsExact'
  BY <1>2, <1>3, <1>4, <1>8 DEF IInv, AwaitingIsExact
<1>10. \A u \in Live' : Parent[task'[u].run] # None =>
          /\ u \in Live /\ task'[u] = task[u]
          /\ task[u].run \in Run \ {r} /\ status'[task[u].run] = status[task[u].run]
  <2>1. \A u \in Live : task[u].run \in Run
    BY LiveTask DEF IInv
  <2>. QED  BY <1>2, <1>4, <1>7, <2>1
<1>11. OneTaskPerChild'
  <2> SUFFICES ASSUME NEW u \in Live', NEW v \in Live', Parent[task'[u].run] # None,
                      task'[u].run = task'[v].run
               PROVE  u = v
    BY DEF OneTaskPerChild, IsChild
  <2>1. Parent[task'[v].run] # None
    OBVIOUS
  <2>. QED  BY <1>10, <2>1 DEF IInv, OneTaskPerChild, IsChild
<1>12. ChildTasksReport' /\ PickedUpIsKnown'
  BY <1>2, <1>10 DEF IInv, ChildTasksReport, PickedUpIsKnown, IsChild
<1>13. NothingUnreported'
  <2> SUFFICES ASSUME NEW p \in Run, Parent[p] # None, NEW u \in Live', task'[u].run = p
               PROVE  Unreported(p)' = {}
    BY DEF NothingUnreported, Executing
  <2>. QED  BY <1>8, <1>10 DEF IInv, NothingUnreported, Executing
<1>14. ParentsStarted'
  <2> SUFFICES ASSUME NEW c \in Run, status'[c] # Absent, Parent[c] # None
               PROVE  status'[Parent[c]] \notin {Absent, "pending"}
    BY DEF ParentsStarted
  <2>1. c # r /\ status[c] # Absent /\ Parent[c] \in Run
    BY <1>2, <1>4, ParentIsRun
  <2>2. status[Parent[c]] \notin {Absent, "pending"}
    BY <2>1 DEF IInv, ParentsStarted
  <2>. QED  BY <1>2, <1>4, <2>1, <2>2
<1>15. TasksExist'
  <2>1. \A u \in Live : task[u].run \in Run
    BY LiveTask DEF IInv
  <2>. QED  BY <1>2, <1>3, <1>4, <1>7, <2>1 DEF IInv, TasksExist
<1>. QED  BY <1>6, <1>9, <1>11, <1>12, <1>13, <1>14, <1>15 DEF IInv

\* A client moves a run without touching its execution.
LEMMA ClientMoveKeeps ==
  ASSUME IInv, NEW r \in Run, Cancel(r) \/ ResolveHandover(r) \/ PauseParent(r)
  PROVE  IInv'
<1>1. PICK s \in {"cancelled", "running", "awaiting_subagents"} :
         /\ status' = [status EXCEPT ![r] = s]
         /\ s \in ValidTransitions[status[r]]
  BY DEF Cancel, ResolveHandover, PauseParent
<1>2. /\ status[r] # Absent
      /\ awaiting' = awaiting /\ runningIds' = runningIds /\ task' = task
  BY DEF Cancel, ResolveHandover, PauseParent
<1>3. /\ status[r] \in RunState /\ s \in RunState
      /\ s \notin {Absent, "pending", "done", "error"} /\ Absent \notin RunState
  BY <1>2, RunStateIsStatus DEF IInv, TypeOK, RunState
<1>4. status[r] \notin TerminalStatus
  BY <1>1, <1>3
     DEF ValidTransitions, TerminalStatus, RunState, Status, ActiveStatus, ParkedStatus
<1>5. /\ status'[r] = s /\ \A q \in Run \ {r} : status'[q] = status[q]
      /\ status' \in [Run -> RunState \cup {Absent}]
  BY <1>1, <1>3 DEF IInv, TypeOK
<1>6. TypeOK'
  BY <1>2, <1>3, <1>5 DEF IInv, TypeOK
<1>7. KeepsTasks /\ KeepsPickedUp
  BY <1>2 DEF KeepsTasks, KeepsPickedUp, Live
<1>8. \A q \in Run : Moves(q)
  BY <1>2, <1>3, <1>4, <1>5 DEF Moves, TerminalStatus
<1>. QED  BY <1>2, <1>6, <1>7, <1>8, SilentStep

\* A child that a client creates is counted too.
LEMMA SpawnChildKeeps ==
  ASSUME IInv, ClientsSpawnUnderRoots, NEW c \in Run, SpawnChild(c)
  PROVE  IInv'
<1>. DEFINE p == Parent[c]
<1>1. /\ p # None /\ c \notin Planned /\ status[c] = Absent
      /\ status[p] \in Spawnable
      /\ status' = [status EXCEPT ![c] = "pending"]
      /\ awaiting' = [awaiting EXCEPT ![p] = @ + 1]
      /\ task' = task /\ runningIds' = runningIds
      /\ Parent[p] = None
  BY DEF SpawnChild, ClientsSpawnUnderRoots
<1>2. p \in Run /\ p # c
  BY <1>1, ParentIsRun
<1>3. /\ "pending" \in RunState /\ "pending" # Absent
      /\ "pending" \notin TerminalStatus /\ Absent \notin TerminalStatus
      /\ Absent \notin Spawnable
  BY RunStateIsStatus, LimitsAssumption DEF RunState, TerminalStatus, Status, Spawnable
<1>4. /\ status'[c] = "pending" /\ \A q \in Run \ {c} : status'[q] = status[q]
      /\ status' \in [Run -> RunState \cup {Absent}]
      /\ awaiting'[p] = awaiting[p] + 1
      /\ \A q \in Run \ {p} : awaiting'[q] = awaiting[q]
      /\ awaiting' \in [Run -> Nat]
  BY <1>1, <1>2, <1>3 DEF IInv, TypeOK
<1>5. TypeOK'
  BY <1>1, <1>3, <1>4 DEF IInv, TypeOK
<1>6. /\ Unreported(p)' = Unreported(p) \cup {c}
      /\ c \notin Unreported(p)
      /\ \A q \in Run \ {p} : Unreported(q)' = Unreported(q)
  BY <1>1, <1>2, <1>3, <1>4 DEF Unreported, Children
<1>7. AwaitingIsExact'
  <2> SUFFICES ASSUME NEW q \in Run, status'[q] \notin TerminalStatus
               PROVE  awaiting'[q] = Cardinality(Unreported(q)')
    BY DEF AwaitingIsExact
  <2>1. CASE q = p
    <3>1. awaiting[p] = Cardinality(Unreported(p))
      BY <1>1, <1>2 DEF IInv, AwaitingIsExact, Spawnable, TerminalStatus
    <3>2. /\ IsFiniteSet(Unreported(p)) /\ Cardinality(Unreported(p)) \in Nat
      BY <1>2, UnreportedFinite
    <3>3. Cardinality(Unreported(p) \cup {c}) = Cardinality(Unreported(p)) + 1
      BY <1>6, <3>2, FS_AddElement
    <3>. QED  BY <1>4, <1>6, <2>1, <3>1, <3>3
  <2>2. CASE q # p
    BY <1>1, <1>3, <1>4, <1>6, <2>2 DEF IInv, AwaitingIsExact
  <2>. QED  BY <2>1, <2>2
<1>8. \A u \in Live : task[u].run \in Run \ {c}
  BY <1>1, LiveTask DEF IInv, TasksExist
<1>9. OneTaskPerChild'
  BY <1>1 DEF IInv, OneTaskPerChild, IsChild, Live
<1>10. ChildTasksReport' /\ PickedUpIsKnown' /\ TasksExist'
  BY <1>1, <1>4, <1>8
     DEF IInv, ChildTasksReport, PickedUpIsKnown, TasksExist, IsChild, Live
<1>11. NothingUnreported'
  <2> SUFFICES ASSUME NEW q \in Run, Parent[q] # None, NEW u \in Live, task[u].run = q
               PROVE  Unreported(q)' = {}
    BY <1>1 DEF NothingUnreported, Executing, Live
  <2>1. q # p
    BY <1>1
  <2>2. Unreported(q) = {}
    BY DEF IInv, NothingUnreported, Executing
  <2>. QED  BY <1>6, <2>1, <2>2
<1>12. ParentsStarted'
  <2> SUFFICES ASSUME NEW d \in Run, status'[d] # Absent, Parent[d] # None
               PROVE  status'[Parent[d]] \notin {Absent, "pending"}
    BY DEF ParentsStarted
  <2>1. CASE d = c
    BY <1>1, <1>2, <1>3, <1>4, <2>1 DEF Spawnable
  <2>2. CASE d # c
    <3>1. status[Parent[d]] \notin {Absent, "pending"} /\ Parent[d] \in Run
      BY <1>4, <2>2, ParentIsRun DEF IInv, ParentsStarted
    <3>. QED  BY <1>1, <1>4, <3>1
  <2>. QED  BY <2>1, <2>2
<1>. QED  BY <1>5, <1>7, <1>9, <1>10, <1>11, <1>12 DEF IInv

\* After a restart only runs without children are not over.
LEMMA RestartKeeps ==
  ASSUME IInv, Restart
  PROVE  IInv'
<1>1. /\ status' = [r \in Run |-> IF status[r] \in Zombie \/ IsOrphan(r) THEN "error"
                                  ELSE status[r]]
      /\ task' = [t \in Task |-> None] /\ runningIds' = {} /\ awaiting' = awaiting
  BY DEF Restart
<1>2. Live' = {}
  BY <1>1 DEF Live
<1>3. "error" \in RunState /\ Absent \notin RunState /\ Absent \notin Zombie
  BY RunStateIsStatus DEF RunState, Zombie
<1>4. TypeOK'
  <2>1. task' \in [Task -> Execution \cup {None}]
    BY <1>1
  <2>2. status' \in [Run -> RunState \cup {Absent}]
    BY <1>1, <1>3 DEF IInv, TypeOK
  <2>. QED  BY <1>1, <2>1, <2>2 DEF IInv, TypeOK
<1>5. \A q \in Run : /\ status'[q] = Absent <=> status[q] = Absent
                     /\ status'[q] = "pending" => status[q] = "pending"
                     /\ status'[q] \notin TerminalStatus => status[q] \in {Absent, "pending"}
  <2> SUFFICES ASSUME NEW q \in Run
               PROVE  /\ status'[q] = Absent <=> status[q] = Absent
                      /\ status'[q] = "pending" => status[q] = "pending"
                      /\ status'[q] \notin TerminalStatus => status[q] \in {Absent, "pending"}
    OBVIOUS
  <2>1. status[q] \in RunState \cup {Absent}
    BY DEF IInv, TypeOK
  <2>2. CASE status[q] \in Zombie \/ IsOrphan(q)
    <3>1. status'[q] = "error" /\ status[q] # Absent
      BY <1>1, <1>3, <2>2, RunStateIsStatus DEF IsOrphan, RunState
    <3>. QED  BY <1>3, <3>1 DEF TerminalStatus
  <2>3. CASE ~(status[q] \in Zombie \/ IsOrphan(q))
    BY <1>1, <2>1, <2>3 DEF Zombie, RunState, TerminalStatus
  <2>. QED  BY <2>2, <2>3
<1>6. AwaitingIsExact'
  <2> SUFFICES ASSUME NEW p \in Run, status'[p] \notin TerminalStatus
               PROVE  awaiting'[p] = Cardinality(Unreported(p)')
    BY DEF AwaitingIsExact
  <2>1. status[p] \in {Absent, "pending"}
    BY <1>5
  <2>2. \A c \in Run : Parent[c] = p => status[c] = Absent
    BY <2>1, TreeAssumption DEF IInv, ParentsStarted
  <2>3. Unreported(p) = {} /\ Unreported(p)' = {}
    BY <1>5, <2>2 DEF Unreported, Children
  <2>4. status[p] \notin TerminalStatus
    BY <2>1, LimitsAssumption DEF TerminalStatus, Status
  <2>. QED  BY <1>1, <2>3, <2>4 DEF IInv, AwaitingIsExact
<1>7. ParentsStarted'
  BY <1>5, ParentIsRun DEF IInv, ParentsStarted
<1>8. /\ OneTaskPerChild' /\ ChildTasksReport' /\ PickedUpIsKnown'
      /\ NothingUnreported' /\ TasksExist'
  BY <1>2 DEF OneTaskPerChild, ChildTasksReport, PickedUpIsKnown, NothingUnreported,
              TasksExist, Executing
<1>. QED  BY <1>4, <1>6, <1>7, <1>8 DEF IInv

----------------------------------------------------------------------------
(* The theorems. *)

LEMMA InitInv == Init => IInv
<1> SUFFICES ASSUME Init PROVE IInv
  OBVIOUS
<1>1. Live = {} /\ \A r \in Run : status[r] = Absent
  BY DEF Init, Live
<1>2. TypeOK
  BY DEF Init, TypeOK
<1>3. AwaitingIsExact
  <2>1. \A p \in Run : Unreported(p) = {}
    BY <1>1 DEF Unreported, Children
  <2>. QED  BY <2>1, FS_EmptySet DEF Init, AwaitingIsExact
<1>4. /\ OneTaskPerChild /\ ChildTasksReport /\ PickedUpIsKnown
      /\ NothingUnreported /\ ParentsStarted /\ TasksExist
  BY <1>1 DEF OneTaskPerChild, ChildTasksReport, PickedUpIsKnown, NothingUnreported,
              ParentsStarted, TasksExist, Executing
<1>. QED  BY <1>2, <1>3, <1>4 DEF IInv

LEMMA StutterInv == ASSUME IInv, UNCHANGED vars PROVE IInv'
<1>1. TypeOK' /\ KeepsTasks /\ KeepsPickedUp /\ \A q \in Run : Moves(q)
  BY DEF vars, IInv, TypeOK, KeepsTasks, KeepsPickedUp, Moves, Live
<1>. QED  BY <1>1, SilentStep DEF vars

LEMMA NextInv ==
  ASSUME ClientsSpawnUnderRoots, IInv, [Next]_vars
  PROVE  IInv'
<1>1. ASSUME NEW t \in Task, Step(t)
      PROVE  IInv'
  <2>1. CASE GateHolds(t) \/ GateFails(t)
    BY <2>1, GateKeeps
  <2>2. CASE ParentStep(t)
    BY <2>2, ParentHaltKeeps, SpawnWaveKeeps DEF ParentStep
  <2>3. CASE LeafStep(t)
    BY <2>3, LeafHaltKeeps, WaitKeeps DEF LeafStep
  <2>. QED  BY <1>1, <2>1, <2>2, <2>3 DEF Step
<1>2. ASSUME NEW r \in Run, StartPending(r) \/ Client(r)
      PROVE  IInv'
  BY <1>2, StartPendingKeeps, NewRootKeeps, ClientMoveKeeps, SpawnChildKeeps DEF Client
<1>3. CASE TickOnly
  BY <1>3, TickOnlyKeeps
<1>4. CASE Restart
  BY <1>4, RestartKeeps
<1>5. CASE UNCHANGED vars
  BY <1>5, StutterInv
<1>. QED  BY <1>1, <1>2, <1>3, <1>4, <1>5 DEF Next

THEOREM Inductive == ClientsSpawnUnderRoots /\ Spec => []IInv
<1>. SUFFICES ASSUME ClientsSpawnUnderRoots PROVE Spec => []IInv
  OBVIOUS
<1>1. Init => IInv
  BY InitInv
<1>2. IInv /\ [Next]_vars => IInv'
  BY NextInv
<1>. QED  BY <1>1, <1>2, PTL DEF Spec

\* Every reachable state is well formed: counters stay natural, tasks execute
\* runs that exist, and the worker knows no run that was never created.
THEOREM TypeCorrect == ClientsSpawnUnderRoots /\ Spec => []TypeOK
<1>1. IInv => TypeOK
  BY DEF IInv
<1>. QED  BY <1>1, Inductive, PTL

\* awaiting_count counts the children that have not reported, for every tree,
\* every order of completions and every restart, as long as clients add
\* children to root runs only.
THEOREM AwaitingExact == ClientsSpawnUnderRoots /\ Spec => []AwaitingIsExact
<1>1. IInv => AwaitingIsExact
  BY DEF IInv
<1>. QED  BY <1>1, Inductive, PTL

----------------------------------------------------------------------------
(* The implementation of ForkJoin. *)

Busy == {"pending", "running", "awaiting_review"}

Open == Busy \cup {"awaiting_subagents"}

NoCancelled == \A r \in Run : status[r] # "cancelled"

\* How a step that ForkJoin allows may change the status of run q.
Promised(q) ==
    \/ status'[q] = status[q]
    \/ status[q] \in Busy /\ status'[q] \in Busy
    \/ status[q] \in Open /\ status'[q] \in {"done", "error"}
    \/ /\ status[q] = Absent /\ status'[q] \in Busy
       /\ Parent[q] # None => status[Parent[q]] \in Open
    \/ /\ status[q] \in Open /\ status'[q] = "awaiting_subagents"
       /\ \E c \in Run : Parent[c] = q /\ status'[c] \in Open
    \/ /\ status[q] \in Open /\ status'[q] = "running"
       /\ \A c \in Run : Parent[c] = q => status'[c] \notin Open

LEMMA StatusKinds ==
  ASSUME TypeOK, NEW r \in Run
  PROVE  /\ status[r] \in Open <=> status[r] # Absent /\ status[r] \notin TerminalStatus
         /\ status[r] = Absent => status[r] \notin TerminalStatus
         /\ status[r] \in TerminalStatus => status[r] \in {"done", "error", "cancelled"}
<1>1. status[r] \in RunState \cup {Absent}
  BY DEF TypeOK
<1>2. Absent \notin TerminalStatus /\ Absent \notin RunState
  BY RunStateIsStatus, LimitsAssumption DEF Status
<1>. QED  BY <1>1, <1>2 DEF Open, Busy, RunState, TerminalStatus

\* The phase of a run, by its status.
PhaseByStatus ==
    \A r \in Run :
       /\ status[r] = Absent => phaseOfRuns[r] = "absent"
       /\ status[r] = "awaiting_subagents" => phaseOfRuns[r] = "waiting"
       /\ status[r] \in Busy => phaseOfRuns[r] = "active"
       /\ status[r] \in TerminalStatus => phaseOfRuns[r] = "over"
       /\ phaseOfRuns[r] \in {"active", "waiting"} <=> status[r] \in Open

LEMMA PhaseOf == TypeOK => PhaseByStatus
<1> SUFFICES ASSUME TypeOK, NEW r \in Run
             PROVE  /\ status[r] = Absent => phaseOfRuns[r] = "absent"
                    /\ status[r] = "awaiting_subagents" => phaseOfRuns[r] = "waiting"
                    /\ status[r] \in Busy => phaseOfRuns[r] = "active"
                    /\ status[r] \in TerminalStatus => phaseOfRuns[r] = "over"
                    /\ phaseOfRuns[r] \in {"active", "waiting"} <=> status[r] \in Open
  BY DEF PhaseByStatus
<1>0. phaseOfRuns[r] = CASE status[r] = Absent -> "absent"
                         [] status[r] = "awaiting_subagents" -> "waiting"
                         [] status[r] \in TerminalStatus -> "over"
                         [] OTHER -> "active"
  BY DEF phaseOfRuns
<1>1. status[r] \in {Absent} \cup {"awaiting_subagents"} \cup Busy \cup TerminalStatus
  BY DEF TypeOK, RunState, Busy, TerminalStatus
<1>2. /\ Absent # "awaiting_subagents" /\ Absent \notin Busy /\ Absent \notin TerminalStatus
      /\ "awaiting_subagents" \notin Busy /\ "awaiting_subagents" \notin TerminalStatus
      /\ Busy \cap TerminalStatus = {}
  BY LimitsAssumption DEF Status, ActiveStatus, ParkedStatus, TerminalStatus, Busy
<1>3. CASE status[r] = Absent
  BY <1>0, <1>2, <1>3 DEF Open
<1>4. CASE status[r] = "awaiting_subagents"
  BY <1>0, <1>2, <1>4 DEF Open
<1>5. CASE status[r] \in TerminalStatus
  BY <1>0, <1>2, <1>5 DEF Open
<1>6. CASE status[r] \in Busy
  BY <1>0, <1>2, <1>6 DEF Open
<1>. QED  BY <1>1, <1>3, <1>4, <1>5, <1>6

LEMMA PromiseKept ==
  ASSUME TypeOK, TypeOK', \A q \in Run : Promised(q)
  PROVE  FJ!Next
<1> SUFFICES ASSUME NEW q \in Run
             PROVE  FJ!Stay(q) \/ FJ!Begin(q) \/ FJ!Wait(q) \/ FJ!Resume(q) \/ FJ!End(q)
  BY DEF FJ!Next
<1>0. PhaseByStatus /\ PhaseByStatus'
  BY PhaseOf, PTL
<1>1. /\ status'[q] = Absent => phaseOfRuns'[q] = "absent"
      /\ status'[q] = "awaiting_subagents" => phaseOfRuns'[q] = "waiting"
      /\ status'[q] \in Busy => phaseOfRuns'[q] = "active"
      /\ status'[q] \in TerminalStatus => phaseOfRuns'[q] = "over"
  BY <1>0 DEF PhaseByStatus
<1>2. CASE status'[q] = status[q]
  <2>1. phaseOfRuns'[q] = phaseOfRuns[q]
    BY <1>2 DEF phaseOfRuns
  <2>. QED  BY <2>1 DEF FJ!Stay
<1>3. CASE status[q] \in Busy /\ status'[q] \in Busy
  BY <1>0, <1>1, <1>3 DEF PhaseByStatus, FJ!Stay
<1>4. CASE status[q] \in Open /\ status'[q] \in {"done", "error"}
  <2>1. status'[q] \in TerminalStatus
    BY <1>4 DEF TerminalStatus
  <2>. QED  BY <1>0, <1>1, <1>4, <2>1 DEF PhaseByStatus, FJ!End, FJ!Alive
<1>5. CASE /\ status[q] = Absent /\ status'[q] \in Busy
           /\ Parent[q] # None => status[Parent[q]] \in Open
  BY <1>0, <1>1, <1>5, ParentIsRun DEF PhaseByStatus, FJ!Begin, FJ!Alive
<1>6. CASE /\ status[q] \in Open /\ status'[q] = "awaiting_subagents"
           /\ \E c \in Run : Parent[c] = q /\ status'[c] \in Open
  <2>1. phaseOfRuns'[q] = "waiting" /\ phaseOfRuns[q] \in {"active", "waiting"}
    BY <1>0, <1>1, <1>6 DEF PhaseByStatus
  <2>2. \E c \in FJ!Children(q) : phaseOfRuns'[c] \in FJ!Alive
    BY <1>0, <1>6 DEF PhaseByStatus, FJ!Children, FJ!Alive
  <2>. QED  BY <2>1, <2>2 DEF FJ!Wait, FJ!Stay
<1>7. CASE /\ status[q] \in Open /\ status'[q] = "running"
           /\ \A c \in Run : Parent[c] = q => status'[c] \notin Open
  <2>1. phaseOfRuns'[q] = "active" /\ phaseOfRuns[q] \in {"active", "waiting"}
    BY <1>0, <1>1, <1>7 DEF PhaseByStatus, Busy
  <2>2. \A c \in FJ!Children(q) : phaseOfRuns'[c] \notin FJ!Alive
    BY <1>0, <1>7 DEF PhaseByStatus, FJ!Children, FJ!Alive
  <2>. QED  BY <2>1, <2>2 DEF FJ!Resume, FJ!Stay
<1>. QED  BY <1>2, <1>3, <1>4, <1>5, <1>6, <1>7 DEF Promised

\* The halts that ForkJoin allows.
Turns(t, s) ==
    LET r == task[t].run IN
      \/ s = status[r]
      \/ status[r] \in Busy /\ s \in Busy
      \/ status[r] \in Open /\ s \in {"done", "error"}
      \/ status[r] \in Open /\ s = "awaiting_subagents" /\ awaiting[r] > 0

\* A run that counts children and is not over has one that is not over.
LEMMA CountedChild ==
  ASSUME IInv, NoCancelled, NEW p \in Run, status[p] \in Open, awaiting[p] > 0
  PROVE  \E c \in Run : Parent[c] = p /\ status[c] \in Open
<1>1. awaiting[p] = Cardinality(Unreported(p))
  BY StatusKinds DEF IInv, AwaitingIsExact
<1>2. Unreported(p) # {}
  BY <1>1, FS_EmptySet
<1>3. PICK c \in Run : Parent[c] = p /\ status[c] # Absent /\ status[c] \notin {"done", "error"}
  BY <1>2 DEF Unreported, Children
<1>. QED  BY <1>3, StatusKinds DEF IInv, NoCancelled

\* With nothing left to report, the children of a run are over.
LEMMA AllReported ==
  ASSUME IInv', NEW p \in Run, awaiting'[p] = 0, status'[p] = "running",
         NEW c \in Run, Parent[c] = p
  PROVE  status'[c] \notin Open
<1>1. IsFiniteSet(Unreported(p)')
  <2>1. Unreported(p)' \subseteq Run
    BY DEF Unreported, Children
  <2>. QED  BY <2>1, TreeAssumption, FS_Subset
<1>2. Cardinality(Unreported(p)') = 0
  BY DEF IInv, AwaitingIsExact, TerminalStatus
<1>3. Unreported(p)' = {}
  BY <1>1, <1>2, FS_EmptySet
<1>4. Absent \notin Open
  BY RunStateIsStatus DEF Open, Busy, RunState
<1>. QED  BY <1>3, <1>4 DEF Unreported, Children, Open, Busy

LEMMA HaltPromised ==
  ASSUME IInv, IInv', NoCancelled, NEW t, NEW s, Sound(t, s), Halt(t, s), Turns(t, s)
  PROVE  \A q \in Run : Promised(q)
<1>. DEFINE r == task[t].run
            p == Parent[r]
            st == [status EXCEPT ![r] = s]
<1>1. t \in Live /\ r \in Run /\ s \in RunState /\ status[r] # Absent
  BY LiveTask DEF Sound, IInv, TasksExist
<1>2. st[r] = s /\ \A q \in Run : q # r => st[q] = status[q]
  BY <1>1 DEF IInv, TypeOK
<1>3. CASE status' = st
  <2> SUFFICES ASSUME NEW q \in Run PROVE Promised(q)
    OBVIOUS
  <2>1. CASE q # r
    BY <1>2, <1>3, <2>1 DEF Promised
  <2>2. CASE q = r
    <3>1. status'[q] = s
      BY <1>2, <1>3, <2>2
    <3>2. CASE status[r] \in Open /\ s = "awaiting_subagents" /\ awaiting[r] > 0
      <4>1. PICK c \in Run : Parent[c] = r /\ status[c] \in Open
        BY <1>1, <3>2, CountedChild
      <4>2. c # r
        BY <1>1, <4>1, TreeAssumption
      <4>3. status'[c] \in Open
        BY <1>2, <1>3, <4>1, <4>2
      <4>. QED  BY <2>2, <3>1, <3>2, <4>1, <4>3 DEF Promised
    <3>3. CASE \/ s = status[r]
               \/ status[r] \in Busy /\ s \in Busy
               \/ status[r] \in Open /\ s \in {"done", "error"}
      BY <2>2, <3>1, <3>3 DEF Promised
    <3>. QED  BY <3>2, <3>3 DEF Turns
  <2>. QED  BY <2>1, <2>2
<1>4. CASE Reports(t, s) /\ status' # st
  <2>1. p \in Run /\ p # r /\ s \in {"done", "error"}
    BY <1>1, <1>4, ParentIsRun DEF Reports
  <2>2. /\ awaiting'[p] = 0 /\ CanBecome(st[p], "running")
        /\ status' = [st EXCEPT ![p] = "running"]
    BY <1>4, HaltReports
  <2>3. /\ status'[p] = "running" /\ status'[r] = s
        /\ \A q \in Run \ {p, r} : status'[q] = status[q]
    BY <1>1, <1>2, <2>1, <2>2 DEF IInv, TypeOK
  <2>4. status[p] \in RunState
    <3>1. status[p] # Absent
      BY <1>1, <1>4 DEF Reports, IInv, ParentsStarted
    <3>. QED  BY <2>1, <3>1 DEF IInv, TypeOK
  <2>5. status[p] \in Open
    <3>1. CanBecome(status[p], "running") /\ "running" \in RunState \ TerminalStatus
      BY <1>2, <2>1, <2>2 DEF RunState, TerminalStatus
    <3>2. status[p] \notin TerminalStatus
      BY <2>4, <3>1, LeavesOnlyLive
    <3>. QED  BY <2>4, <3>2 DEF RunState, TerminalStatus, Open, Busy
  <2>6. \A c \in Run : Parent[c] = p => status'[c] \notin Open
    BY <2>1, <2>2, <2>3, AllReported
  <2>7. status[r] \in Open
    <3>1. status[r] \notin {"done", "error"}
      BY <1>1, <1>4 DEF Reports, IInv, ChildTasksReport, IsChild
    <3>. QED  BY <1>1, <3>1, StatusKinds DEF IInv, NoCancelled
  <2>. QED  BY <2>1, <2>3, <2>5, <2>6, <2>7 DEF Promised
<1>5. CASE ~Reports(t, s)
  <2>1. Finish(t, st, awaiting)
    BY DEF Halt
  <2>2. status' = st
    BY <1>2, <1>5, <2>1, FinishSilently
  <2>. QED  BY <1>3, <2>2
<1>. QED  BY <1>3, <1>4, <1>5

LEMMA ClosePromised ==
  ASSUME IInv, IInv', NoCancelled, NEW t, NEW s, Sound(t, s), Turns(t, s),
         NEW final \in {"done", "error"}, Close(t, s, final)
  PROVE  \A q \in Run : Promised(q)
<1>. DEFINE r == task[t].run
            f == FinalStatus(t, s, final)
<1>1. r \in Run /\ s \in RunState /\ t \in Live /\ status[r] # Absent
  BY LiveTask DEF Sound, IInv, TasksExist
<1>2. f \in {s, "done", "error"}
  BY DEF FinalStatus
<1>3. f # s => s \notin TerminalStatus
  <2>1. s \in TerminalStatus => \A s2 : CanBecome(s, s2) => s = s2
    BY <1>1 DEF CanBecome, ValidTransitions, TerminalStatus, RunState, Status,
                ActiveStatus, ParkedStatus
  <2>. QED  BY <2>1 DEF FinalStatus
<1>4. Turns(t, f)
  <2>1. CASE f = s
    BY <2>1
  <2>2. CASE f # s
    BY <1>1, <1>2, <1>3, <2>2, StatusKinds DEF Turns, Sound, IInv
  <2>. QED  BY <2>1, <2>2
<1>5. Sound(t, f)
  BY <1>2 DEF Sound, TerminalStatus, RunState
<1>. QED  BY <1>4, <1>5, HaltPromised DEF Close

LEMMA BegunTurns ==
  ASSUME NEW t PROVE Turns(t, Begun(task[t].run)) /\ Turns(t, status[task[t].run])
BY DEF Turns, Begun, Busy

\* The FSM lets no paused run ask for a review.
LEMMA ReviewTurns ==
  ASSUME IInv, NEW t \in Live,
         \/ CanBecome(status[task[t].run], "awaiting_review")
         \/ CanBecome(Begun(task[t].run), "awaiting_review")
  PROVE  Turns(t, "awaiting_review")
<1>1. status[task[t].run] \in RunState
  BY LiveTask DEF IInv, TasksExist
<1>2. \A s \in RunState : CanBecome(s, "awaiting_review") => s \in Busy
  BY DEF CanBecome, ValidTransitions, RunState, Busy, Status, ActiveStatus,
         ParkedStatus, TerminalStatus
<1>3. Begun(task[t].run) \in RunState
  BY <1>1 DEF Begun, RunState
<1>4. status[task[t].run] \in Busy
  BY <1>1, <1>2, <1>3 DEF Begun, Busy
<1>. QED  BY <1>4 DEF Turns, Busy

LEMMA WaitTurns ==
  ASSUME IInv, NEW t \in Live, awaiting[task[t].run] > 0,
         CanBecome(Begun(task[t].run), "awaiting_subagents")
  PROVE  Turns(t, "awaiting_subagents")
<1>1. Sound(t, "awaiting_subagents")
  BY AcceptedSound
<1>2. status[task[t].run] \in Open
  BY <1>1, LiveTask, StatusKinds DEF Sound, IInv, TasksExist, TerminalStatus
<1>. QED  BY <1>2 DEF Turns

LEMMA StepPromised ==
  ASSUME IInv, IInv', NoCancelled, NEW t \in Task, Step(t), ~SpawnWave(t)
  PROVE  \A q \in Run : Promised(q)
<1>. DEFINE r == task[t].run
<1>1. t \in Live
  BY DEF Step, GateHolds, GateFails, ParentStep, WaitForChildren, Escalate, StageRaises,
         OrchestrationEnds, LeafStep, AssessmentEscalates, CallModel, WorkFails, WorkEnds,
         Subdivides, AskForReview, ReviewRefused, ReviewGo, ReviewNoGo,
         Queued, Working, InReview
<1>2. CASE GateHolds(t) \/ GateFails(t)
  BY <1>1, <1>2, BegunSound, BegunTurns, HaltPromised, ClosePromised
     DEF GateHolds, GateFails
<1>3. CASE WaitForChildren(t)
  BY <1>1, <1>3, AcceptedSound, WaitTurns, HaltPromised DEF WaitForChildren, MustWait
<1>4. CASE Escalate(t)
  BY <1>1, <1>4, AcceptedSound, ReviewTurns, HaltPromised DEF Escalate
<1>5. CASE AssessmentEscalates(t)
  BY <1>1, <1>5, AcceptedSound, ReviewTurns, HaltPromised DEF AssessmentEscalates
<1>6. CASE StageRaises(t) \/ OrchestrationEnds(t)
  BY <1>1, <1>6, BegunSound, BegunTurns, ClosePromised DEF StageRaises, OrchestrationEnds
<1>7. CASE WorkFails(t) \/ WorkEnds(t) \/ ReviewRefused(t)
  BY <1>1, <1>7, BegunSound, BegunTurns, ClosePromised DEF WorkFails, WorkEnds, ReviewRefused
<1>8. CASE Subdivides(t) \/ ReviewNoGo(t)
  BY <1>1, <1>8, BegunSound, BegunTurns, HaltPromised DEF Subdivides, ReviewNoGo
<1>9. CASE ReviewGo(t)
  <2>1. CASE ~CanBecome(status[r], "running")
    BY <1>1, <1>9, <2>1, BegunSound, BegunTurns, ClosePromised DEF ReviewGo
  <2>2. CASE CanBecome(status[r], "running")
    <3>1. FinalStatus(t, "running", "done") = "done"
      BY DEF FinalStatus, CanBecome, ValidTransitions, Status, ActiveStatus,
             ParkedStatus, TerminalStatus
    <3>2. Halt(t, "done")
      BY <1>9, <2>2, <3>1 DEF ReviewGo, Close
    <3>3. Sound(t, "running")
      BY <1>1, <2>2, AcceptedSound
    <3>4. status[r] \in Open
      BY <1>1, <3>3, LiveTask, StatusKinds DEF Sound, IInv, TasksExist, TerminalStatus
    <3>5. Sound(t, "done") /\ Turns(t, "done")
      BY <1>1, <3>4 DEF Sound, Turns, RunState, TerminalStatus
    <3>. QED  BY <3>2, <3>5, HaltPromised
  <2>. QED  BY <2>1, <2>2
<1>10. CASE CallModel(t)
  <2>1. status' = [status EXCEPT ![r] = Begun(r)] /\ r \in Run
    BY <1>1, <1>10, LiveTask DEF CallModel, IInv
  <2>2. \A q \in Run : status'[q] = status[q] \/ (q = r /\ status'[q] = Begun(r))
    BY <2>1 DEF IInv, TypeOK
  <2>. QED  BY <2>2 DEF Promised, Begun, Busy
<1>11. CASE AskForReview(t)
  <2>1. /\ status' = [status EXCEPT ![r] = "awaiting_review"] /\ r \in Run
        /\ Turns(t, "awaiting_review")
    BY <1>1, <1>11, LiveTask, ReviewTurns DEF AskForReview, IInv
  <2>2. \A q \in Run : status'[q] = status[q] \/ (q = r /\ status'[q] = "awaiting_review")
    BY <2>1 DEF IInv, TypeOK
  <2>. QED  BY <2>1, <2>2 DEF Promised, Turns, Busy
<1>. QED  BY <1>2, <1>3, <1>4, <1>5, <1>6, <1>7, <1>8, <1>9, <1>10, <1>11
          DEF Step, ParentStep, LeafStep

\* The parent of a wave waits for a child that is alive, whatever it was.
LEMMA WavePromised ==
  ASSUME IInv, IInv', NEW t \in Task, SpawnWave(t)
  PROVE  \A q \in Run : Promised(q)
<1>. DEFINE r == task[t].run
            wave == Ready(r)
            st == [q \in Run |-> IF q = r THEN "awaiting_subagents"
                                 ELSE IF q \in wave THEN "pending" ELSE status[q]]
            aw == [awaiting EXCEPT ![r] = @ + Cardinality(wave)]
<1>1. t \in Live /\ r \in Run
  BY LiveTask DEF SpawnWave, Queued, IInv
<1>2. Finish(t, st, aw) /\ wave # {}
  BY DEF SpawnWave
<1>3. status' = st
  BY <1>1, <1>2, FinishSilently DEF Reports
<1>4. \A c \in wave : c \in Run /\ Parent[c] = r /\ status[c] = Absent /\ c # r
  BY <1>1, TreeAssumption DEF Ready, ChildTasks
<1>5. status[r] \in Open
  BY DEF SpawnWave, Spawnable, Begun, Open, Busy
<1>6. /\ status'[r] = "awaiting_subagents"
      /\ \A q \in wave : status'[q] = "pending"
      /\ \A q \in Run : q # r /\ q \notin wave => status'[q] = status[q]
  BY <1>1, <1>3, <1>4
<1>7. ASSUME NEW q \in Run PROVE Promised(q)
  <2>1. CASE q = r
    <3>1. PICK c \in wave : c \in Run /\ Parent[c] = r /\ status'[c] \in Open
      BY <1>2, <1>4, <1>6 DEF Open, Busy
    <3>. QED  BY <1>5, <1>6, <2>1, <3>1 DEF Promised
  <2>2. CASE q \in wave
    BY <1>4, <1>5, <1>6, <2>2 DEF Promised, Busy
  <2>3. CASE q # r /\ q \notin wave
    BY <1>6, <2>3 DEF Promised
  <2>. QED  BY <2>1, <2>2, <2>3
<1>. QED  BY <1>7

LEMMA ClientPromised ==
  ASSUME IInv, IInv', NoCancelled, Events \cap {"cancel", "handover"} = {},
         NEW r \in Run, Client(r)
  PROVE  \A q \in Run : Promised(q)
<1>0. ~Cancel(r) /\ ~ResolveHandover(r)
  BY DEF Cancel, ResolveHandover
<1>1. CASE CreateRun(r) \/ QueueRun(r) \/ AutoRun(r)
  <2>1. /\ Parent[r] = None /\ status[r] = Absent
        /\ \E s \in {"pending", "running"} : status' = [status EXCEPT ![r] = s]
    BY <1>1 DEF CreateRun, QueueRun, AutoRun, Root
  <2>2. \A q \in Run : \/ status'[q] = status[q]
                       \/ q = r /\ status'[q] \in {"pending", "running"}
    BY <2>1 DEF IInv, TypeOK
  <2>. QED  BY <2>1, <2>2 DEF Promised, Busy
<1>2. CASE SpawnChild(r)
  <2>1. /\ status[r] = Absent /\ status[Parent[r]] \in Open
        /\ status' = [status EXCEPT ![r] = "pending"]
    BY <1>2 DEF SpawnChild, Spawnable, Open, Busy
  <2>2. \A q \in Run : status'[q] = status[q] \/ (q = r /\ status'[q] = "pending")
    BY <2>1 DEF IInv, TypeOK
  <2>. QED  BY <2>1, <2>2 DEF Promised, Busy
<1>3. CASE PauseParent(r)
  <2>1. /\ status[r] # Absent /\ awaiting[r] > 0
        /\ "awaiting_subagents" \in ValidTransitions[status[r]]
        /\ status' = [status EXCEPT ![r] = "awaiting_subagents"]
    BY <1>3 DEF PauseParent
  <2>2. status[r] \in RunState /\ "awaiting_subagents" \in RunState \ TerminalStatus
    BY <2>1 DEF IInv, TypeOK, RunState, TerminalStatus
  <2>3. status[r] \in Open
    <3>1. status[r] \notin TerminalStatus
      BY <2>1, <2>2, LeavesOnlyLive DEF CanBecome
    <3>. QED  BY <2>1, <3>1, StatusKinds DEF IInv
  <2>4. PICK c \in Run : Parent[c] = r /\ status[c] \in Open
    BY <2>1, <2>3, CountedChild
  <2>5. c # r
    BY <2>4, TreeAssumption
  <2>6. /\ \A q \in Run : q # r => status'[q] = status[q]
        /\ status'[r] = "awaiting_subagents"
    BY <2>1 DEF IInv, TypeOK
  <2>. QED  BY <2>3, <2>4, <2>5, <2>6 DEF Promised
<1>. QED  BY <1>0, <1>1, <1>2, <1>3 DEF Client

LEMMA RestartPromised ==
  ASSUME IInv, IInv', Restart
  PROVE  \A q \in Run : Promised(q)
<1> SUFFICES ASSUME NEW q \in Run PROVE Promised(q)
  OBVIOUS
<1>1. status'[q] = IF status[q] \in Zombie \/ IsOrphan(q) THEN "error" ELSE status[q]
  BY DEF Restart
<1>2. status[q] \in Zombie \/ IsOrphan(q) => status[q] \in Open
  BY DEF Zombie, IsOrphan, Open, Busy
<1>. QED  BY <1>1, <1>2 DEF Promised

LEMMA NextPromised ==
  ASSUME ClientsSpawnUnderRoots, Events \cap {"cancel", "handover"} = {},
         IInv, NoCancelled, [Next]_vars
  PROVE  \A q \in Run : Promised(q)
<1>0. IInv'
  BY NextInv
<1>1. CASE \E t \in Task : Step(t)
  BY <1>0, <1>1, StepPromised, WavePromised
<1>2. CASE \E r \in Run : Client(r)
  BY <1>0, <1>2, ClientPromised
<1>3. CASE Restart
  BY <1>0, <1>3, RestartPromised
<1>4. CASE (\E r \in Run : StartPending(r)) \/ TickOnly \/ UNCHANGED vars
  BY <1>4 DEF StartPending, TickOnly, vars, Promised
<1>. QED  BY <1>1, <1>2, <1>3, <1>4 DEF Next

\* Every run that delegates does so as ForkJoin says: children begin under a
\* parent that is alive, a parent waits only while a child is, and resumes only
\* when none is, as long as no client cancels runs or resolves handovers.
THEOREM Refinement ==
    ClientsSpawnUnderRoots /\ Events \cap {"cancel", "handover"} = {} /\ Spec
      => ImplementsForkJoin
<1>. SUFFICES ASSUME ClientsSpawnUnderRoots, Events \cap {"cancel", "handover"} = {}
              PROVE  Spec => ImplementsForkJoin
  OBVIOUS
<1>. DEFINE J == IInv /\ NoCancelled
<1>1. Init => J
  <2>1. Init => NoCancelled
    BY LimitsAssumption DEF Init, NoCancelled, Status, TerminalStatus
  <2>. QED  BY <2>1, InitInv
<1>2. J /\ [Next]_vars => J' /\ FJ!Next
  <2> SUFFICES ASSUME IInv, NoCancelled, [Next]_vars
               PROVE  IInv' /\ NoCancelled' /\ FJ!Next
    OBVIOUS
  <2>1. IInv' /\ \A q \in Run : Promised(q)
    BY NextInv, NextPromised
  <2>2. NoCancelled'
    BY <2>1 DEF NoCancelled, Promised, Busy
  <2>3. FJ!Next
    BY <2>1, PromiseKept DEF IInv
  <2>. QED  BY <2>1, <2>2, <2>3
<1>3. Init => FJ!Init
  <2> SUFFICES ASSUME Init PROVE FJ!Init
    OBVIOUS
  <2>1. \A r \in Run : phaseOfRuns[r] = "absent"
    BY InitInv, PhaseOf DEF IInv, Init, PhaseByStatus
  <2>2. phaseOfRuns = [r \in Run |-> phaseOfRuns[r]]
    BY DEF phaseOfRuns
  <2>. QED  BY <2>1, <2>2 DEF FJ!Init
<1>. QED  BY <1>1, <1>2, <1>3, PTL DEF Spec, ImplementsForkJoin, FJ!Spec

----------------------------------------------------------------------------
(* How executions begin and end. *)

\* Whoever is still there after t has ended was there before, and conversely.
OthersKeep(t) ==
    /\ \A u \in Live' : u # t => u \in Live /\ task'[u] = task[u]
    /\ \A u \in Live : u # t => u \in Live' /\ task'[u] = task[u]

\* Execution t ends with status s and wakes nobody.
Ends(t, s) ==
    LET r == task[t].run
        p == Parent[r]
    IN  /\ t \notin Live' /\ OthersKeep(t)
        /\ status'[r] = s /\ \A q \in Run \ {r} : status'[q] = status[q]
        /\ runningIds' = Discarded(t)
        /\ \A q \in Run : \/ awaiting'[q] = awaiting[q]
                          \/ /\ Reports(t, s) /\ q = p
                             /\ awaiting'[q] > 0 \/ ~CanBecome(status[q], "running")

\* It is the last child to report, and its place goes to the parent.
Wakes(t, s) ==
    LET r == task[t].run
        p == Parent[r]
    IN  /\ Reports(t, s) /\ p \in Run /\ p # r
        /\ t \in Live' /\ OthersKeep(t)
        /\ task'[t] = [run |-> p, by |-> "worker", phase |-> "queued"]
        /\ status[p] \in Open
        /\ status'[r] = s /\ status'[p] = "running"
        /\ \A q \in Run \ {r, p} : status'[q] = status[q]
        /\ runningIds' = Discarded(t) \cup {p}
        /\ awaiting'[p] = 0 /\ \A q \in Run \ {p} : awaiting'[q] = awaiting[q]

LEMMA PlaceEmptied ==
  ASSUME TypeOK, NEW t \in Live, task' = [task EXCEPT ![t] = None]
  PROVE  t \notin Live' /\ OthersKeep(t)
BY DEF TypeOK, Live, OthersKeep

LEMMA HaltEnds ==
  ASSUME IInv, NEW t, NEW s, Sound(t, s), Halt(t, s)
  PROVE  Ends(t, s) \/ Wakes(t, s)
<1>. DEFINE r == task[t].run
            p == Parent[r]
            st == [status EXCEPT ![r] = s]
<1>1. t \in Live /\ t \in Task /\ r \in Run
  BY LiveTask DEF Sound, IInv
<1>2. st[r] = s /\ \A q \in Run \ {r} : st[q] = status[q]
  BY <1>1 DEF IInv, TypeOK
<1>3. CASE ~Reports(t, s)
  <2>1. /\ awaiting' = awaiting /\ status' = st
        /\ task' = [task EXCEPT ![t] = None]
        /\ runningIds' = Discarded(t)
    BY <1>2, <1>3, FinishSilently DEF Halt
  <2>. QED  BY <1>1, <1>2, <2>1, PlaceEmptied DEF Ends, IInv
<1>4. CASE Reports(t, s)
  <2>1. /\ awaiting' = [awaiting EXCEPT ![p] = Remaining(@)]
        /\ \/ /\ awaiting'[p] # 0 \/ ~CanBecome(st[p], "running")
              /\ status' = st
              /\ task' = [task EXCEPT ![t] = None]
              /\ runningIds' = Discarded(t)
           \/ /\ awaiting'[p] = 0
              /\ CanBecome(st[p], "running")
              /\ status' = [st EXCEPT ![p] = "running"]
              /\ task' = [task EXCEPT ![t] = [run |-> p, by |-> "worker",
                                             phase |-> "queued"]]
              /\ runningIds' = Discarded(t) \cup {p}
    BY <1>4, HaltReports
  <2>2. p \in Run /\ p # r /\ status[p] # Absent
    BY <1>1, <1>4, ParentIsRun DEF Reports, IInv, TasksExist, ParentsStarted
  <2>3. /\ awaiting'[p] \in Nat
        /\ \A q \in Run \ {p} : awaiting'[q] = awaiting[q]
    BY <2>1, <2>2 DEF IInv, TypeOK, Remaining
  <2>4. CASE /\ awaiting'[p] # 0 \/ ~CanBecome(st[p], "running")
             /\ status' = st
             /\ task' = [task EXCEPT ![t] = None]
             /\ runningIds' = Discarded(t)
    <3>1. awaiting'[p] > 0 \/ ~CanBecome(status[p], "running")
      BY <1>2, <2>2, <2>3, <2>4
    <3>2. t \notin Live' /\ OthersKeep(t)
      BY <1>1, <2>4, PlaceEmptied DEF IInv
    <3>. QED  BY <1>2, <1>4, <2>3, <2>4, <3>1, <3>2 DEF Ends
  <2>5. CASE /\ awaiting'[p] = 0
             /\ CanBecome(st[p], "running")
             /\ status' = [st EXCEPT ![p] = "running"]
             /\ task' = [task EXCEPT ![t] = [run |-> p, by |-> "worker", phase |-> "queued"]]
             /\ runningIds' = Discarded(t) \cup {p}
    <3>1. status[p] \in Open
      <4>1. status[p] \in RunState /\ "running" \in RunState \ TerminalStatus
        BY <2>2 DEF IInv, TypeOK, RunState, TerminalStatus
      <4>2. status[p] \notin TerminalStatus
        BY <1>2, <2>2, <2>5, <4>1, LeavesOnlyLive
      <4>. QED  BY <2>2, <4>2, StatusKinds DEF IInv
    <3>2. /\ status'[r] = s /\ status'[p] = "running"
          /\ \A q \in Run \ {r, p} : status'[q] = status[q]
      BY <1>1, <1>2, <2>2, <2>5 DEF IInv, TypeOK
    <3>3. /\ task'[t] = [run |-> p, by |-> "worker", phase |-> "queued"]
          /\ \A u \in Task \ {t} : task'[u] = task[u]
      BY <1>1, <2>5 DEF IInv, TypeOK
    <3>4. t \in Live' /\ OthersKeep(t)
      <4>1. None # [run |-> p, by |-> "worker", phase |-> "queued"]
        BY <2>2, NoneAssumption DEF Execution
      <4>. QED  BY <1>1, <3>3, <4>1 DEF Live, OthersKeep
    <3>. QED  BY <1>4, <2>2, <2>3, <2>5, <3>1, <3>2, <3>3, <3>4 DEF Wakes
  <2>. QED  BY <2>1, <2>4, <2>5
<1>. QED  BY <1>3, <1>4

\* What a stage that halts with status s goes by.
Leaves(t, s) ==
    LET r == task[t].run
    IN  /\ s = "awaiting_subagents" => s = status[r] \/ awaiting[r] > 0
        /\ s = "cancelled" => s = status[r]
        /\ s = "running" => \/ Outcomes \cap {"held", "subdivide"} # {}
                            \/ InReview(t) /\ status[r] = "running"

LEMMA CloseLeaves ==
  ASSUME IInv, NEW t, NEW s \in {"running", status[task[t].run]}, Sound(t, s),
         NEW final \in {"done", "error"}, Close(t, s, final)
  PROVE  \E f : Sound(t, f) /\ Halt(t, f) /\ Leaves(t, f)
<1>. DEFINE f == FinalStatus(t, s, final)
<1>1. f \in {s, "done", "error"}
  BY DEF FinalStatus
<1>2. CanBecome("running", final)
  BY DEF CanBecome, ValidTransitions, Status, ActiveStatus, ParkedStatus, TerminalStatus
<1>3. f # "running"
  BY <1>1, <1>2 DEF FinalStatus
<1>4. Sound(t, f)
  BY <1>1 DEF Sound, TerminalStatus, RunState
<1>5. Leaves(t, f)
  BY <1>1, <1>3 DEF Leaves
<1>. QED  BY <1>4, <1>5 DEF Close

\* An execution halts, spawns a wave of children, or goes on.
LEMMA StepShape ==
  ASSUME IInv, NEW t \in Task, Step(t)
  PROVE  /\ t \in Live
         /\ \/ \E s : Sound(t, s) /\ Halt(t, s) /\ Leaves(t, s)
            \/ SpawnWave(t) \/ CallModel(t) \/ AskForReview(t)
<1>. DEFINE r == task[t].run
            Shape == \E s : Sound(t, s) /\ Halt(t, s) /\ Leaves(t, s)
<1>1. t \in Live
  BY DEF Step, GateHolds, GateFails, ParentStep, WaitForChildren, Escalate, SpawnWave,
         StageRaises, OrchestrationEnds, LeafStep, AssessmentEscalates, CallModel, WorkFails,
         WorkEnds, Subdivides, AskForReview, ReviewRefused, ReviewGo, ReviewNoGo,
         Queued, Working, InReview
<1>2. Begun(r) \in {"running", status[r]} /\ Sound(t, Begun(r)) /\ Sound(t, status[r])
  BY <1>1, BegunSound DEF Begun
<1>3. CASE GateHolds(t)
  <2>1. Halt(t, Begun(r)) /\ "held" \in Outcomes
    BY <1>3 DEF GateHolds
  <2>2. Leaves(t, Begun(r))
    BY <1>2, <2>1 DEF Leaves
  <2>. QED  BY <1>1, <1>2, <2>1, <2>2
<1>4. CASE GateFails(t) \/ StageRaises(t) \/ OrchestrationEnds(t)
  BY <1>1, <1>2, <1>4, CloseLeaves DEF GateFails, StageRaises, OrchestrationEnds
<1>5. CASE WaitForChildren(t)
  <2>1. /\ Halt(t, "awaiting_subagents") /\ awaiting[r] > 0
        /\ CanBecome(Begun(r), "awaiting_subagents")
    BY <1>5 DEF WaitForChildren, MustWait
  <2>2. Sound(t, "awaiting_subagents") /\ Leaves(t, "awaiting_subagents")
    BY <1>1, <2>1, AcceptedSound DEF Leaves
  <2>. QED  BY <1>1, <2>1, <2>2
<1>6. CASE Escalate(t) \/ AssessmentEscalates(t)
  <2>1. Halt(t, "awaiting_review") /\ CanBecome(Begun(r), "awaiting_review")
    BY <1>6 DEF Escalate, AssessmentEscalates
  <2>2. Sound(t, "awaiting_review") /\ Leaves(t, "awaiting_review")
    BY <1>1, <2>1, AcceptedSound DEF Leaves
  <2>. QED  BY <1>1, <2>1, <2>2
<1>7. CASE WorkFails(t) \/ WorkEnds(t) \/ ReviewRefused(t)
  BY <1>1, <1>2, <1>7, CloseLeaves DEF WorkFails, WorkEnds, ReviewRefused
<1>8. CASE Subdivides(t) \/ ReviewNoGo(t)
  <2>1. Halt(t, status[r]) /\ ("subdivide" \in Outcomes \/ InReview(t))
    BY <1>8 DEF Subdivides, ReviewNoGo
  <2>2. Leaves(t, status[r])
    BY <2>1 DEF Leaves
  <2>. QED  BY <1>1, <1>2, <2>1, <2>2
<1>9. CASE ReviewGo(t)
  <2>1. CASE CanBecome(status[r], "running")
    <3>1. Close(t, "running", "done") /\ Sound(t, "running")
      BY <1>1, <1>9, <2>1, AcceptedSound DEF ReviewGo
    <3>. QED  BY <1>1, <3>1, CloseLeaves
  <2>2. CASE ~CanBecome(status[r], "running")
    BY <1>1, <1>2, <1>9, <2>2, CloseLeaves DEF ReviewGo
  <2>. QED  BY <2>1, <2>2
<1>. QED  BY <1>1, <1>3, <1>4, <1>5, <1>6, <1>7, <1>8, <1>9 DEF Step, ParentStep, LeafStep

\* A wave: the execution is over, its run counts the new children.
LEMMA WaveEnds ==
  ASSUME IInv, NEW t \in Task, SpawnWave(t)
  PROVE  LET r == task[t].run IN
         /\ r \in Run /\ t \notin Live' /\ OthersKeep(t)
         /\ status[r] \in Open /\ status'[r] = "awaiting_subagents"
         /\ \A q \in Run \ {r} :
               \/ status'[q] = status[q]
               \/ Parent[q] = r /\ status[q] = Absent /\ status'[q] = "pending"
         /\ awaiting'[r] > 0 /\ \A q \in Run \ {r} : awaiting'[q] = awaiting[q]
         /\ runningIds' = Discarded(t)
<1>. DEFINE r == task[t].run
            wave == Ready(r)
            st == [q \in Run |-> IF q = r THEN "awaiting_subagents"
                                 ELSE IF q \in wave THEN "pending" ELSE status[q]]
            aw == [awaiting EXCEPT ![r] = @ + Cardinality(wave)]
<1>1. t \in Live /\ r \in Run
  BY LiveTask DEF SpawnWave, Queued, IInv
<1>2. Finish(t, st, aw) /\ wave # {} /\ Begun(r) \in Spawnable
  BY DEF SpawnWave
<1>3. ~Reports(t, st[r])
  BY <1>1 DEF Reports
<1>4. /\ awaiting' = aw /\ status' = st
      /\ task' = [task EXCEPT ![t] = None]
      /\ runningIds' = Discarded(t)
  BY <1>2, <1>3, FinishSilently
<1>5. \A c \in wave : Parent[c] = r /\ status[c] = Absent
  BY DEF Ready, ChildTasks
<1>6. IsFiniteSet(wave) /\ Cardinality(wave) \in Nat \ {0}
  <2>1. wave \subseteq Run
    BY TreeAssumption DEF Ready, ChildTasks
  <2>2. IsFiniteSet(wave)
    BY <2>1, TreeAssumption, FS_Subset
  <2>. QED  BY <1>2, <2>2, FS_CardinalityType, FS_EmptySet
<1>7. awaiting'[r] > 0 /\ \A q \in Run \ {r} : awaiting'[q] = awaiting[q]
  BY <1>1, <1>4, <1>6 DEF IInv, TypeOK
<1>8. status[r] \in Open
  BY <1>2 DEF Spawnable, Begun, Open, Busy
<1>9. /\ status'[r] = "awaiting_subagents"
      /\ \A q \in Run \ {r} : status'[q] = IF q \in wave THEN "pending" ELSE status[q]
  BY <1>1, <1>4
<1>10. t \notin Live' /\ OthersKeep(t)
  BY <1>1, <1>4, PlaceEmptied DEF IInv
<1>. QED  BY <1>1, <1>4, <1>5, <1>7, <1>8, <1>9, <1>10

\* An execution that calls its model, or asks for a review.
LEMMA GoesOn ==
  ASSUME IInv, NEW t \in Task, CallModel(t) \/ AskForReview(t)
  PROVE  LET r == task[t].run IN
         /\ r \in Run /\ Live' = Live
         /\ \A u \in Live : /\ task'[u].run = task[u].run /\ task'[u].by = task[u].by
                            /\ u # t => task'[u] = task[u]
         /\ \A q \in Run \ {r} : status'[q] = status[q]
         /\ \/ status'[r] = Begun(r) /\ task'[t].phase = "working"
            \/ /\ status'[r] = "awaiting_review" /\ task'[t].phase = "review"
               /\ CanBecome(status[r], "awaiting_review")
         /\ UNCHANGED <<awaiting, runningIds>>
<1>. DEFINE r == task[t].run
<1>1. t \in Live /\ r \in Run /\ t \in Task /\ task[t] \in Execution
  BY LiveTask DEF CallModel, AskForReview, Queued, Working, IInv
<1>2. UNCHANGED <<awaiting, runningIds>>
  BY DEF CallModel, AskForReview
<1>3. PICK ph \in {"working", "review"} :
         /\ task' = [task EXCEPT ![t].phase = ph]
         /\ \/ ph = "working" /\ status' = [status EXCEPT ![r] = Begun(r)]
            \/ /\ ph = "review" /\ status' = [status EXCEPT ![r] = "awaiting_review"]
               /\ CanBecome(status[r], "awaiting_review")
  BY DEF CallModel, AskForReview
<1>4. /\ task'[t] = [task[t] EXCEPT !.phase = ph]
      /\ \A u \in Task \ {t} : task'[u] = task[u]
  BY <1>1, <1>3 DEF IInv, TypeOK
<1>5. /\ [task[t] EXCEPT !.phase = ph] \in Execution
      /\ [task[t] EXCEPT !.phase = ph].run = r
      /\ [task[t] EXCEPT !.phase = ph].by = task[t].by
      /\ [task[t] EXCEPT !.phase = ph].phase = ph
  BY <1>1 DEF Execution
<1>6. task'[t] # None
  BY <1>4, <1>5, NoneAssumption
<1>7. Live' = Live
  BY <1>1, <1>4, <1>6 DEF Live
<1>8. \A u \in Live : /\ task'[u].run = task[u].run /\ task'[u].by = task[u].by
                      /\ u # t => task'[u] = task[u]
  BY <1>4, <1>5 DEF Live
<1>9. \A q \in Run \ {r} : status'[q] = status[q]
  BY <1>3 DEF IInv, TypeOK
<1>10. \/ status'[r] = Begun(r) /\ task'[t].phase = "working"
       \/ /\ status'[r] = "awaiting_review" /\ task'[t].phase = "review"
          /\ CanBecome(status[r], "awaiting_review")
  BY <1>1, <1>3, <1>4, <1>5 DEF IInv, TypeOK
<1>. QED  BY <1>1, <1>2, <1>7, <1>8, <1>9, <1>10

----------------------------------------------------------------------------
(* Paused parents. *)

\* A run that waits for children counts one.
PausedCounts == \A p \in Run : status[p] = "awaiting_subagents" => awaiting[p] > 0

PausedInv == NoCancelled /\ PausedCounts

LEMMA HaltPaused ==
  ASSUME IInv, PausedInv, NEW t, NEW s, Sound(t, s), Halt(t, s), Leaves(t, s)
  PROVE  PausedInv'
<1>. DEFINE r == task[t].run
            p == Parent[r]
<1>1. r \in Run /\ p # r
  BY LiveTask, TreeAssumption DEF Sound, IInv
<1>2. CanBecome("awaiting_subagents", "running")
  BY DEF CanBecome, ValidTransitions, Status, ActiveStatus, ParkedStatus, TerminalStatus
<1>3. CASE Ends(t, s)
  <2>1. /\ status'[r] = s /\ \A q \in Run \ {r} : status'[q] = status[q]
        /\ \A q \in Run : \/ awaiting'[q] = awaiting[q]
                          \/ /\ q = p
                             /\ awaiting'[q] > 0 \/ ~CanBecome(status[q], "running")
    BY <1>3 DEF Ends
  <2>2. NoCancelled'
    BY <1>1, <2>1 DEF PausedInv, NoCancelled, Leaves
  <2>3. PausedCounts'
    BY <1>1, <1>2, <2>1 DEF PausedInv, PausedCounts, Leaves
  <2>. QED  BY <2>2, <2>3 DEF PausedInv
<1>4. CASE Wakes(t, s)
  <2>1. /\ s \in {"done", "error"} /\ status'[r] = s /\ status'[p] = "running"
        /\ \A q \in Run \ {r, p} : status'[q] = status[q]
        /\ \A q \in Run \ {p} : awaiting'[q] = awaiting[q]
    BY <1>4 DEF Wakes, Reports
  <2>. QED  BY <1>1, <2>1 DEF PausedInv, NoCancelled, PausedCounts
<1>. QED  BY <1>3, <1>4, HaltEnds

LEMMA NextPaused ==
  ASSUME "cancel" \notin Events, IInv, PausedInv, [Next]_vars
  PROVE  PausedInv'
<1>1. CASE \E t \in Task : Step(t)
  <2>1. PICK t \in Task : Step(t)
    BY <1>1
  <2>2. CASE \E s : Sound(t, s) /\ Halt(t, s) /\ Leaves(t, s)
    BY <2>2, HaltPaused
  <2>3. CASE SpawnWave(t)
    BY <2>3, WaveEnds DEF PausedInv, NoCancelled, PausedCounts
  <2>4. CASE CallModel(t) \/ AskForReview(t)
    BY <2>4, GoesOn DEF PausedInv, NoCancelled, PausedCounts, Begun
  <2>. QED  BY <2>1, <2>2, <2>3, <2>4, StepShape
<1>2. ASSUME NEW r \in Run, Client(r)
      PROVE  PausedInv'
  <2>1. ~Cancel(r)
    BY DEF Cancel
  <2>2. CASE \/ CreateRun(r) \/ QueueRun(r) \/ AutoRun(r) \/ ResolveHandover(r)
    <3>1. /\ \E s \in {"pending", "running"} : status' = [status EXCEPT ![r] = s]
          /\ awaiting' = awaiting
      BY <2>2 DEF CreateRun, QueueRun, AutoRun, ResolveHandover
    <3>2. \A q \in Run : status'[q] = status[q] \/ status'[q] \in {"pending", "running"}
      BY <3>1 DEF IInv, TypeOK
    <3>. QED  BY <3>1, <3>2 DEF PausedInv, NoCancelled, PausedCounts
  <2>3. CASE PauseParent(r)
    <3>1. \A q \in Run : \/ status'[q] = status[q]
                         \/ q = r /\ status'[q] = "awaiting_subagents" /\ awaiting[q] > 0
      BY <2>3 DEF PauseParent, IInv, TypeOK
    <3>2. awaiting' = awaiting
      BY <2>3 DEF PauseParent
    <3>. QED  BY <3>1, <3>2 DEF PausedInv, NoCancelled, PausedCounts
  <2>4. CASE SpawnChild(r)
    <3>1. \A q \in Run : status'[q] = status[q] \/ status'[q] = "pending"
      BY <2>4 DEF SpawnChild, IInv, TypeOK
    <3>2. \A q \in Run : awaiting'[q] = awaiting[q] \/ awaiting'[q] = awaiting[q] + 1
      BY <2>4 DEF SpawnChild, IInv, TypeOK
    <3>3. \A q \in Run : awaiting[q] \in Nat
      BY DEF IInv, TypeOK
    <3>. QED  BY <3>1, <3>2, <3>3 DEF PausedInv, NoCancelled, PausedCounts
  <2>. QED  BY <1>2, <2>1, <2>2, <2>3, <2>4 DEF Client
<1>3. CASE Restart
  <2>1. \A q \in Run : (status'[q] = status[q] /\ status[q] \notin Zombie) \/ status'[q] = "error"
    BY <1>3 DEF Restart
  <2>2. awaiting' = awaiting
    BY <1>3 DEF Restart
  <2>. QED  BY <2>1, <2>2 DEF PausedInv, NoCancelled, PausedCounts, Zombie
<1>4. CASE (\E r \in Run : StartPending(r)) \/ TickOnly \/ UNCHANGED vars
  <2>1. status' = status /\ awaiting' = awaiting
    BY <1>4 DEF StartPending, TickOnly, vars
  <2>. QED  BY <2>1 DEF PausedInv, NoCancelled, PausedCounts
<1>. QED  BY <1>1, <1>2, <1>3, <1>4 DEF Next

\* A parent paused for its children has one that can still be reported, and whose
\* report will wake it, for every tree, order of completions and restart, whatever is
\* created, paused or handed over, as long as no client cancels a run.
THEOREM PausedWoken ==
    ClientsSpawnUnderRoots /\ "cancel" \notin Events /\ Spec => []PausedParentIsWoken
<1>. SUFFICES ASSUME ClientsSpawnUnderRoots, "cancel" \notin Events
              PROVE  Spec => []PausedParentIsWoken
  OBVIOUS
<1>1. Init => IInv /\ PausedInv
  <2>1. Init => PausedInv
    BY LimitsAssumption DEF Init, PausedInv, NoCancelled, PausedCounts, Status,
                            TerminalStatus, ActiveStatus
  <2>. QED  BY <2>1, InitInv
<1>2. IInv /\ PausedInv /\ [Next]_vars => IInv' /\ PausedInv'
  BY NextInv, NextPaused
<1>3. IInv /\ PausedInv => PausedParentIsWoken
  <2> SUFFICES ASSUME IInv, PausedInv, NEW p \in Run, status[p] = "awaiting_subagents"
               PROVE  \E c \in Children(p) : status[c] \notin TerminalStatus
    BY DEF PausedParentIsWoken
  <2>1. status[p] \in Open /\ awaiting[p] > 0
    BY DEF Open, PausedInv, PausedCounts
  <2>2. PICK c \in Run : Parent[c] = p /\ status[c] \in Open
    BY <2>1, CountedChild DEF PausedInv
  <2>. QED  BY <2>2, StatusKinds DEF Children, IInv
<1>. QED  BY <1>1, <1>2, <1>3, PTL DEF Spec

----------------------------------------------------------------------------
(* One execution of a run at a time. *)

OneTaskPerRun == \A t, u \in Live : task[t].run = task[u].run => t = u

\* The worker knows every pending run that is executed.
PendingIsKnown ==
    \A t \in Live : status[task[t].run] = "pending" => task[t].run \in runningIds

\* No child is left that could wake a run that is executed.
ExecutedIsQuiet == \A t \in Live : Unreported(task[t].run) = {}

SingleInv == OneTaskPerRun /\ PendingIsKnown /\ ExecutedIsQuiet

LEMMA TaskBegins ==
  ASSUME TypeOK, NEW r \in Run, NEW by \in {"worker", "router"}, CreateTask(r, by)
  PROVE  \E i \in Task : /\ i \notin Live /\ i \in Live' /\ OthersKeep(i)
                         /\ task'[i] = [run |-> r, by |-> by, phase |-> "queued"]
<1>1. PICK i \in Idle : task' = [task EXCEPT ![i] = [run |-> r, by |-> by, phase |-> "queued"]]
  BY DEF CreateTask
<1>2. [run |-> r, by |-> by, phase |-> "queued"] # None
  BY NoneAssumption DEF Execution
<1>3. i \in Task /\ i \notin Live
  BY DEF Idle, Live
<1>4. /\ task'[i] = [run |-> r, by |-> by, phase |-> "queued"]
      /\ \A u \in Task \ {i} : task'[u] = task[u]
  BY <1>1, <1>3 DEF TypeOK
<1>5. i \in Live' /\ OthersKeep(i)
  BY <1>2, <1>3, <1>4 DEF Live, OthersKeep
<1>. QED  BY <1>3, <1>4, <1>5

\* A child that has ended does not begin again.
LEMMA StaysReported ==
  ASSUME \A c \in Run : Parent[c] # None =>
            \/ status'[c] = status[c]
            \/ status'[c] \in {Absent, "done", "error"}
            \/ status[c] \notin {Absent, "done", "error"}
  PROVE  \A q \in Run : Unreported(q)' \subseteq Unreported(q)
<1> SUFFICES ASSUME NEW q \in Run, NEW c \in Unreported(q)' PROVE c \in Unreported(q)
  OBVIOUS
<1>1. /\ c \in Run /\ Parent[c] = q /\ Parent[c] # None
      /\ status'[c] \notin {Absent, "done", "error"}
  BY TreeAssumption DEF Unreported, Children
<1>. QED  BY <1>1 DEF Unreported, Children

\* The child that an execution is about has not been reported.
LEMMA ExecutedUnreported ==
  ASSUME IInv, NEW t \in Live, Parent[task[t].run] # None
  PROVE  task[t].run \in Unreported(Parent[task[t].run])
BY LiveTask DEF IInv, ChildTasksReport, IsChild, Unreported, Children

LEMMA HaltReported ==
  ASSUME IInv, NEW t, NEW s, Sound(t, s), Ends(t, s) \/ Wakes(t, s)
  PROVE  \A q \in Run : Unreported(q)' \subseteq Unreported(q)
<1>. DEFINE r == task[t].run
<1>1. t \in Live /\ r \in Run /\ (Parent[r] # None => status[r] \notin {Absent, "done", "error"})
  BY LiveTask DEF Sound, IInv, ChildTasksReport, IsChild
<1>2. \A q \in Run : \/ status'[q] = status[q] \/ q = r
                     \/ status[q] \in Open
  BY DEF Ends, Wakes
<1>3. Open \cap {Absent, "done", "error"} = {}
  BY RunStateIsStatus DEF Open, Busy, RunState
<1>. QED  BY <1>1, <1>2, <1>3, StaysReported

\* Nothing is left of a run's children when the last report wakes it.
LEMMA WokenIsQuiet ==
  ASSUME IInv', NEW t, NEW s, Wakes(t, s), NEW p \in Run, p = Parent[task[t].run]
  PROVE  Unreported(p)' = {}
<1>1. status'[p] = "running" /\ awaiting'[p] = 0
  BY DEF Wakes
<1>2. IsFiniteSet(Unreported(p)')
  <2>1. Unreported(p)' \subseteq Run
    BY DEF Unreported, Children
  <2>. QED  BY <2>1, TreeAssumption, FS_Subset
<1>3. Cardinality(Unreported(p)') = 0
  BY <1>1 DEF IInv, AwaitingIsExact, TerminalStatus
<1>. QED  BY <1>2, <1>3, FS_EmptySet

\* Nobody executes the parent that a report wakes.
LEMMA WokenWasIdle ==
  ASSUME IInv, SingleInv, NEW t \in Live, NEW s, Wakes(t, s), NEW u \in Live
  PROVE  task[u].run # Parent[task[t].run]
<1>1. Parent[task[t].run] # None
  BY DEF Wakes, Reports
<1>2. Unreported(Parent[task[t].run]) # {}
  BY <1>1, ExecutedUnreported
<1>. QED  BY <1>2 DEF SingleInv, ExecutedIsQuiet

LEMMA HaltSingle ==
  ASSUME IInv, IInv', SingleInv, NEW t, NEW s, Sound(t, s), Halt(t, s)
  PROVE  SingleInv'
<1>. DEFINE r == task[t].run
            p == Parent[r]
<1>1. t \in Live /\ r \in Run
  BY LiveTask DEF Sound, IInv
<1>2. Ends(t, s) \/ Wakes(t, s)
  BY HaltEnds
<1>3. \A u \in Live' : u # t => /\ u \in Live /\ task'[u] = task[u]
                                /\ task[u].run \in Run \ {r}
  BY <1>1, <1>2, LiveTask DEF Ends, Wakes, OthersKeep, IInv, SingleInv, OneTaskPerRun
<1>4. t \in Live' => /\ task'[t].run = p /\ status'[p] = "running" /\ p \in Run
                     /\ \A q \in Run : q = p => Unreported(q)' = {}
                     /\ \A u \in Live : task[u].run # p
  BY <1>1, <1>2, WokenIsQuiet, WokenWasIdle DEF Ends, Wakes
<1>5. OneTaskPerRun'
  BY <1>3, <1>4 DEF SingleInv, OneTaskPerRun
<1>6. PendingIsKnown'
  <2> SUFFICES ASSUME NEW u \in Live', status'[task'[u].run] = "pending"
               PROVE  task'[u].run \in runningIds'
    BY DEF PendingIsKnown
  <2>1. u # t
    BY <1>4
  <2>2. status[task[u].run] = "pending"
    BY <1>2, <1>3, <2>1 DEF Ends, Wakes
  <2>3. task[u].run \in runningIds /\ task[u].run # r
    BY <1>3, <2>1, <2>2 DEF SingleInv, PendingIsKnown
  <2>. QED  BY <1>2, <1>3, <2>1, <2>3 DEF Ends, Wakes, Discarded
<1>7. ExecutedIsQuiet'
  <2> SUFFICES ASSUME NEW u \in Live', NEW q \in Run, q = task'[u].run
               PROVE  Unreported(q)' = {}
    BY <1>3, <1>4 DEF ExecutedIsQuiet
  <2>1. CASE u = t
    BY <1>4, <2>1
  <2>2. CASE u # t
    <3>1. Unreported(q) = {}
      BY <1>3, <2>2 DEF SingleInv, ExecutedIsQuiet
    <3>. QED  BY <1>2, <3>1, HaltReported
  <2>. QED  BY <2>1, <2>2
<1>. QED  BY <1>5, <1>6, <1>7 DEF SingleInv

LEMMA WaveSingle ==
  ASSUME IInv, SingleInv, NEW t \in Task, SpawnWave(t)
  PROVE  SingleInv'
<1>. DEFINE r == task[t].run
<1>1. t \in Live
  BY DEF SpawnWave, Queued
<1>2. /\ r \in Run /\ t \notin Live' /\ OthersKeep(t)
      /\ status[r] \in Open /\ status'[r] = "awaiting_subagents"
      /\ \A q \in Run \ {r} : \/ status'[q] = status[q]
                              \/ Parent[q] = r /\ status[q] = Absent /\ status'[q] = "pending"
      /\ runningIds' = Discarded(t)
  BY WaveEnds
<1>3. \A u \in Live' : /\ u \in Live /\ task'[u] = task[u] /\ task[u].run \in Run \ {r}
                       /\ status[task[u].run] # Absent
  BY <1>1, <1>2, LiveTask DEF OthersKeep, IInv, SingleInv, OneTaskPerRun, TasksExist
<1>4. OneTaskPerRun'
  BY <1>3 DEF SingleInv, OneTaskPerRun
<1>5. PendingIsKnown'
  BY <1>2, <1>3 DEF SingleInv, PendingIsKnown, Discarded
<1>6. \A q \in Run \ {r} : Unreported(q)' \subseteq Unreported(q)
  <2>1. status[r] \notin {Absent, "done", "error"}
    BY <1>2, RunStateIsStatus DEF Open, Busy, RunState
  <2>. QED  BY <1>2, <2>1 DEF Unreported, Children
<1>7. ExecutedIsQuiet'
  BY <1>3, <1>6 DEF SingleInv, ExecutedIsQuiet
<1>. QED  BY <1>4, <1>5, <1>7 DEF SingleInv

\* A step after which the same tasks execute the same runs.
SameTasks ==
    /\ Live' \subseteq Live
    /\ \A u \in Live' : task'[u].run = task[u].run

LEMMA SameSingle ==
  ASSUME IInv, SingleInv, SameTasks,
         \A q \in Run : Unreported(q)' \subseteq Unreported(q),
         \A q \in Run : status'[q] = "pending" => status[q] \in {"pending", Absent},
         \A q \in runningIds : status[q] = "pending" => q \in runningIds'
  PROVE  SingleInv'
<1>1. \A u \in Live' : /\ u \in Live /\ task'[u].run = task[u].run /\ task[u].run \in Run
                       /\ status[task[u].run] # Absent
  BY LiveTask DEF SameTasks, IInv, TasksExist
<1>2. OneTaskPerRun'
  BY <1>1 DEF SingleInv, OneTaskPerRun
<1>3. PendingIsKnown'
  BY <1>1 DEF SingleInv, PendingIsKnown
<1>4. ExecutedIsQuiet'
  BY <1>1 DEF SingleInv, ExecutedIsQuiet
<1>. QED  BY <1>2, <1>3, <1>4 DEF SingleInv

LEMMA GoesOnSingle ==
  ASSUME IInv, SingleInv, NEW t \in Task, CallModel(t) \/ AskForReview(t)
  PROVE  SingleInv'
<1>. DEFINE r == task[t].run
<1>1. t \in Live
  BY DEF CallModel, AskForReview, Queued, Working
<1>2. SameTasks
  BY GoesOn DEF SameTasks
<1>3. \A q \in Run : status'[q] = status[q] \/ (q = r /\ status'[q] # "pending")
  BY GoesOn DEF Begun
<1>4. Parent[r] # None => status[r] \notin {Absent, "done", "error"}
  BY <1>1 DEF IInv, ChildTasksReport, IsChild
<1>5. \A q \in Run : Unreported(q)' \subseteq Unreported(q)
  BY <1>3, <1>4, StaysReported
<1>6. runningIds' = runningIds
  BY GoesOn
<1>. QED  BY <1>2, <1>3, <1>5, <1>6, SameSingle

\* A run that has not begun has no children.
LEMMA UnbornIsQuiet ==
  ASSUME IInv, NEW r \in Run, status[r] \in {Absent, "pending"}
  PROVE  Unreported(r) = {}
BY TreeAssumption DEF IInv, ParentsStarted, Unreported, Children

LEMMA StartPendingSingle ==
  ASSUME IInv, SingleInv, NEW r \in Run, StartPending(r)
  PROVE  SingleInv'
<1>1. /\ status[r] = "pending" /\ r \notin StillActive /\ CreateTask(r, "worker")
      /\ runningIds' = StillActive \cup {r} /\ status' = status
  BY DEF StartPending
<1>2. PICK i \in Task : /\ i \notin Live /\ i \in Live' /\ OthersKeep(i)
                        /\ task'[i] = [run |-> r, by |-> "worker", phase |-> "queued"]
  BY <1>1, TaskBegins DEF IInv
<1>3. \A u \in Live : task[u].run # r
  BY <1>1, StillActiveKnown DEF SingleInv, PendingIsKnown
<1>4. \A u \in Live' : u # i => u \in Live /\ task'[u] = task[u]
  BY <1>2 DEF OthersKeep
<1>5. OneTaskPerRun'
  BY <1>2, <1>3, <1>4 DEF SingleInv, OneTaskPerRun
<1>6. PendingIsKnown'
  BY <1>1, <1>2, <1>4, StillActiveKnown DEF SingleInv, PendingIsKnown
<1>7. ExecutedIsQuiet'
  <2>1. \A q : Unreported(q)' = Unreported(q)
    BY <1>1 DEF Unreported, Children
  <2>2. Unreported(r) = {}
    BY <1>1, UnbornIsQuiet
  <2>. QED  BY <1>2, <1>4, <2>1, <2>2 DEF SingleInv, ExecutedIsQuiet
<1>. QED  BY <1>5, <1>6, <1>7 DEF SingleInv

\* What a client that creates a root run changes.
LEMMA RootBegins ==
  ASSUME IInv, NEW r \in Run, CreateRun(r) \/ QueueRun(r)
  PROVE  /\ Parent[r] = None /\ status[r] = Absent /\ runningIds' = runningIds
         /\ \A q \in Run \ {r} : status'[q] = status[q]
         /\ \A u \in Live : task[u].run # r
         /\ \A q \in Run : Unreported(q)' \subseteq Unreported(q)
         /\ \/ status'[r] = "pending" /\ task' = task
            \/ /\ status'[r] = "running"
               /\ \E i \in Task : /\ i \notin Live /\ i \in Live' /\ OthersKeep(i)
                                  /\ task'[i] = [run |-> r, by |-> "router",
                                                 phase |-> "queued"]
<1>1. PICK s \in {"pending", "running"} :
         /\ status' = [status EXCEPT ![r] = s]
         /\ IF s = "pending" THEN task' = task ELSE CreateTask(r, "router")
  BY DEF CreateRun, QueueRun
<1>2. Parent[r] = None /\ status[r] = Absent /\ runningIds' = runningIds
  BY DEF CreateRun, QueueRun, Root
<1>3. status'[r] = s /\ \A q \in Run \ {r} : status'[q] = status[q]
  BY <1>1 DEF IInv, TypeOK
<1>4. \A u \in Live : task[u].run # r
  BY <1>2 DEF IInv, TasksExist
<1>5. \A q \in Run : Unreported(q)' \subseteq Unreported(q)
  BY <1>2, <1>3, StaysReported
<1>6. s = "running" =>
         \E i \in Task : /\ i \notin Live /\ i \in Live' /\ OthersKeep(i)
                         /\ task'[i] = [run |-> r, by |-> "router", phase |-> "queued"]
  BY <1>1, TaskBegins DEF IInv
<1>. QED  BY <1>1, <1>2, <1>3, <1>4, <1>5, <1>6

\* What a client that moves a run changes.
LEMMA RunMoved ==
  ASSUME IInv, NEW r \in Run, Cancel(r) \/ ResolveHandover(r) \/ PauseParent(r)
  PROVE  /\ status[r] \in Open /\ \A q \in Run \ {r} : status'[q] = status[q]
         /\ \/ "cancel" \in Events /\ status'[r] = "cancelled"
            \/ "handover" \in Events /\ status'[r] = "running"
            \/ status'[r] = "awaiting_subagents"
         /\ runningIds' = runningIds /\ task' = task
         /\ \A q \in Run : Unreported(q)' \subseteq Unreported(q)
<1>1. PICK s \in {"cancelled", "running", "awaiting_subagents"} :
         /\ status' = [status EXCEPT ![r] = s]
         /\ s \in ValidTransitions[status[r]]
         /\ s = "cancelled" => "cancel" \in Events
         /\ s = "running" => "handover" \in Events
  BY DEF Cancel, ResolveHandover, PauseParent
<1>2. status[r] # Absent /\ runningIds' = runningIds /\ task' = task
  BY DEF Cancel, ResolveHandover, PauseParent
<1>3. status[r] \in RunState
  BY <1>2 DEF IInv, TypeOK
<1>4. status[r] \in Open
  BY <1>1, <1>3 DEF ValidTransitions, Open, Busy, RunState, Status, ActiveStatus,
                    ParkedStatus, TerminalStatus
<1>5. status'[r] = s /\ \A q \in Run \ {r} : status'[q] = status[q]
  BY <1>1 DEF IInv, TypeOK
<1>6. status[r] \notin {Absent, "done", "error"}
  BY <1>2, <1>4 DEF Open, Busy
<1>7. \A q \in Run : Unreported(q)' \subseteq Unreported(q)
  BY <1>5, <1>6, StaysReported
<1>. QED  BY <1>1, <1>2, <1>4, <1>5, <1>7

\* The clients of these properties.
OrderlyClients == Events \cap {"auto_run", "spawn"} = {}

LEMMA ClientSingle ==
  ASSUME OrderlyClients, IInv, SingleInv, NEW r \in Run, Client(r)
  PROVE  SingleInv'
<1>1. ~AutoRun(r) /\ ~SpawnChild(r)
  BY DEF OrderlyClients, AutoRun, SpawnChild
<1>2. CASE CreateRun(r) \/ QueueRun(r)
  <2>1. /\ status[r] = Absent /\ runningIds' = runningIds
        /\ \A q \in Run \ {r} : status'[q] = status[q]
        /\ \A u \in Live : task[u].run # r
        /\ \A q \in Run : Unreported(q)' \subseteq Unreported(q)
    BY <1>2, RootBegins
  <2>2. CASE task' = task
    <3>1. SameTasks
      BY <2>2 DEF SameTasks, Live
    <3>. QED  BY <2>1, <3>1, SameSingle
  <2>3. CASE /\ status'[r] = "running"
             /\ \E i \in Task : /\ i \notin Live /\ i \in Live' /\ OthersKeep(i)
                                /\ task'[i] = [run |-> r, by |-> "router",
                                               phase |-> "queued"]
    <3>1. PICK i \in Task : /\ i \notin Live /\ i \in Live' /\ OthersKeep(i)
                            /\ task'[i] = [run |-> r, by |-> "router", phase |-> "queued"]
      BY <2>3
    <3>2. \A u \in Live' : u # i => /\ u \in Live /\ task'[u] = task[u]
                                    /\ task[u].run \in Run \ {r}
      BY <2>1, <3>1, LiveTask DEF OthersKeep, IInv
    <3>3. OneTaskPerRun'
      BY <3>1, <3>2 DEF SingleInv, OneTaskPerRun
    <3>4. PendingIsKnown'
      BY <2>1, <2>3, <3>1, <3>2 DEF SingleInv, PendingIsKnown
    <3>5. ExecutedIsQuiet'
      BY <2>1, <3>1, <3>2, UnbornIsQuiet DEF SingleInv, ExecutedIsQuiet
    <3>. QED  BY <3>3, <3>4, <3>5 DEF SingleInv
  <2>. QED  BY <1>2, <2>2, <2>3, RootBegins
<1>3. CASE Cancel(r) \/ ResolveHandover(r) \/ PauseParent(r)
  <2>1. SameTasks
    BY <1>3, RunMoved DEF SameTasks, Live
  <2>2. /\ runningIds' = runningIds
        /\ \A q \in Run : status'[q] = status[q] \/ status'[q] # "pending"
        /\ \A q \in Run : Unreported(q)' \subseteq Unreported(q)
    BY <1>3, RunMoved
  <2>. QED  BY <2>1, <2>2, SameSingle
<1>. QED  BY <1>1, <1>2, <1>3 DEF Client

LEMMA NextSingle ==
  ASSUME OrderlyClients, IInv, IInv', SingleInv, [Next]_vars
  PROVE  SingleInv'
<1>1. CASE \E t \in Task : Step(t)
  BY <1>1, StepShape, HaltSingle, WaveSingle, GoesOnSingle
<1>2. CASE \E r \in Run : StartPending(r) \/ Client(r)
  BY <1>2, StartPendingSingle, ClientSingle
<1>3. CASE TickOnly \/ UNCHANGED vars
  <2>1. /\ status' = status /\ task' = task
        /\ runningIds' = runningIds \/ runningIds' = StillActive
    BY <1>3 DEF TickOnly, vars
  <2>2. SameTasks /\ \A q \in Run : Unreported(q)' \subseteq Unreported(q)
    BY <2>1 DEF SameTasks, Live, Unreported, Children
  <2>. QED  BY <2>1, <2>2, StillActiveKnown, SameSingle
<1>4. CASE Restart
  <2>1. Live' = {}
    BY <1>4 DEF Restart, Live
  <2>. QED  BY <2>1 DEF SingleInv, OneTaskPerRun, PendingIsKnown, ExecutedIsQuiet
<1>. QED  BY <1>1, <1>2, <1>3, <1>4 DEF Next

LEMMA InitSingle == Init => SingleInv
<1> SUFFICES ASSUME Init PROVE SingleInv
  OBVIOUS
<1>1. Live = {}
  BY DEF Init, Live
<1>. QED  BY <1>1 DEF SingleInv, OneTaskPerRun, PendingIsKnown, ExecutedIsQuiet

LEMMA OrderlyUnderRoots == OrderlyClients => ClientsSpawnUnderRoots
BY DEF OrderlyClients, ClientsSpawnUnderRoots

LEMMA OneAtATime == ASSUME SingleInv PROVE SingleExecution
<1> SUFFICES ASSUME NEW r \in Run PROVE Cardinality(Executing(r)) <= 1
  BY DEF SingleExecution
<1>1. CASE Executing(r) = {}
  BY <1>1, FS_EmptySet
<1>2. CASE Executing(r) # {}
  <2>1. PICK t \in Executing(r) : TRUE
    BY <1>2
  <2>2. Executing(r) = {t}
    BY <2>1 DEF Executing, SingleInv, OneTaskPerRun
  <2>. QED  BY <2>2, FS_Singleton
<1>. QED  BY <1>1, <1>2

\* Worker, routers and wake-ups never execute one run twice at a time, for every tree,
\* whatever is cancelled, paused, handed over or interrupted by a restart, as long as
\* no approval starts the run it leaves to the worker and clients add no children.
THEOREM ExecutedOnce == OrderlyClients /\ Spec => []SingleExecution
<1>. SUFFICES ASSUME OrderlyClients PROVE Spec => []SingleExecution
  OBVIOUS
<1>1. Init => IInv /\ SingleInv
  BY InitInv, InitSingle
<1>2. IInv /\ SingleInv /\ [Next]_vars => IInv' /\ SingleInv'
  BY NextInv, NextSingle, OrderlyUnderRoots
<1>3. SingleInv => SingleExecution
  BY OneAtATime
<1>. QED  BY <1>1, <1>2, <1>3, PTL DEF Spec

----------------------------------------------------------------------------
(* Children are not executed for a parent that is over. *)

\* A run with a child that has not reported is not over.
OverIsReported ==
    \A p \in Run : Unreported(p) # {} => status[p] \notin TerminalStatus

LEMMA WaveReported ==
  ASSUME IInv, NEW t \in Task, SpawnWave(t)
  PROVE  \A q \in Run \ {task[t].run} : Unreported(q)' \subseteq Unreported(q)
<1>1. LET r == task[t].run IN
      /\ status[r] \in Open
      /\ \A q \in Run \ {r} : \/ status'[q] = status[q]
                              \/ Parent[q] = r /\ status[q] = Absent /\ status'[q] = "pending"
  BY WaveEnds
<1>2. status[task[t].run] \notin {Absent, "done", "error"}
  BY <1>1, RunStateIsStatus DEF Open, Busy, RunState
<1>. QED  BY <1>1, <1>2 DEF Unreported, Children

\* Only a run whose children have all reported may end, or nothing ends.
LEMMA StaysOver ==
  ASSUME IInv, OverIsReported, NEW r \in Run,
         Unreported(r) = {} \/ status'[r] \notin TerminalStatus,
         \A q \in Run \ {r} : /\ Unreported(q)' \subseteq Unreported(q)
                              /\ \/ status'[q] = status[q]
                                 \/ status'[q] \notin TerminalStatus,
         Unreported(r) = {} => Unreported(r)' = {} \/ status'[r] \notin TerminalStatus
  PROVE  OverIsReported'
<1> SUFFICES ASSUME NEW q \in Run, Unreported(q)' # {}
             PROVE  status'[q] \notin TerminalStatus
  BY DEF OverIsReported
<1>1. CASE q = r
  BY <1>1
<1>2. CASE q # r
  BY <1>2 DEF OverIsReported
<1>. QED  BY <1>1, <1>2

LEMMA StepOver ==
  ASSUME IInv, SingleInv, OverIsReported, NEW t \in Task, Step(t)
  PROVE  OverIsReported'
<1>. DEFINE r == task[t].run
<1>1. t \in Live /\ r \in Run /\ Unreported(r) = {}
  BY StepShape, LiveTask DEF IInv, SingleInv, ExecutedIsQuiet
<1>2. CASE \E s : Sound(t, s) /\ Halt(t, s) /\ Leaves(t, s)
  <2>1. PICK s : Sound(t, s) /\ Halt(t, s)
    BY <1>2
  <2>2. Ends(t, s) \/ Wakes(t, s)
    BY <2>1, HaltEnds
  <2>3. \A q \in Run : Unreported(q)' \subseteq Unreported(q)
    BY <2>1, <2>2, HaltReported
  <2>4. \A q \in Run \ {r} : status'[q] = status[q] \/ status'[q] = "running"
    BY <2>2 DEF Ends, Wakes
  <2>. QED  BY <1>1, <2>3, <2>4, StaysOver DEF TerminalStatus
<1>3. CASE SpawnWave(t)
  <2>1. /\ status'[r] = "awaiting_subagents"
        /\ \A q \in Run \ {r} : status'[q] = status[q] \/ status'[q] = "pending"
    BY <1>3, WaveEnds
  <2>. QED  BY <1>1, <1>3, <2>1, WaveReported, StaysOver DEF TerminalStatus
<1>4. CASE CallModel(t) \/ AskForReview(t)
  <2>1. \A q \in Run : status'[q] = status[q] \/ q = r
    BY <1>4, GoesOn
  <2>2. Parent[r] # None => status[r] \notin {Absent, "done", "error"}
    BY <1>1 DEF IInv, ChildTasksReport, IsChild
  <2>3. \A q \in Run : Unreported(q)' \subseteq Unreported(q)
    BY <2>1, <2>2, StaysReported
  <2>. QED  BY <1>1, <2>1, <2>3, StaysOver
<1>. QED  BY <1>2, <1>3, <1>4, StepShape

LEMMA NextOver ==
  ASSUME OrderlyClients, Events \cap {"cancel", "restart"} = {}, IInv, SingleInv,
         OverIsReported, [Next]_vars
  PROVE  OverIsReported'
<1>1. CASE \E t \in Task : Step(t)
  BY <1>1, StepOver
<1>2. ASSUME NEW r \in Run, Client(r)
      PROVE  OverIsReported'
  <2>1. ~AutoRun(r) /\ ~SpawnChild(r)
    BY DEF OrderlyClients, AutoRun, SpawnChild
  <2>2. /\ \A q \in Run : Unreported(q)' \subseteq Unreported(q)
        /\ \A q \in Run \ {r} : status'[q] = status[q]
        /\ status'[r] \in {"pending", "running", "awaiting_subagents"}
    BY <1>2, <2>1, RootBegins, RunMoved DEF Client
  <2>. QED  BY <2>2, StaysOver DEF TerminalStatus
<1>3. CASE (\E r \in Run : StartPending(r)) \/ TickOnly \/ UNCHANGED vars
  <2>1. status' = status
    BY <1>3 DEF StartPending, TickOnly, vars
  <2>. QED  BY <2>1 DEF OverIsReported, Unreported, Children
<1>4. ~Restart
  BY DEF Restart
<1>. QED  BY <1>1, <1>2, <1>3, <1>4 DEF Next

\* No child is executed for a parent that is over, for every tree and order of
\* completions, as long as nobody cancels a run, restarts the server, adds children by
\* hand, or approves with auto_run.  A restart does break it, see ChildRuns_orphans.
THEOREM NoOrphans ==
    OrderlyClients /\ Events \cap {"cancel", "restart"} = {} /\ Spec => []NoOrphanExecutes
<1>. SUFFICES ASSUME OrderlyClients, Events \cap {"cancel", "restart"} = {}
              PROVE  Spec => []NoOrphanExecutes
  OBVIOUS
<1>1. Init => IInv /\ SingleInv /\ OverIsReported
  <2>1. Init => OverIsReported
    BY DEF Init, OverIsReported, Unreported, Children
  <2>. QED  BY <2>1, InitInv, InitSingle
<1>2. IInv /\ SingleInv /\ OverIsReported /\ [Next]_vars
        => IInv' /\ SingleInv' /\ OverIsReported'
  BY NextInv, NextSingle, NextOver, OrderlyUnderRoots
<1>3. IInv /\ OverIsReported => NoOrphanExecutes
  <2> SUFFICES ASSUME IInv, OverIsReported, NEW t \in Live, Parent[task[t].run] # None
               PROVE  status[Parent[task[t].run]] \notin TerminalStatus
    BY DEF NoOrphanExecutes
  <2>1. Parent[task[t].run] \in Run
    BY LiveTask, ParentIsRun DEF IInv
  <2>. QED  BY <2>1, ExecutedUnreported DEF OverIsReported
<1>. QED  BY <1>1, <1>2, <1>3, PTL DEF Spec

----------------------------------------------------------------------------
(* The executions, the runs that show running and the worker's slots match. *)

\* A run that is being reviewed does not show running.
ReviewShows == \A t \in Live : InReview(t) => status[task[t].run] # "running"

\* The worker knows the runs that it executes, and they are not over.
WorkersKnown ==
    \A t \in Live :
       task[t].by = "worker" => /\ task[t].run \in runningIds
                                /\ status[task[t].run] \in Open

Workers == {t \in Live : task[t].by = "worker"}

SlotsHold == IsFiniteSet(Workers) /\ Cardinality(Workers) <= MaxConcurrent

OwnedInv == RunningIsExecuting /\ ReviewShows /\ WorkersKnown /\ SlotsHold

\* No run is cancelled or handed back under its execution, and no stage halts a run
\* that goes on showing running.
QuietClients ==
    /\ OrderlyClients
    /\ Events \cap {"cancel", "handover"} = {}
    /\ Outcomes \cap {"held", "subdivide"} = {}

LEMMA RunningHasTask ==
  ASSUME TypeOK
  PROVE  RunningIsExecuting <=>
           \A q \in Run : status[q] = "running" => \E u \in Live : task[u].run = q
BY DEF RunningIsExecuting, Executing

LEMMA FewerWorkers ==
  ASSUME SlotsHold, Workers' \subseteq Workers
  PROVE  SlotsHold'
<1>1. IsFiniteSet(Workers) /\ Cardinality(Workers) <= MaxConcurrent
  BY DEF SlotsHold
<1>2. /\ IsFiniteSet(Workers') /\ Cardinality(Workers') <= Cardinality(Workers)
      /\ Cardinality(Workers') \in Int /\ Cardinality(Workers) \in Int
  BY <1>1, FS_Subset, FS_CardinalityType
<1>3. Cardinality(Workers') <= MaxConcurrent
  BY <1>1, <1>2, LimitsAssumption
<1>. QED  BY <1>2, <1>3 DEF SlotsHold

\* Each of the worker's executions holds a run of its own.
LEMMA WorkersFit ==
  ASSUME IInv, SingleInv, WorkersKnown, SlotsHold
  PROVE  /\ IsFiniteSet(StillActive)
         /\ Cardinality(StillActive) \in Nat
         /\ Cardinality(Workers) \in Nat
         /\ Cardinality(Workers) <= Cardinality(StillActive)
<1>1. IsFiniteSet(StillActive) /\ Cardinality(StillActive) \in Nat
  BY StillActiveKnown, TreeAssumption, FS_Subset, FS_CardinalityType
<1>2. IsFiniteSet(Workers) /\ Cardinality(Workers) \in Nat
  BY FS_CardinalityType DEF SlotsHold
<1>3. ASSUME Cardinality(StillActive) < Cardinality(Workers)
      PROVE  FALSE
  <2>. DEFINE f == [t \in Workers |-> task[t].run]
  <2>1. f \in [Workers -> StillActive]
    BY DEF Workers, WorkersKnown, StillActive, Open, Busy
  <2>2. \E t, u \in Workers : t # u /\ f[t] = f[u]
    <3>. HIDE DEF f
    <3>. QED  BY <1>1, <1>2, <1>3, <2>1, FS_PigeonHole
  <2>. QED  BY <2>2 DEF Workers, SingleInv, OneTaskPerRun
<1>. QED  BY <1>1, <1>2, <1>3

LEMMA HaltOwned ==
  ASSUME Outcomes \cap {"held", "subdivide"} = {}, IInv, IInv', SingleInv, OwnedInv,
         NEW t, NEW s, Sound(t, s), Halt(t, s), Leaves(t, s)
  PROVE  OwnedInv'
<1>. DEFINE r == task[t].run
            p == Parent[r]
<1>1. t \in Live /\ r \in Run
  BY LiveTask DEF Sound, IInv
<1>2. Ends(t, s) \/ Wakes(t, s)
  BY HaltEnds
<1>3. /\ \A u \in Live' : u # t => /\ u \in Live /\ task'[u] = task[u]
                                   /\ task[u].run \in Run \ {r}
      /\ \A u \in Live : u # t => u \in Live' /\ task'[u] = task[u]
  BY <1>1, <1>2, LiveTask DEF Ends, Wakes, OthersKeep, IInv, SingleInv, OneTaskPerRun
<1>4. t \in Live' => /\ task'[t] = [run |-> p, by |-> "worker", phase |-> "queued"]
                     /\ task[t].by = "worker"
                     /\ status'[p] = "running" /\ p \in runningIds'
                     /\ \A u \in Live : task[u].run # p
  BY <1>1, <1>2, WokenWasIdle DEF Ends, Wakes, Reports
<1>5. status'[r] # "running"
  <2>1. status'[r] = s
    BY <1>2 DEF Ends, Wakes
  <2>2. s # "running"
    BY <1>1, <1>2 DEF Leaves, OwnedInv, ReviewShows
  <2>. QED  BY <2>1, <2>2
<1>6. \A q \in Run \ {r} : status'[q] = status[q] \/ (t \in Live' /\ q = p)
  BY <1>2 DEF Ends, Wakes
<1>7. RunningIsExecuting'
  <2> SUFFICES ASSUME NEW q \in Run, status'[q] = "running"
               PROVE  \E u \in Live' : task'[u].run = q
    BY RunningHasTask DEF RunningIsExecuting, Executing
  <2>1. CASE t \in Live' /\ q = p
    BY <1>4, <2>1
  <2>2. CASE ~(t \in Live' /\ q = p)
    <3>1. q # r /\ status[q] = "running"
      BY <1>5, <1>6, <2>2
    <3>2. PICK u \in Live : task[u].run = q
      BY <3>1 DEF OwnedInv, RunningIsExecuting, Executing
    <3>. QED  BY <1>3, <3>1, <3>2
  <2>. QED  BY <2>1, <2>2
<1>8. ASSUME NEW u \in Live', u # t
      PROVE  status'[task[u].run] = status[task[u].run]
  BY <1>3, <1>4, <1>6, <1>8
<1>9. ReviewShows'
  <2> SUFFICES ASSUME NEW u \in Live', task'[u].phase = "review"
               PROVE  status'[task'[u].run] # "running"
    BY DEF ReviewShows, InReview
  <2>1. u # t
    BY <1>4
  <2>. QED  BY <1>3, <1>8, <2>1 DEF OwnedInv, ReviewShows, InReview
<1>10. WorkersKnown'
  <2> SUFFICES ASSUME NEW u \in Live', task'[u].by = "worker"
               PROVE  task'[u].run \in runningIds' /\ status'[task'[u].run] \in Open
    BY DEF WorkersKnown, Open, Busy
  <2>1. CASE u = t
    BY <1>4, <2>1 DEF Open, Busy
  <2>2. CASE u # t
    <3>1. task[u].run \in runningIds \ {r} /\ status[task[u].run] \in Open
      BY <1>3, <2>2 DEF OwnedInv, WorkersKnown
    <3>2. task[u].run \in runningIds'
      BY <1>2, <3>1 DEF Ends, Wakes, Discarded
    <3>. QED  BY <1>3, <1>8, <2>2, <3>1, <3>2
  <2>. QED  BY <2>1, <2>2
<1>11. Workers' \subseteq Workers
  BY <1>1, <1>3, <1>4 DEF Workers
<1>. QED  BY <1>7, <1>9, <1>10, <1>11, FewerWorkers DEF OwnedInv

LEMMA WaveOwned ==
  ASSUME IInv, SingleInv, OwnedInv, NEW t \in Task, SpawnWave(t)
  PROVE  OwnedInv'
<1>. DEFINE r == task[t].run
<1>1. t \in Live /\ r \in Run
  BY LiveTask DEF SpawnWave, Queued, IInv
<1>2. /\ t \notin Live' /\ OthersKeep(t)
      /\ status'[r] = "awaiting_subagents"
      /\ \A q \in Run \ {r} : status'[q] = status[q] \/ status'[q] = "pending"
      /\ runningIds' = Discarded(t)
  BY WaveEnds
<1>3. \A u \in Live' : u \in Live /\ task'[u] = task[u] /\ task[u].run \in Run \ {r}
  BY <1>1, <1>2, LiveTask DEF OthersKeep, IInv, SingleInv, OneTaskPerRun
<1>4. RunningIsExecuting'
  <2> SUFFICES ASSUME NEW q \in Run, status'[q] = "running"
               PROVE  \E u \in Live' : task'[u].run = q
    BY DEF RunningIsExecuting, Executing
  <2>1. q # r /\ status[q] = "running"
    BY <1>2
  <2>2. PICK u \in Live : task[u].run = q
    BY <2>1 DEF OwnedInv, RunningIsExecuting, Executing
  <2>. QED  BY <1>2, <2>1, <2>2 DEF OthersKeep
<1>5. ReviewShows'
  BY <1>2, <1>3 DEF OwnedInv, ReviewShows, InReview
<1>6. WorkersKnown'
  <2> SUFFICES ASSUME NEW u \in Live', task'[u].by = "worker"
               PROVE  task'[u].run \in runningIds' /\ status'[task'[u].run] \in Open
    BY DEF WorkersKnown, Open, Busy
  <2>1. task[u].run \in runningIds \ {r} /\ status[task[u].run] \in Open
    BY <1>3 DEF OwnedInv, WorkersKnown
  <2>. QED  BY <1>2, <1>3, <2>1 DEF Discarded, Open, Busy
<1>7. Workers' \subseteq Workers
  BY <1>3 DEF Workers
<1>. QED  BY <1>4, <1>5, <1>6, <1>7, FewerWorkers DEF OwnedInv

LEMMA GoesOnOwned ==
  ASSUME IInv, SingleInv, OwnedInv, NEW t \in Task, CallModel(t) \/ AskForReview(t)
  PROVE  OwnedInv'
<1>. DEFINE r == task[t].run
<1>1. t \in Live /\ r \in Run
  BY LiveTask DEF CallModel, AskForReview, Queued, Working, IInv
<1>2. /\ Live' = Live
      /\ \A u \in Live : /\ task'[u].run = task[u].run /\ task'[u].by = task[u].by
                         /\ u # t => task'[u] = task[u]
      /\ \A q \in Run \ {r} : status'[q] = status[q]
      /\ \/ status'[r] = Begun(r) /\ task'[t].phase = "working"
         \/ status'[r] = "awaiting_review" /\ task'[t].phase = "review"
      /\ runningIds' = runningIds
  BY GoesOn
<1>3. \A u \in Live : u # t => task[u].run \in Run \ {r}
  BY <1>1, LiveTask DEF IInv, SingleInv, OneTaskPerRun
<1>4. RunningIsExecuting'
  <2> SUFFICES ASSUME NEW q \in Run, status'[q] = "running"
               PROVE  \E u \in Live' : task'[u].run = q
    BY DEF RunningIsExecuting, Executing
  <2>1. CASE q = r
    BY <1>1, <1>2, <2>1
  <2>2. CASE q # r
    BY <1>2, <2>2 DEF OwnedInv, RunningIsExecuting, Executing
  <2>. QED  BY <2>1, <2>2
<1>5. ReviewShows'
  <2> SUFFICES ASSUME NEW u \in Live', task'[u].phase = "review"
               PROVE  status'[task'[u].run] # "running"
    BY DEF ReviewShows, InReview
  <2>1. CASE u = t
    BY <1>2, <2>1
  <2>2. CASE u # t
    BY <1>2, <1>3, <2>2 DEF OwnedInv, ReviewShows, InReview
  <2>. QED  BY <2>1, <2>2
<1>6. WorkersKnown'
  <2> SUFFICES ASSUME NEW u \in Live', task'[u].by = "worker"
               PROVE  task'[u].run \in runningIds' /\ status'[task'[u].run] \in Open
    BY DEF WorkersKnown, Open, Busy
  <2>1. u \in Live /\ task[u].run \in runningIds /\ status[task[u].run] \in Open
    BY <1>2 DEF OwnedInv, WorkersKnown
  <2>2. CASE u = t
    BY <1>2, <2>1, <2>2 DEF Begun, Open, Busy
  <2>3. CASE u # t
    BY <1>2, <1>3, <2>1, <2>3
  <2>. QED  BY <2>2, <2>3, <2>1
<1>7. Workers' \subseteq Workers
  BY <1>2 DEF Workers
<1>. QED  BY <1>4, <1>5, <1>6, <1>7, FewerWorkers DEF OwnedInv

\* A slot is free when the worker starts a run.
LEMMA StartPendingOwned ==
  ASSUME IInv, SingleInv, OwnedInv, NEW r \in Run, StartPending(r)
  PROVE  OwnedInv'
<1>1. /\ status[r] = "pending" /\ CreateTask(r, "worker")
      /\ Cardinality(StillActive) < MaxConcurrent
      /\ runningIds' = StillActive \cup {r} /\ status' = status
  BY DEF StartPending
<1>2. PICK i \in Task : /\ i \notin Live /\ i \in Live' /\ OthersKeep(i)
                        /\ task'[i] = [run |-> r, by |-> "worker", phase |-> "queued"]
  BY <1>1, TaskBegins DEF IInv
<1>3. /\ \A u \in Live' : u # i => u \in Live /\ task'[u] = task[u]
      /\ \A u \in Live : u \in Live' /\ task'[u] = task[u]
  BY <1>2 DEF OthersKeep
<1>4. RunningIsExecuting'
  BY <1>1, <1>3 DEF OwnedInv, RunningIsExecuting, Executing
<1>5. ReviewShows'
  BY <1>1, <1>2, <1>3 DEF OwnedInv, ReviewShows, InReview
<1>6. WorkersKnown'
  <2> SUFFICES ASSUME NEW u \in Live', task'[u].by = "worker"
               PROVE  task'[u].run \in runningIds' /\ status'[task'[u].run] \in Open
    BY DEF WorkersKnown, Open, Busy
  <2>1. CASE u = i
    BY <1>1, <1>2, <2>1 DEF Open, Busy
  <2>2. CASE u # i
    BY <1>1, <1>3, <2>2 DEF OwnedInv, WorkersKnown, StillActive, Open, Busy
  <2>. QED  BY <2>1, <2>2
<1>7. SlotsHold'
  <2>1. Workers' = Workers \cup {i} /\ i \notin Workers
    BY <1>2, <1>3 DEF Workers
  <2>2. /\ IsFiniteSet(Workers) /\ Cardinality(Workers) \in Nat
        /\ Cardinality(StillActive) \in Nat
        /\ Cardinality(Workers) <= Cardinality(StillActive)
    BY WorkersFit DEF OwnedInv, SlotsHold
  <2>3. /\ IsFiniteSet(Workers \cup {i})
        /\ Cardinality(Workers \cup {i}) = Cardinality(Workers) + 1
    BY <2>1, <2>2, FS_AddElement
  <2>4. Cardinality(Workers \cup {i}) <= MaxConcurrent
    BY <1>1, <2>2, <2>3, LimitsAssumption
  <2>. QED  BY <2>1, <2>3, <2>4 DEF SlotsHold
<1>. QED  BY <1>4, <1>5, <1>6, <1>7 DEF OwnedInv

LEMMA ClientOwned ==
  ASSUME QuietClients, IInv, SingleInv, OwnedInv, NEW r \in Run, Client(r)
  PROVE  OwnedInv'
<1>1. ~AutoRun(r) /\ ~SpawnChild(r)
  BY DEF QuietClients, OrderlyClients, AutoRun, SpawnChild
<1>2. /\ \A q \in Run \ {r} : status'[q] = status[q]
      /\ runningIds' = runningIds
  BY <1>1, RootBegins, RunMoved DEF Client
<1>3. CASE /\ task' = task /\ status'[r] \in {"pending", "awaiting_subagents"}
  <2>1. Live' = Live /\ Workers' = Workers
    BY <1>3 DEF Live, Workers
  <2>2. RunningIsExecuting'
    BY <1>2, <1>3, <2>1 DEF OwnedInv, RunningIsExecuting, Executing
  <2>3. ReviewShows'
    BY <1>2, <1>3, <2>1, LiveTask DEF IInv, OwnedInv, ReviewShows, InReview
  <2>4. WorkersKnown'
    <3> SUFFICES ASSUME NEW u \in Live, task[u].by = "worker"
                 PROVE  task[u].run \in runningIds /\ status'[task[u].run] \in Open
      BY <1>2, <1>3, <2>1 DEF WorkersKnown, Open, Busy
    <3>1. task[u].run \in Run /\ task[u].run \in runningIds /\ status[task[u].run] \in Open
      BY LiveTask DEF IInv, OwnedInv, WorkersKnown
    <3>. QED  BY <1>2, <1>3, <3>1 DEF Open, Busy
  <2>. QED  BY <2>1, <2>2, <2>3, <2>4, FewerWorkers DEF OwnedInv
<1>4. CASE /\ status'[r] = "running" /\ \A u \in Live : task[u].run # r
           /\ \E i \in Task : /\ i \notin Live /\ i \in Live' /\ OthersKeep(i)
                              /\ task'[i] = [run |-> r, by |-> "router", phase |-> "queued"]
  <2>1. PICK i \in Task : /\ i \notin Live /\ i \in Live' /\ OthersKeep(i)
                          /\ task'[i] = [run |-> r, by |-> "router", phase |-> "queued"]
    BY <1>4
  <2>2. /\ \A u \in Live' : u # i => /\ u \in Live /\ task'[u] = task[u]
                                     /\ task[u].run \in Run \ {r}
        /\ \A u \in Live : u \in Live' /\ task'[u] = task[u]
    BY <1>4, <2>1, LiveTask DEF OthersKeep, IInv
  <2>3. RunningIsExecuting'
    <3> SUFFICES ASSUME NEW q \in Run, status'[q] = "running"
                 PROVE  \E u \in Live' : task'[u].run = q
      BY DEF RunningIsExecuting, Executing
    <3>1. CASE q = r
      BY <2>1, <3>1
    <3>2. CASE q # r
      BY <1>2, <2>2, <3>2 DEF OwnedInv, RunningIsExecuting, Executing
    <3>. QED  BY <3>1, <3>2
  <2>4. ReviewShows'
    BY <1>2, <2>1, <2>2 DEF OwnedInv, ReviewShows, InReview
  <2>5. WorkersKnown'
    <3> SUFFICES ASSUME NEW u \in Live', task'[u].by = "worker"
                 PROVE  task'[u].run \in runningIds' /\ status'[task'[u].run] \in Open
      BY DEF WorkersKnown, Open, Busy
    <3>1. u # i
      BY <2>1
    <3>. QED  BY <1>2, <2>2, <3>1 DEF OwnedInv, WorkersKnown
  <2>6. Workers' \subseteq Workers
    BY <2>1, <2>2 DEF Workers
  <2>. QED  BY <2>3, <2>4, <2>5, <2>6, FewerWorkers DEF OwnedInv
<1>5. CASE CreateRun(r) \/ QueueRun(r)
  BY <1>3, <1>4, <1>5, RootBegins
<1>6. CASE Cancel(r) \/ ResolveHandover(r) \/ PauseParent(r)
  BY <1>3, <1>6, RunMoved DEF QuietClients
<1>. QED  BY <1>1, <1>5, <1>6 DEF Client

LEMMA NoTaskOwned ==
  ASSUME Live' = {}, \A q \in Run : status'[q] # "running"
  PROVE  OwnedInv'
<1>1. Workers' = {}
  BY DEF Workers
<1>2. SlotsHold'
  BY <1>1, FS_EmptySet, LimitsAssumption DEF SlotsHold
<1>. QED  BY <1>2 DEF OwnedInv, RunningIsExecuting, ReviewShows, WorkersKnown

LEMMA NextOwned ==
  ASSUME QuietClients, IInv, IInv', SingleInv, OwnedInv, [Next]_vars
  PROVE  OwnedInv'
<1>1. CASE \E t \in Task : Step(t)
  <2>1. PICK t \in Task : Step(t)
    BY <1>1
  <2>2. CASE \E s : Sound(t, s) /\ Halt(t, s) /\ Leaves(t, s)
    BY <2>2, HaltOwned DEF QuietClients
  <2>. QED  BY <2>1, <2>2, StepShape, WaveOwned, GoesOnOwned
<1>2. CASE \E r \in Run : StartPending(r) \/ Client(r)
  BY <1>2, StartPendingOwned, ClientOwned
<1>3. CASE TickOnly \/ UNCHANGED vars
  <2>1. /\ status' = status /\ task' = task
        /\ runningIds' = runningIds \/ runningIds' = StillActive
    BY <1>3 DEF TickOnly, vars
  <2>2. Live' = Live /\ Workers' = Workers
    BY <2>1 DEF Live, Workers
  <2>3. RunningIsExecuting' /\ ReviewShows'
    BY <2>1, <2>2 DEF OwnedInv, RunningIsExecuting, Executing, ReviewShows, InReview
  <2>4. WorkersKnown'
    BY <2>1, <2>2 DEF OwnedInv, WorkersKnown, StillActive, Open, Busy
  <2>. QED  BY <2>2, <2>3, <2>4, FewerWorkers DEF OwnedInv
<1>4. CASE Restart
  <2>1. Live' = {} /\ \A q \in Run : status'[q] # "running"
    BY <1>4 DEF Restart, Live, Zombie
  <2>. QED  BY <2>1, NoTaskOwned
<1>. QED  BY <1>1, <1>2, <1>3, <1>4 DEF Next

LEMMA InitOwned == Init => OwnedInv
<1> SUFFICES ASSUME Init PROVE OwnedInv
  OBVIOUS
<1>1. Live = {} /\ \A q \in Run : status[q] # "running"
  BY LimitsAssumption DEF Init, Live, Status, ActiveStatus
<1>2. Workers = {}
  BY <1>1 DEF Workers
<1>3. SlotsHold
  BY <1>2, FS_EmptySet, LimitsAssumption DEF SlotsHold
<1>. QED  BY <1>1, <1>3 DEF OwnedInv, RunningIsExecuting, ReviewShows, WorkersKnown

\* A run is executed once at a time, a run that shows running is executed, and the
\* worker's executions fit in its slots although a wake-up looks for none, for every
\* tree, number of slots and restart.  Without the clients and outcomes that leave a
\* run running, or a run that is over executed.
THEOREM Owned == QuietClients /\ Spec => []ExecutionsAreOwned
<1>. SUFFICES ASSUME QuietClients PROVE Spec => []ExecutionsAreOwned
  OBVIOUS
<1>1. OrderlyClients /\ ClientsSpawnUnderRoots
  BY OrderlyUnderRoots DEF QuietClients
<1>2. Init => IInv /\ SingleInv /\ OwnedInv
  BY InitInv, InitSingle, InitOwned
<1>3. IInv /\ SingleInv /\ OwnedInv /\ [Next]_vars => IInv' /\ SingleInv' /\ OwnedInv'
  BY <1>1, NextInv, NextSingle, NextOwned
<1>4. SingleInv /\ OwnedInv => ExecutionsAreOwned
  BY OneAtATime DEF OwnedInv, SlotsHold, Workers, WorkerSlots, ExecutionsAreOwned
<1>. QED  BY <1>2, <1>3, <1>4, PTL DEF Spec

=============================================================================
