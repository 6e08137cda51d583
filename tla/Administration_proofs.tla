----------------------- MODULE Administration_proofs ------------------------
(***************************************************************************)
(* Proofs about the components of MCAdministration, which share no state,  *)
(* and about their composition.                                            *)
(***************************************************************************)
EXTENDS MCAdministration, Integers, Sequences, FiniteSets, FiniteSetTheorems,
        WellFoundedInduction, TLAPS

----------------------------------------------------------------------------
(* Numbers.                                                                  *)

LEMMA LeastIs ==
  ASSUME NEW Some, Some \subseteq Nat, Some # {}
  PROVE  \E x \in Some : \A y \in Some : x <= y
<1>. DEFINE less == OpToRel(<, Nat)
<1>1. IsWellFoundedOn(less, Nat)
  BY NatLessThanWellFounded
<1>2. \A x, y \in Nat : x < y => <<x, y>> \in less
  BY DEF OpToRel
<1>. HIDE DEF less
<1>3. PICK x \in Some : \A y \in Some : ~(<<y, x>> \in less)
  BY <1>1, WFMin
<1>4. \A y \in Some : ~(y < x) /\ x \in Nat /\ y \in Nat
  BY <1>2, <1>3
<1>. QED  BY <1>4

LEMMA GreatestIs ==
  ASSUME NEW n \in Nat, NEW Some, Some \subseteq 1..n, \E x \in Some : TRUE
  PROVE  \E x \in Some : \A y \in Some : y <= x
<1>. DEFINE Rest == {n - x : x \in Some}
<1>1. Rest \subseteq Nat /\ Rest # {}
  OBVIOUS
<1>2. PICK least \in Rest : \A y \in Rest : least <= y
  BY <1>1, LeastIs
<1>3. PICK x \in Some : least = n - x
  OBVIOUS
<1>4. \A y \in Some : n - y \in Rest /\ y \in Nat
  OBVIOUS
<1>5. \A y \in Some : n - x <= n - y
  BY <1>2, <1>3, <1>4
<1>. QED  BY <1>4, <1>5

----------------------------------------------------------------------------
(* Lifespan: the daemon's process runs only between the steps that start   *)
(* and stop it, and the worker is woken only once the authority is there.  *)

DaemonInItsTime ==
    step \in {"down", "integrity", "license", "storage", "daemon", "limited", "stop_worker",
           "stop_loops", "reset"} => daemon = None

WokenUnderAuthority ==
    /\ step \in {"up"} \cup F!Stop => authority
    /\ step \notin {"up"} \cup F!Stop => ~wake

\* A life that has begun may end.
EndsAreCounted ==
    /\ ends["orderly"] + ends["disorderly"] <= MaxEnds
    /\ step # "down" => ends["orderly"] + ends["disorderly"] < MaxEnds

LifeInv ==
    /\ F!TypeOK /\ F!ServerIsOrderly
    /\ DaemonInItsTime /\ WokenUnderAuthority /\ EndsAreCounted

LEMMA EndKeepsLife ==
  ASSUME MaxEnds \in Nat, LifeInv, step # "down", NEW kind \in {"orderly", "disorderly"},
         F!End(kind), kind = "orderly" => daemon # "running"
  PROVE  LifeInv'
<1>1. /\ step' = "down" /\ tasks' = {} /\ authority' = FALSE /\ wake' = FALSE
      /\ daemon' = None /\ left' = IF daemon = "running" THEN left + 1 ELSE left
      /\ ends' = [ends EXCEPT ![kind] = @ + 1]
      /\ files' = files /\ unjudged' = unjudged
  BY DEF F!End
<1>2. /\ ends \in [{"orderly", "disorderly"} -> 0..MaxEnds] /\ left \in Nat
      /\ {files, authority, wake, unjudged} \subseteq BOOLEAN
      /\ ends["orderly"] + ends["disorderly"] < MaxEnds
      /\ left <= ends["disorderly"] /\ ~unjudged
  BY DEF LifeInv, F!TypeOK, F!ServerIsOrderly, EndsAreCounted
<1>3. /\ ends' \in [{"orderly", "disorderly"} -> 0..MaxEnds]
      /\ ends'["orderly"] + ends'["disorderly"] <= MaxEnds
      /\ left' \in Nat /\ left' <= ends'["disorderly"]
  BY <1>1, <1>2
<1>4. F!TypeOK'
  BY <1>1, <1>2, <1>3 DEF F!TypeOK, F!Boot, F!Stop, F!Background
<1>. QED  BY <1>1, <1>2, <1>3, <1>4
          DEF LifeInv, F!ServerIsOrderly, DaemonInItsTime, WokenUnderAuthority,
              EndsAreCounted, F!Stop

\* A next of the start or of the shutdown that does not end the process.
LEMMA ThenKeepsLife ==
  ASSUME F!LifespanConstants, LifeInv, NEW next, F!Then(next),
         step = "down" => ends["orderly"] + ends["disorderly"] < MaxEnds,
         next \in F!Boot \cup F!Stop \cup {"up", "limited"},
         tasks' \subseteq F!Background, {authority', wake'} \subseteq BOOLEAN,
         daemon' \in {None, "running", "dead"},
         DaemonInItsTime', WokenUnderAuthority'
  PROVE  LifeInv'
<1>1. step' = next /\ UNCHANGED <<files, unjudged, left, ends>>
  BY DEF F!Then
<1>2. next # "down"
  BY DEF F!Boot, F!Stop
<1>3. F!TypeOK'
  BY <1>1 DEF LifeInv, F!TypeOK
<1>4. EndsAreCounted'
  BY <1>1, <1>2 DEF LifeInv, EndsAreCounted
<1>. QED  BY <1>1, <1>3, <1>4 DEF LifeInv, F!ServerIsOrderly

LEMMA BootKeepsLife ==
  ASSUME F!LifespanConstants, LifeInv,
         \/ F!Start \/ F!CheckIntegrity \/ F!Validate \/ F!PrepareStorage \/ F!StartDaemon
         \/ F!ClearThreats \/ F!StartLoops \/ F!Reconcile \/ F!StartWorker \/ F!StartMonitor
         \/ F!InitAuthority
  PROVE  LifeInv'
<1>1. CASE F!Exit
  <2>1. step # "down"
    <3>1. CASE F!Start
      BY <1>1, <3>1 DEF F!Start, F!Then, F!Exit, F!End
    <3>2. CASE ~F!Start
      BY <3>2 DEF F!CheckIntegrity, F!Validate, F!PrepareStorage, F!StartDaemon,
         F!ClearThreats, F!StartLoops, F!Reconcile, F!StartWorker, F!StartMonitor,
         F!InitAuthority
    <3>. QED  BY <3>1, <3>2
  <2>. QED  BY <1>1, <2>1, EndKeepsLife DEF F!LifespanConstants, F!Exit
<1>2. CASE ~F!Exit
  <2>1. PICK next \in {"integrity", "license", "storage", "limited", "daemon", "threats",
                       "loops", "reconcile", "worker", "monitor", "authority", "up"} :
           /\ F!Then(next) /\ wake' = wake
           /\ step = "down" => ends["orderly"] + ends["disorderly"] < MaxEnds
           /\ step \notin {"up"} \cup F!Stop
           /\ tasks' \in {tasks, {"recheck"}, tasks \cup Loops, tasks \cup {"worker"},
                          tasks \cup {"monitor"}}
           /\ \/ /\ daemon' = daemon
                 /\ next \in {"integrity", "license", "storage", "limited", "daemon"} =>
                       step \in {"down", "integrity", "license", "storage"}
              \/ next = "threats" /\ daemon' \in {None, "running", "dead"}
           /\ IF next = "up" THEN authority' = TRUE ELSE authority' = authority
    <3>. USE DEF F!Stop
    <3>1. CASE F!Start \/ F!CheckIntegrity
      BY Zenon, <1>2, <3>1 DEF F!Start, F!CheckIntegrity
    <3>2. CASE F!Validate \/ F!PrepareStorage
      BY Zenon, <1>2, <3>2 DEF F!Validate, F!PrepareStorage
    <3>3. CASE F!StartDaemon \/ F!ClearThreats \/ F!StartLoops
      BY Zenon, <1>2, <3>3 DEF F!StartDaemon, F!ClearThreats, F!StartLoops
    <3>4. CASE F!Reconcile \/ F!StartWorker
      BY Zenon, <1>2, <3>4 DEF F!Reconcile, F!StartWorker
    <3>5. CASE F!StartMonitor \/ F!InitAuthority
      BY Zenon, <1>2, <3>5 DEF F!StartMonitor, F!InitAuthority
    <3>. QED  BY <3>1, <3>2, <3>3, <3>4, <3>5
  <2>2. /\ tasks \subseteq F!Background /\ daemon \in {None, "running", "dead"}
        /\ {authority, wake} \subseteq BOOLEAN /\ ~wake
    BY <2>1 DEF LifeInv, F!TypeOK, WokenUnderAuthority
  <2>3. step' = next
    BY <2>1 DEF F!Then
  <2>4. DaemonInItsTime'
    BY <2>1, <2>3 DEF LifeInv, DaemonInItsTime
  <2>5. WokenUnderAuthority'
    <3>1. ~wake'
      BY Zenon, <2>1, <2>2
    <3>2. step' \in {"up"} \cup F!Stop => authority'
      <4>1. step' \in {"up"} \cup F!Stop => next = "up"
        BY <2>3 DEF F!Stop
      <4>. QED  BY Zenon, <2>1, <4>1
    <3>. QED  BY Zenon, <3>1, <3>2 DEF WokenUnderAuthority
  <2>6. /\ tasks' \subseteq F!Background /\ {authority', wake'} \subseteq BOOLEAN
        /\ daemon' \in {None, "running", "dead"}
        /\ next \in F!Boot \cup F!Stop \cup {"up", "limited"}
    <3>1. tasks' \subseteq F!Background
      BY <2>1, <2>2 DEF F!Background
    <3>2. {authority', wake'} \subseteq BOOLEAN
      BY Zenon, <2>1, <2>2
    <3>. QED  BY <2>1, <2>2, <3>1, <3>2 DEF F!Boot
  <2>. QED  BY <2>1, <2>4, <2>5, <2>6, ThenKeepsLife
<1>. QED  BY <1>1, <1>2

LEMMA ShutdownKeepsLife ==
  ASSUME F!LifespanConstants, LifeInv,
         \/ F!Shutdown \/ F!ShutdownLimited \/ F!StopMonitor \/ F!StopDaemon \/ F!StopWorker
         \/ F!StopLoops \/ F!Reset
  PROVE  LifeInv'
<1>1. CASE F!ShutdownLimited \/ F!Reset
  <2>1. step \in {"limited", "reset"} /\ F!End("orderly")
    BY <1>1 DEF F!ShutdownLimited, F!Reset
  <2>2. daemon # "running"
    BY <2>1 DEF F!LifespanConstants, LifeInv, DaemonInItsTime
  <2>. QED  BY <2>1, <2>2, EndKeepsLife DEF F!LifespanConstants
<1>2. CASE F!Shutdown \/ F!StopMonitor \/ F!StopDaemon \/ F!StopWorker \/ F!StopLoops
  <2>1. PICK next \in F!Stop :
           /\ F!Then(next) /\ step \in {"up"} \cup F!Stop /\ authority' = authority
           /\ tasks' \subseteq tasks
           /\ wake' \in {wake, TRUE}
           /\ daemon' \in {daemon, None}
           /\ next \in {"stop_worker", "stop_loops", "reset"} => daemon' = None
    BY <1>2 DEF LifeInv, DaemonInItsTime, F!Stop, F!Shutdown, F!StopMonitor, F!StopDaemon,
           F!StopWorker, F!StopLoops
  <2>2. /\ tasks \subseteq F!Background /\ daemon \in {None, "running", "dead"}
        /\ {authority, wake} \subseteq BOOLEAN /\ authority
    BY <2>1 DEF LifeInv, F!TypeOK, WokenUnderAuthority
  <2>3. step' = next
    BY <2>1 DEF F!Then
  <2>4. DaemonInItsTime' /\ WokenUnderAuthority'
    BY <2>1, <2>2, <2>3 DEF DaemonInItsTime, WokenUnderAuthority, F!Stop
  <2>5. /\ tasks' \subseteq F!Background /\ {authority', wake'} \subseteq BOOLEAN
        /\ daemon' \in {None, "running", "dead"} /\ step # "down"
    BY <2>1, <2>2 DEF F!Stop
  <2>. QED  BY <2>1, <2>4, <2>5, ThenKeepsLife
<1>. QED  BY <1>1, <1>2

LEMMA WorkKeepsLife ==
  ASSUME F!LifespanConstants, LifeInv,
         \/ F!Notify \/ F!Tick \/ F!DaemonDies \/ F!FilesChange \/ F!Recheck \/ F!Kill
         \/ UNCHANGED F!vars
  PROVE  LifeInv'
<1>1. CASE F!Recheck \/ F!Kill
  <2>1. step # "down" /\ F!End("disorderly")
    BY <1>1 DEF F!Recheck, F!Kill, F!Exit
  <2>. QED  BY <2>1, EndKeepsLife DEF F!LifespanConstants
<1>2. CASE F!Notify \/ F!FilesChange \/ UNCHANGED F!vars
  <2>1. /\ UNCHANGED <<step, tasks, daemon, left, authority, unjudged, ends>>
        /\ files' \in {files, ~files}
        /\ wake' = wake \/ (step \in {"up"} \cup F!Stop /\ wake' = TRUE)
    BY Zenon, <1>2 DEF F!Notify, F!FilesChange, F!vars
  <2>2. {files', authority', wake', unjudged'} \subseteq BOOLEAN
    BY Zenon, <2>1 DEF LifeInv, F!TypeOK
  <2>3. WokenUnderAuthority'
    <3>1. step' = step /\ authority' = authority
      BY <2>1
    <3>2. step \notin {"up"} \cup F!Stop => ~wake'
      BY Zenon, <2>1 DEF LifeInv, WokenUnderAuthority
    <3>. QED  BY Zenon, <3>1, <3>2 DEF LifeInv, WokenUnderAuthority
  <2>4. F!TypeOK' /\ F!ServerIsOrderly' /\ DaemonInItsTime' /\ EndsAreCounted'
    BY <2>1, <2>2 DEF LifeInv, F!TypeOK, F!ServerIsOrderly, DaemonInItsTime, EndsAreCounted
  <2>. QED  BY <2>3, <2>4 DEF LifeInv
<1>3. CASE F!DaemonDies
  BY <1>3 DEF F!DaemonDies, F!LifespanConstants, LifeInv, F!TypeOK, F!ServerIsOrderly,
              DaemonInItsTime, WokenUnderAuthority, EndsAreCounted
<1>4. CASE F!Tick
  <2>1. authority
    BY <1>4 DEF F!Tick, LifeInv, WokenUnderAuthority
  <2>. QED  BY <1>4, <2>1 DEF F!Tick, LifeInv, F!TypeOK, F!ServerIsOrderly,
              DaemonInItsTime, WokenUnderAuthority, EndsAreCounted
<1>. QED  BY <1>1, <1>2, <1>3, <1>4

\* Every daemon process that outlives its server is of one that did not shut down, and
\* the worker takes no run before the authority judges them or after it is gone,
\* wherever in its start, its work or its shutdown a process is killed, for any number
\* of lives.
THEOREM LifeIsOrderly == F!LifespanConstants /\ F!Spec => [](F!TypeOK /\ F!ServerIsOrderly)
<1>. SUFFICES ASSUME F!LifespanConstants PROVE F!Spec => [](F!TypeOK /\ F!ServerIsOrderly)
  OBVIOUS
<1>1. ASSUME F!Init PROVE LifeInv
  <2>1. /\ ends \in [{"orderly", "disorderly"} -> 0 .. MaxEnds]
        /\ ends["orderly"] = 0 /\ ends["disorderly"] = 0
    BY <1>1 DEF F!LifespanConstants, F!Init
  <2>2. {files, authority, wake, unjudged} \subseteq BOOLEAN /\ ~wake /\ ~unjudged
    BY Zenon, <1>1 DEF F!Init
  <2>3. step = "down" /\ tasks = {} /\ daemon = None /\ left = 0
    BY Zenon, <1>1 DEF F!Init
  <2>. QED  BY <2>1, <2>2, <2>3
            DEF F!LifespanConstants, LifeInv, F!TypeOK, F!ServerIsOrderly, DaemonInItsTime,
                WokenUnderAuthority, EndsAreCounted, F!Stop
<1>2. LifeInv /\ [F!Next]_F!vars => LifeInv'
  BY BootKeepsLife, ShutdownKeepsLife, WorkKeepsLife DEF F!Next
<1>3. LifeInv => F!TypeOK /\ F!ServerIsOrderly
  BY DEF LifeInv
<1>. QED  BY <1>1, <1>2, <1>3, PTL DEF F!Spec

----------------------------------------------------------------------------
(* RepoSelection: the temporary file holds an override that was never in   *)
(* the file, whoever wrote it and whoever puts it in its place.            *)

Registry == [active : Repo \cup {None}, repos : SUBSET Repo]

Selects(pcs) ==
    [op : {"select"}, pc : pcs, repo : Repo, match : Nat \cup {None}, actions : BOOLEAN]

Revokes(pcs) == [op : {"revoke"}, pc : pcs, match : Nat \cup {None}]

Asks == [op : {"ask"}, pc : {"check"}]

Reads == Selects({"guard", "check"}) \cup Revokes({"check"}) \cup Asks

Requests ==
    {S!Quiet} \cup Reads \cup Selects({"write", "replace", "load"}) \cup Revokes({"delete"})
      \cup [pc : {"expire"}, then : Reads]
      \cup [op : {"register", "vitaminize"}, pc : {"load"}, repo : Repo]
      \cup [op : {"select", "register", "vitaminize"}, pc : {"save"}, repo : Repo,
            was : Registry]

FilesAreOrdered ==
    /\ override \in S!Override \cup {None} /\ draft \in S!Override \cup {None}
    /\ published \subseteq 1..sets /\ gone \subseteq published /\ expired \subseteq published
    /\ override # None => override.etag \in published \ gone
    /\ draft # None => draft.etag \in 1..sets /\ draft.etag \notin published

SelectionTypes ==
    /\ registry \in Registry /\ select \in [Caller -> Requests] /\ sets \in 0..MaxSets

SelectionInv == SelectionTypes /\ FilesAreOrdered

\* Where a request is.
LEMMA RequestsAt ==
  ASSUME NEW q \in Requests
  PROVE  /\ q.pc \in {"none", "guard", "check", "write", "replace", "load", "save", "expire",
                      "delete"}
         /\ q.pc \in {"guard", "check"} => q \in Reads
         /\ q.pc \in {"write", "replace"} => q \in Selects({"write", "replace"})
         /\ q.pc = "load" =>
               q.op \in {"select", "register", "vitaminize"} /\ q.repo \in Repo
         /\ q.pc = "save" =>
               /\ q.op \in {"select", "register", "vitaminize"} /\ q.repo \in Repo
               /\ q.was \in Registry
         /\ q.pc = "expire" => q.then \in Reads
BY DEF Requests, Reads, Selects, Revokes, Asks, S!Quiet

\* A request at its next step.
LEMMA RequestGoes ==
  ASSUME SelectionInv, NEW c \in Caller, NEW q \in Requests,
         select' = [select EXCEPT ![c] = q],
         registry' \in Registry, sets' \in 0..MaxSets
  PROVE  SelectionTypes'
BY DEF SelectionInv, SelectionTypes

LEMMA GotoIs ==
  ASSUME SelectionInv, NEW c \in Caller, NEW pc, S!Goto(c, pc)
  PROVE  select' = [select EXCEPT ![c] = [select[c] EXCEPT !.pc = pc]]
BY DEF SelectionInv, SelectionTypes, S!Goto

LEMMA FileUnchanged ==
  ASSUME SelectionInv, UNCHANGED S!File
  PROVE  FilesAreOrdered'
BY DEF SelectionInv, FilesAreOrdered, S!File

\* The file says something new, or nothing.
LEMMA PublishKeeps ==
  ASSUME S!RepoSelectionConstants, SelectionInv, NEW o, S!Publish(o), sets' = sets,
         expired' = expired,
         \/ o = None /\ draft' = draft
         \/ o = draft /\ o # None /\ draft' = None
  PROVE  FilesAreOrdered'
<1>1. /\ override' = o
      /\ published' = published \cup IF o = None THEN {} ELSE {o.etag}
      /\ gone' = gone \cup IF override \in {None, o} THEN {} ELSE {override.etag}
  BY DEF S!Publish
<1>2. CASE o = None /\ draft' = draft
  BY <1>1, <1>2 DEF SelectionInv, FilesAreOrdered
<1>3. CASE o = draft /\ o # None /\ draft' = None
  <2>1. /\ o \in S!Override /\ o.etag \in 1..sets /\ o.etag \notin published
        /\ override # o
    BY <1>3 DEF SelectionInv, FilesAreOrdered
  <2>2. published' = published \cup {o.etag}
    BY <1>1, <1>3
  <2>3. /\ gone' \subseteq published
        /\ gone \subseteq gone'
    BY <1>1, <2>1 DEF SelectionInv, FilesAreOrdered
  <2>. QED  BY <1>1, <1>3, <2>1, <2>2, <2>3 DEF SelectionInv, FilesAreOrdered
<1>. QED  BY <1>2, <1>3

LEMMA ReadKeeps ==
  ASSUME S!RepoSelectionConstants, SelectionInv, NEW c \in Caller, S!Read(c)
  PROVE  SelectionInv'
<1>1. FilesAreOrdered' /\ registry' \in Registry /\ sets' \in 0..MaxSets
  BY FileUnchanged DEF S!Read, S!File, SelectionInv, SelectionTypes
<1>2. select[c] \in Reads
  BY RequestsAt DEF S!Read, SelectionInv, SelectionTypes
<1>3. PICK q \in Requests : select' = [select EXCEPT ![c] = q]
  <2>1. [pc |-> "expire", then |-> select[c]] \in Requests /\ S!Quiet \in Requests
    BY <1>2 DEF Requests
  <2>2. CASE override # None /\ override.etag \in expired
    BY <2>1, <2>2 DEF S!Read
  <2>3. CASE ~(override # None /\ override.etag \in expired)
    <3>1. S!With(c, override)
      BY <2>3 DEF S!Read
    <3>2. CASE S!Return(c)
      BY <2>1, <3>2 DEF S!Return
    <3>3. CASE select[c].op = "revoke" /\ S!Goto(c, "delete")
      <4>1. select[c] \in Revokes({"check"})
        BY <1>2, <3>3 DEF Reads, Revokes, Selects, Asks
      <4>2. [select[c] EXCEPT !.pc = "delete"] \in Revokes({"delete"})
        BY <4>1 DEF Revokes
      <4>. QED  BY <3>3, <4>2, GotoIs DEF Requests
    <3>4. CASE /\ select[c].op \notin {"ask", "revoke"}
               /\ (S!Goto(c, "check") \/ S!Goto(c, "write"))
      <4>1. select[c] \in Selects({"guard", "check"})
        BY <1>2, <3>4 DEF Reads, Revokes, Selects, Asks
      <4>2. /\ [select[c] EXCEPT !.pc = "check"] \in Requests
            /\ [select[c] EXCEPT !.pc = "write"] \in Requests
        BY <4>1 DEF Selects, Requests, Reads
      <4>. QED  BY <3>4, <4>2, GotoIs
    <3>5. \/ S!Return(c)
          \/ select[c].op = "revoke" /\ S!Goto(c, "delete")
          \/ select[c].op \notin {"ask", "revoke"} /\ (S!Goto(c, "check") \/ S!Goto(c, "write"))
      BY <3>1 DEF S!With
    <3>. QED  BY <3>2, <3>3, <3>4, <3>5
  <2>. QED  BY <2>2, <2>3
<1>. QED  BY <1>1, <1>3, RequestGoes DEF SelectionInv

LEMMA ExpireKeeps ==
  ASSUME S!RepoSelectionConstants, SelectionInv, NEW c \in Caller, S!Expire(c)
  PROVE  SelectionInv'
<1>1. FilesAreOrdered' /\ registry' \in Registry /\ sets' \in 0..MaxSets
  BY PublishKeeps DEF S!Expire, SelectionInv, SelectionTypes
<1>. DEFINE then == select[c].then
<1>2. then \in Reads
  BY RequestsAt DEF S!Expire, SelectionInv, SelectionTypes
<1>3. PICK q \in Requests : select' = [select EXCEPT ![c] = q]
  <2>1. select' = [select EXCEPT ![c] =
              CASE then.op \in {"ask", "revoke"} -> S!Quiet
                [] then.pc = "guard" -> [then EXCEPT !.pc = "check"]
                [] OTHER -> [then EXCEPT !.pc = "write"]]
    BY DEF S!Expire
  <2>. HIDE DEF then
  <2>2. CASE then.op \in {"ask", "revoke"}
    <3>1. S!Quiet \in Requests
      BY DEF Requests
    <3>2. then.pc # "guard"
      BY <1>2, <2>2 DEF Reads, Revokes, Selects, Asks
    <3>3. select' = [select EXCEPT ![c] = S!Quiet]
      BY <2>1, <2>2, <3>2
    <3>. QED  BY <3>1, <3>3
  <2>3. CASE then.op \notin {"ask", "revoke"}
    <3>1. then \in Selects({"guard", "check"})
      BY <1>2, <2>3 DEF Reads, Revokes, Selects, Asks
    <3>2. /\ [then EXCEPT !.pc = "check"] \in Requests
          /\ [then EXCEPT !.pc = "write"] \in Requests
      BY <3>1 DEF Selects, Requests, Reads
    <3>. QED  BY <2>1, <2>3, <3>2
  <2>. QED  BY <2>2, <2>3
<1>. QED  BY <1>1, <1>3, RequestGoes DEF SelectionInv

LEMMA WriteKeeps ==
  ASSUME S!RepoSelectionConstants, SelectionInv, NEW c \in Caller,
         S!WriteDraft(c) \/ S!Replace(c) \/ S!Delete(c)
  PROVE  SelectionInv'
<1>1. registry' \in Registry /\ S!Quiet \in Requests /\ select \in [Caller -> Requests]
  BY DEF S!WriteDraft, S!Replace, S!Delete, SelectionInv, SelectionTypes, Requests
<1>2. CASE S!WriteDraft(c)
  <2>1. select[c] \in Selects({"write", "replace"})
    BY <1>1, <1>2, RequestsAt DEF S!WriteDraft
  <2>2. [select[c] EXCEPT !.pc = "replace"] \in Requests /\ select[c].repo \in Repo
    BY <2>1 DEF Selects, Requests
  <2>3. sets' = sets + 1 /\ sets' \in 0..MaxSets
    BY <1>2 DEF S!WriteDraft, S!RepoSelectionConstants, SelectionInv, SelectionTypes
  <2>4. SelectionTypes'
    BY <1>1, <1>2, <2>2, <2>3, GotoIs, RequestGoes DEF S!WriteDraft
  <2>5. draft' = [etag |-> sets + 1, repo |-> select[c].repo]
    BY <1>2 DEF S!WriteDraft
  <2>6. /\ draft' \in S!Override /\ draft'.etag = sets'
        /\ sets \in Nat
    BY <2>2, <2>3, <2>5
       DEF S!Override, S!Etag, S!RepoSelectionConstants, SelectionInv, SelectionTypes
  <2>7. FilesAreOrdered'
    BY <1>2, <2>3, <2>6 DEF S!WriteDraft, SelectionInv, FilesAreOrdered
  <2>. QED  BY <2>4, <2>7 DEF SelectionInv
<1>3. CASE S!Replace(c)
  <2>1. select[c] \in Selects({"write", "replace"})
    BY <1>1, <1>3, RequestsAt DEF S!Replace
  <2>2. [select[c] EXCEPT !.pc = "load"] \in Requests
    BY <2>1 DEF Selects, Requests
  <2>3. SelectionTypes'
    <3>1. sets' \in 0..MaxSets
      BY <1>3 DEF S!Replace, SelectionInv, SelectionTypes
    <3>. QED  BY <1>1, <1>3, <2>2, <3>1, GotoIs, RequestGoes DEF S!Replace, S!Return
  <2>4. FilesAreOrdered'
    <3>1. CASE draft = None
      BY <1>3, <3>1 DEF S!Replace, SelectionInv, FilesAreOrdered
    <3>2. CASE draft # None
      <4>1. S!Publish(draft) /\ draft' = None /\ sets' = sets /\ expired' = expired
        BY <1>3, <3>2 DEF S!Replace
      <4>. QED  BY <3>2, <4>1, PublishKeeps
    <3>. QED  BY <3>1, <3>2
  <2>. QED  BY <2>3, <2>4 DEF SelectionInv
<1>4. CASE S!Delete(c)
  <2>1. sets' \in 0..MaxSets
    BY <1>4 DEF S!Delete, SelectionInv, SelectionTypes
  <2>2. SelectionTypes'
    BY <1>1, <1>4, <2>1, RequestGoes DEF S!Delete, S!Return
  <2>3. FilesAreOrdered'
    BY <1>4, PublishKeeps DEF S!Delete
  <2>. QED  BY <2>2, <2>3 DEF SelectionInv
<1>. QED  BY <1>2, <1>3, <1>4

LEMMA RegisterKeeps ==
  ASSUME S!RepoSelectionConstants, SelectionInv, NEW c \in Caller, S!Load(c) \/ S!Save(c)
  PROVE  SelectionInv'
<1>1. select \in [Caller -> Requests] /\ S!Quiet \in Requests /\ sets' \in 0..MaxSets
  BY DEF S!Load, S!Save, S!File, SelectionInv, SelectionTypes, Requests
<1>2. FilesAreOrdered'
  BY FileUnchanged DEF S!Load, S!Save
<1>3. CASE S!Load(c)
  <2>. DEFINE q == [op |-> select[c].op, pc |-> "save", repo |-> select[c].repo,
                    was |-> registry]
  <2>1. registry \in Registry /\ registry' = registry /\ select' = [select EXCEPT ![c] = q]
    BY <1>3 DEF S!Load, SelectionInv, SelectionTypes
  <2>2. q \in Requests
    BY <1>1, <1>3, <2>1, RequestsAt DEF S!Load, Requests
  <2>. QED  BY <1>1, <1>2, <2>1, <2>2, RequestGoes DEF SelectionInv
<1>4. CASE S!Save(c)
  <2>1. select[c].repo \in Repo /\ select[c].was \in Registry
    BY <1>1, <1>4, RequestsAt DEF S!Save
  <2>2. /\ [select[c].was EXCEPT !.repos = @ \cup {select[c].repo}] \in Registry
        /\ [select[c].was EXCEPT !.active = select[c].repo] \in Registry
    BY <2>1 DEF Registry
  <2>3. registry' \in Registry /\ select' = [select EXCEPT ![c] = S!Quiet]
    BY <1>4, <2>2 DEF S!Save, S!Return
  <2>. QED  BY <1>1, <1>2, <2>3, RequestGoes DEF SelectionInv
<1>. QED  BY <1>3, <1>4

LEMMA RequestKeeps ==
  ASSUME S!RepoSelectionConstants, SelectionInv, NEW c \in Caller,
         S!Select(c) \/ S!Revoke(c) \/ S!Ask(c) \/ S!Register(c)
  PROVE  SelectionInv'
<1>1. registry' \in Registry /\ sets' \in 0..MaxSets /\ published \subseteq Nat
  BY DEF S!Select, S!Revoke, S!Ask, S!Register, S!File, SelectionInv, SelectionTypes,
         FilesAreOrdered
<1>2. FilesAreOrdered'
  BY FileUnchanged DEF S!Select, S!Revoke, S!Ask, S!Register
<1>3. PICK q \in Requests : select' = [select EXCEPT ![c] = q]
  <2>1. CASE S!Select(c)
    <3>1. PICK r \in Repo, m \in published \cup {None}, actions \in BOOLEAN :
             select' = [select EXCEPT ![c] = [op |-> "select", pc |-> "guard", repo |-> r,
                                              match |-> m, actions |-> actions]]
      BY <2>1 DEF S!Select
    <3>2. [op |-> "select", pc |-> "guard", repo |-> r, match |-> m, actions |-> actions]
             \in Requests
      BY <1>1 DEF Requests, Reads, Selects
    <3>. QED  BY <3>1, <3>2
  <2>2. CASE S!Revoke(c)
    <3>1. PICK m \in published \cup {None} :
             select' = [select EXCEPT ![c] = [op |-> "revoke", pc |-> "check", match |-> m]]
      BY <2>2 DEF S!Revoke
    <3>2. [op |-> "revoke", pc |-> "check", match |-> m] \in Requests
      BY <1>1 DEF Requests, Reads, Revokes
    <3>. QED  BY <3>1, <3>2
  <2>3. CASE S!Ask(c)
    <3>1. [op |-> "ask", pc |-> "check"] \in Requests
      BY DEF Requests, Reads, Asks
    <3>. QED  BY <2>3, <3>1 DEF S!Ask
  <2>4. CASE S!Register(c)
    <3>1. PICK r \in Repo, vital \in BOOLEAN :
             select' = [select EXCEPT ![c] =
                          [op |-> IF vital THEN "vitaminize" ELSE "register",
                           pc |-> "load", repo |-> r]]
      BY <2>4 DEF S!Register
    <3>2. [op |-> IF vital THEN "vitaminize" ELSE "register", pc |-> "load", repo |-> r]
             \in Requests
      BY DEF Requests
    <3>. QED  BY <3>1, <3>2
  <2>. QED  BY <2>1, <2>2, <2>3, <2>4
<1>. QED  BY <1>1, <1>2, <1>3, RequestGoes DEF SelectionInv

\* An override that was replaced, revoked or deleted never comes back, for any number of
\* requests on any repositories, although they read and write the file in turns and two
\* of them may write one temporary file.
THEOREM SelectionHolds ==
  S!RepoSelectionConstants /\ S!Spec => [](S!TypeOK /\ S!NoneReturns)
<1>. SUFFICES ASSUME S!RepoSelectionConstants PROVE S!Spec => [](S!TypeOK /\ S!NoneReturns)
  OBVIOUS
<1>1. ASSUME S!Init PROVE SelectionInv
  <2>1. S!Quiet \in Requests
    BY DEF Requests
  <2>2. registry \in Registry
    BY <1>1 DEF S!Init, Registry
  <2>. QED  BY <1>1, <2>1, <2>2
            DEF S!Init, S!RepoSelectionConstants, SelectionInv, SelectionTypes, FilesAreOrdered
<1>2. ASSUME SelectionInv, [S!Next]_(S!vars) PROVE SelectionInv'
  <2>1. CASE S!Elapse
    BY <1>2, <2>1 DEF S!Elapse, SelectionInv, SelectionTypes, FilesAreOrdered
  <2>2. CASE UNCHANGED S!vars
    BY <1>2, <2>2 DEF S!vars, SelectionInv, SelectionTypes, FilesAreOrdered
  <2>. QED  BY <1>2, <2>1, <2>2, ReadKeeps, ExpireKeeps, WriteKeeps, RegisterKeeps,
               RequestKeeps
            DEF S!Next
<1>3. ASSUME SelectionInv PROVE S!TypeOK /\ S!NoneReturns
  <2>1. /\ registry \in Registry /\ select \in [Caller -> Requests] /\ sets \in 0..MaxSets
        /\ FilesAreOrdered
    BY <1>3 DEF SelectionInv, SelectionTypes
  <2>2. \A c \in Caller :
           select[c].pc \in {"none", "guard", "check", "write", "replace", "load", "save",
                             "expire", "delete"}
    BY <2>1, RequestsAt
  <2>3. S!NoneReturns
    BY <2>1 DEF FilesAreOrdered, S!NoneReturns
  <2>. QED  BY <2>1, <2>2, <2>3 DEF FilesAreOrdered, S!TypeOK, Registry
<1>. QED  BY <1>1, <1>2, <1>3, PTL DEF S!Spec

----------------------------------------------------------------------------
(* Access: what the licence's files say of the days before, and when a     *)
(* server looks at the licence again.                                      *)

Plans == {"cold", "online", "offline"}

Caches == [iat : 0..MaxDay, last : Int, version : Nat, hash : Nat, machine : SUBSET Signal]

Acceptances == [day : 0..MaxDay, clock : Int]

Rooms == [blob : Blob, used : SUBSET Blob, machine : SUBSET Signal]

Asking == [at : {"asking"}, attempt : 1..Attempts]

Ups == [at : {"up"}, plan : Plans, since : Int, next : 0..(MaxDay + 1)]

Rechecks == [at : {"recheck"}, plan : Plans, since : Int, attempt : 1..Attempts]

Servers == {B!Down} \cup [at : {"limited"}] \cup Asking \cup Ups \cup Rechecks

LicenseTypes ==
    /\ day \in 0..MaxDay /\ skew \in Skews /\ accepted \subseteq Acceptances
    /\ machine \subseteq Signal
    /\ software \in [version : Nat, hash : Nat]
    /\ server \in Servers /\ cache \in Caches \cup {None} /\ room \in Rooms \cup {None}

\* The file is of one of the acceptances.
FilesTell ==
    /\ \A a \in accepted : a.day <= day /\ a.clock - a.day \in Skews
    /\ cache # None => [day |-> cache.iat, clock |-> cache.last] \in accepted
    /\ room # None => room.blob \in room.used /\ MachineOf[room.blob] = room.machine

ServerInTime == server.at = "up" => server.next <= day + 1

RunsLicensed ==
    /\ server.at \in {"up", "recheck"} =>
          /\ server.plan = "cold" =>
                \E b \in Blob : MachineOf[b] = machine /\ server.since <= ExpiryOf[b]
          /\ server.plan = "online" => accepted # {}
          /\ server.plan = "offline" =>
                \E a \in accepted : a.day <= server.since /\ server.since - a.clock <= Grace
    /\ server.at = "limited" => B!Paired # None

\* After a day with a rejected licence the server looks at it before another.
OverdueInTime ==
    /\ overdue \in Nat
    /\ overdue > 0 => network /\ rejected /\ server.at \in {"up", "recheck"}
    /\ ~cold /\ overdue > 0 => overdue = 1 /\ (server.at = "up" => server.next <= day)

LicenseInv == LicenseTypes /\ FilesTell /\ ServerInTime /\ RunsLicensed /\ OverdueInTime

LEMMA ServersAt ==
  ASSUME NEW x \in Servers
  PROVE  /\ x.at \in {"down", "asking", "limited", "up", "recheck"}
         /\ x.at = "asking" => x \in Asking
         /\ x.at = "up" => x \in Ups
         /\ x.at = "recheck" => x \in Rechecks
BY DEF Servers, Asking, Ups, Rechecks, B!Down

LEMMA ClockType ==
  ASSUME B!AccessConstants, LicenseInv
  PROVE  B!Clock = day + skew /\ B!Clock \in Int /\ day \in Nat
BY DEF B!Clock, B!AccessConstants, LicenseInv, LicenseTypes

\* The files and the rejection do not change with the server.
LEMMA ServerChanges ==
  ASSUME B!AccessConstants, LicenseInv, server' \in Servers, ServerInTime', RunsLicensed',
         UNCHANGED <<B!World, cache, room, accepted>>,
         overdue' = 0
  PROVE  LicenseInv'
<1>1. LicenseTypes' /\ FilesTell'
  BY DEF LicenseInv, LicenseTypes, FilesTell, B!World
<1>. QED  BY <1>1 DEF LicenseInv, OverdueInTime

LEMMA NotOverdue ==
  ASSUME B!AccessConstants, LicenseInv, ~(network /\ rejected) \/ server.at \notin {"up", "recheck"}
  PROVE  overdue = 0
BY DEF LicenseInv, OverdueInTime

LEMMA StartKeepsLicense ==
  ASSUME B!AccessConstants, LicenseInv, B!Start
  PROVE  LicenseInv'
<1>1. /\ server = B!Down /\ server.at = "down" /\ day \in 0..MaxDay
      /\ UNCHANGED <<B!World, cache, room, accepted, overdue>>
  BY DEF B!Start, B!Down, LicenseInv, LicenseTypes
<1>2. overdue' = 0
  BY <1>1, NotOverdue
<1>3. day' = day /\ machine' = machine /\ room' = room
  BY <1>1 DEF B!World
<1>4. \/ B!Paired # None /\ B!Clock <= ExpiryOf[B!Paired.blob] /\ server' = B!Up("cold")
      \/ B!Paired # None /\ server' = [at |-> "limited"]
      \/ server' = B!Down
      \/ server' = [at |-> "asking", attempt |-> 1]
  <2>1. CASE cold /\ B!Paired # None
    <3>1. server' = IF B!Clock <= ExpiryOf[B!Paired.blob] THEN B!Up("cold") ELSE [at |-> "limited"]
      BY <2>1 DEF B!Start
    <3>. QED  BY <2>1, <3>1
  <2>2. CASE ~(cold /\ B!Paired # None)
    BY <2>2 DEF B!Start
  <2>. QED  BY <2>1, <2>2
<1>5. CASE B!Paired # None /\ B!Clock <= ExpiryOf[B!Paired.blob] /\ server' = B!Up("cold")
  <2>1. room \in Rooms /\ B!Paired = room /\ MachineOf[room.blob] = machine
    BY <1>5 DEF B!Paired, B!Loaded, LicenseInv, LicenseTypes, FilesTell
  <2>2. server' = [at |-> "up", plan |-> "cold", since |-> B!Clock, next |-> day + 1]
    BY <1>5 DEF B!Up
  <2>3. server' \in Servers /\ ServerInTime'
    BY <1>1, <1>3, <2>2, ClockType DEF Servers, Ups, Plans, ServerInTime, B!AccessConstants
  <2>4. room.blob \in Blob /\ B!Clock <= ExpiryOf[room.blob]
    BY <1>5, <2>1 DEF Rooms
  <2>5. RunsLicensed'
    BY <1>3, <2>1, <2>2, <2>4 DEF RunsLicensed
  <2>. QED  BY <1>1, <1>2, <2>3, <2>5, ServerChanges
<1>6. CASE B!Paired # None /\ server' = [at |-> "limited"]
  <2>1. B!Paired' = B!Paired
    BY <1>3 DEF B!Paired, B!Loaded
  <2>2. server' \in Servers /\ ServerInTime' /\ RunsLicensed'
    BY <1>6, <2>1 DEF Servers, ServerInTime, RunsLicensed
  <2>. QED  BY <1>1, <1>2, <2>2, ServerChanges
<1>7. CASE server' \in {B!Down, [at |-> "asking", attempt |-> 1]}
  <2>1. server' \in Servers /\ server'.at \in {"down", "asking"}
    BY <1>7 DEF Servers, Asking, B!Down, B!AccessConstants
  <2>2. ServerInTime' /\ RunsLicensed'
    BY <2>1 DEF ServerInTime, RunsLicensed
  <2>. QED  BY <1>1, <1>2, <2>1, <2>2, ServerChanges
<1>. QED  BY <1>4, <1>5, <1>6, <1>7

LEMMA AcceptKeepsLicense ==
  ASSUME B!AccessConstants, LicenseInv, B!Accept
  PROVE  LicenseInv'
<1>. DEFINE Now == [day |-> day, clock |-> B!Clock]
<1>1. /\ day \in 0..MaxDay /\ MaxDay \in Nat /\ UNCHANGED <<B!World, room>>
      /\ day' = day /\ skew' = skew /\ machine' = machine /\ cold' = cold
      /\ software' = software /\ overdue' = 0
      /\ machine \in SUBSET Signal /\ software \in [version : Nat, hash : Nat]
  BY DEF B!Accept, B!World, LicenseInv, LicenseTypes, B!AccessConstants
<1>2. /\ Now \in Acceptances /\ Now.day <= day /\ Now.clock - Now.day \in Skews
  <2>1. B!Clock - day = skew /\ skew \in Skews
    BY ClockType DEF LicenseInv, LicenseTypes, B!AccessConstants
  <2>. QED  BY <1>1, <2>1, ClockType DEF Acceptances
<1>3. PICK from \in Int :
         server' = [at |-> "up", plan |-> "online", since |-> from, next |-> day + 1]
  <2>1. B!Up("online") = [at |-> "up", plan |-> "online", since |-> B!Clock, next |-> day + 1]
    BY DEF B!Up
  <2>2. CASE server.at = "asking"
    BY <2>1, <2>2, ClockType DEF B!Accept
  <2>3. CASE server.at = "recheck"
    <3>1. server.since \in Int
      BY <2>3, ServersAt DEF LicenseInv, LicenseTypes, Rechecks
    <3>. QED  BY <2>1, <2>3, <3>1 DEF B!Accept
  <2>. QED  BY <2>2, <2>3 DEF B!Accept
<1>4. server' \in Servers /\ ServerInTime'
  BY <1>1, <1>3 DEF Servers, Ups, Plans, ServerInTime
<1>5. \/ /\ cache' = [iat |-> day, last |-> B!Clock, version |-> software.version,
                     hash |-> software.hash, machine |-> machine]
         /\ accepted' = {Now}
      \/ cache' = cache /\ accepted' = accepted \cup {Now}
  BY DEF B!Accept, B!SaveCache
<1>6. RunsLicensed'
  BY <1>3, <1>5 DEF RunsLicensed
<1>7. /\ cache' \in Caches \cup {None} /\ accepted' \subseteq Acceptances
      /\ cache' # None => [day |-> cache'.iat, clock |-> cache'.last] \in accepted'
  <2>1. CASE cache' = cache /\ accepted' = accepted \cup {Now}
    BY <1>2, <2>1 DEF LicenseInv, LicenseTypes, FilesTell
  <2>2. CASE /\ cache' = [iat |-> day, last |-> B!Clock, version |-> software.version,
                          hash |-> software.hash, machine |-> machine]
             /\ accepted' = {Now}
    <3>1. cache' \in Caches
      BY <1>1, <2>2, ClockType DEF Caches
    <3>2. cache'.iat = day /\ cache'.last = B!Clock
      BY <2>2
    <3>. QED  BY <1>2, <2>2, <3>1, <3>2
  <2>. QED  BY <1>5, <2>1, <2>2
<1>8. LicenseTypes'
  BY <1>1, <1>4, <1>7 DEF LicenseInv, LicenseTypes
<1>9. \A a \in accepted' : a.day <= day' /\ a.clock - a.day \in Skews
  BY <1>1, <1>2, <1>5 DEF LicenseInv, FilesTell
<1>10. FilesTell'
  BY <1>1, <1>7, <1>9 DEF LicenseInv, FilesTell
<1>. QED  BY <1>1, <1>4, <1>6, <1>8, <1>10 DEF LicenseInv, OverdueInTime

\* The server is down.
LEMMA DownKeepsLicense ==
  ASSUME B!AccessConstants, LicenseInv, B!Reject \/ B!Stop
  PROVE  LicenseInv'
<1>1. /\ UNCHANGED <<B!World, cache, room, accepted>>
      /\ server' = B!Down /\ overdue' = 0
  BY DEF B!Reject, B!Stop
<1>2. server' \in Servers /\ server'.at = "down"
  BY <1>1 DEF Servers, B!Down
<1>3. ServerInTime' /\ RunsLicensed'
  BY <1>2 DEF ServerInTime, RunsLicensed
<1>. QED  BY <1>1, <1>2, <1>3, ServerChanges

LEMMA GiveUpKeepsLicense ==
  ASSUME B!AccessConstants, LicenseInv, B!GiveUp
  PROVE  LicenseInv'
<1>1. /\ UNCHANGED <<B!World, cache, room, accepted, overdue>> /\ ~network
      /\ day' = day /\ machine' = machine /\ accepted' = accepted /\ day \in 0..MaxDay
      /\ MaxDay \in Nat
  BY DEF B!GiveUp, B!World, LicenseInv, LicenseTypes, B!AccessConstants
<1>2. overdue' = 0
  BY <1>1, NotOverdue
<1>3. server \in Asking \/ server \in Rechecks
  BY ServersAt DEF B!GiveUp, LicenseInv, LicenseTypes
<1>4. CASE server.attempt < Attempts
  <2>1. server' = [server EXCEPT !.attempt = server.attempt + 1]
    BY <1>4 DEF B!GiveUp
  <2>2. CASE server \in Asking
    <3>1. server' \in Asking /\ server'.at = "asking"
      BY <1>4, <2>1, <2>2 DEF Asking, B!AccessConstants
    <3>. QED  BY <1>1, <1>2, <3>1, ServerChanges DEF Servers, ServerInTime, RunsLicensed
  <2>3. CASE server \in Rechecks
    <3>1. /\ server' \in Rechecks /\ server'.at = "recheck" /\ server.at = "recheck"
          /\ server'.plan = server.plan /\ server'.since = server.since
      BY <1>4, <2>1, <2>3 DEF Rechecks, B!AccessConstants
    <3>2. ServerInTime' /\ RunsLicensed'
      BY <1>1, <3>1 DEF LicenseInv, ServerInTime, RunsLicensed
    <3>. QED  BY <1>1, <1>2, <3>1, <3>2, ServerChanges DEF Servers
  <2>. QED  BY <1>3, <2>2, <2>3
<1>5. CASE ~(server.attempt < Attempts) /\ server.at = "recheck"
  <2>1. server' = [at |-> "up", plan |-> server.plan, since |-> server.since,
                   next |-> day + 1]
    BY <1>5 DEF B!GiveUp
  <2>2. server.plan \in Plans /\ server.since \in Int
    BY <1>5, ServersAt DEF LicenseInv, LicenseTypes, Rechecks
  <2>3. server' \in Servers
    BY <1>1, <2>1, <2>2 DEF Servers, Ups
  <2>4. ServerInTime' /\ RunsLicensed'
    BY <1>1, <1>5, <2>1 DEF LicenseInv, ServerInTime, RunsLicensed
  <2>. QED  BY <1>1, <1>2, <2>3, <2>4, ServerChanges
<1>6. CASE /\ ~(server.attempt < Attempts) /\ server.at # "recheck"
           /\ B!ValidOffline
  <2>1. server' = [at |-> "up", plan |-> "offline", since |-> B!Clock, next |-> day + 1]
    BY <1>6 DEF B!GiveUp, B!Up
  <2>2. server' \in Servers /\ ServerInTime'
    BY <1>1, <2>1, ClockType DEF Servers, Ups, Plans, ServerInTime
  <2>3. /\ [day |-> cache.iat, clock |-> cache.last] \in accepted
        /\ cache.iat <= B!Clock /\ B!Clock - cache.last <= Grace
    <3>1. cache # None /\ cache \in Caches
      BY <1>6 DEF B!ValidOffline, B!Cached, B!Loaded, LicenseInv, LicenseTypes
    <3>2. B!Cached = cache
      BY <1>6 DEF B!ValidOffline, B!Cached, B!Loaded
    <3>3. B!Clock >= cache.iat /\ B!Clock - cache.last <= Grace
      BY <1>6, <3>2 DEF B!ValidOffline
    <3>4. cache.iat \in Int
      BY <3>1 DEF Caches
    <3>. QED  BY <3>1, <3>3, <3>4, ClockType DEF LicenseInv, FilesTell
  <2>4. RunsLicensed'
    <3>1. \E a \in accepted' : a.day <= server'.since /\ server'.since - a.clock <= Grace
      BY <1>1, <2>1, <2>3
    <3>. QED  BY <2>1, <3>1 DEF RunsLicensed
  <2>. QED  BY <1>1, <1>2, <2>2, <2>4, ServerChanges
<1>7. CASE server' = B!Down
  <2>1. server' \in Servers /\ ServerInTime' /\ RunsLicensed'
    BY <1>7 DEF Servers, B!Down, ServerInTime, RunsLicensed
  <2>. QED  BY <1>1, <1>2, <2>1, ServerChanges
<1>. QED  BY <1>4, <1>5, <1>6, <1>7 DEF B!GiveUp

LEMMA RecheckKeepsLicense ==
  ASSUME B!AccessConstants, LicenseInv, B!Recheck
  PROVE  LicenseInv'
<1>1. /\ UNCHANGED <<cache, room, accepted, overdue>> /\ B!World' = B!World
      /\ day' = day /\ skew' = skew /\ machine' = machine /\ cold' = cold /\ network' = network
      /\ rejected' = rejected /\ software' = software
      /\ day \in 0..MaxDay /\ MaxDay \in Nat /\ server.next <= day
  BY DEF B!Recheck, B!World, LicenseInv, LicenseTypes, B!AccessConstants
<1>2. server.at = "up" /\ server \in Ups
  BY ServersAt DEF B!Recheck, LicenseInv, LicenseTypes
<1>3. /\ server' \in Servers /\ server'.at \in {"up", "recheck"}
      /\ server'.plan = server.plan /\ server'.since = server.since
      /\ server'.at = "up" => cold /\ server'.next = day + 1
  <2>1. CASE cold
    <3>1. server' = [server EXCEPT !.next = day + 1]
      BY <2>1 DEF B!Recheck
    <3>2. server' \in Ups /\ server'.next = day + 1
      BY <1>1, <1>2, <3>1 DEF Ups
    <3>. QED  BY <1>2, <2>1, <3>1, <3>2 DEF Ups, Servers
  <2>2. CASE ~cold
    <3>1. server' = [at |-> "recheck", plan |-> server.plan, since |-> server.since,
                     attempt |-> 1]
      BY <2>2 DEF B!Recheck
    <3>2. server' \in Rechecks
      BY <1>2, <3>1 DEF Ups, Rechecks, B!AccessConstants
    <3>. QED  BY <3>1, <3>2 DEF Servers
  <2>. QED  BY <2>1, <2>2
<1>4. LicenseTypes' /\ FilesTell'
  BY <1>1, <1>3 DEF LicenseInv, LicenseTypes, FilesTell
<1>5. ServerInTime' /\ RunsLicensed'
  BY <1>1, <1>2, <1>3 DEF LicenseInv, ServerInTime, RunsLicensed
<1>6. OverdueInTime'
  BY <1>1, <1>2, <1>3 DEF LicenseInv, OverdueInTime
<1>. QED  BY <1>4, <1>5, <1>6 DEF LicenseInv

LEMMA ActivateKeepsLicense ==
  ASSUME B!AccessConstants, LicenseInv, NEW b \in Blob, B!Activate(b)
  PROVE  LicenseInv'
<1>1. /\ UNCHANGED <<cold, day, skew, machine, network, rejected, software, cache, server,
                     accepted, overdue>>
      /\ machine \in SUBSET Signal /\ MachineOf[b] = machine
      /\ room' = [blob |-> b, used |-> B!Remembered \cup {b}, machine |-> machine]
  BY DEF B!Activate, B!World, LicenseInv, LicenseTypes
<1>2. B!Remembered \subseteq Blob
  BY DEF B!Remembered, B!Paired, B!Loaded, LicenseInv, LicenseTypes, Rooms
<1>3. room' \in Rooms
  BY <1>1, <1>2 DEF Rooms
<1>4. LicenseTypes' /\ FilesTell'
  BY <1>1, <1>3 DEF LicenseInv, LicenseTypes, FilesTell
<1>5. B!Paired' = room' /\ room' # None
  BY <1>1, <1>3 DEF Rooms, B!Paired, B!Loaded, B!AccessConstants
<1>6. ServerInTime' /\ RunsLicensed' /\ OverdueInTime'
  BY <1>1, <1>5 DEF LicenseInv, ServerInTime, RunsLicensed, OverdueInTime
<1>. QED  BY <1>4, <1>6 DEF LicenseInv

LEMMA WorldKeepsLicense ==
  ASSUME B!AccessConstants, LicenseInv,
         B!NetworkChanges \/ B!LicenceChanges \/ B!MachineChanges \/ B!Release \/ B!ClockChanges
  PROVE  LicenseInv'
<1>1. /\ UNCHANGED <<cold, day, cache, room, server, accepted>>
      /\ skew' \in Skews /\ machine' \subseteq Signal /\ software' \in [version : Nat, hash : Nat]
  <2>1. \A bump \in {0, 1} : [version |-> 1 + bump, hash |-> 2] \in [version : Nat, hash : Nat]
    OBVIOUS
  <2>. QED  BY <2>1 DEF B!NetworkChanges, B!LicenceChanges, B!MachineChanges, B!Release, B!ClockChanges,
               B!Keep,
               LicenseInv, LicenseTypes
<1>2. machine' = machine \/ server.at = "down"
  BY DEF B!NetworkChanges, B!LicenceChanges, B!MachineChanges, B!Release, B!ClockChanges,
         B!Down
<1>3. overdue' = 0 \/ (UNCHANGED <<overdue, network, rejected>>)
  BY DEF B!NetworkChanges, B!LicenceChanges, B!MachineChanges, B!Release, B!ClockChanges
<1>4. LicenseTypes' /\ FilesTell' /\ ServerInTime'
  BY <1>1 DEF LicenseInv, LicenseTypes, FilesTell, ServerInTime
<1>5. RunsLicensed'
  BY <1>1, <1>2 DEF LicenseInv, RunsLicensed, B!Paired, B!Loaded
<1>6. OverdueInTime'
  BY <1>1, <1>3 DEF LicenseInv, OverdueInTime
<1>. QED  BY <1>4, <1>5, <1>6 DEF LicenseInv

LEMMA PassKeepsLicense ==
  ASSUME B!AccessConstants, LicenseInv, B!Pass
  PROVE  LicenseInv'
<1>1. /\ UNCHANGED <<cold, skew, machine, network, rejected, software, cache, room, server,
                     accepted>>
      /\ day \in 0..MaxDay /\ day < MaxDay /\ day' = day + 1 /\ MaxDay \in Nat
      /\ server.at \in {"down", "limited", "up"}
      /\ server.at = "up" => server.next > day
  BY DEF B!Pass, B!Keep, LicenseInv, LicenseTypes, B!AccessConstants
<1>2. server.at = "up" => server.next \in 0..(MaxDay + 1)
  BY ServersAt DEF LicenseInv, LicenseTypes, Ups
<1>3. \A a \in accepted : a.day <= day'
  BY <1>1 DEF LicenseInv, LicenseTypes, FilesTell, Acceptances
<1>4. LicenseTypes' /\ FilesTell'
  BY <1>1, <1>3 DEF LicenseInv, LicenseTypes, FilesTell
<1>5. ServerInTime'
  BY <1>1, <1>2 DEF LicenseInv, ServerInTime
<1>6. RunsLicensed'
  BY <1>1 DEF LicenseInv, RunsLicensed, B!Paired, B!Loaded
<1>7. overdue' = IF server.at = "up" /\ network /\ rejected THEN overdue + 1 ELSE 0
  BY <1>1 DEF B!Pass, B!Running
<1>8. OverdueInTime'
  <2>1. CASE overdue' = 0
    BY <2>1 DEF OverdueInTime
  <2>2. CASE server.at = "up" /\ network /\ rejected /\ overdue' = overdue + 1
    <3>1. overdue \in Nat /\ (~cold => overdue = 0) /\ server.next <= day'
      BY <1>1, <1>2, <2>2 DEF LicenseInv, OverdueInTime, ServerInTime
    <3>. QED  BY <1>1, <2>2, <3>1 DEF OverdueInTime
  <2>. QED  BY <1>7, <2>1, <2>2
<1>. QED  BY <1>4, <1>5, <1>6, <1>8 DEF LicenseInv

\* A server that runs was accepted, or had a blob of that day, and one that started
\* offline did so by a clock between the day of the acceptance its file is of and the
\* end of the grace period, for any machines, blobs, periods and settings of the clock;
\* and it does not run for more than a day with a licence it can see is rejected.
THEOREM LicenseHolds ==
  B!AccessConstants /\ B!LicenseSpec => [](B!LicenseTypeOK /\ B!RunningIsLicensed)
<1>. SUFFICES ASSUME B!AccessConstants
              PROVE  B!LicenseSpec => [](B!LicenseTypeOK /\ B!RunningIsLicensed)
  OBVIOUS
<1>1. ASSUME B!LicenseInit PROVE LicenseInv
  <2>1. software \in [version : Nat, hash : Nat]
    BY <1>1 DEF B!LicenseInit
  <2>2. server \in Servers /\ server.at = "down"
    BY <1>1 DEF B!LicenseInit, Servers, B!Down
  <2>. QED  BY <1>1, <2>1, <2>2
            DEF B!LicenseInit, B!AccessConstants, LicenseInv, LicenseTypes, FilesTell,
                ServerInTime, RunsLicensed, OverdueInTime
<1>2. ASSUME LicenseInv, [B!LicenseNext]_(B!licenseVars) PROVE LicenseInv'
  <2>1. CASE UNCHANGED B!licenseVars
    BY <1>2, <2>1
       DEF B!licenseVars, LicenseInv, LicenseTypes, FilesTell, ServerInTime, RunsLicensed,
           OverdueInTime, B!Paired, B!Loaded
  <2>2. CASE B!LicenseNext
    BY <1>2, <2>2, StartKeepsLicense, AcceptKeepsLicense, DownKeepsLicense, GiveUpKeepsLicense,
       RecheckKeepsLicense, ActivateKeepsLicense, WorldKeepsLicense, PassKeepsLicense
       DEF B!LicenseNext
  <2>. QED  BY <1>2, <2>1, <2>2
<1>3. ASSUME LicenseInv PROVE B!LicenseTypeOK /\ B!RunningIsLicensed
  <2>1. server.at \in {"asking", "recheck"} => server.attempt \in 1..Attempts
    BY <1>3, ServersAt DEF LicenseInv, LicenseTypes, Asking, Rechecks
  <2>a. /\ day \in 0..MaxDay
        /\ \A a \in accepted : a.day \in 0..day /\ a.clock - a.day \in Skews
    BY <1>3 DEF LicenseInv, LicenseTypes, FilesTell, Acceptances
  <2>b. cache = None \/ (cache.iat \in 0..day /\ cache.machine \subseteq Signal)
    <3>1. CASE cache # None
      <4>1. [day |-> cache.iat, clock |-> cache.last].day \in 0..day
        BY <1>3, <2>a, <3>1 DEF LicenseInv, FilesTell
      <4>. QED  BY <1>3, <3>1, <4>1 DEF LicenseInv, LicenseTypes, Caches
    <3>. QED  BY <3>1
  <2>c. room = None \/ (room.blob \in room.used /\ room.used \subseteq Blob)
    BY <1>3 DEF LicenseInv, LicenseTypes, FilesTell, Rooms
  <2>d. server.at \in {"down", "asking", "limited", "up", "recheck"}
    BY <1>3, ServersAt DEF LicenseInv, LicenseTypes
  <2>2. B!LicenseTypeOK
    BY <1>3, <2>1, <2>a, <2>b, <2>c, <2>d DEF LicenseInv, LicenseTypes, B!LicenseTypeOK
  <2>3. ~cold => overdue <= 1
    BY <1>3 DEF LicenseInv, OverdueInTime
  <2>. QED  BY <1>3, <2>2, <2>3
            DEF LicenseInv, RunsLicensed, B!RunningIsLicensed, B!Running
<1>. QED  BY <1>1, <1>2, <1>3, PTL DEF B!LicenseSpec

\* Sessions: one that was logged out is among those the server remembers, until it
\* restarts and forgets both.

Cookies == [kind : {"token", "account"}, key : {1, 2}, iat : Nat]

Waiting == {B!Quiet} \cup [pc : {"login"}] \cup [pc : {"profile"}, session : DOMAIN sessions]

SessionsInv ==
    /\ today \in 0..MaxToday /\ key \in {1, 2} /\ late = FALSE
    /\ sessions \in Seq(Cookies) /\ \A s \in DOMAIN sessions : sessions[s].iat <= today
    /\ loggedOut \subseteq revoked /\ revoked \subseteq DOMAIN sessions
    /\ call \in [Client -> Waiting]

LEMMA CookiesAre ==
  ASSUME SessionsInv, NEW s \in DOMAIN sessions
  PROVE  /\ sessions[s] \in Cookies /\ sessions[s].iat \in Nat
         /\ sessions[s].kind \in {"token", "account"} /\ sessions[s].key \in {1, 2}
<1>1. sessions \in Seq(Cookies)
  BY DEF SessionsInv
<1>2. DOMAIN sessions = 1..Len(sessions)
  BY <1>1
<1>3. sessions[s] \in Cookies
  BY <1>1, <1>2
<1>. QED  BY <1>3 DEF Cookies

LEMMA CreateKeeps ==
  ASSUME SessionsInv, NEW kind \in {"token", "account"}, B!Create(kind)
  PROVE  /\ sessions' \in Seq(Cookies) /\ DOMAIN sessions \subseteq DOMAIN sessions'
         /\ \A s \in DOMAIN sessions' : sessions'[s].iat <= today
<1>. DEFINE cookie == [kind |-> kind, key |-> key, iat |-> today]
<1>1. sessions' = Append(sessions, cookie)
  BY DEF B!Create
<1>2. cookie \in Cookies /\ cookie.iat <= today
  BY DEF SessionsInv, Cookies
<1>. HIDE DEF cookie
<1>3. sessions \in Seq(Cookies) /\ \A s \in DOMAIN sessions : sessions[s].iat <= today
  BY DEF SessionsInv
<1>. QED  BY <1>1, <1>2, <1>3

\* More cookies do not disturb the handlers.
LEMMA WaitingGrows ==
  ASSUME SessionsInv, DOMAIN sessions \subseteq DOMAIN sessions'
  PROVE  Waiting \subseteq Waiting' /\ B!Quiet \in Waiting'
BY DEF Waiting

LEMMA SessionsStep ==
  ASSUME B!AccessConstants, SessionsInv, B!SessionsNext
  PROVE  SessionsInv'
<1>1. CASE B!Login
  <2>1. B!Create("token") /\ UNCHANGED <<today, key, revoked, loggedOut, call, late>>
    BY <1>1 DEF B!Login
  <2>2. /\ sessions' \in Seq(Cookies) /\ DOMAIN sessions \subseteq DOMAIN sessions'
        /\ \A s \in DOMAIN sessions' : sessions'[s].iat <= today
    BY <2>1, CreateKeeps
  <2>. QED  BY <2>1, <2>2, WaitingGrows DEF SessionsInv
<1>2. CASE B!PassToday
  <2>1. /\ today \in Nat /\ today' \in 0..MaxToday /\ today' = today + 1
        /\ UNCHANGED <<key, sessions, revoked, loggedOut, call, late>>
    BY <1>2 DEF B!PassToday, SessionsInv, B!AccessConstants
  <2>2. ASSUME NEW s \in DOMAIN sessions PROVE sessions[s].iat <= today'
    <3>1. sessions[s].iat \in Nat
      BY CookiesAre
    <3>2. sessions[s].iat <= today
      BY DEF SessionsInv
    <3>. QED  BY <2>1, <3>1, <3>2
  <2>. QED  BY <2>1, <2>2 DEF SessionsInv, Waiting
<1>3. CASE B!Restart
  BY <1>3 DEF B!Restart, SessionsInv, Waiting
<1>4. ASSUME NEW s \in DOMAIN sessions, B!Revoke(s) PROVE SessionsInv'
  BY <1>4 DEF B!Revoke, SessionsInv, Waiting
<1>5. ASSUME NEW s \in DOMAIN sessions, NEW c \in Client, B!Profile(c, s) PROVE SessionsInv'
  <2>1. /\ call' = [call EXCEPT ![c] = [pc |-> "profile", session |-> s]]
        /\ UNCHANGED <<today, key, sessions, revoked, loggedOut, late>>
    BY <1>5 DEF B!Profile
  <2>2. [pc |-> "profile", session |-> s] \in Waiting
    BY DEF Waiting
  <2>3. Waiting' = Waiting
    BY <2>1 DEF Waiting
  <2>. QED  BY <2>1, <2>2, <2>3 DEF SessionsInv
<1>6. ASSUME NEW c \in Client, B!FirebaseLogin(c) PROVE SessionsInv'
  <2>1. /\ call' = [call EXCEPT ![c] = [pc |-> "login"]]
        /\ UNCHANGED <<today, key, sessions, revoked, loggedOut, late>>
    BY <1>6 DEF B!FirebaseLogin
  <2>2. [pc |-> "login"] \in Waiting
    BY DEF Waiting
  <2>3. Waiting' = Waiting
    BY <2>1 DEF Waiting
  <2>. QED  BY <2>1, <2>2, <2>3 DEF SessionsInv
<1>7. ASSUME NEW c \in Client, B!VerifyLogin(c) PROVE SessionsInv'
  <2>1. /\ call' = [call EXCEPT ![c] = B!Quiet]
        /\ UNCHANGED <<today, key, revoked, loggedOut, late>>
        /\ B!Create("account") \/ sessions' = sessions
    BY <1>7 DEF B!VerifyLogin
  <2>2. /\ sessions' \in Seq(Cookies) /\ DOMAIN sessions \subseteq DOMAIN sessions'
        /\ \A s \in DOMAIN sessions' : sessions'[s].iat <= today
    BY <2>1, CreateKeeps DEF SessionsInv
  <2>. QED  BY <2>1, <2>2, WaitingGrows DEF SessionsInv
<1>8. ASSUME NEW c \in Client, B!RefreshProfile(c) PROVE SessionsInv'
  <2>. DEFINE s == call[c].session
  <2>1. /\ call' = [call EXCEPT ![c] = B!Quiet]
        /\ UNCHANGED <<today, key, sessions, revoked, loggedOut>>
        /\ late' = (late \/ (B!Valid(s) /\ (\/ s \in loggedOut
                                           \/ today - sessions[s].iat > B!SessionLife(s))))
    BY <1>8 DEF B!RefreshProfile
  <2>2. s \in DOMAIN sessions
    BY <1>8 DEF B!RefreshProfile, SessionsInv, Waiting, B!Quiet
  <2>3. sessions[s].iat \in Nat
    BY <2>2, CookiesAre
  <2>a. /\ today \in Nat /\ B!SessionLife(s) \in Int
        /\ loggedOut \subseteq revoked
    BY DEF SessionsInv, B!AccessConstants, B!SessionLife
  <2>. HIDE DEF s
  <2>4. ~(B!Valid(s) /\ (\/ s \in loggedOut
                         \/ today - sessions[s].iat > B!SessionLife(s)))
    BY <2>3, <2>a DEF B!Valid
  <2>5. late' = FALSE
    BY Zenon, <2>1, <2>4 DEF SessionsInv
  <2>6. Waiting' = Waiting /\ B!Quiet \in Waiting
    BY <2>1 DEF Waiting
  <2>. QED  BY <2>1, <2>5, <2>6 DEF SessionsInv
<1>. QED  BY <1>1, <1>2, <1>3, <1>4, <1>5, <1>6, <1>7, <1>8 DEF B!SessionsNext

\* A profile is given only for a session that holds at that moment, and a session that
\* was logged out does not hold, for any number of clients that log in and out while the
\* web site is asked.
THEOREM SessionsAreHeld ==
  B!AccessConstants /\ B!SessionsSpec => [](B!SessionsTypeOK /\ B!SessionsHold)
<1>. SUFFICES ASSUME B!AccessConstants
              PROVE  B!SessionsSpec => [](B!SessionsTypeOK /\ B!SessionsHold)
  OBVIOUS
<1>1. B!SessionsInit => SessionsInv
  BY DEF B!SessionsInit, SessionsInv, B!AccessConstants, Waiting
<1>2. ASSUME SessionsInv, [B!SessionsNext]_(B!sessionVars) PROVE SessionsInv'
  <2>1. CASE UNCHANGED B!sessionVars
    BY <1>2, <2>1 DEF B!sessionVars, SessionsInv, Waiting
  <2>. QED  BY <1>2, <2>1, SessionsStep
<1>3. ASSUME SessionsInv PROVE B!SessionsTypeOK /\ B!SessionsHold
  <2>1. \A c \in Client : call[c].pc \in {"none", "login", "profile"}
    BY <1>3 DEF SessionsInv, Waiting, B!Quiet
  <2>2. ASSUME NEW s \in DOMAIN sessions
        PROVE  /\ sessions[s].kind \in {"token", "account"} /\ sessions[s].key \in {1, 2}
               /\ sessions[s].iat \in 0..today
    <3>1. /\ sessions[s].iat \in Nat
          /\ sessions[s].kind \in {"token", "account"} /\ sessions[s].key \in {1, 2}
      BY <1>3, CookiesAre
    <3>2. sessions[s].iat <= today /\ today \in Int
      BY <1>3 DEF SessionsInv
    <3>. QED  BY <3>1, <3>2
  <2>3. B!SessionsTypeOK
    BY <1>3, <2>1, <2>2 DEF SessionsInv, B!SessionsTypeOK
  <2>4. B!SessionsHold
    BY <1>3 DEF SessionsInv, B!SessionsHold, B!Valid
  <2>. QED  BY <2>3, <2>4
<1>. QED  BY <1>1, <1>2, <1>3, PTL DEF B!SessionsSpec

----------------------------------------------------------------------------
(* Admission: a run that is pending and was taken is still counted, and a  *)
(* run is submitted once.                                                  *)

Taken == [busy : BOOLEAN, short : BOOLEAN, first : QueuedRun]

Distinct(s) == \A i, j \in 1..Len(s) : s[i] = s[j] => i = j

AdmissionTypes ==
    /\ load \in 0..3 /\ free \in 0..2 /\ sample \in M!Measure \cup {None}
    /\ lastLevel \in M!Level /\ told \in BOOLEAN
    /\ pending \in Seq(QueuedRun) /\ ids \subseteq QueuedRun /\ IsFiniteSet(ids) /\ executing \subseteq ids
    /\ dispatched \in [QueuedRun -> {0, 1}] /\ taken \in [QueuedRun -> Taken \cup {None}]

StartedOnce ==
    /\ Distinct(pending) /\ M!Range(pending) \cap executing = {}
    /\ \A r \in QueuedRun :
          /\ M!Active(r) /\ dispatched[r] = 1 => r \in ids
          /\ r \in ids => dispatched[r] = 1
          /\ dispatched[r] = 0 => taken[r] = None

SlotsAreKept == Cardinality({r \in ids : M!Active(r)}) <= MaxRuns

TakenInTime ==
    \A r \in QueuedRun : taken[r] # None =>
       /\ ~taken[r].busy
       /\ (r \in Heavy /\ taken[r].short) => taken[r].first \notin Heavy

LevelIsTold ==
    /\ IF sample = None THEN lastLevel = "safe" ELSE lastLevel = M!LevelOf(sample)
    /\ lastLevel = "critical" => told

AdmissionInv == AdmissionTypes /\ StartedOnce /\ SlotsAreKept /\ TakenInTime /\ LevelIsTold

LEMMA CountIs == \A set : M!Cardinality(set) = Cardinality(set)
BY DEF M!Cardinality, Cardinality, M!IsFiniteSet, IsFiniteSet

LEMMA RangeIs ==
  ASSUME NEW s \in Seq(QueuedRun)
  PROVE  M!Range(s) = {s[i] : i \in 1..Len(s)} /\ M!Range(s) \subseteq QueuedRun
BY DEF M!Range

\* The newest goes first.
LEMMA Prepended ==
  ASSUME NEW s \in Seq(QueuedRun), Distinct(s), NEW r \in QueuedRun, r \notin M!Range(s)
  PROVE  /\ <<r>> \o s \in Seq(QueuedRun) /\ Distinct(<<r>> \o s)
         /\ M!Range(<<r>> \o s) = M!Range(s) \cup {r}
<1>. DEFINE t == <<r>> \o s
<1>1. t \in Seq(QueuedRun) /\ Len(t) = Len(s) + 1 /\ t[1] = r
  OBVIOUS
<1>2. \A i \in 1..Len(s) : t[i + 1] = s[i] /\ s[i] # r
  BY RangeIs
<1>. HIDE DEF t
<1>3. \A i \in 2..Len(t) : i - 1 \in 1..Len(s) /\ t[i] = s[i - 1] /\ t[i] # r
  <2>. SUFFICES ASSUME NEW i \in 2..Len(t)
                PROVE  i - 1 \in 1..Len(s) /\ t[i] = s[i - 1] /\ t[i] # r
    OBVIOUS
  <2>1. i - 1 \in 1..Len(s) /\ (i - 1) + 1 = i
    BY <1>1
  <2>. QED  BY <1>2, <2>1
<1>4. Distinct(t)
  <2>. SUFFICES ASSUME NEW i \in 1..Len(t), NEW j \in 1..Len(t), t[i] = t[j] PROVE i = j
    BY DEF Distinct
  <2>1. CASE i = 1 \/ j = 1
    BY <1>1, <1>3, <2>1
  <2>2. CASE i # 1 /\ j # 1
    BY <1>3, <2>2 DEF Distinct
  <2>. QED  BY <2>1, <2>2
<1>5. M!Range(t) = M!Range(s) \cup {r}
  <2>1. M!Range(t) = {t[i] : i \in 1..Len(t)} /\ M!Range(s) = {s[i] : i \in 1..Len(s)}
    BY <1>1, RangeIs
  <2>2. \A i \in 1..Len(t) : t[i] \in M!Range(s) \cup {r}
    BY <1>1, <1>3, <2>1
  <2>3. \A i \in 1..Len(s) : s[i] \in M!Range(t)
    BY <1>1, <1>2, <2>1
  <2>4. r \in M!Range(t)
    BY <1>1, <2>1
  <2>. QED  BY <2>1, <2>2, <2>3, <2>4
<1>. QED  BY <1>1, <1>4, <1>5 DEF t

LEMMA Removed ==
  ASSUME NEW s \in Seq(QueuedRun), Distinct(s), NEW k \in 1..Len(s)
  PROVE  /\ M!Without(s, k) \in Seq(QueuedRun) /\ Distinct(M!Without(s, k))
         /\ M!Range(M!Without(s, k)) = M!Range(s) \ {s[k]}
<1>. DEFINE t == M!Without(s, k)
            before == SubSeq(s, 1, k - 1)
            after == SubSeq(s, k + 1, Len(s))
<1>1. t = before \o after
  BY DEF M!Without
<1>2. /\ before \in Seq(QueuedRun) /\ Len(before) = k - 1
      /\ \A i \in 1..(k - 1) : before[i] = s[i]
  OBVIOUS
<1>3. /\ after \in Seq(QueuedRun) /\ Len(after) = Len(s) - k
      /\ \A i \in 1..(Len(s) - k) : after[i] = s[k + i]
  OBVIOUS
<1>. HIDE DEF t, before, after
<1>4. t \in Seq(QueuedRun) /\ Len(t) = Len(s) - 1
  BY <1>1, <1>2, <1>3
<1>5. ASSUME NEW i \in 1..Len(t) PROVE t[i] = IF i < k THEN s[i] ELSE s[i + 1]
  <2>1. CASE i < k
    <3>1. i \in 1..(k - 1) /\ i \in 1..Len(before)
      BY <1>2, <2>1
    <3>2. t[i] = before[i]
      BY <1>1, <1>2, <1>3, <3>1
    <3>. QED  BY <1>2, <2>1, <3>1, <3>2
  <2>2. CASE ~(i < k)
    <3>. DEFINE j == i - (k - 1)
    <3>1. j \in 1..(Len(s) - k) /\ i = Len(before) + j /\ k + j = i + 1
      BY <1>2, <1>4, <2>2
    <3>. HIDE DEF j
    <3>2. (before \o after)[Len(before) + j] = after[j]
      BY <1>2, <1>3, <3>1
    <3>. QED  BY <1>1, <1>3, <2>2, <3>1, <3>2
  <2>. QED  BY <2>1, <2>2
<1>. DEFINE place(i) == IF i < k THEN i ELSE i + 1
<1>6. \A i \in 1..Len(t) : place(i) \in 1..Len(s) /\ place(i) # k /\ t[i] = s[place(i)]
  BY <1>4, <1>5
<1>7. Distinct(t)
  <2>. SUFFICES ASSUME NEW i \in 1..Len(t), NEW j \in 1..Len(t), t[i] = t[j] PROVE i = j
    BY DEF Distinct
  <2>1. place(i) = place(j)
    <3>. HIDE DEF place
    <3>. QED  BY <1>6 DEF Distinct
  <2>. QED  BY <1>4, <2>1
<1>8. M!Range(t) = M!Range(s) \ {s[k]}
  <2>1. M!Range(t) = {t[i] : i \in 1..Len(t)} /\ M!Range(s) = {s[i] : i \in 1..Len(s)}
    BY <1>4, RangeIs
  <2>2. \A i \in 1..Len(t) : t[i] \in M!Range(s) \ {s[k]}
    BY <1>6, <2>1 DEF Distinct
  <2>3. ASSUME NEW j \in 1..Len(s), j # k PROVE s[j] \in M!Range(t)
    <3>1. CASE j < k
      <4>1. j \in 1..Len(t) /\ t[j] = s[j]
        BY <1>4, <1>5, <3>1
      <4>. QED  BY <2>1, <4>1
    <3>2. CASE j > k
      <4>1. j - 1 \in k..Len(t) /\ (j - 1) + 1 = j /\ j - 1 \in 1..Len(t)
        BY <1>4, <3>2
      <4>2. t[j - 1] = s[j]
        BY <1>5, <4>1
      <4>. QED  BY <2>1, <4>1, <4>2
    <3>. QED  BY <2>3, <3>1, <3>2
  <2>. QED  BY <2>1, <2>2, <2>3
<1>. QED  BY <1>4, <1>7, <1>8 DEF t

\* How many runs are taken at most.
LEMMA FirstOnes ==
  ASSUME NEW s \in Seq(QueuedRun), NEW n \in 0..Len(s)
  PROVE  /\ M!Range(SubSeq(s, 1, n)) \subseteq M!Range(s)
         /\ IsFiniteSet(M!Range(SubSeq(s, 1, n)))
         /\ Cardinality(M!Range(SubSeq(s, 1, n))) <= n
<1>. DEFINE t == SubSeq(s, 1, n)
<1>1. t \in Seq(QueuedRun) /\ Len(t) = n /\ \A i \in 1..n : t[i] = s[i]
  OBVIOUS
<1>. HIDE DEF t
<1>2. M!Range(t) = {t[i] : i \in 1..n} /\ M!Range(s) = {s[i] : i \in 1..Len(s)}
  BY <1>1, RangeIs
<1>3. M!Range(t) \subseteq M!Range(s)
  BY <1>1, <1>2
<1>4. /\ IsFiniteSet(1..n) /\ Cardinality(1..n) = n
  BY FS_Interval
<1>5. t \in Surjection(1..n, M!Range(t))
  BY <1>1, <1>2 DEF Surjection
<1>6. IsFiniteSet(M!Range(t)) /\ Cardinality(M!Range(t)) <= n
  BY <1>4, <1>5, FS_Surjection
<1>. QED  BY <1>3, <1>6 DEF t

LEMMA MonitorKeeps ==
  ASSUME M!AdmissionConstants, AdmissionInv, M!MachineChanges \/ M!Sample
  PROVE  AdmissionInv'
<1>1. /\ UNCHANGED <<pending, ids, executing, dispatched, taken>>
      /\ load' \in 0..3 /\ free' \in 0..2
  BY DEF M!MachineChanges, M!Sample, AdmissionInv, AdmissionTypes
<1>2. sample' \in M!Measure \cup {None} /\ lastLevel' \in M!Level /\ told' \in BOOLEAN
      /\ LevelIsTold'
  <2>1. CASE M!MachineChanges
    BY <2>1 DEF M!MachineChanges, AdmissionInv, AdmissionTypes, LevelIsTold
  <2>2. CASE M!Sample
    <3>1. sample' \in M!Measure /\ sample' # None
      BY <2>2 DEF M!Sample, AdmissionInv, AdmissionTypes, M!Measure, M!AdmissionConstants
    <3>2. lastLevel' = M!LevelOf(sample') /\ lastLevel' \in M!Level
      BY <2>2 DEF M!Sample, M!LevelOf, M!Level
    <3>3. told' = IF lastLevel' = lastLevel THEN told ELSE lastLevel' = "critical"
      BY <2>2 DEF M!Sample
    <3>4. told' \in BOOLEAN /\ (lastLevel' = "critical" => told')
      BY Zenon, <3>3 DEF AdmissionInv, AdmissionTypes, LevelIsTold
    <3>. QED  BY <3>1, <3>2, <3>4 DEF LevelIsTold
  <2>. QED  BY <2>1, <2>2
<1>3. AdmissionTypes'
  BY <1>1, <1>2 DEF AdmissionInv, AdmissionTypes
<1>4. StartedOnce' /\ SlotsAreKept' /\ TakenInTime'
  BY <1>1 DEF AdmissionInv, StartedOnce, SlotsAreKept, TakenInTime, M!Active
<1>. QED  BY <1>2, <1>3, <1>4 DEF AdmissionInv

LEMMA SubmitKeeps ==
  ASSUME M!AdmissionConstants, AdmissionInv, NEW r \in QueuedRun, M!Submit(r)
  PROVE  AdmissionInv'
<1>1. /\ dispatched[r] = 0 /\ ~M!Active(r) /\ pending' = <<r>> \o pending
      /\ UNCHANGED <<load, free, sample, lastLevel, told, ids, executing, dispatched, taken>>
  BY DEF M!Submit
<1>2. /\ pending' \in Seq(QueuedRun) /\ Distinct(pending')
      /\ M!Range(pending') = M!Range(pending) \cup {r}
  BY <1>1, Prepended DEF M!Active, AdmissionInv, AdmissionTypes, StartedOnce
<1>3. \A q \in QueuedRun : M!Active(q)' <=> M!Active(q) \/ q = r
  BY <1>1, <1>2 DEF M!Active
<1>4. AdmissionTypes' /\ TakenInTime' /\ LevelIsTold'
  BY <1>1, <1>2 DEF AdmissionInv, AdmissionTypes, TakenInTime, LevelIsTold
<1>5. StartedOnce'
  BY <1>1, <1>2, <1>3 DEF AdmissionInv, StartedOnce, M!Active
<1>6. SlotsAreKept'
  <2>1. {q \in ids' : M!Active(q)'} = {q \in ids : M!Active(q)}
    BY <1>1, <1>3 DEF AdmissionInv, AdmissionTypes, StartedOnce
  <2>. QED  BY <2>1 DEF AdmissionInv, SlotsAreKept
<1>. QED  BY <1>4, <1>5, <1>6 DEF AdmissionInv

LEMMA BeginKeeps ==
  ASSUME M!AdmissionConstants, AdmissionInv, NEW r \in QueuedRun, M!BeginRun(r)
  PROVE  AdmissionInv'
<1>1. /\ r \in ids /\ executing' = executing \cup {r}
      /\ UNCHANGED <<load, free, sample, lastLevel, told, ids, dispatched, taken>>
  BY DEF M!BeginRun
<1>2. /\ pending' \in Seq(QueuedRun) /\ Distinct(pending') /\ r \in M!Range(pending)
      /\ M!Range(pending') = M!Range(pending) \ {r}
  <2>1. PICK i \in 1..Len(pending) :
           pending[i] = r /\ pending' = M!Without(pending, i)
    BY DEF M!BeginRun
  <2>2. pending \in Seq(QueuedRun) /\ Distinct(pending)
    BY DEF AdmissionInv, AdmissionTypes, StartedOnce
  <2>. QED  BY <2>1, <2>2, Removed, RangeIs
<1>3. \A q \in QueuedRun : M!Active(q)' <=> M!Active(q)
  BY <1>1, <1>2 DEF M!Active
<1>4. AdmissionTypes' /\ TakenInTime' /\ LevelIsTold'
  BY <1>1, <1>2 DEF AdmissionInv, AdmissionTypes, TakenInTime, LevelIsTold
<1>5. StartedOnce'
  BY <1>1, <1>2, <1>3 DEF AdmissionInv, StartedOnce
<1>6. SlotsAreKept'
  <2>1. {q \in ids' : M!Active(q)'} = {q \in ids : M!Active(q)}
    BY <1>1, <1>3 DEF AdmissionInv, AdmissionTypes
  <2>. QED  BY <2>1 DEF AdmissionInv, SlotsAreKept
<1>. QED  BY <1>4, <1>5, <1>6 DEF AdmissionInv

LEMMA EndKeeps ==
  ASSUME M!AdmissionConstants, AdmissionInv, NEW r \in QueuedRun, M!EndRun(r)
  PROVE  AdmissionInv'
<1>1. /\ r \in executing /\ executing' = executing \ {r} /\ ids' = ids \ {r}
      /\ UNCHANGED <<load, free, sample, lastLevel, told, pending, dispatched, taken>>
  BY DEF M!EndRun
<1>2. IsFiniteSet(ids') /\ IsFiniteSet(ids)
  BY <1>1, FS_RemoveElement DEF AdmissionInv, AdmissionTypes
<1>3. r \notin M!Range(pending)
  BY <1>1 DEF AdmissionInv, StartedOnce
<1>4. \A q \in QueuedRun : M!Active(q)' <=> M!Active(q) /\ q # r
  BY <1>1, <1>3 DEF M!Active
<1>5. AdmissionTypes' /\ TakenInTime' /\ LevelIsTold'
  BY <1>1, <1>2 DEF AdmissionInv, AdmissionTypes, TakenInTime, LevelIsTold
<1>6. StartedOnce'
  BY <1>1, <1>4 DEF AdmissionInv, StartedOnce
<1>7. SlotsAreKept'
  <2>. DEFINE now == {q \in ids' : M!Active(q)'}
              before == {q \in ids : M!Active(q)}
  <2>1. now \subseteq before /\ before \subseteq ids
    BY <1>1, <1>4 DEF AdmissionInv, AdmissionTypes
  <2>. HIDE DEF now, before
  <2>2. IsFiniteSet(before)
    BY <1>2, <2>1, FS_Subset
  <2>3. IsFiniteSet(now) /\ Cardinality(now) <= Cardinality(before)
    BY <2>1, <2>2, FS_Subset
  <2>4. Cardinality(now) \in Nat /\ Cardinality(before) \in Nat
    BY <2>2, <2>3, FS_CardinalityType
  <2>5. Cardinality(before) <= MaxRuns
    BY DEF AdmissionInv, SlotsAreKept, before
  <2>6. Cardinality(now) <= MaxRuns
    BY <2>3, <2>4, <2>5 DEF M!AdmissionConstants
  <2>. QED  BY <2>6 DEF SlotsAreKept, now
<1>. QED  BY <1>5, <1>6, <1>7 DEF AdmissionInv

LEMMA TickKeeps ==
  ASSUME M!AdmissionConstants, AdmissionInv, M!Tick
  PROVE  AdmissionInv'
<1>. DEFINE kept == {r \in ids : M!Active(r)}
            slots == MaxRuns - Cardinality(kept)
            n == IF slots < Len(pending) THEN slots ELSE Len(pending)
            first == SubSeq(pending, 1, n)
            new == M!Range(first) \ kept
            measured == [busy |-> load > 1, short |-> free < 2, first |-> Head(pending)]
            admits == slots > 0 /\ M!Allows(Head(pending) \in Heavy)
<1>1. /\ pending # <<>> /\ UNCHANGED <<load, free, sample, lastLevel, told, pending, executing>>
      /\ admits =>
            /\ ids' = kept \cup new
            /\ dispatched' = [r \in QueuedRun |-> IF r \in new THEN dispatched[r] + 1 ELSE dispatched[r]]
            /\ taken' = [r \in QueuedRun |-> IF r \in new THEN measured ELSE taken[r]]
      /\ ~admits => ids' = kept /\ UNCHANGED <<dispatched, taken>>
  <2>1. /\ pending # <<>>
        /\ UNCHANGED <<load, free, sample, lastLevel, told, pending, executing>>
        /\ IF admits
           THEN /\ ids' = kept \cup new
                /\ dispatched' = [r \in QueuedRun |-> IF r \in new THEN dispatched[r] + 1 ELSE dispatched[r]]
                /\ taken' = [r \in QueuedRun |-> IF r \in new THEN measured ELSE taken[r]]
           ELSE ids' = kept /\ UNCHANGED <<dispatched, taken>>
    BY Zenon, CountIs DEF M!Tick
  <2>. HIDE DEF kept, new, measured, admits
  <2>. QED  BY <2>1
<1>2. /\ pending \in Seq(QueuedRun) /\ Head(pending) \in QueuedRun /\ Len(pending) \in Nat
  BY <1>1 DEF AdmissionInv, AdmissionTypes
<1>3. /\ kept \subseteq ids /\ \A r \in kept : M!Active(r)
      /\ \A r \in ids : M!Active(r) => r \in kept
      /\ executing \subseteq kept
  BY DEF AdmissionInv, AdmissionTypes, M!Active
<1>4. \A r \in QueuedRun : M!Active(r)' <=> M!Active(r)
  BY <1>1 DEF M!Active
<1>5. Cardinality(kept) <= MaxRuns
  BY DEF AdmissionInv, SlotsAreKept
<1>. HIDE DEF kept
<1>6. IsFiniteSet(kept) /\ Cardinality(kept) \in Nat
  BY <1>3, FS_Subset, FS_CardinalityType DEF AdmissionInv, AdmissionTypes
<1>7. slots \in Nat
  BY <1>5, <1>6 DEF M!AdmissionConstants
<1>. HIDE DEF slots
<1>8. n \in 0..Len(pending) /\ n <= slots
  BY <1>2, <1>7
<1>. HIDE DEF n
<1>9. /\ M!Range(first) \subseteq M!Range(pending) /\ M!Range(first) \subseteq QueuedRun
      /\ IsFiniteSet(M!Range(first)) /\ Cardinality(M!Range(first)) <= n
  BY <1>2, <1>8, FirstOnes, RangeIs
<1>. HIDE DEF first
<1>10. /\ new \subseteq QueuedRun /\ new \cap kept = {} /\ \A r \in new : M!Active(r)
  BY <1>9 DEF M!Active
<1>11. IsFiniteSet(new) /\ Cardinality(new) <= slots /\ Cardinality(new) \in Nat
  <2>1. /\ IsFiniteSet(new) /\ Cardinality(new) <= Cardinality(M!Range(first))
    BY <1>9, FS_Subset
  <2>2. Cardinality(new) \in Nat /\ Cardinality(M!Range(first)) \in Nat
    BY <2>1, <1>9, FS_CardinalityType
  <2>. QED  BY <1>7, <1>8, <1>9, <2>1, <2>2
<1>. HIDE DEF new
<1>12. \A r \in new : r \notin ids /\ dispatched[r] = 0 /\ r \notin executing
  BY <1>3, <1>10 DEF AdmissionInv, AdmissionTypes, StartedOnce
<1>13. IsFiniteSet(ids') /\ ids' \subseteq QueuedRun /\ kept \subseteq ids'
       /\ ids' \subseteq kept \cup new
  <2>1. IsFiniteSet(kept \cup new)
    BY <1>6, <1>11, FS_Union
  <2>2. kept \subseteq QueuedRun
    BY <1>3 DEF AdmissionInv, AdmissionTypes
  <2>. QED  BY <1>1, <1>6, <1>10, <2>1, <2>2
<1>14. SlotsAreKept'
  <2>1. {r \in ids' : M!Active(r)'} = ids'
    BY <1>3, <1>4, <1>10, <1>13
  <2>2. CASE admits
    <3>1. Cardinality(kept \cup new) = Cardinality(kept) + Cardinality(new) - Cardinality(kept \cap new)
      BY <1>6, <1>11, FS_Union
    <3>2. Cardinality(kept \cap new) = 0
      BY <1>10, FS_EmptySet
    <3>3. Cardinality(kept) + Cardinality(new) <= MaxRuns
      BY <1>6, <1>11 DEF slots, M!AdmissionConstants
    <3>4. ids' = kept \cup new
      BY <1>1, <2>2
    <3>5. Cardinality(ids') = Cardinality(kept) + Cardinality(new)
      BY <1>6, <1>11, <3>1, <3>2, <3>4
    <3>. QED  BY <2>1, <3>3, <3>5 DEF SlotsAreKept
  <2>3. CASE ~admits
    BY <1>1, <1>5, <2>1, <2>3 DEF SlotsAreKept
  <2>. QED  BY <2>2, <2>3
<1>15. \A r \in QueuedRun :
          IF admits /\ r \in new THEN dispatched'[r] = 1 /\ taken'[r] = measured /\ r \in ids'
                                 ELSE dispatched'[r] = dispatched[r] /\ taken'[r] = taken[r]
  <2>1. CASE admits
    BY <1>1, <1>12, <2>1
  <2>2. CASE ~admits
    BY <1>1, <2>2
  <2>. QED  BY <2>1, <2>2
<1>16. AdmissionTypes'
  <2>1. measured \in Taken
    BY <1>2 DEF Taken
  <2>2. dispatched' \in [QueuedRun -> {0, 1}] /\ taken' \in [QueuedRun -> Taken \cup {None}]
    <3>1. CASE admits
      <4>. HIDE DEF measured
      <4>1. \A r \in QueuedRun : dispatched[r] \in {0, 1} /\ taken[r] \in Taken \cup {None}
        BY DEF AdmissionInv, AdmissionTypes
      <4>. QED  BY <1>1, <1>12, <2>1, <3>1, <4>1
    <3>2. CASE ~admits
      BY <1>1, <3>2 DEF AdmissionInv, AdmissionTypes
    <3>. QED  BY <3>1, <3>2
  <2>. HIDE DEF measured, admits
  <2>. QED  BY <1>1, <1>3, <1>13, <2>2 DEF AdmissionInv, AdmissionTypes
<1>17. StartedOnce'
  <2>1. Distinct(pending') /\ M!Range(pending') \cap executing' = {}
    BY <1>1 DEF AdmissionInv, StartedOnce
  <2>2. ASSUME NEW r \in QueuedRun
        PROVE  /\ M!Active(r)' /\ dispatched'[r] = 1 => r \in ids'
               /\ r \in ids' => dispatched'[r] = 1
               /\ dispatched'[r] = 0 => taken'[r] = None
    <3>1. CASE admits /\ r \in new
      BY <1>15, <3>1
    <3>2. CASE ~(admits /\ r \in new)
      <4>1. dispatched'[r] = dispatched[r] /\ taken'[r] = taken[r]
        BY <1>15, <3>2
      <4>2. r \in ids' => r \in ids
        BY <1>1, <1>3, <3>2
      <4>. QED  BY <1>3, <1>4, <1>13, <4>1, <4>2 DEF AdmissionInv, StartedOnce
    <3>. QED  BY <3>1, <3>2
  <2>. QED  BY <2>1, <2>2 DEF StartedOnce
<1>18. TakenInTime'
  <2>. SUFFICES ASSUME NEW r \in QueuedRun, taken'[r] # None
                PROVE  /\ ~taken'[r].busy
                       /\ (r \in Heavy /\ taken'[r].short) => taken'[r].first \notin Heavy
    BY DEF TakenInTime
  <2>1. CASE admits /\ r \in new
    <3>1. taken'[r] = measured
      BY <1>15, <2>1
    <3>2. ~(load > 1) /\ (Head(pending) \in Heavy => ~(free < 2))
      BY <2>1 DEF M!Allows, AdmissionInv, AdmissionTypes
    <3>3. ~measured.busy /\ (measured.short => Head(pending) \notin Heavy)
          /\ measured.first = Head(pending)
      BY <3>2, Zenon
    <3>. HIDE DEF measured
    <3>. QED  BY <3>1, <3>3
  <2>2. CASE ~(admits /\ r \in new)
    BY <1>15, <2>2 DEF AdmissionInv, TakenInTime
  <2>. QED  BY <2>1, <2>2
<1>19. LevelIsTold'
  BY <1>1 DEF AdmissionInv, LevelIsTold
<1>. QED  BY <1>14, <1>16, <1>17, <1>18, <1>19 DEF AdmissionInv

\* Each run is started once, no more are started than there are slots and none while the
\* load is high, for any runs and any number of slots; and clients know when the machine is
\* at its limit.
THEOREM AdmissionHolds ==
  M!AdmissionConstants /\ M!Spec => [](M!TypeOK /\ M!RunsAreAdmitted)
<1>. SUFFICES ASSUME M!AdmissionConstants PROVE M!Spec => [](M!TypeOK /\ M!RunsAreAdmitted)
  OBVIOUS
<1>1. ASSUME M!Init PROVE AdmissionInv
  <2>1. /\ load = 0 /\ free = 2 /\ sample = None /\ lastLevel = "safe" /\ told = FALSE
        /\ pending = <<>> /\ ids = {} /\ executing = {}
        /\ dispatched = [r \in QueuedRun |-> 0] /\ taken = [r \in QueuedRun |-> None]
    BY <1>1 DEF M!Init
  <2>2. Cardinality({}) = 0 /\ IsFiniteSet({})
    BY FS_EmptySet
  <2>3. {r \in ids : M!Active(r)} = {}
    BY <2>1
  <2>4. SlotsAreKept
    BY <2>2, <2>3 DEF SlotsAreKept, M!AdmissionConstants
  <2>5. AdmissionTypes
    <3>1. dispatched \in [QueuedRun -> {0, 1}] /\ taken \in [QueuedRun -> Taken \cup {None}]
      BY <2>1
    <3>2. pending \in Seq(QueuedRun) /\ ids \subseteq QueuedRun /\ IsFiniteSet(ids) /\ executing \subseteq ids
      BY <2>1, <2>2
    <3>3. load \in 0..3 /\ free \in 0..2
      BY <2>1
    <3>4. sample \in M!Measure \cup {None} /\ lastLevel \in M!Level /\ told \in BOOLEAN
      BY <2>1, Zenon DEF M!Level
    <3>. QED  BY <3>1, <3>2, <3>3, <3>4 DEF AdmissionTypes
  <2>6. StartedOnce /\ TakenInTime /\ LevelIsTold
    BY <2>1 DEF StartedOnce, Distinct, TakenInTime, LevelIsTold
  <2>. QED  BY <2>4, <2>5, <2>6 DEF AdmissionInv
<1>2. ASSUME AdmissionInv, [M!Next]_(M!vars) PROVE AdmissionInv'
  <2>1. CASE UNCHANGED M!vars
    BY <1>2, <2>1
       DEF M!vars, AdmissionInv, AdmissionTypes, StartedOnce, SlotsAreKept, TakenInTime,
           LevelIsTold, M!Active
  <2>2. CASE M!Next
    BY <1>2, <2>2, MonitorKeeps, TickKeeps, SubmitKeeps, BeginKeeps, EndKeeps DEF M!Next
  <2>. QED  BY <1>2, <2>1, <2>2
<1>3. ASSUME AdmissionInv PROVE M!TypeOK /\ M!RunsAreAdmitted
  <2>1. AdmissionTypes /\ StartedOnce /\ SlotsAreKept /\ TakenInTime /\ LevelIsTold
    BY <1>3 DEF AdmissionInv
  <2>2. M!TypeOK
    BY <2>1, RangeIs DEF AdmissionTypes, Taken, M!TypeOK
  <2>3. \A r \in QueuedRun : taken[r] # None => dispatched[r] = 1
    BY <2>1 DEF AdmissionTypes, StartedOnce
  <2>4. lastLevel = "critical" => told /\ ~M!LocalIsSafe(TRUE)
    BY <2>1 DEF LevelIsTold, M!LocalIsSafe
  <2>5. M!RunsAreAdmitted
    <3>1. Cardinality({r \in ids : M!Active(r)}) <= MaxRuns /\ executing \subseteq ids
      BY <2>1 DEF AdmissionTypes, SlotsAreKept
    <3>2. \A r \in QueuedRun : taken[r] # None =>
             /\ dispatched[r] = 1
             /\ ~taken[r].busy
             /\ (r \in Heavy /\ taken[r].short) => taken[r].first \notin Heavy
      BY Zenon, <2>1, <2>3 DEF TakenInTime
    <3>. QED  BY Zenon, CountIs, <2>4, <3>1, <3>2 DEF M!RunsAreAdmitted
  <2>. QED  BY <2>2, <2>5
<1>. QED  BY <1>1, <1>2, <1>3, PTL DEF M!Spec

----------------------------------------------------------------------------
(* SubAgents: a promised agent is in the inventory, or was left out of it. *)

SubAgentTypes ==
    /\ agents \in [G!Process -> SUBSET G!AgentRecord]
    /\ doing \in [G!Process -> {"down", "load", "clean", "idle", "register", "publish"}]
    /\ made \in [G!Process -> SUBSET [id : Agent, tree : BOOLEAN]]
    /\ \A p \in G!Process : made[p] # {} => doing[p] = "register"
    /\ stored \subseteq G!AgentRecord /\ inventory \subseteq G!AgentRecord
    /\ tmp = None \/ tmp \subseteq G!AgentRecord
    /\ worktrees \subseteq Agent /\ gitLate \subseteq Agent /\ young \subseteq Agent
    /\ astray \subseteq Agent /\ promised \subseteq Agent /\ starts \in 0..MaxStarts

\* Agents that are said to have a worktree have one.
TreesStand ==
    \A p \in G!Process : \A a \in agents[p] \cup made[p] : a.tree => a.id \in worktrees \cup astray

PromisesStand == promised \subseteq (worktrees \cap G!Ids(inventory)) \cup astray

NoneIsLeft == G!Ready => worktrees \ young \subseteq G!Ids(agents["server"]) \cup astray

SubAgentsInv == SubAgentTypes /\ TreesStand /\ PromisesStand /\ NoneIsLeft

LEMMA TreesAreAgents ==
  ASSUME NEW a \in G!AgentRecord
  PROVE  a.id \in Agent \cup {OllamaAgent} /\ a.tree \in BOOLEAN /\ (a.tree => a.id \in Agent)
BY DEF G!AgentRecord

LEMMA AddKeeps ==
  ASSUME SubAgentsInv, NEW p \in G!Process, G!AddWorktree(p)
  PROVE  SubAgentsInv'
<1>1. PICK id \in G!Free, result \in {"made", "refused", "given up"} :
         /\ made' = [made EXCEPT ![p] = {[id |-> id, tree |-> result = "made"]}]
         /\ IF result = "made"
            THEN worktrees' = worktrees \cup {id} /\ young' = young \cup {id}
            ELSE UNCHANGED <<worktrees, young>>
         /\ gitLate' = IF result = "given up" THEN gitLate \cup {id} ELSE gitLate
  BY DEF G!AddWorktree
<1>2. /\ UNCHANGED <<agents, stored, inventory, tmp, astray, starts, promised>>
      /\ doing' = [doing EXCEPT ![p] = "register"] /\ doing[p] = "idle" /\ id \in Agent
  BY DEF G!AddWorktree, G!Do, G!Free
<1>. DEFINE a == [id |-> id, tree |-> result = "made"]
<1>3. a \in [id : Agent, tree : BOOLEAN] /\ a.id = id /\ (a.tree => result = "made")
  BY <1>2
<1>. HIDE DEF a
<1>4. made' = [made EXCEPT ![p] = {a}]
  BY <1>1 DEF a
<1>5. /\ made' \in [G!Process -> SUBSET [id : Agent, tree : BOOLEAN]]
      /\ doing' \in [G!Process -> {"down", "load", "clean", "idle", "register", "publish"}]
      /\ \A q \in G!Process : made'[q] # {} => doing'[q] = "register"
  BY <1>2, <1>3, <1>4 DEF SubAgentsInv, SubAgentTypes
<1>6. /\ worktrees \subseteq worktrees' /\ worktrees' \subseteq Agent /\ young' \subseteq Agent
      /\ gitLate' \subseteq Agent /\ worktrees' \ young' \subseteq worktrees \ young
      /\ result = "made" => id \in worktrees'
  BY <1>1, <1>2 DEF SubAgentsInv, SubAgentTypes
<1>7. SubAgentTypes'
  BY <1>2, <1>5, <1>6 DEF SubAgentsInv, SubAgentTypes
<1>8. TreesStand'
  <2>1. \A q \in G!Process : made'[q] = IF q = p THEN {a} ELSE made[q]
    BY <1>4 DEF SubAgentsInv, SubAgentTypes
  <2>. QED  BY <1>2, <1>3, <1>6, <2>1 DEF SubAgentsInv, TreesStand
<1>9. PromisesStand'
  BY <1>2, <1>6 DEF SubAgentsInv, PromisesStand
<1>10. NoneIsLeft'
  <2>1. G!Ready' => G!Ready
    BY <1>2 DEF G!Ready, SubAgentsInv, SubAgentTypes, G!Process
  <2>. QED  BY <1>2, <1>6, <2>1 DEF SubAgentsInv, NoneIsLeft
<1>. QED  BY <1>7, <1>8, <1>9, <1>10 DEF SubAgentsInv

LEMMA AgentIsRegistered ==
  ASSUME SubAgentsInv, NEW p \in G!Process, G!Register(p)
  PROVE  SubAgentsInv'
<1>1. /\ agents' = [agents EXCEPT ![p] = agents[p] \cup made[p]]
      /\ tmp' = agents[p] \cup made[p]
      /\ doing[p] = "register" /\ doing' = [doing EXCEPT ![p] = "publish"]
      /\ made' = [made EXCEPT ![p] = {}]
      /\ UNCHANGED <<stored, worktrees, inventory, gitLate, young, astray, starts, promised>>
  BY DEF G!Register, G!WriteDraft, G!Do
<1>2. agents[p] \cup made[p] \subseteq G!AgentRecord
  BY DEF SubAgentsInv, SubAgentTypes, G!AgentRecord
<1>3. /\ \A q \in G!Process : agents'[q] = IF q = p THEN agents[p] \cup made[p] ELSE agents[q]
      /\ \A q \in G!Process : made'[q] = IF q = p THEN {} ELSE made[q]
      /\ \A q \in G!Process : doing'[q] = IF q = p THEN "publish" ELSE doing[q]
  BY <1>1 DEF SubAgentsInv, SubAgentTypes
<1>4. /\ agents' \in [G!Process -> SUBSET G!AgentRecord]
      /\ doing' \in [G!Process -> {"down", "load", "clean", "idle", "register", "publish"}]
      /\ made' \in [G!Process -> SUBSET [id : Agent, tree : BOOLEAN]]
  BY <1>1, <1>2 DEF SubAgentsInv, SubAgentTypes
<1>5. \A q \in G!Process : made'[q] # {} => doing'[q] = "register"
  BY <1>3 DEF SubAgentsInv, SubAgentTypes
<1>6. SubAgentTypes'
  BY <1>1, <1>2, <1>4, <1>5 DEF SubAgentsInv, SubAgentTypes
<1>7. TreesStand'
  BY <1>1, <1>3 DEF SubAgentsInv, TreesStand
<1>8. PromisesStand'
  BY <1>1 DEF SubAgentsInv, PromisesStand
<1>9. NoneIsLeft'
  <2>1. "server" \in G!Process
    BY DEF G!Process
  <2>2. G!Ready' => G!Ready
    BY <1>1, <1>3, <2>1 DEF G!Ready
  <2>3. agents["server"] \subseteq agents'["server"]
    BY <1>3, <2>1
  <2>4. G!Ids(agents["server"]) \subseteq G!Ids(agents["server"])'
    BY <2>3 DEF G!Ids
  <2>. QED  BY <1>1, <2>2, <2>4 DEF SubAgentsInv, NoneIsLeft
<1>. QED  BY <1>6, <1>7, <1>8, <1>9 DEF SubAgentsInv

\* Every id that is known is in the new inventory, or was left out of it.
LEMMA RosterIsPublished ==
  ASSUME SubAgentsInv, NEW p \in G!Process, G!Publish(p)
  PROVE  SubAgentsInv'
<1>1. /\ doing[p] = "publish" /\ doing' = [doing EXCEPT ![p] = "idle"]
      /\ inventory' = IF tmp = None THEN inventory ELSE tmp
      /\ tmp' = None
      /\ astray' = astray \cup (((G!Known \cup G!Ids(inventory)) \ G!Ids(inventory)') \cap Agent)
      /\ promised' = promised \cup G!Ids({a \in agents[p] : a.tree})
      /\ UNCHANGED <<agents, made, stored, worktrees, gitLate, young, starts>>
  BY DEF G!Publish, G!Do, G!Ids
<1>2. inventory' \subseteq G!AgentRecord
  BY <1>1 DEF SubAgentsInv, SubAgentTypes
<1>3. ASSUME NEW x \in G!Ids({a \in agents[p] : a.tree})
      PROVE  x \in Agent /\ x \in worktrees \cup astray /\ x \in G!Known
  <2>1. PICK a \in agents[p] : a.tree /\ x = a.id
    BY DEF G!Ids
  <2>2. a \in G!AgentRecord
    BY DEF SubAgentsInv, SubAgentTypes
  <2>3. x \in Agent /\ x \in worktrees \cup astray
    BY <2>1, <2>2, TreesAreAgents DEF SubAgentsInv, TreesStand
  <2>4. x \in G!Known
    BY <2>1 DEF G!Known, G!Ids, G!Process
  <2>. QED  BY <2>3, <2>4
<1>4. \A q \in G!Process : doing'[q] = IF q = p THEN "idle" ELSE doing[q]
  BY <1>1 DEF SubAgentsInv, SubAgentTypes
<1>5. SubAgentTypes'
  <2>1. doing' \in [G!Process -> {"down", "load", "clean", "idle", "register", "publish"}]
    BY <1>1 DEF SubAgentsInv, SubAgentTypes
  <2>2. \A q \in G!Process : made'[q] # {} => doing'[q] = "register"
    BY <1>1, <1>4 DEF SubAgentsInv, SubAgentTypes
  <2>3. promised' \subseteq Agent /\ astray' \subseteq Agent
    BY <1>1, <1>3 DEF SubAgentsInv, SubAgentTypes
  <2>. QED  BY <1>1, <1>2, <2>1, <2>2, <2>3 DEF SubAgentsInv, SubAgentTypes
<1>6. TreesStand'
  BY <1>1 DEF SubAgentsInv, TreesStand
<1>7. PromisesStand'
  <2>. SUFFICES ASSUME NEW x \in promised', x \notin astray'
                PROVE  x \in worktrees /\ x \in G!Ids(inventory)'
    BY <1>1 DEF PromisesStand
  <2>1. x \in Agent /\ x \in worktrees /\ x \in G!Known \cup G!Ids(inventory)
    BY <1>1, <1>3 DEF SubAgentsInv, SubAgentTypes, PromisesStand
  <2>. QED  BY <1>1, <2>1
<1>8. NoneIsLeft'
  <2>1. G!Ready' => G!Ready
    BY <1>1, <1>4 DEF G!Ready, G!Process
  <2>. QED  BY <1>1, <2>1 DEF SubAgentsInv, NoneIsLeft
<1>. QED  BY <1>5, <1>6, <1>7, <1>8 DEF SubAgentsInv

LEMMA GitKeeps ==
  ASSUME SubAgentsInv, G!GitEnds
  PROVE  SubAgentsInv'
<1>1. PICK id \in gitLate :
         /\ gitLate' = gitLate \ {id}
         /\ worktrees' = worktrees \cup {id} /\ young' = young \cup {id}
         /\ UNCHANGED <<agents, doing, made, stored, inventory, tmp, astray, starts, promised>>
  BY DEF G!GitEnds
<1>. QED  BY <1>1 DEF SubAgentsInv, SubAgentTypes, TreesStand, PromisesStand, NoneIsLeft, G!Ready

LEMMA SyncKeeps ==
  ASSUME SubAgentsInv, NEW p \in G!Process, G!SyncWithOllama(p)
  PROVE  SubAgentsInv'
<1>. DEFINE a == [id |-> OllamaAgent, tree |-> FALSE]
            now == G!With(agents[p], a)
<1>1. /\ agents' = [agents EXCEPT ![p] = now]
      /\ UNCHANGED <<doing, made, stored, worktrees, inventory, tmp, gitLate, young, astray,
                     starts, promised>>
  BY DEF G!SyncWithOllama, SubAgentsInv, SubAgentTypes
<1>2. a \in G!AgentRecord /\ ~a.tree /\ a.id = OllamaAgent
  BY DEF G!AgentRecord
<1>. HIDE DEF a
<1>3. now = {b \in agents[p] : b.id # OllamaAgent} \cup {a}
  BY <1>2 DEF G!With
<1>4. now \subseteq G!AgentRecord /\ G!Ids(agents[p]) \subseteq G!Ids(now)
  BY <1>2, <1>3 DEF SubAgentsInv, SubAgentTypes, G!Ids
<1>. HIDE DEF now
<1>5. \A q \in G!Process : agents'[q] = IF q = p THEN now ELSE agents[q]
  BY <1>1 DEF SubAgentsInv, SubAgentTypes
<1>6. SubAgentTypes'
  BY <1>1, <1>4 DEF SubAgentsInv, SubAgentTypes
<1>7. TreesStand'
  BY <1>1, <1>2, <1>3, <1>5 DEF SubAgentsInv, TreesStand
<1>8. NoneIsLeft'
  <2>1. "server" \in G!Process
    BY DEF G!Process
  <2>2. G!Ids(agents["server"]) \subseteq G!Ids(agents'["server"])
    BY <1>4, <1>5, <2>1
  <2>3. G!Ids(agents'["server"]) = G!Ids(agents["server"])'
    BY DEF G!Ids
  <2>. QED  BY <1>1, <2>2, <2>3 DEF SubAgentsInv, NoneIsLeft, G!Ready
<1>9. PromisesStand'
  BY <1>1 DEF SubAgentsInv, PromisesStand
<1>. QED  BY <1>6, <1>7, <1>8, <1>9 DEF SubAgentsInv

LEMMA StartsKeep ==
  ASSUME G!SubAgentsConstants, SubAgentsInv,
         G!Load \/ \E p \in G!Process : G!Start(p) \/ G!Die(p)
  PROVE  SubAgentsInv'
<1>1. CASE G!Load
  <2>1. /\ doing["server"] = "load" /\ doing' = [doing EXCEPT !["server"] = "clean"]
        /\ stored' \subseteq G!AgentRecord /\ astray \subseteq astray' /\ astray' \subseteq Agent
        /\ UNCHANGED <<agents, made, worktrees, inventory, tmp, gitLate, young, starts, promised>>
    BY <1>1 DEF G!Load, G!Do, SubAgentsInv, SubAgentTypes
  <2>2. ~G!Ready' /\ doing' \in [G!Process -> {"down", "load", "clean", "idle", "register", "publish"}]
        /\ \A q \in G!Process : made'[q] # {} => doing'[q] = "register"
    BY <2>1 DEF G!Ready, SubAgentsInv, SubAgentTypes, G!Process
  <2>3. SubAgentTypes'
    BY <2>1, <2>2 DEF SubAgentsInv, SubAgentTypes
  <2>. QED  BY <2>1, <2>2, <2>3 DEF SubAgentsInv, TreesStand, PromisesStand, NoneIsLeft
<1>2. ASSUME NEW p \in G!Process, G!Start(p) PROVE SubAgentsInv'
  <2>1. /\ doing[p] = "down"
        /\ doing' = [doing EXCEPT ![p] = IF p = "server" THEN "load" ELSE "idle"]
        /\ starts' = starts + 1 /\ starts < MaxStarts
        /\ UNCHANGED <<agents, made, stored, worktrees, inventory, tmp, gitLate, young, astray,
                       promised>>
    BY <1>2 DEF G!Start, G!Do
  <2>2. /\ (G!Ready' => G!Ready)
        /\ doing' \in [G!Process -> {"down", "load", "clean", "idle", "register", "publish"}]
        /\ \A q \in G!Process : made'[q] # {} => doing'[q] = "register"
    BY <2>1 DEF G!Ready, SubAgentsInv, SubAgentTypes, G!Process
  <2>3. starts' \in 0..MaxStarts
    BY <2>1 DEF SubAgentsInv, SubAgentTypes, G!SubAgentsConstants
  <2>4. SubAgentTypes'
    BY <2>1, <2>2, <2>3 DEF SubAgentsInv, SubAgentTypes
  <2>. QED  BY <2>1, <2>2, <2>4 DEF SubAgentsInv, TreesStand, PromisesStand, NoneIsLeft
<1>3. ASSUME NEW p \in G!Process, G!Die(p) PROVE SubAgentsInv'
  <2>1. /\ doing' = [doing EXCEPT ![p] = "down"]
        /\ agents' = [agents EXCEPT ![p] = {}] /\ made' = [made EXCEPT ![p] = {}]
        /\ stored' \subseteq stored
        /\ UNCHANGED <<worktrees, inventory, tmp, gitLate, young, astray, starts, promised>>
    BY <1>3 DEF G!Die, G!Do
  <2>2. /\ \A q \in G!Process : agents'[q] = IF q = p THEN {} ELSE agents[q]
        /\ \A q \in G!Process : made'[q] = IF q = p THEN {} ELSE made[q]
        /\ \A q \in G!Process : doing'[q] = IF q = p THEN "down" ELSE doing[q]
    BY <2>1 DEF SubAgentsInv, SubAgentTypes
  <2>3. /\ agents' \in [G!Process -> SUBSET G!AgentRecord]
        /\ doing' \in [G!Process -> {"down", "load", "clean", "idle", "register", "publish"}]
        /\ made' \in [G!Process -> SUBSET [id : Agent, tree : BOOLEAN]]
    BY <2>1 DEF SubAgentsInv, SubAgentTypes
  <2>4. SubAgentTypes'
    BY <2>1, <2>2, <2>3 DEF SubAgentsInv, SubAgentTypes
  <2>5. TreesStand' /\ PromisesStand'
    BY <2>1, <2>2 DEF SubAgentsInv, TreesStand, PromisesStand
  <2>6. NoneIsLeft'
    <3>1. "server" \in G!Process
      BY DEF G!Process
    <3>2. G!Ready' => G!Ready /\ agents'["server"] = agents["server"]
      BY <2>2, <3>1 DEF G!Ready
    <3>. QED  BY <2>1, <3>2 DEF SubAgentsInv, NoneIsLeft, G!Ids
  <2>. QED  BY <2>4, <2>5, <2>6 DEF SubAgentsInv
<1>. QED  BY <1>1, <1>2, <1>3

\* A worktree that goes belongs to an agent that the file or the stored list left out.
LEMMA CleanKeeps ==
  ASSUME SubAgentsInv, G!Clean
  PROVE  SubAgentsInv'
<1>. DEFINE lost == ((G!Ids(inventory \cup agents["bridge"]) \cap Agent) \ G!Ids(stored))
                    \cup G!Ids(made["bridge"])
            kept == stored \ G!Ghosts
<1>1. /\ doing["server"] = "clean" /\ doing' = [doing EXCEPT !["server"] = "publish"]
      /\ worktrees' = worktrees \ G!Orphans /\ young' = {}
      /\ agents' = [agents EXCEPT !["server"] = kept] /\ tmp' = kept
      /\ astray' = astray \cup lost /\ stored' = {}
      /\ UNCHANGED <<made, inventory, gitLate, starts, promised>>
  BY DEF G!Clean, G!WriteDraft, G!Do
<1>2. "server" \in G!Process /\ "bridge" \in G!Process /\ G!Process = {"server", "bridge"}
  BY DEF G!Process
<1>3. /\ agents'["server"] = kept /\ agents'["bridge"] = agents["bridge"]
      /\ doing'["bridge"] = doing["bridge"] /\ doing'["server"] = "publish"
      /\ made["server"] = {}
  BY <1>1, <1>2 DEF SubAgentsInv, SubAgentTypes
<1>4. kept \subseteq stored /\ \A a \in kept : a.tree => a.id \in worktrees'
  <2>1. ASSUME NEW a \in kept, a.tree PROVE a.id \in worktrees /\ a.id \in G!Ids(stored)
    BY <2>1 DEF G!Ghosts, G!Ids
  <2>. QED  BY <1>1, <2>1 DEF G!Orphans
<1>5. worktrees' \subseteq G!Ids(kept)
  <2>. SUFFICES ASSUME NEW x \in worktrees, x \in G!Ids(stored) PROVE x \in G!Ids(kept)
    BY <1>1 DEF G!Orphans
  <2>1. PICK a \in stored : x = a.id
    BY DEF G!Ids
  <2>2. a \in kept
    BY <2>1 DEF G!Ghosts
  <2>. HIDE DEF kept
  <2>. QED  BY <2>1, <2>2 DEF G!Ids
<1>6. lost \subseteq Agent
  BY DEF SubAgentsInv, SubAgentTypes, G!Ids, G!Process
<1>7. \A x \in worktrees : x \in worktrees' \/ x \notin G!Ids(stored)
  BY <1>1 DEF G!Orphans
<1>8. TreesStand'
  <2>1. ASSUME NEW a \in agents["bridge"], a.tree PROVE a.id \in worktrees' \cup astray'
    <3>1. a.id \in Agent /\ a.id \in worktrees \cup astray
      BY <1>2, <2>1, TreesAreAgents DEF SubAgentsInv, SubAgentTypes, TreesStand
    <3>2. a.id \in G!Ids(inventory \cup agents["bridge"])
      BY DEF G!Ids
    <3>. QED  BY <1>1, <1>7, <3>1, <3>2
  <2>2. \A a \in made["bridge"] : a.id \in astray'
    BY <1>1 DEF G!Ids
  <2>. HIDE DEF kept
  <2>. QED  BY <1>1, <1>2, <1>3, <1>4, <2>1, <2>2 DEF TreesStand
<1>9. PromisesStand'
  <2>. SUFFICES ASSUME NEW x \in promised, x \notin astray'
                PROVE  x \in worktrees' /\ x \in G!Ids(inventory)'
    BY <1>1 DEF PromisesStand
  <2>1. x \in Agent /\ x \in worktrees /\ x \in G!Ids(inventory)
    BY <1>1 DEF SubAgentsInv, SubAgentTypes, PromisesStand
  <2>2. x \in G!Ids(inventory \cup agents["bridge"]) /\ x \in G!Ids(inventory)'
    BY <1>1, <2>1 DEF G!Ids
  <2>. QED  BY <1>1, <1>7, <2>1, <2>2
<1>10. NoneIsLeft'
  <2>1. G!Ids(agents["server"])' = G!Ids(kept)
    BY <1>3 DEF G!Ids
  <2>. QED  BY <1>1, <1>5, <2>1 DEF NoneIsLeft
<1>. HIDE DEF kept, lost
<1>11. SubAgentTypes'
  <2>1. kept \subseteq G!AgentRecord
    BY <1>4 DEF SubAgentsInv, SubAgentTypes
  <2>2. /\ agents' \in [G!Process -> SUBSET G!AgentRecord]
        /\ doing' \in [G!Process -> {"down", "load", "clean", "idle", "register", "publish"}]
    BY <1>1, <2>1 DEF SubAgentsInv, SubAgentTypes
  <2>3. \A q \in G!Process : made'[q] # {} => doing'[q] = "register"
    BY <1>1, <1>2, <1>3 DEF SubAgentsInv, SubAgentTypes
  <2>4. worktrees' \subseteq Agent /\ astray' \subseteq Agent
    BY <1>1, <1>6 DEF SubAgentsInv, SubAgentTypes
  <2>. QED  BY <1>1, <2>1, <2>2, <2>3, <2>4 DEF SubAgentsInv, SubAgentTypes
<1>. QED  BY <1>8, <1>9, <1>10, <1>11 DEF SubAgentsInv

\* SubAgentManager, for any agents and any number of starts of the server and the bridge: an
\* agent keeps its worktree unless the inventory was read or written without it, and the
\* server's start leaves no other worktree behind.
THEOREM WorktreesAreKept ==
  G!SubAgentsConstants /\ G!Spec => [](G!TypeOK /\ G!AgentsKeepTheirWorktrees)
<1>. SUFFICES ASSUME G!SubAgentsConstants
              PROVE  G!Spec => [](G!TypeOK /\ G!AgentsKeepTheirWorktrees)
  OBVIOUS
<1>1. G!Init => SubAgentsInv
  BY DEF G!Init, G!SubAgentsConstants, SubAgentsInv, SubAgentTypes, TreesStand, PromisesStand,
         NoneIsLeft, G!Ready, G!Process
<1>2. ASSUME SubAgentsInv, [G!Next]_(G!vars) PROVE SubAgentsInv'
  <2>1. CASE UNCHANGED G!vars
    BY <1>2, <2>1 DEF G!vars, SubAgentsInv, SubAgentTypes, TreesStand, PromisesStand, NoneIsLeft,
                      G!Ready, G!Ids
  <2>. QED  BY <1>2, <2>1, AddKeeps, AgentIsRegistered, RosterIsPublished, GitKeeps, SyncKeeps, StartsKeep,
               CleanKeeps
            DEF G!Next
<1>3. ASSUME SubAgentsInv PROVE G!TypeOK /\ G!AgentsKeepTheirWorktrees
  <2>1. G!TypeOK
    BY <1>3 DEF SubAgentsInv, SubAgentTypes, G!TypeOK, G!AgentRecord
  <2>2. G!AgentsKeepTheirWorktrees
    BY <1>3 DEF SubAgentsInv, PromisesStand, NoneIsLeft, G!AgentsKeepTheirWorktrees
  <2>. QED  BY <2>1, <2>2
<1>. QED  BY <1>1, <1>2, <1>3, PTL DEF G!Spec

----------------------------------------------------------------------------
(* ToolRegistry: what an entry may say, name by name. *)

\* What the session of a synchronization has seen was listed.
Listing ==
    \A s \in Server : \A x \in Tool :
       session["sync"].at # "none" /\ session["sync"].server = s /\ x \in session["sync"].tools
       => [server |-> s, tool |-> x] \in listed

\* The entry of a name, if it has one.
Stands(n) ==
    entries[n] # None =>
       /\ entries[n].guarded \/ n \in opened
       /\ entries[n].link # None =>
             \/ <<n, entries[n].link>> \in stated
             \/ /\ entries[n].link \in listed
                /\ FullName(entries[n].link.server, entries[n].link.tool) = n
       /\ n \notin deleted

ToolsInv ==
    /\ R!TypeOK
    /\ DOMAIN session = R!Task
    /\ Listing
    /\ \A n \in Name : Stands(n)
    /\ session["call"].at # "none" => ~session["call"].deleted

\* A step that leaves the registry, or makes it unreadable, and takes nothing back.
LEMMA NamesRest ==
  ASSUME ToolsInv, entries' = entries, opened \subseteq opened', stated \subseteq stated',
         listed \subseteq listed', deleted' = deleted
  PROVE  \A n \in Name : Stands(n)'
BY DEF ToolsInv, Stands

\* Requests of the administrator.
LEMMA PutKeeps ==
  ASSUME R!ToolRegistryConstants, ToolsInv, NEW n \in Name, R!Put(n)
  PROVE  ToolsInv'
<1>1. PICK e \in R!Entry :
         /\ R!Save([entries EXCEPT ![n] = e])
         /\ R!Opened(IF e.guarded THEN opened \ {n} ELSE opened \cup {n})
         /\ stated' = stated \cup ({<<n, e.link>>} \cap (Name \X R!Link))
  BY DEF R!Put
<1>2. deleted' = deleted \ {n} /\ UNCHANGED <<discovered, configured, session, listed, begun>>
  BY DEF R!Put
<1>3. entries \in [Name -> R!Entry \cup {None}] /\ opened \subseteq Name /\ deleted \subseteq Name
      /\ stated \subseteq Name \X R!Link
  BY DEF ToolsInv, R!TypeOK
<1>4. /\ entries' \in [Name -> R!Entry \cup {None}]
      /\ \A m \in Name : entries'[m] = None \/ entries'[m] = IF m = n THEN e ELSE entries[m]
  BY <1>1, <1>3 DEF R!Save, R!Nothing
<1>5. /\ opened' \subseteq Name
      /\ \A m \in Name : entries'[m] # None /\ ((m # n /\ m \in opened) \/ (m = n /\ ~e.guarded))
            => m \in opened'
  BY <1>1, <1>3 DEF R!Opened
<1>6. stated' \subseteq Name \X R!Link /\ stated \subseteq stated'
  BY <1>1, <1>3
<1>7. e.link # None => <<n, e.link>> \in stated'
  BY <1>1 DEF R!Entry
<1>8. ASSUME NEW m \in Name PROVE Stands(m)'
  <2>. SUFFICES ASSUME entries'[m] # None PROVE Stands(m)'
    BY DEF Stands
  <2>1. CASE m = n
    BY <1>2, <1>4, <1>5, <1>7, <2>1 DEF Stands
  <2>2. CASE m # n
    <3>1. entries'[m] = entries[m] /\ Stands(m)
      BY <1>4, <2>2 DEF ToolsInv
    <3>. QED  BY <1>2, <1>5, <1>6, <2>2, <3>1 DEF Stands
  <2>. QED  BY <2>1, <2>2
<1>9. R!TypeOK'
  BY <1>2, <1>3, <1>4, <1>5, <1>6 DEF ToolsInv, R!TypeOK
<1>. QED  BY <1>2, <1>8, <1>9 DEF ToolsInv, Listing

LEMMA DeleteKeeps ==
  ASSUME R!ToolRegistryConstants, ToolsInv, NEW n \in Name, R!Delete(n)
  PROVE  ToolsInv'
<1>1. /\ R!Save([entries EXCEPT ![n] = None]) /\ R!Opened(opened)
      /\ deleted' = deleted \cup {n}
      /\ UNCHANGED <<discovered, configured, session, stated, listed, begun>>
  BY DEF R!Delete
<1>2. entries \in [Name -> R!Entry \cup {None}] /\ opened \subseteq Name /\ deleted \subseteq Name
  BY DEF ToolsInv, R!TypeOK
<1>3. /\ entries' \in [Name -> R!Entry \cup {None}] /\ entries'[n] = None
      /\ \A m \in Name : entries'[m] = None \/ entries'[m] = entries[m]
  BY <1>1, <1>2 DEF R!Save, R!Nothing
<1>4. opened' \subseteq Name /\ \A m \in opened : entries'[m] # None => m \in opened'
  BY <1>1, <1>2 DEF R!Opened
<1>5. ASSUME NEW m \in Name PROVE Stands(m)'
  <2>. SUFFICES ASSUME entries'[m] # None PROVE Stands(m)'
    BY DEF Stands
  <2>1. entries'[m] = entries[m] /\ Stands(m) /\ m # n
    BY <1>3 DEF ToolsInv
  <2>. QED  BY <1>1, <1>4, <2>1 DEF Stands
<1>6. R!TypeOK'
  BY <1>1, <1>2, <1>3, <1>4 DEF ToolsInv, R!TypeOK
<1>. QED  BY <1>1, <1>5, <1>6 DEF ToolsInv, Listing

\* The sessions.
LEMMA SessionTypes ==
  ASSUME ToolsInv, NEW x \in R!Task
  PROVE  /\ session[x].at \in {"none", "start", "initialize", "ask", "stop", "abort", "register"}
         /\ session[x].at # "none" => session[x].server \in Server /\ session[x].tools \subseteq Tool
BY DEF ToolsInv, R!TypeOK

LEMMA QuietIs == R!Quiet.at = "none"
BY DEF R!Quiet

\* A session goes on, or ends.
LEMMA SessionMoves ==
  ASSUME R!ToolRegistryConstants, ToolsInv, NEW x \in R!Task, session[x].at # "none",
         \/ \E pc \in {"initialize", "ask", "stop", "abort", "register"} : R!To(x, pc)
         \/ R!End(x),
         UNCHANGED <<entries, discovered, configured, opened, stated, deleted, listed, begun>>
  PROVE  ToolsInv'
<1>1. /\ DOMAIN session' = R!Task
      /\ \A y \in R!Task : y # x => session'[y] = session[y]
  BY DEF R!To, R!End, ToolsInv
<1>2. \/ session'[x].at = "none"
      \/ /\ session'[x].at \in {"initialize", "ask", "stop", "abort", "register"}
         /\ session'[x].server = session[x].server /\ session'[x].tools = session[x].tools
         /\ session'[x].deleted = session[x].deleted
  <2>1. CASE R!End(x)
    BY <2>1, QuietIs DEF R!End, ToolsInv
  <2>2. ASSUME NEW pc \in {"initialize", "ask", "stop", "abort", "register"}, R!To(x, pc)
        PROVE  /\ session'[x].at \in {"initialize", "ask", "stop", "abort", "register", "none"}
               /\ session'[x].server = session[x].server /\ session'[x].tools = session[x].tools
               /\ session'[x].deleted = session[x].deleted
    <3>1. session'[x] = [session[x] EXCEPT !.at = pc]
      BY <2>2 DEF R!To, ToolsInv
    <3>. QED  BY <3>1
  <2>. QED  BY <2>1, <2>2
<1>3. R!TypeOK'
  BY <1>1, <1>2 DEF ToolsInv, R!TypeOK
<1>4. Listing'
  BY <1>1, <1>2 DEF ToolsInv, Listing, R!Task
<1>5. session'["call"].at # "none" => ~session'["call"].deleted
  BY <1>1, <1>2 DEF ToolsInv, R!Task
<1>6. \A n \in Name : Stands(n)'
  BY NamesRest
<1>. QED  BY <1>1, <1>3, <1>4, <1>5, <1>6 DEF ToolsInv

LEMMA AskToolsKeeps ==
  ASSUME R!ToolRegistryConstants, ToolsInv, R!AskTools
  PROVE  ToolsInv'
<1>1. PICK page \in SUBSET Tool, pc \in {"ask", "stop"} :
         /\ session' = [session EXCEPT !["sync"].at = pc, !["sync"].tools = @ \cup page]
         /\ listed' = listed \cup [server : {session["sync"].server}, tool : page]
  BY DEF R!AskTools
<1>2. /\ session["sync"].at = "ask"
      /\ UNCHANGED <<entries, discovered, configured, opened, stated, deleted, begun>>
  BY DEF R!AskTools, R!Rest
<1>3. "sync" \in R!Task /\ "call" \in R!Task /\ DOMAIN session = R!Task
  BY DEF R!Task, ToolsInv
<1>4. session["sync"].server \in Server /\ session["sync"].tools \subseteq Tool
  BY <1>2, <1>3, SessionTypes
<1>5. /\ DOMAIN session' = R!Task
      /\ \A y \in R!Task : y # "sync" => session'[y] = session[y]
  BY <1>1, <1>3
<1>6. /\ session'["sync"].at = pc /\ session'["sync"].server = session["sync"].server
      /\ session'["sync"].tools = session["sync"].tools \cup page
  <2>1. session'["sync"] = [session["sync"] EXCEPT !.at = pc, !.tools = session["sync"].tools \cup page]
    BY <1>1, <1>3
  <2>. QED  BY <2>1
<1>7. /\ listed' \subseteq R!Link /\ listed \subseteq listed'
      /\ \A x \in page : [server |-> session["sync"].server, tool |-> x] \in listed'
  BY <1>1, <1>4 DEF ToolsInv, R!TypeOK, R!Link
<1>8. R!TypeOK'
  BY <1>2, <1>3, <1>4, <1>5, <1>6, <1>7 DEF ToolsInv, R!TypeOK
<1>9. Listing'
  <2>. SUFFICES ASSUME NEW s \in Server, NEW x \in Tool, session["sync"].server = s,
                       x \in session["sync"].tools \cup page
                PROVE  [server |-> s, tool |-> x] \in listed'
    BY <1>6 DEF Listing
  <2>1. CASE x \in page
    BY <1>7, <2>1
  <2>2. CASE x \in session["sync"].tools
    <3>1. [server |-> s, tool |-> x] \in listed
      BY <1>2, <2>2 DEF ToolsInv, Listing
    <3>. QED  BY <1>7, <3>1
  <2>. QED  BY <2>1, <2>2
<1>10. session'["call"].at # "none" => ~session'["call"].deleted
  BY <1>3, <1>5 DEF ToolsInv
<1>11. \A n \in Name : Stands(n)'
  BY <1>2, <1>7, NamesRest
<1>. QED  BY <1>5, <1>8, <1>9, <1>10, <1>11 DEF ToolsInv

\* A session begins, for a name that is not deleted or for a list.
LEMMA BeginsSession ==
  ASSUME R!ToolRegistryConstants, ToolsInv, NEW x \in R!Task, NEW s \in Server, NEW tools \in SUBSET Tool,
         R!Begin(x, s, tools, FALSE), x = "sync" => tools = {}
  PROVE  ToolsInv'
<1>1. /\ begun < MaxToolSessions /\ begun' = begun + 1
      /\ session' = [session EXCEPT ![x] =
                       [at |-> "start", server |-> s, tools |-> tools, deleted |-> FALSE]]
      /\ UNCHANGED <<entries, discovered, configured, opened, stated, deleted, listed>>
  BY DEF R!Begin, R!Rest
<1>2. /\ DOMAIN session' = R!Task
      /\ \A y \in R!Task : y # x => session'[y] = session[y]
      /\ session'[x] = [at |-> "start", server |-> s, tools |-> tools, deleted |-> FALSE]
  BY <1>1 DEF ToolsInv
<1>3. /\ session'[x].at = "start" /\ session'[x].server = s /\ session'[x].tools = tools
      /\ session'[x].deleted = FALSE
  BY <1>2
<1>4. begun' \in 0..MaxToolSessions
  BY <1>1 DEF ToolsInv, R!TypeOK, R!ToolRegistryConstants
<1>5. R!TypeOK'
  BY <1>1, <1>2, <1>3, <1>4 DEF ToolsInv, R!TypeOK
<1>6. Listing'
  BY <1>1, <1>2, <1>3 DEF ToolsInv, Listing, R!Task
<1>7. session'["call"].at # "none" => ~session'["call"].deleted
  <2>1. "call" \in R!Task
    BY DEF R!Task
  <2>2. CASE x = "call"
    BY <1>3, <2>2
  <2>3. CASE x # "call"
    BY <1>2, <2>1, <2>3 DEF ToolsInv
  <2>. QED  BY <2>2, <2>3
<1>8. \A n \in Name : Stands(n)'
  BY <1>1, NamesRest
<1>. QED  BY <1>2, <1>5, <1>6, <1>7, <1>8 DEF ToolsInv

LEMMA BeginKeepsTools ==
  ASSUME R!ToolRegistryConstants, ToolsInv,
         (\E s \in Server : R!Sync(s)) \/ \E n \in Name : R!CallTool(n)
  PROVE  ToolsInv'
<1>1. ASSUME NEW s \in Server, R!Sync(s) PROVE ToolsInv'
  <2>1. R!Begin("sync", s, {}, FALSE)
    BY <1>1 DEF R!Sync
  <2>2. "sync" \in R!Task /\ {} \in SUBSET Tool
    BY DEF R!Task
  <2>. QED  BY <2>1, <2>2, BeginsSession
<1>2. ASSUME NEW n \in Name, R!CallTool(n) PROVE ToolsInv'
  <2>1. R!Get(n) # None /\ R!Get(n).link # None
    BY <1>2 DEF R!CallTool
  <2>2. entries[n] # None /\ R!Get(n) = entries[n]
    BY <2>1 DEF R!Get, R!Found
  <2>3. entries[n].link \in R!Link /\ n \notin deleted
    BY <2>1, <2>2 DEF ToolsInv, Stands, R!TypeOK, R!Entry
  <2>4. entries[n].link.server \in Server /\ {entries[n].link.tool} \in SUBSET Tool
    BY <2>3 DEF R!Link
  <2>5. (n \in deleted) = FALSE
    BY <2>3
  <2>6. R!Begin("call", entries[n].link.server, {entries[n].link.tool}, FALSE)
    BY <1>2, <2>2, <2>5 DEF R!CallTool
  <2>. QED  BY <2>4, <2>6, BeginsSession DEF R!Task
<1>. QED  BY <1>1, <1>2

\* The tools of a list are registered, up to a failure.
LEMMA RegisterKeepsTools ==
  ASSUME R!ToolRegistryConstants, ToolsInv, R!Register
  PROVE  ToolsInv'
<1>. DEFINE s == session["sync"].server
            names == {FullName(s, x) : x \in session["sync"].tools}
            toolOf(n) == CHOOSE x \in session["sync"].tools : FullName(s, x) = n
            with(done) == [n \in Name |-> IF n \in done
                             THEN [R!Found EXCEPT !.link = [server |-> s, tool |-> toolOf(n)]]
                             ELSE entries[n]]
<1>1. /\ session["sync"].at = "register" /\ R!End("sync")
      /\ UNCHANGED <<configured, stated, listed, begun>>
  BY DEF R!Register
<1>2. PICK done \in SUBSET names :
         /\ \/ done = names /\ discovered' = discovered \cup names /\ entries' = with(done)
            \/ done # names /\ discovered' = {} /\ entries' = with(done)
            \/ \E n \in names \ done :
                  discovered' = discovered \cup done \cup {n} /\ R!Save(with(done))
         /\ R!Opened(opened \ done)
         /\ deleted' = deleted \ done
  BY Zenon DEF R!Register
<1>3. s \in Server /\ session["sync"].tools \subseteq Tool
  BY <1>1, SessionTypes DEF R!Task
<1>4. names \subseteq Name
  BY <1>3 DEF R!ToolRegistryConstants
<1>5. ASSUME NEW n \in names
      PROVE  /\ toolOf(n) \in Tool /\ FullName(s, toolOf(n)) = n
             /\ [server |-> s, tool |-> toolOf(n)] \in listed
  <2>1. toolOf(n) \in session["sync"].tools /\ FullName(s, toolOf(n)) = n
    OBVIOUS
  <2>. HIDE DEF toolOf
  <2>. QED  BY <1>1, <1>3, <2>1 DEF ToolsInv, Listing
<1>. HIDE DEF toolOf, names, s
<1>6. ASSUME NEW n \in names
      PROVE  LET e == [R!Found EXCEPT !.link = [server |-> s, tool |-> toolOf(n)]]
             IN  /\ e \in R!Entry /\ e.guarded /\ e.link = [server |-> s, tool |-> toolOf(n)]
  <2>1. [server |-> s, tool |-> toolOf(n)] \in R!Link
    BY <1>3, <1>5 DEF R!Link
  <2>. QED  BY <2>1 DEF R!Found, R!Entry
<1>7. entries \in [Name -> R!Entry \cup {None}] /\ opened \subseteq Name /\ deleted \subseteq Name
      /\ discovered \subseteq Name
  BY DEF ToolsInv, R!TypeOK
<1>8. with(done) \in [Name -> R!Entry \cup {None}]
  BY <1>2, <1>6, <1>7
<1>9. ASSUME NEW n \in Name, entries'[n] # None
      PROVE  \/ /\ n \in done
                /\ entries'[n] = [R!Found EXCEPT !.link = [server |-> s, tool |-> toolOf(n)]]
             \/ n \notin done /\ entries'[n] = entries[n]
  <2>1. entries' = with(done)
    BY <1>2, <1>9 DEF R!Save, R!Nothing
  <2>. QED  BY <2>1
<1>10. entries' \in [Name -> R!Entry \cup {None}] /\ discovered' \subseteq Name
  <2>1. R!Nothing \in [Name -> R!Entry \cup {None}]
    BY DEF R!Nothing
  <2>. HIDE DEF with
  <2>. QED  BY <1>2, <1>4, <1>7, <1>8, <2>1 DEF R!Save
<1>. HIDE DEF with
<1>11. opened' \subseteq Name /\ \A n \in opened \ done : entries'[n] # None => n \in opened'
  BY <1>2, <1>7 DEF R!Opened
<1>12. ASSUME NEW n \in Name, entries'[n] # None PROVE Stands(n)'
  <2>1. CASE n \in done
    <3>1. /\ entries'[n].guarded /\ entries'[n].link = [server |-> s, tool |-> toolOf(n)]
          /\ [server |-> s, tool |-> toolOf(n)] \in listed' /\ FullName(s, toolOf(n)) = n
      BY <1>1, <1>2, <1>5, <1>6, <1>9, <1>12, <2>1
    <3>2. entries'[n].link.server = s /\ entries'[n].link.tool = toolOf(n)
      BY <3>1
    <3>. QED  BY <1>2, <2>1, <3>1, <3>2 DEF Stands
  <2>2. CASE n \notin done
    <3>1. entries'[n] = entries[n] /\ Stands(n)
      BY <1>9, <1>12, <2>2 DEF ToolsInv
    <3>. QED  BY <1>1, <1>2, <1>11, <1>12, <2>2, <3>1 DEF Stands
  <2>. QED  BY <2>1, <2>2
<1>13. \A n \in Name : Stands(n)'
  BY <1>12 DEF Stands
<1>14. /\ DOMAIN session' = R!Task /\ session'["sync"].at = "none"
       /\ \A y \in R!Task : y # "sync" => session'[y] = session[y]
  BY <1>1, QuietIs DEF R!End, ToolsInv, R!Task
<1>15. R!TypeOK'
  BY <1>1, <1>2, <1>7, <1>10, <1>11, <1>14 DEF ToolsInv, R!TypeOK
<1>16. Listing' /\ (session'["call"].at # "none" => ~session'["call"].deleted)
  BY <1>14 DEF ToolsInv, Listing, R!Task
<1>. QED  BY <1>13, <1>14, <1>15, <1>16 DEF ToolsInv

\* ToolRegistryService, for any servers and tools: a name stands for a tool that its server
\* listed under that name, or for what an administrator stated; only an administrator makes
\* it available to others; and none is called that is deleted.
THEOREM ToolsAreKnownToAll ==
  R!ToolRegistryConstants /\ R!Spec => [](R!TypeOK /\ R!ToolsAreKnown)
<1>. SUFFICES ASSUME R!ToolRegistryConstants PROVE R!Spec => [](R!TypeOK /\ R!ToolsAreKnown)
  OBVIOUS
<1>1. ASSUME R!Init PROVE ToolsInv
  <2>1. /\ entries = [n \in Name |-> None] /\ discovered = {} /\ opened = {} /\ stated = {}
        /\ listed = {} /\ deleted = {} /\ begun = 0
        /\ configured \in [Server -> {"absent", "off", "on"}]
        /\ session = [x \in R!Task |-> R!Quiet]
    BY <1>1 DEF R!Init, R!Nothing
  <2>2. DOMAIN session = R!Task /\ \A x \in R!Task : session[x].at = "none"
    BY <2>1, QuietIs
  <2>3. R!TypeOK
    BY <2>1, <2>2 DEF R!TypeOK, R!ToolRegistryConstants
  <2>. QED  BY <2>1, <2>2, <2>3 DEF ToolsInv, Listing, Stands, R!Task
<1>2. ASSUME ToolsInv, [R!Next]_(R!vars) PROVE ToolsInv'
  <2>1. CASE UNCHANGED R!vars
    BY <1>2, <2>1 DEF R!vars, ToolsInv, R!TypeOK, Listing, Stands
  <2>2. ASSUME NEW s \in Server, R!Configure(s) PROVE ToolsInv'
    <3>1. /\ configured' \in [Server -> {"absent", "off", "on"}]
          /\ UNCHANGED <<entries, discovered, session, opened, stated, listed, deleted, begun>>
      BY <1>2, <2>2 DEF R!Configure, ToolsInv, R!TypeOK
    <3>. QED  BY <1>2, <3>1 DEF ToolsInv, R!TypeOK, Listing, Stands
  <2>3. ASSUME NEW x \in R!Task,
               \/ R!StartProcess(x) \/ R!Initialize(x) \/ R!AskFails(x) \/ R!Stop(x)
        PROVE  ToolsInv'
    BY <1>2, <2>3, SessionMoves
       DEF R!StartProcess, R!Initialize, R!AskFails, R!Stop, R!Rest
  <2>4. ASSUME R!Die PROVE ToolsInv'
    <3>1. /\ session' = [x \in R!Task |-> R!Quiet]
          /\ UNCHANGED <<entries, discovered, configured, opened, stated, listed, deleted, begun>>
      BY <2>4 DEF R!Die, R!Rest
    <3>2. DOMAIN session' = R!Task /\ \A x \in R!Task : session'[x].at = "none"
      BY <3>1, QuietIs
    <3>. QED  BY <1>2, <3>1, <3>2, NamesRest DEF ToolsInv, R!TypeOK, Listing, R!Task
  <2>. QED  BY <1>2, <2>1, <2>2, <2>3, <2>4, PutKeeps, DeleteKeeps, AskToolsKeeps, BeginKeepsTools,
               RegisterKeepsTools
            DEF R!Next
<1>3. ASSUME ToolsInv PROVE R!TypeOK /\ R!ToolsAreKnown
  <2>1. ASSUME NEW n \in Name, R!Get(n) # None
        PROVE  /\ R!Get(n).guarded \/ n \in opened
               /\ R!Get(n).link # None =>
                     \/ <<n, R!Get(n).link>> \in stated
                     \/ /\ R!Get(n).link \in listed
                        /\ FullName(R!Get(n).link.server, R!Get(n).link.tool) = n
    <3>1. CASE entries[n] # None
      BY <1>3, <3>1 DEF ToolsInv, Stands, R!Get
    <3>2. CASE entries[n] = None
      <4>1. R!Get(n) = R!Found
        BY <2>1, <3>2 DEF R!Get
      <4>. QED  BY <4>1 DEF R!Found
    <3>. QED  BY <3>1, <3>2
  <2>. QED  BY <1>3, <2>1 DEF ToolsInv, R!ToolsAreKnown
<1>. QED  BY <1>1, <1>2, <1>3, PTL DEF R!Spec

----------------------------------------------------------------------------
(* ThreatLevel: how calm it can have been at a level of some age, and who    *)
(* has still to answer the last event.                                       *)

\* The timers of the levels above one.
Above == [l \in 0..3 |-> CASE l = 3 -> 0
                           [] l = 2 -> Timers[3]
                           [] l = 1 -> Timers[2] + Timers[3]
                           [] l = 0 -> H!Longest]

Posts ==
    [step : {"idle", "resolve"}] \cup [step : {"check"}, target : 0..3]
       \cup [step : {"set"}, to : 0..3]

Event == [kind : {"auth_failure", "exception"}, source : Source, age : 0..Window]

\* While nothing meets the last event's evaluation, that is where the target is.
Answers ==
    \/ H!Busy = {} /\ level >= H!Target(events)
    \/ \E a \in H!Actor :
          /\ H!Busy = {a}
          /\ \/ at[a].step = "check" /\ at[a].target = H!Target(events)
             \/ at[a].step = "set" /\ at[a].to = H!Target(events)

AnswersInv ==
    /\ events \in Seq(Event) /\ \A i, j \in DOMAIN events : i <= j => events[i].age >= events[j].age
    /\ firm \in BOOLEAN
    /\ firm => Answers

ThreatInv ==
    /\ level \in 0..3 /\ since \in 0..H!Longest /\ calm \in 0..H!Longest
    /\ turn \in BOOLEAN /\ at \in [H!Actor -> Posts]
    /\ calm <= Above[level] + since
    /\ level > 0 => since <= Timers[level]
    /\ level > 0 /\ since = Timers[level] => turn \/ at[H!Loop].step = "set"
    /\ \A a \in H!Actor :
          /\ at[a].step = "check" => calm = 0
          /\ at[a].step = "set" => calm <= Above[at[a].to]

LEMMA AboveIs ==
  ASSUME H!ThreatLevelConstants
  PROVE  /\ Timers[1] \in Nat \ {0} /\ Timers[2] \in Nat \ {0} /\ Timers[3] \in Nat \ {0}
         /\ Above[0] = Timers[1] + Timers[2] + Timers[3] /\ Above[1] = Timers[2] + Timers[3]
         /\ Above[2] = Timers[3] /\ Above[3] = 0
         /\ H!Longest = Timers[1] + Timers[2] + Timers[3]
BY DEF H!ThreatLevelConstants, Above, H!Longest

\* _evaluate asks for one of the levels.
LEMMA TargetIs ==
  ASSUME NEW s
  PROVE  /\ H!Target(s) \in 0..3
         /\ H!Asked(H!Target(s), s) /\ \A m \in 0..3 : H!Asked(m, s) => m <= H!Target(s)
<1>1. H!Asked(0, s)
  BY DEF H!Asked
<1>2. \E l \in 0..3 : H!Asked(l, s) /\ \A m \in 0..3 : H!Asked(m, s) => m <= l
  <2>1. CASE H!Asked(3, s)
    BY <2>1
  <2>2. CASE ~H!Asked(3, s) /\ H!Asked(2, s)
    BY <2>2
  <2>3. CASE ~H!Asked(3, s) /\ ~H!Asked(2, s) /\ H!Asked(1, s)
    BY <2>3
  <2>4. CASE ~H!Asked(3, s) /\ ~H!Asked(2, s) /\ ~H!Asked(1, s)
    BY <1>1, <2>4
  <2>. QED  BY <2>1, <2>2, <2>3, <2>4
<1>. QED  BY <1>2 DEF H!Target

LEMMA PostsAre ==
  ASSUME ThreatInv, NEW a \in H!Actor
  PROVE  /\ at[a] \in Posts /\ DOMAIN at = H!Actor
         /\ at[a].step = "check" => at[a].target \in 0..3
         /\ at[a].step = "set" => at[a].to \in 0..3
BY DEF ThreatInv, Posts

\* One actor goes on.
LEMMA GoIs ==
  ASSUME ThreatInv, NEW a \in H!Actor, NEW next \in Posts, H!Go(a, next)
  PROVE  /\ at' \in [H!Actor -> Posts] /\ at'[a] = next
         /\ \A b \in H!Actor : b # a => at'[b] = at[b]
BY DEF ThreatInv, H!Go

LEMMA IdleStep == H!Idle \in Posts /\ H!Idle.step = "idle"
BY DEF H!Idle, Posts

LEMMA RecordThreat ==
  ASSUME H!ThreatLevelConstants, ThreatInv, NEW a \in H!Actor, at[a] = H!Idle, NEW kind, NEW s,
         H!Record(a, kind, s)
  PROVE  ThreatInv'
<1>. DEFINE target == H!Target(events')
            next == [step |-> "check", target |-> target]
<1>1. calm' = 0 /\ UNCHANGED <<level, since, turn>> /\ H!Go(a, next)
  BY DEF H!Record
<1>2. target \in 0..3
  BY TargetIs
<1>. HIDE DEF target
<1>3. next \in Posts /\ next.step = "check"
  BY <1>2 DEF Posts
<1>. HIDE DEF next
<1>4. /\ at' \in [H!Actor -> Posts] /\ at'[a] = next
      /\ \A b \in H!Actor : b # a => at'[b] = at[b]
  BY <1>1, <1>3, GoIs
<1>5. \A l \in 0..3 : Above[l] >= 0 /\ Above[l] \in Nat
  BY AboveIs
<1>6. ASSUME NEW b \in H!Actor
      PROVE  /\ at'[b].step = "check" => calm' = 0
             /\ at'[b].step = "set" => calm' <= Above[at'[b].to]
  <2>1. CASE b = a
    BY <1>1, <1>3, <1>4, <2>1
  <2>2. CASE b # a
    BY <1>1, <1>4, <1>5, <2>2, PostsAre
  <2>. QED  BY <2>1, <2>2
<1>7. level > 0 /\ since = Timers[level] => turn \/ at'[H!Loop].step = "set"
  BY <1>4, IdleStep DEF ThreatInv, H!Actor
<1>8. calm' \in 0..H!Longest /\ calm' <= Above[level] + since
  BY <1>1, <1>5, AboveIs DEF ThreatInv
<1>. QED  BY <1>1, <1>4, <1>6, <1>7, <1>8 DEF ThreatInv

LEMMA CompareThreat ==
  ASSUME H!ThreatLevelConstants, ThreatInv, NEW a \in H!Actor, H!Compare(a)
  PROVE  ThreatInv'
<1>. DEFINE next == IF at[a].target > level THEN [step |-> "set", to |-> at[a].target]
                                               ELSE H!Idle
<1>1. /\ at[a].step = "check" /\ H!Go(a, next) /\ UNCHANGED <<level, since, turn, calm>>
  BY DEF H!Compare
<1>2. at[a].target \in 0..3 /\ calm = 0
  BY <1>1, PostsAre DEF ThreatInv
<1>3. /\ next \in Posts /\ next.step \in {"idle", "set"}
      /\ next.step = "set" => next.to \in 0..3
  BY <1>2, IdleStep DEF Posts
<1>. HIDE DEF next
<1>4. /\ at' \in [H!Actor -> Posts] /\ at'[a] = next
      /\ \A b \in H!Actor : b # a => at'[b] = at[b]
  BY <1>1, <1>3, GoIs
<1>5. \A l \in 0..3 : Above[l] >= 0 /\ Above[l] \in Nat
  BY AboveIs
<1>6. ASSUME NEW b \in H!Actor
      PROVE  /\ at'[b].step = "check" => calm' = 0
             /\ at'[b].step = "set" => calm' <= Above[at'[b].to]
  <2>1. CASE b = a
    BY <1>1, <1>2, <1>3, <1>4, <1>5, <2>1
  <2>2. CASE b # a
    BY <1>1, <1>4, <2>2 DEF ThreatInv
  <2>. QED  BY <2>1, <2>2
<1>7. level > 0 /\ since = Timers[level] => turn \/ at'[H!Loop].step = "set"
  BY <1>1, <1>4 DEF ThreatInv, H!Actor
<1>. QED  BY <1>1, <1>4, <1>6, <1>7 DEF ThreatInv

\* The level is set to one that the calm allows.
LEMMA SetsThreat ==
  ASSUME H!ThreatLevelConstants, ThreatInv, NEW a \in H!Actor, NEW l \in 0..3, H!SetLevel(l),
         calm <= Above[l], UNCHANGED <<turn, calm>>,
         H!Go(a, H!Idle) \/ H!Go(a, [step |-> "resolve"])
  PROVE  ThreatInv'
<1>1. level' = l /\ since' = 0
  BY DEF H!SetLevel
<1>2. PICK next \in Posts : next.step \in {"idle", "resolve"} /\ H!Go(a, next)
  <2>1. [step |-> "resolve"] \in Posts /\ [step |-> "resolve"].step = "resolve"
    BY DEF Posts
  <2>. QED  BY <2>1, IdleStep
<1>3. /\ at' \in [H!Actor -> Posts] /\ at'[a] = next
      /\ \A b \in H!Actor : b # a => at'[b] = at[b]
  BY <1>2, GoIs
<1>4. \A b \in H!Actor :
         /\ at'[b].step = "check" => calm = 0
         /\ at'[b].step = "set" => calm <= Above[at'[b].to]
  BY <1>2, <1>3 DEF ThreatInv
<1>5. /\ level' > 0 => since' < Timers[level']
      /\ level' \in 0..3 /\ since' \in 0..H!Longest /\ calm' <= Above[level'] + since'
  BY <1>1, AboveIs DEF ThreatInv
<1>6. level' > 0 => since' <= Timers[level'] /\ since' # Timers[level']
  BY <1>1, <1>5, AboveIs
<1>. QED  BY <1>3, <1>4, <1>5, <1>6 DEF ThreatInv

\* A lower level is asked for, by an operator or by the decay loop.
LEMMA LowersThreat ==
  ASSUME H!ThreatLevelConstants, ThreatInv, NEW a \in H!Actor, level > 0,
         H!Go(a, [step |-> "set", to |-> level - 1]), UNCHANGED <<level, since, calm>>,
         \/ turn' = turn /\ at[a] = H!Idle
         \/ turn' = FALSE /\ a = H!Loop
  PROVE  ThreatInv'
<1>. DEFINE next == [step |-> "set", to |-> level - 1]
<1>1. next \in Posts /\ next.step = "set" /\ next.to = level - 1
  BY DEF Posts, ThreatInv
<1>2. H!Go(a, next)
  OBVIOUS
<1>. HIDE DEF next
<1>3. /\ at' \in [H!Actor -> Posts] /\ at'[a] = next
      /\ \A b \in H!Actor : b # a => at'[b] = at[b]
  BY <1>1, <1>2, GoIs
<1>4. calm <= Above[level - 1]
  BY AboveIs DEF ThreatInv
<1>5. \A b \in H!Actor :
         /\ at'[b].step = "check" => calm = 0
         /\ at'[b].step = "set" => calm <= Above[at'[b].to]
  BY <1>1, <1>3, <1>4 DEF ThreatInv
<1>6. level > 0 /\ since = Timers[level] => turn' \/ at'[H!Loop].step = "set"
  BY <1>1, <1>3, IdleStep DEF ThreatInv, H!Actor
<1>7. turn' \in BOOLEAN
  BY DEF ThreatInv
<1>. QED  BY <1>3, <1>5, <1>6, <1>7 DEF ThreatInv

LEMMA WaitThreat ==
  ASSUME H!ThreatLevelConstants, ThreatInv, H!Wait
  PROVE  ThreatInv'
<1>1. /\ ~turn /\ H!Busy = {} /\ turn' = TRUE /\ UNCHANGED <<level, at>>
      /\ since' = H!Least(since + 1, H!Longest) /\ calm' = H!Least(calm + 1, H!Longest)
  BY DEF H!Wait
<1>2. \A a \in H!Actor : at[a].step = "idle"
  BY <1>1, IdleStep DEF H!Busy
<1>3. level > 0 => since < Timers[level]
  BY <1>1, <1>2, AboveIs DEF ThreatInv, H!Actor
<1>4. /\ since' \in 0..H!Longest /\ calm' \in 0..H!Longest
      /\ level > 0 => since' <= Timers[level]
      /\ calm' <= Above[level] + since'
  <2>1. /\ since \in 0..H!Longest /\ calm \in 0..H!Longest /\ level \in 0..3
        /\ calm <= Above[level] + since
    BY DEF ThreatInv
  <2>2. since' = (IF since + 1 < H!Longest THEN since + 1 ELSE H!Longest)
        /\ calm' = (IF calm + 1 < H!Longest THEN calm + 1 ELSE H!Longest)
    BY <1>1 DEF H!Least
  <2>. QED  BY <1>3, <2>1, <2>2, AboveIs
<1>5. turn' \in BOOLEAN
  BY Zenon, <1>1
<1>. QED  BY <1>1, <1>2, <1>4, <1>5 DEF ThreatInv

LEMMA ThreatCountIs == \A set : H!Cardinality(set) = Cardinality(set)
BY DEF H!Cardinality, Cardinality, H!IsFiniteSet, IsFiniteSet

\* Fewer events ask for no higher level.
LEMMA FewerEvents ==
  ASSUME NEW older, NEW younger, NEW k \in Int, IsFiniteSet(DOMAIN older), DOMAIN younger \subseteq Int,
         \A i \in DOMAIN younger : /\ i + k \in DOMAIN older
                                  /\ younger[i].kind = older[i + k].kind
                                  /\ younger[i].source = older[i + k].source,
         H!ThreatLevelConstants
  PROVE  H!Target(younger) <= H!Target(older)
<1>1. ASSUME NEW some \in SUBSET Int, NEW all \in SUBSET DOMAIN older, \A i \in some : i + k \in all
      PROVE  Cardinality(some) <= Cardinality(all) /\ Cardinality(some) \in Nat /\ Cardinality(all) \in Nat
  <2>. DEFINE f == [i \in some |-> i + k]
  <2>1. f \in [some -> all] /\ \A i, j \in some : f[i] = f[j] => i = j
    BY <1>1
  <2>2. f \in Injection(some, all)
    BY <2>1 DEF Injection, IsInjective
  <2>3. IsFiniteSet(all)
    BY FS_Subset
  <2>. HIDE DEF f
  <2>. QED  BY <2>2, <2>3, FS_Injection, FS_CardinalityType
<1>. DEFINE Auth(seq) == H!Recent("auth_failure", seq)
            Raised(seq) == H!Recent("exception", seq)
            From(seq, s) == {i \in Auth(seq) : seq[i].source = s}
<1>2. /\ Cardinality(Auth(younger)) <= Cardinality(Auth(older))
      /\ Cardinality(Auth(younger)) \in Nat /\ Cardinality(Auth(older)) \in Nat
  BY <1>1 DEF H!Recent
<1>3. /\ Cardinality(Raised(younger)) <= Cardinality(Raised(older))
      /\ Cardinality(Raised(younger)) \in Nat /\ Cardinality(Raised(older)) \in Nat
  BY <1>1 DEF H!Recent
<1>4. ASSUME NEW s \in Source
      PROVE  /\ Cardinality(From(younger, s)) <= Cardinality(From(older, s))
             /\ Cardinality(From(younger, s)) \in Nat /\ Cardinality(From(older, s)) \in Nat
  BY <1>1 DEF H!Recent
<1>5. ASSUME NEW l \in 0..3, H!Asked(l, younger) PROVE H!Asked(l, older)
  <2>1. CASE l = 1
    <3>. l # 0 /\ l \notin {2, 3}
      BY <2>1
    <3>1. \E s \in Source : Cardinality(From(younger, s)) >= FailuresOf
      BY Zenon, <1>5, <2>1, ThreatCountIs DEF H!Asked
    <3>2. \E s \in Source : Cardinality(From(older, s)) >= FailuresOf
      <4>. HIDE DEF From
      <4>. QED  BY <1>4, <3>1 DEF H!ThreatLevelConstants
    <3>. QED  BY Zenon, <2>1, <3>2, ThreatCountIs DEF H!Asked
  <2>2. CASE l \in {2, 3}
    <3>. l # 0 /\ l # 1
      BY <2>2
    <3>1. Cardinality(Auth(younger)) >= FailureLimits[l] \/ Cardinality(Raised(younger)) >= ErrorLimits[l]
      BY Zenon, <1>5, <2>2, ThreatCountIs DEF H!Asked
    <3>2. FailureLimits[l] \in Nat /\ ErrorLimits[l] \in Nat
      BY <2>2 DEF H!ThreatLevelConstants
    <3>3. Cardinality(Auth(older)) >= FailureLimits[l] \/ Cardinality(Raised(older)) >= ErrorLimits[l]
      <4>. HIDE DEF Auth, Raised
      <4>. QED  BY <1>2, <1>3, <3>1, <3>2
    <3>. QED  BY Zenon, <2>2, <3>3, ThreatCountIs DEF H!Asked
  <2>3. CASE l = 0
    BY <2>3 DEF H!Asked
  <2>. QED  BY <2>1, <2>2, <2>3
<1>. QED  BY <1>5, TargetIs

\* No events ask for no level.
LEMMA NoEvents ==
  ASSUME H!ThreatLevelConstants
  PROVE  H!Target(<<>>) = 0
<1>1. ASSUME NEW l \in 1..3 PROVE ~H!Asked(l, <<>>)
  <2>1. \A kind : H!Recent(kind, <<>>) = {}
    BY DEF H!Recent
  <2>2. \A s : {i \in H!Recent("auth_failure", <<>>) : <<>>[i].source = s} = {}
    BY <2>1
  <2>3. Cardinality({}) = 0 /\ FailuresOf > 0
    BY FS_EmptySet DEF H!ThreatLevelConstants
  <2>4. l \in {2, 3} => FailureLimits[l] > 0 /\ ErrorLimits[l] > 0
    BY DEF H!ThreatLevelConstants
  <2>5. ~(0 >= FailuresOf) /\ (l \in {2, 3} => ~(0 >= FailureLimits[l]) /\ ~(0 >= ErrorLimits[l])) /\ l # 0
    BY <2>3, <2>4 DEF H!ThreatLevelConstants
  <2>. QED  BY Zenon, <2>1, <2>2, <2>3, <2>5, ThreatCountIs DEF H!Asked
<1>. QED  BY <1>1, TargetIs

LEMMA BusyIs ==
  ASSUME ThreatInv, NEW a \in H!Actor
  PROVE  a \in H!Busy <=> at[a] # H!Idle
BY DEF H!Busy

\* Whoever goes on is busy until it is idle.
LEMMA GoesOn ==
  ASSUME ThreatInv, NEW a \in H!Actor, NEW next \in Posts, H!Go(a, next)
  PROVE  H!Busy' = IF next = H!Idle THEN H!Busy \ {a} ELSE H!Busy \cup {a}
<1>1. /\ at'[a] = next
      /\ \A b \in H!Actor : b # a => at'[b] = at[b]
  BY GoIs
<1>2. H!Busy \subseteq H!Actor /\ H!Busy' \subseteq H!Actor
  BY DEF H!Busy, H!Actor
<1>3. \A b \in H!Actor : /\ b \in H!Busy <=> at[b] # H!Idle
                         /\ b \in H!Busy' <=> at'[b] # H!Idle
  BY DEF H!Busy, H!Idle, H!Actor
<1>. QED  BY <1>1, <1>2, <1>3

LEMMA RecordedIsAnswered ==
  ASSUME H!ThreatLevelConstants, ThreatInv, AnswersInv, NEW a \in H!Actor, at[a] = H!Idle,
         NEW kind \in {"auth_failure", "exception"}, NEW s \in Source, H!Record(a, kind, s)
  PROVE  AnswersInv'
<1>. DEFINE new == [kind |-> kind, source |-> s, age |-> 0]
            target == H!Target(events')
            next == [step |-> "check", target |-> target]
<1>1. events' = H!LastN(Append(events, new)) /\ H!Go(a, next) /\ firm' = (H!Busy \subseteq {a})
  BY DEF H!Record
<1>2. events' \in Seq(Event) /\ \A i, j \in DOMAIN events' : i <= j => events'[i].age >= events'[j].age
  <2>. DEFINE longer == Append(events, new)
  <2>1. new \in Event /\ new.age = 0
    BY DEF Event, H!ThreatLevelConstants
  <2>2. events \in Seq(Event) /\ \A i \in DOMAIN events : events[i].age \in Nat
    <3>1. events \in Seq(Event) /\ \A i \in DOMAIN events : events[i] \in Event
      BY DEF AnswersInv
    <3>. QED  BY <3>1 DEF Event, H!ThreatLevelConstants
  <2>. HIDE DEF new
  <2>3. /\ longer \in Seq(Event) /\ Len(longer) = Len(events) + 1 /\ Len(events) \in Nat
        /\ \A i \in 1..Len(events) : longer[i] = events[i]
        /\ longer[Len(events) + 1] = new
    BY <2>1, <2>2
  <2>. HIDE DEF longer
  <2>4. \A i, j \in 1..Len(longer) : i <= j => longer[i].age >= longer[j].age
    <3>1. SUFFICES ASSUME NEW i \in 1..(Len(events) + 1), NEW j \in 1..(Len(events) + 1), i <= j
                   PROVE  longer[i].age >= longer[j].age
      BY <2>3
    <3>2. CASE j = Len(events) + 1
      <4>1. longer[j].age = 0 /\ (longer[i].age \in Nat)
        BY <2>1, <2>2, <2>3, <3>1, <3>2
      <4>. QED  BY <4>1
    <3>3. CASE j # Len(events) + 1
      <4>1. i \in 1..Len(events) /\ j \in 1..Len(events)
        BY <2>3, <3>1, <3>3
      <4>. QED  BY <2>2, <2>3, <3>1, <4>1 DEF AnswersInv
    <3>. QED  BY <3>2, <3>3
  <2>5. /\ Tail(longer) \in Seq(Event) /\ DOMAIN Tail(longer) = 1..Len(events)
        /\ \A i \in 1..Len(events) : Tail(longer)[i] = longer[i + 1]
        /\ \A i \in 1..Len(events) : i + 1 \in 1..Len(longer)
    BY <2>3
  <2>6. \A i, j \in DOMAIN Tail(longer) : i <= j => Tail(longer)[i].age >= Tail(longer)[j].age
    BY <2>4, <2>5
  <2>7. events' = longer \/ events' = Tail(longer)
    BY <1>1 DEF H!LastN, longer
  <2>8. DOMAIN longer = 1..Len(longer)
    BY <2>3
  <2>. QED  BY <2>3, <2>4, <2>5, <2>6, <2>7, <2>8
<1>3. target \in 0..3
  BY TargetIs
<1>. HIDE DEF target
<1>4. next \in Posts /\ next # H!Idle /\ next.step = "check" /\ next.target = target
  BY <1>3 DEF Posts, H!Idle
<1>. HIDE DEF next
<1>5. H!Busy' = H!Busy \cup {a} /\ at'[a] = next
  BY <1>1, <1>4, GoesOn, GoIs
<1>6. ASSUME firm' PROVE Answers'
  BY <1>1, <1>4, <1>5, <1>6 DEF Answers, target, H!Actor
<1>. QED  BY <1>1, <1>2, <1>6 DEF AnswersInv

LEMMA ComparedIsAnswered ==
  ASSUME H!ThreatLevelConstants, ThreatInv, AnswersInv, NEW a \in H!Actor, H!Compare(a)
  PROVE  AnswersInv'
<1>. DEFINE next == IF at[a].target > level THEN [step |-> "set", to |-> at[a].target]
                                               ELSE H!Idle
<1>1. /\ at[a].step = "check" /\ H!Go(a, next) /\ UNCHANGED <<level, events, firm>>
  BY DEF H!Compare
<1>2. at[a].target \in 0..3
  BY <1>1, PostsAre
<1>3. /\ next \in Posts
      /\ next = H!Idle => level >= at[a].target
      /\ next # H!Idle => next.step = "set" /\ next.to = at[a].target
  BY <1>2, IdleStep DEF Posts, ThreatInv
<1>. HIDE DEF next
<1>4. /\ H!Busy' = (IF next = H!Idle THEN H!Busy \ {a} ELSE H!Busy \cup {a}) /\ at'[a] = next
  BY <1>1, <1>3, GoesOn, GoIs
<1>5. ASSUME firm PROVE Answers'
  <2>1. a \in H!Busy
    BY <1>1, IdleStep, BusyIs
  <2>2. H!Busy = {a} /\ at[a].target = H!Target(events)
    BY <1>1, <1>5, <2>1 DEF AnswersInv, Answers
  <2>3. H!Target(events') = H!Target(events)
    BY <1>1
  <2>. QED  BY <1>1, <1>3, <1>4, <2>2, <2>3 DEF Answers, H!Actor
<1>. QED  BY <1>1, <1>5 DEF AnswersInv

LEMMA SetIsAnswered ==
  ASSUME H!ThreatLevelConstants, ThreatInv, AnswersInv, NEW a \in H!Actor, H!Set(a)
  PROVE  AnswersInv'
<1>1. /\ at[a].step = "set" /\ level' = at[a].to /\ H!Go(a, H!Idle)
      /\ events' = events /\ firm' = (firm /\ H!Busy = {a})
  BY DEF H!Set, H!SetLevel
<1>2. H!Busy' = H!Busy \ {a} /\ at[a].to \in 0..3
  BY <1>1, GoesOn, IdleStep, PostsAre
<1>3. H!Target(events) \in 0..3 /\ H!Target(events') = H!Target(events)
  BY <1>1, TargetIs
<1>4. ASSUME firm, H!Busy = {a} PROVE Answers'
  <2>1. at[a].to = H!Target(events)
    BY <1>1, <1>4 DEF AnswersInv, Answers
  <2>. QED  BY <1>1, <1>2, <1>3, <1>4, <2>1 DEF Answers
<1>. QED  BY <1>1, <1>4 DEF AnswersInv

LEMMA WaitingIsAnswered ==
  ASSUME H!ThreatLevelConstants, ThreatInv, AnswersInv, H!Wait
  PROVE  AnswersInv'
<1>. DEFINE k == Cardinality(H!Old)
<1>1. /\ H!Busy = {} /\ UNCHANGED <<level, at, firm>>
      /\ events' = [i \in DOMAIN H!Young |-> [H!Young[i] EXCEPT !.age = @ + 1]]
  BY DEF H!Wait
<1>2. events \in Seq(Event) /\ Len(events) \in Nat /\ DOMAIN events = 1..Len(events)
      /\ \A i \in 1..Len(events) : events[i] \in Event
  BY DEF AnswersInv
<1>3. /\ IsFiniteSet(DOMAIN events) /\ Cardinality(DOMAIN events) = Len(events)
      /\ IsFiniteSet(H!Old) /\ H!Old \subseteq DOMAIN events /\ k \in Nat
  <2>1. IsFiniteSet(1..Len(events)) /\ Cardinality(1..Len(events)) = Len(events)
    <3>1. 1 \in Int /\ Len(events) \in Int /\ (1 > Len(events) => Len(events) = 0)
          /\ Len(events) - 1 + 1 = Len(events)
      BY <1>2
    <3>2. /\ IsFiniteSet(1..Len(events))
          /\ Cardinality(1..Len(events)) = IF 1 > Len(events) THEN 0 ELSE Len(events) - 1 + 1
      BY <3>1, FS_Interval
    <3>. QED  BY <3>1, <3>2
  <2>2. H!Old \subseteq DOMAIN events
    BY DEF H!Old
  <2>3. IsFiniteSet(H!Old)
    BY <1>2, <2>1, <2>2, FS_Subset
  <2>. QED  BY <1>2, <2>1, <2>2, <2>3, FS_CardinalityType
<1>. HIDE DEF k
<1>4. ASSUME NEW i \in DOMAIN events, i > k PROVE events[i].age < Window
  <2>1. SUFFICES ASSUME i \in H!Old PROVE FALSE
    BY <1>2, <1>4 DEF H!Old, Event, H!ThreatLevelConstants
  <2>2. i \in Nat /\ i >= 1 /\ \A j \in 1..i : j \in 1..Len(events)
    BY <1>2
  <2>3. ASSUME NEW j \in 1..i PROVE j \in H!Old
    <3>1. events[j].age >= events[i].age
      BY <1>2, <2>2, <2>3 DEF AnswersInv, Event
    <3>. QED  BY <1>2, <2>1, <2>2, <3>1 DEF H!Old, Event, H!ThreatLevelConstants
  <2>4. 1..i \subseteq H!Old
    BY <2>3
  <2>5. Cardinality(1..i) <= k /\ Cardinality(1..i) = i
    <3>1. Cardinality(1..i) = i
      BY <2>2, FS_Interval
    <3>2. Cardinality(1..i) <= Cardinality(H!Old)
      BY <1>3, <2>4, FS_Subset
    <3>. QED  BY <3>1, <3>2 DEF k
  <2>. QED  BY <1>3, <1>4, <2>2, <2>5
<1>5. k <= Len(events)
  BY <1>2, <1>3, FS_Subset DEF k
<1>6. /\ DOMAIN H!Young = 1..(Len(events) - k)
      /\ \A i \in 1..(Len(events) - k) : H!Young[i] = events[i + k]
  <2>1. H!Young = SubSeq(events, k + 1, Len(events)) /\ k + 1 \in 1..(Len(events) + 1)
    BY <1>2, <1>3, <1>5, ThreatCountIs DEF H!Young, k
  <2>2. /\ DOMAIN H!Young = 1..(Len(events) - k)
        /\ \A i \in 1..(Len(events) - k) : H!Young[i] = events[(k + 1) + i - 1]
    BY <1>2, <1>3, <1>5, <2>1
  <2>3. \A i \in 1..(Len(events) - k) : (k + 1) + i - 1 = i + k
    BY <1>2, <1>3
  <2>. QED  BY <2>2, <2>3
<1>7. ASSUME NEW i \in 1..(Len(events) - k)
      PROVE  /\ i + k \in DOMAIN events /\ i + k > k
             /\ events'[i] \in Event /\ events'[i].age = events[i + k].age + 1
             /\ events'[i].kind = events[i + k].kind /\ events'[i].source = events[i + k].source
  <2>1. i + k \in DOMAIN events /\ i + k > k
    BY <1>2, <1>3, <1>5
  <2>2. PICK e : e = events[i + k]
    OBVIOUS
  <2>3. e \in Event /\ e.age < Window
    BY <1>2, <1>4, <2>1, <2>2
  <2>4. events'[i] = [e EXCEPT !.age = e.age + 1]
    BY <1>1, <1>6, <2>2
  <2>5. [e EXCEPT !.age = e.age + 1] \in Event
    BY <2>3 DEF Event, H!ThreatLevelConstants
  <2>6. /\ [e EXCEPT !.age = e.age + 1].age = e.age + 1
        /\ [e EXCEPT !.age = e.age + 1].kind = e.kind /\ [e EXCEPT !.age = e.age + 1].source = e.source
    BY <2>3 DEF Event
  <2>. QED  BY <2>1, <2>2, <2>4, <2>5, <2>6
<1>8. DOMAIN events' = 1..(Len(events) - k)
  BY <1>1, <1>6
<1>9. events' \in Seq(Event)
  <2>1. events' = [i \in 1..(Len(events) - k) |-> events'[i]]
    BY <1>1, <1>6
  <2>2. Len(events) - k \in Nat
    BY <1>2, <1>3, <1>5
  <2>. QED  BY <1>7, <2>1, <2>2
<1>10. \A i, j \in DOMAIN events' : i <= j => events'[i].age >= events'[j].age
  <2>1. SUFFICES ASSUME NEW i \in 1..(Len(events) - k), NEW j \in 1..(Len(events) - k), i <= j
                 PROVE  events'[i].age >= events'[j].age
    BY <1>8
  <2>2. events[i + k].age >= events[j + k].age
    BY <1>2, <1>3, <1>7, <2>1 DEF AnswersInv
  <2>3. events[i + k].age \in Int /\ events[j + k].age \in Int
    BY <1>2, <1>7 DEF Event
  <2>. QED  BY <1>7, <2>2, <2>3
<1>11. H!Target(events') <= H!Target(events) /\ H!Target(events') \in 0..3 /\ H!Target(events) \in 0..3
  <2>1. DOMAIN events' \subseteq Int /\ k \in Int
    BY <1>3, <1>8
  <2>2. H!Target(events') <= H!Target(events)
    BY <1>3, <1>7, <1>8, <2>1, FewerEvents
  <2>. QED  BY <2>2, TargetIs
<1>12. ASSUME firm PROVE Answers'
  <2>1. level >= H!Target(events) /\ level \in 0..3
    BY <1>1, <1>12 DEF AnswersInv, Answers, ThreatInv
  <2>2. H!Busy' = {} /\ level' = level
    BY <1>1 DEF H!Busy, H!Actor
  <2>. QED  BY <1>11, <2>1, <2>2 DEF Answers
<1>. QED  BY <1>1, <1>9, <1>10, <1>12 DEF AnswersInv

\* Steps after which nothing is sure.
LEMMA OthersUnsettle ==
  ASSUME H!ThreatLevelConstants, ThreatInv, AnswersInv, NEW a \in H!Actor,
         H!Downgrade(a) \/ H!ClearLevel(a) \/ H!ResolveEvents(a)
  PROVE  AnswersInv'
<1>1. CASE H!Downgrade(a) \/ H!ClearLevel(a)
  BY <1>1 DEF H!Downgrade, H!ClearLevel, AnswersInv
<1>2. CASE H!ResolveEvents(a)
  <2>1. at[a].step = "resolve" /\ events' = <<>> /\ firm' = firm
    BY <1>2 DEF H!ResolveEvents
  <2>2. a \in H!Busy
    BY <2>1, IdleStep, BusyIs
  <2>3. ~Answers
    BY <2>1, <2>2 DEF Answers
  <2>4. <<>> \in Seq(Event) /\ DOMAIN (<<>>) = {}
    OBVIOUS
  <2>. QED  BY <2>1, <2>3, <2>4 DEF AnswersInv
<1>. QED  BY <1>1, <1>2

LEMMA DecayIsAnswered ==
  ASSUME H!ThreatLevelConstants, ThreatInv, AnswersInv, H!TickDecay
  PROVE  AnswersInv'
<1>1. CASE firm' = FALSE
  BY <1>1 DEF AnswersInv, H!TickDecay
<1>2. CASE UNCHANGED <<at, firm>>
  <2>1. UNCHANGED <<level, events, at, firm>>
    BY <1>2 DEF H!TickDecay
  <2>. QED  BY <2>1 DEF AnswersInv, Answers, H!Busy, H!Actor
<1>. QED  BY <1>1, <1>2 DEF H!TickDecay

LEMMA RestartIsAnswered ==
  ASSUME H!ThreatLevelConstants, level' = 0, events' = <<>>, at' = [a \in H!Actor |-> H!Idle], firm' = TRUE
  PROVE  AnswersInv'
<1>1. H!Busy' = {}
  BY DEF H!Busy, H!Actor
<1>2. <<>> \in Seq(Event) /\ DOMAIN (<<>>) = {}
  OBVIOUS
<1>3. level' >= H!Target(events')
  BY NoEvents
<1>. QED  BY <1>1, <1>2, <1>3 DEF AnswersInv, Answers

\* ThreatEngine, for any timers, limits and number of threads: the level is at least what
\* the events of the window ask for, unless it was lowered since the last of them or other
\* requests met its evaluation; and after as much calm as the timers take together it is
\* back to NOMINAL, whatever crossed the decay.
THEOREM ThreatsAreAnswered ==
  H!ThreatLevelConstants /\ H!Spec => [](H!TypeOK /\ H!EventsAreAnswered /\ H!CalmEndsAll)
<1>. SUFFICES ASSUME H!ThreatLevelConstants
              PROVE  H!Spec => [](H!TypeOK /\ H!EventsAreAnswered /\ H!CalmEndsAll)
  OBVIOUS
<1>1. ASSUME H!Init PROVE ThreatInv
  <2>1. /\ level = 0 /\ since = 0 /\ calm = H!Longest
        /\ at = [a \in H!Actor |-> H!Idle]
    BY <1>1 DEF H!Init
  <2>2. at \in [H!Actor -> Posts] /\ \A a \in H!Actor : at[a].step = "idle"
    BY <2>1, IdleStep
  <2>3. turn \in BOOLEAN
    BY Zenon, <1>1 DEF H!Init
  <2>. QED  BY <2>1, <2>2, <2>3, AboveIs DEF ThreatInv
<1>2. ASSUME ThreatInv, [H!Next]_(H!vars) PROVE ThreatInv'
  <2>1. CASE UNCHANGED H!vars
    BY <1>2, <2>1 DEF H!vars, ThreatInv
  <2>2. ASSUME NEW a \in H!Actor, NEW s \in Source, H!FailLogin(a, s) PROVE ThreatInv'
    BY <1>2, <2>2, RecordThreat DEF H!FailLogin
  <2>3. ASSUME NEW s \in Source, H!RaiseError(s) PROVE ThreatInv'
    BY <1>2, <2>3, RecordThreat DEF H!RaiseError, H!Actor
  <2>4. ASSUME NEW a \in H!Actor, H!Set(a) PROVE ThreatInv'
    <3>1. at[a].step = "set" /\ at[a].to \in 0..3 /\ calm <= Above[at[a].to]
      BY <1>2, <2>4, PostsAre DEF H!Set, ThreatInv
    <3>. QED  BY <1>2, <2>4, <3>1, SetsThreat DEF H!Set
  <2>5. ASSUME NEW a \in Thread, H!Downgrade(a) PROVE ThreatInv'
    BY <1>2, <2>5, LowersThreat DEF H!Downgrade, H!Actor
  <2>6. ASSUME NEW a \in Thread, H!ClearLevel(a) PROVE ThreatInv'
    <3>1. calm <= Above[0]
      BY <1>2, AboveIs DEF ThreatInv
    <3>. QED  BY <1>2, <2>6, <3>1, SetsThreat DEF H!ClearLevel, H!Actor
  <2>7. ASSUME NEW a \in Thread, H!ResolveEvents(a) PROVE ThreatInv'
    <3>1. /\ at[a].step = "resolve" /\ H!Go(a, H!Idle) /\ a \in H!Actor
          /\ UNCHANGED <<level, since, turn, calm>>
      BY <2>7 DEF H!ResolveEvents, H!Actor
    <3>2. /\ at' \in [H!Actor -> Posts] /\ at'[a] = H!Idle
          /\ \A b \in H!Actor : b # a => at'[b] = at[b]
      BY <1>2, <3>1, IdleStep, GoIs
    <3>3. at[H!Loop].step = "set" => at'[H!Loop].step = "set"
      BY <3>1, <3>2 DEF H!Actor
    <3>4. \A b \in H!Actor :
             /\ at'[b].step = "check" => calm = 0
             /\ at'[b].step = "set" => calm <= Above[at'[b].to]
      BY <1>2, <3>1, <3>2, IdleStep DEF ThreatInv
    <3>. QED  BY <1>2, <3>1, <3>2, <3>3, <3>4 DEF ThreatInv
  <2>8. ASSUME H!TickDecay PROVE ThreatInv'
    <3>1. /\ at[H!Loop] = H!Idle /\ turn' = FALSE /\ H!Loop \in H!Actor
          /\ UNCHANGED <<level, since, calm>>
      BY <2>8 DEF H!TickDecay, H!Actor
    <3>2. CASE H!Due
      BY <1>2, <2>8, <3>1, <3>2, LowersThreat DEF H!TickDecay, H!Due
    <3>3. CASE ~H!Due
      <4>1. at' = at
        BY <2>8, <3>3 DEF H!TickDecay
      <4>2. level > 0 => since # Timers[level]
        BY <1>2, <3>3, AboveIs DEF H!Due, ThreatInv
      <4>3. turn' \in BOOLEAN
        BY Zenon, <3>1
      <4>. QED  BY <1>2, <3>1, <4>1, <4>2, <4>3 DEF ThreatInv
    <3>. QED  BY <3>2, <3>3
  <2>9. ASSUME H!Restart PROVE ThreatInv'
    <3>1. /\ level' = 0 /\ since' = 0 /\ calm' = calm
          /\ at' = [a \in H!Actor |-> H!Idle]
      BY <2>9 DEF H!Restart, H!SetLevel
    <3>2. at' \in [H!Actor -> Posts] /\ \A a \in H!Actor : at'[a].step = "idle"
      BY <3>1, IdleStep
    <3>3. turn' \in BOOLEAN
      BY Zenon, <2>9 DEF H!Restart
    <3>. QED  BY <1>2, <3>1, <3>2, <3>3, AboveIs DEF ThreatInv
  <2>. QED  BY <1>2, <2>1, <2>2, <2>3, <2>4, <2>5, <2>6, <2>7, <2>8, <2>9, CompareThreat, WaitThreat
            DEF H!Next
<1>3. ASSUME ThreatInv PROVE H!CalmEndsAll
  <2>. SUFFICES ASSUME calm >= H!Longest, ~turn, H!Busy = {} PROVE level = 0
    BY DEF H!CalmEndsAll
  <2>1. at[H!Loop].step = "idle"
    BY IdleStep DEF H!Busy, H!Actor
  <2>2. level > 0 => since < Timers[level]
    BY <1>3, <2>1, AboveIs DEF ThreatInv
  <2>. QED  BY <1>3, <2>2, AboveIs DEF ThreatInv
<1>4. ASSUME H!Init PROVE AnswersInv
  <2>1. events = <<>> /\ level = 0 /\ at = [a \in H!Actor |-> H!Idle] /\ firm = TRUE
    BY <1>4 DEF H!Init
  <2>2. H!Busy = {} /\ H!Target(events) = 0 /\ <<>> \in Seq(Event) /\ DOMAIN (<<>>) = {}
    BY <2>1, NoEvents DEF H!Busy
  <2>. QED  BY <2>1, <2>2 DEF AnswersInv, Answers
<1>5. ASSUME ThreatInv, AnswersInv, [H!Next]_(H!vars) PROVE AnswersInv'
  <2>1. CASE UNCHANGED H!vars
    BY <1>5, <2>1 DEF H!vars, AnswersInv, Answers, H!Busy, H!Actor
  <2>2. ASSUME NEW a \in H!Actor, NEW s \in Source, H!FailLogin(a, s) PROVE AnswersInv'
    BY <1>5, <2>2, RecordedIsAnswered DEF H!FailLogin
  <2>3. ASSUME NEW s \in Source, H!RaiseError(s) PROVE AnswersInv'
    BY <1>5, <2>3, RecordedIsAnswered DEF H!RaiseError, H!Actor
  <2>4. ASSUME NEW a \in H!Actor, H!Compare(a) \/ H!Set(a) PROVE AnswersInv'
    BY <1>5, <2>4, ComparedIsAnswered, SetIsAnswered
  <2>5. ASSUME NEW a \in Thread, H!Downgrade(a) \/ H!ClearLevel(a) \/ H!ResolveEvents(a)
        PROVE  AnswersInv'
    BY <1>5, <2>5, OthersUnsettle DEF H!Actor
  <2>6. CASE H!TickDecay \/ H!Wait
    BY <1>5, <2>6, DecayIsAnswered, WaitingIsAnswered
  <2>7. CASE H!Restart
    BY <2>7, RestartIsAnswered DEF H!Restart, H!SetLevel
  <2>. QED  BY <1>5, <2>1, <2>2, <2>3, <2>4, <2>5, <2>6, <2>7 DEF H!Next
<1>6. ASSUME ThreatInv, AnswersInv PROVE H!TypeOK /\ H!EventsAreAnswered
  <2>1. \A i \in DOMAIN events : events[i].source \in Source /\ events[i].age \in 0..Window
    <3>1. \A i \in DOMAIN events : events[i] \in Event
      BY <1>6 DEF AnswersInv
    <3>. QED  BY <3>1 DEF Event
  <2>2. \A a \in H!Actor : at[a].step \in {"idle", "check", "set", "resolve"}
    BY <1>6, PostsAre DEF Posts
  <2>3. turn \in BOOLEAN /\ firm \in BOOLEAN
    BY Zenon, <1>6 DEF ThreatInv, AnswersInv
  <2>4. H!TypeOK
    BY <1>6, <2>1, <2>2, <2>3 DEF H!TypeOK, ThreatInv
  <2>5. H!EventsAreAnswered
    BY <1>6 DEF H!EventsAreAnswered, AnswersInv, Answers
  <2>. QED  BY <2>4, <2>5
<1>. QED  BY <1>1, <1>2, <1>3, <1>4, <1>5, <1>6, PTL DEF H!Spec

----------------------------------------------------------------------------
(* Conversations: the version of a thread that is handed over last.          *)

\* A message of the user has its text, or a death cut its request.
HasItsText(it) == it.user => it.items # <<>> \/ it.cut

Version(turns) ==
    /\ turns \in Seq(C!Turn) /\ Len(turns) <= MaxTurns
    /\ \A i \in 1..Len(turns) : HasItsText(turns[i])

ConversationsInv ==
    /\ DOMAIN threads = ChatThread /\ DOMAIN handed = ChatThread /\ missed \subseteq ChatThread
    /\ \E Values : queue \in Seq(Values)
    /\ \A i \in 1..Len(queue) : queue[i].thread \in ChatThread
    /\ \A t \in ChatThread : C!Stored(t) => Version(threads[t]) /\ (t \in missed \/ C!Told(t))

\* What a queue with more versions of one thread is.
LEMMA MoreVersions ==
  ASSUME NEW Values, queue \in Seq(Values), NEW t, NEW Kinds, NEW versions \in Seq(Kinds),
         queue' = queue \o [i \in DOMAIN versions |-> [thread |-> t, turns |-> versions[i]]]
  PROVE  /\ \E U : queue' \in Seq(U)
         /\ Len(queue') = Len(queue) + Len(versions) /\ Len(queue) \in Nat /\ Len(versions) \in Nat
         /\ \A i \in 1..Len(queue) : queue'[i] = queue[i]
         /\ \A i \in 1..Len(versions) :
               queue'[Len(queue) + i] = [thread |-> t, turns |-> versions[i]]
<1>. DEFINE Both == Values \cup {[thread |-> t, turns |-> versions[i]] : i \in 1..Len(versions)}
            more == [i \in DOMAIN versions |-> [thread |-> t, turns |-> versions[i]]]
<1>1. /\ DOMAIN versions = 1..Len(versions) /\ Len(versions) \in Nat /\ Len(queue) \in Nat
      /\ \A i \in 1..Len(queue) : queue[i] \in Both
  OBVIOUS
<1>2. queue \in Seq(Both)
  <2>. HIDE DEF Both
  <2>. QED  BY <1>1
<1>3. /\ more \in Seq(Both) /\ Len(more) = Len(versions)
      /\ \A i \in 1..Len(versions) : more[i] = [thread |-> t, turns |-> versions[i]]
  <2>1. \A i \in 1..Len(versions) : more[i] \in Both /\ more[i] = [thread |-> t, turns |-> versions[i]]
    BY <1>1
  <2>. HIDE DEF Both
  <2>. QED  BY <1>1, <2>1
<1>. HIDE DEF Both, more
<1>4. queue' = queue \o more
  BY DEF more
<1>. QED  BY <1>1, <1>2, <1>3, <1>4

\* The threads that a write leaves alone.
LEMMA OthersAreTold ==
  ASSUME ConversationsInv, NEW t \in ChatThread, NEW u \in ChatThread, u # t,
         threads'[u] = threads[u], handed' = handed, NEW n \in Nat,
         Len(queue') = Len(queue) + n, Len(queue) \in Nat,
         DOMAIN queue = 1..Len(queue), DOMAIN queue' = 1..Len(queue'),
         \A i \in 1..Len(queue) : queue'[i] = queue[i],
         \A i \in 1..n : queue'[Len(queue) + i].thread = t,
         C!Told(u)
  PROVE  C!Told(u)'
<1>1. \A i \in DOMAIN queue' : i \in DOMAIN queue \/ queue'[i].thread = t
  <2>1. SUFFICES ASSUME NEW i \in 1..Len(queue'), i \notin 1..Len(queue)
                 PROVE  queue'[i].thread = t
    OBVIOUS
  <2>2. i - Len(queue) \in 1..n /\ Len(queue) + (i - Len(queue)) = i
    BY <2>1
  <2>. QED  BY <2>2
<1>2. CASE handed[u] = threads[u] /\ \A i \in DOMAIN queue : queue[i].thread # u
  <2>1. \A i \in DOMAIN queue' : queue'[i].thread # u
    BY <1>1, <1>2
  <2>. QED  BY <1>2, <2>1 DEF C!Told
<1>3. ASSUME NEW i \in DOMAIN queue, queue[i] = [thread |-> u, turns |-> threads[u]],
             \A j \in DOMAIN queue : j > i => queue[j].thread # u
      PROVE  C!Told(u)'
  <2>1. i \in DOMAIN queue' /\ queue'[i] = [thread |-> u, turns |-> threads'[u]]
    BY <1>3
  <2>2. \A j \in DOMAIN queue' : j > i => queue'[j].thread # u
    BY <1>1, <1>3
  <2>. QED  BY <2>1, <2>2 DEF C!Told
<1>. QED  BY <1>2, <1>3 DEF C!Told

LEMMA SavesVersions ==
  ASSUME MaxTurns \in Nat, ConversationsInv, NEW t \in ChatThread, NEW Kinds, NEW versions \in Seq(Kinds),
         versions # <<>>, C!Save(t, versions), Version(versions[Len(versions)])
  PROVE  ConversationsInv'
<1>. DEFINE n == Len(versions)
            last == versions[n]
<1>1. /\ threads' = [threads EXCEPT ![t] = last] /\ handed' = handed /\ missed' = missed \ {t}
      /\ queue' = queue \o [i \in DOMAIN versions |-> [thread |-> t, turns |-> versions[i]]]
  BY DEF C!Save
<1>2. PICK Values : queue \in Seq(Values)
  BY DEF ConversationsInv
<1>3. /\ \E U : queue' \in Seq(U)
      /\ Len(queue') = Len(queue) + n /\ Len(queue) \in Nat /\ n \in Nat
      /\ \A i \in 1..Len(queue) : queue'[i] = queue[i]
      /\ \A i \in 1..n : queue'[Len(queue) + i] = [thread |-> t, turns |-> versions[i]]
  BY <1>1, <1>2, MoreVersions
<1>4. n >= 1 /\ n \in 1..n
  BY <1>3
<1>. HIDE DEF n, last
<1>5. DOMAIN queue = 1..Len(queue) /\ DOMAIN queue' = 1..Len(queue')
  BY <1>2, <1>3
<1>6. \A i \in 1..n : queue'[Len(queue) + i].thread = t
  <2>1. \A x : [thread |-> t, turns |-> x].thread = t
    OBVIOUS
  <2>2. SUFFICES ASSUME NEW i \in 1..n PROVE queue'[Len(queue) + i].thread = t
    OBVIOUS
  <2>3. \E x : queue'[Len(queue) + i] = [thread |-> t, turns |-> x]
    BY <1>3, <2>2
  <2>. QED  BY <2>1, <2>3
<1>7. \A i \in 1..Len(queue') : queue'[i].thread \in ChatThread
  <2>1. SUFFICES ASSUME NEW i \in 1..Len(queue') PROVE queue'[i].thread \in ChatThread
    OBVIOUS
  <2>2. CASE i \in 1..Len(queue)
    BY <1>3, <2>2 DEF ConversationsInv
  <2>3. CASE i \notin 1..Len(queue)
    <3>1. i - Len(queue) \in 1..n /\ Len(queue) + (i - Len(queue)) = i
      BY <1>3, <2>1, <2>3
    <3>. QED  BY <1>6, <3>1
  <2>. QED  BY <2>2, <2>3
<1>8. ASSUME NEW u \in ChatThread, C!Stored(u)'
      PROVE  Version(threads'[u]) /\ (u \in missed' \/ C!Told(u)')
  <2>1. CASE u = t
    <3>1. threads'[u] = last /\ Version(last)
      BY <1>1, <2>1 DEF ConversationsInv, last, n
    <3>2. Len(queue) + n \in DOMAIN queue' /\ \A j \in DOMAIN queue' : ~(j > Len(queue) + n)
      BY <1>3, <1>4, <1>5
    <3>3. queue'[Len(queue) + n] = [thread |-> u, turns |-> threads'[u]]
      BY <1>3, <1>4, <2>1, <3>1 DEF last
    <3>. QED  BY <3>1, <3>2, <3>3 DEF C!Told
  <2>2. CASE u # t
    <3>1. threads'[u] = threads[u] /\ C!Stored(u)
      BY <1>1, <1>8, <2>2 DEF C!Stored
    <3>2. Version(threads[u]) /\ (u \in missed \/ C!Told(u))
      BY <3>1 DEF ConversationsInv
    <3>3. C!Told(u) => C!Told(u)'
      BY <1>1, <1>3, <1>5, <1>6, <2>2, <3>1, OthersAreTold
    <3>. QED  BY <1>1, <2>2, <3>1, <3>2, <3>3
  <2>. QED  BY <2>1, <2>2
<1>9. DOMAIN threads' = ChatThread /\ DOMAIN handed' = ChatThread /\ missed' \subseteq ChatThread
  BY <1>1 DEF ConversationsInv
<1>. QED  BY <1>3, <1>7, <1>8, <1>9 DEF ConversationsInv

LEMMA SavingFails ==
  ASSUME ConversationsInv, NEW t \in ChatThread, NEW Kinds, NEW before \in Seq(Kinds), C!SaveFails(t, before)
  PROVE  ConversationsInv'
<1>. DEFINE n == Len(before)
<1>1. /\ threads' = [threads EXCEPT ![t] = Broken] /\ handed' = handed /\ missed' = missed
      /\ queue' = queue \o [i \in DOMAIN before |-> [thread |-> t, turns |-> before[i]]]
  BY DEF C!SaveFails
<1>2. PICK Values : queue \in Seq(Values)
  BY DEF ConversationsInv
<1>3. /\ \E U : queue' \in Seq(U)
      /\ Len(queue') = Len(queue) + n /\ Len(queue) \in Nat /\ n \in Nat
      /\ \A i \in 1..Len(queue) : queue'[i] = queue[i]
      /\ \A i \in 1..n : queue'[Len(queue) + i] = [thread |-> t, turns |-> before[i]]
  BY <1>1, <1>2, MoreVersions
<1>. HIDE DEF n
<1>5. DOMAIN queue = 1..Len(queue) /\ DOMAIN queue' = 1..Len(queue')
  BY <1>2, <1>3
<1>6. \A i \in 1..n : queue'[Len(queue) + i].thread = t
  <2>1. \A x : [thread |-> t, turns |-> x].thread = t
    OBVIOUS
  <2>2. SUFFICES ASSUME NEW i \in 1..n PROVE queue'[Len(queue) + i].thread = t
    OBVIOUS
  <2>3. \E x : queue'[Len(queue) + i] = [thread |-> t, turns |-> x]
    BY <1>3, <2>2
  <2>. QED  BY <2>1, <2>3
<1>7. \A i \in 1..Len(queue') : queue'[i].thread \in ChatThread
  <2>1. SUFFICES ASSUME NEW i \in 1..Len(queue') PROVE queue'[i].thread \in ChatThread
    OBVIOUS
  <2>2. CASE i \in 1..Len(queue)
    BY <1>3, <2>2 DEF ConversationsInv
  <2>3. CASE i \notin 1..Len(queue)
    <3>1. i - Len(queue) \in 1..n /\ Len(queue) + (i - Len(queue)) = i
      BY <1>3, <2>1, <2>3
    <3>. QED  BY <1>6, <3>1
  <2>. QED  BY <2>2, <2>3
<1>8. ASSUME NEW u \in ChatThread, C!Stored(u)'
      PROVE  Version(threads'[u]) /\ (u \in missed' \/ C!Told(u)')
  <2>1. u # t
    BY <1>1, <1>8 DEF C!Stored, ConversationsInv
  <2>2. threads'[u] = threads[u] /\ C!Stored(u)
    BY <1>1, <1>8, <2>1 DEF C!Stored
  <2>3. Version(threads[u]) /\ (u \in missed \/ C!Told(u))
    BY <2>2 DEF ConversationsInv
  <2>4. C!Told(u) => C!Told(u)'
    BY <1>1, <1>3, <1>5, <1>6, <2>1, <2>2, OthersAreTold
  <2>. QED  BY <1>1, <2>2, <2>3, <2>4
<1>9. DOMAIN threads' = ChatThread /\ DOMAIN handed' = ChatThread /\ missed' \subseteq ChatThread
  BY <1>1 DEF ConversationsInv
<1>. QED  BY <1>3, <1>7, <1>8, <1>9 DEF ConversationsInv

LEMMA WritesVersion ==
  ASSUME MaxTurns \in Nat, ConversationsInv, NEW t \in ChatThread, NEW turns, Version(turns),
         C!Write(t, turns)
  PROVE  ConversationsInv'
<1>1. CASE C!Save(t, <<turns>>)
  <2>. DEFINE versions == <<turns>>
  <2>1. versions \in Seq({turns}) /\ versions # <<>> /\ Len(versions) = 1 /\ versions[1] = turns
    OBVIOUS
  <2>2. C!Save(t, versions) /\ Version(versions[Len(versions)])
    BY <1>1, <2>1
  <2>. HIDE DEF versions
  <2>. QED  BY <2>1, <2>2, SavesVersions
<1>2. CASE C!SaveFails(t, <<>>)
  <2>1. <<>> \in Seq({turns})
    OBVIOUS
  <2>. QED  BY <1>2, <2>1, SavingFails
<1>. QED  BY <1>1, <1>2 DEF C!Write

\* A turn more.
LEMMA WithTurn ==
  ASSUME MaxTurns \in Nat, NEW turns, Version(turns), Len(turns) < MaxTurns, NEW it \in C!Turn
  PROVE  /\ Append(turns, it) \in Seq(C!Turn) /\ Len(Append(turns, it)) = Len(turns) + 1
         /\ Len(Append(turns, it)) <= MaxTurns
         /\ \A i \in 1..Len(turns) : Append(turns, it)[i] = turns[i]
         /\ Append(turns, it)[Len(turns) + 1] = it
         /\ HasItsText(it) => Version(Append(turns, it))
<1>1. /\ turns \in Seq(C!Turn) /\ Len(turns) \in Nat
      /\ \A i \in 1..Len(turns) : HasItsText(turns[i])
  BY DEF Version
<1>2. /\ Append(turns, it) \in Seq(C!Turn) /\ Len(Append(turns, it)) = Len(turns) + 1
      /\ Len(Append(turns, it)) <= MaxTurns
      /\ \A i \in 1..Len(turns) : Append(turns, it)[i] = turns[i]
      /\ Append(turns, it)[Len(turns) + 1] = it
  BY <1>1
<1>3. \A i \in 1..Len(Append(turns, it)) : i \in 1..Len(turns) \/ i = Len(turns) + 1
  BY <1>1, <1>2
<1>4. ASSUME HasItsText(it) PROVE Version(Append(turns, it))
  <2>1. \A i \in 1..Len(Append(turns, it)) : HasItsText(Append(turns, it)[i])
    BY <1>1, <1>2, <1>3, <1>4
  <2>. QED  BY <1>2, <2>1 DEF Version
<1>. QED  BY <1>2, <1>4

LEMMA TurnsAre ==
  /\ \A b \in BOOLEAN : C!NewTurn(b) \in C!Turn /\ C!NewTurn(b).user = b
  /\ HasItsText(C!NewTurn(FALSE))
  /\ [C!NewTurn(TRUE) EXCEPT !.cut = TRUE] \in C!Turn
  /\ HasItsText([C!NewTurn(TRUE) EXCEPT !.cut = TRUE])
<1>1. <<>> \in Seq(Nat)
  OBVIOUS
<1>. QED  BY <1>1 DEF C!NewTurn, C!Turn, HasItsText

\* An item more, in a turn that is there.
LEMMA WithItemIs ==
  ASSUME NEW turns \in Seq(C!Turn), NEW i \in 1..Len(turns)
  PROVE  /\ C!WithItem(turns, i) \in Seq(C!Turn) /\ Len(C!WithItem(turns, i)) = Len(turns)
         /\ \A j \in 1..Len(turns) : j # i => C!WithItem(turns, i)[j] = turns[j]
         /\ HasItsText(C!WithItem(turns, i)[i])
<1>. DEFINE it == [turns[i] EXCEPT !.items = Append(turns[i].items, 0)]
<1>1. turns[i] \in C!Turn /\ turns[i].items \in Seq(Nat)
  <2>1. turns[i] \in C!Turn
    OBVIOUS
  <2>. QED  BY <2>1 DEF C!Turn
<1>2. Append(turns[i].items, 0) \in Seq(Nat) /\ Append(turns[i].items, 0) # <<>>
  BY <1>1
<1>3. it \in C!Turn /\ it.items = Append(turns[i].items, 0)
  BY <1>1, <1>2 DEF C!Turn
<1>4. C!WithItem(turns, i) = [turns EXCEPT ![i] = it]
  BY DEF C!WithItem
<1>5. HasItsText(it)
  BY <1>2, <1>3 DEF HasItsText
<1>. HIDE DEF it
<1>. QED  BY <1>3, <1>4, <1>5

LEMMA PostsMessage ==
  ASSUME MaxTurns \in Nat, ConversationsInv, NEW t \in ChatThread, C!PostMessage(t)
  PROVE  ConversationsInv'
<1>. DEFINE turns == threads[t]
            asked == Append(turns, C!NewTurn(TRUE))
            posted == C!WithItem(asked, Len(asked))
<1>1. C!Stored(t) /\ Len(turns) < MaxTurns /\ Version(turns)
  BY DEF C!PostMessage, C!MayGrow, ConversationsInv
<1>2. \/ C!Save(t, <<asked, posted>>)
      \/ C!SaveFails(t, <<>>)
      \/ C!SaveFails(t, <<asked>>)
  BY DEF C!PostMessage
<1>. HIDE DEF turns
<1>3. /\ asked \in Seq(C!Turn) /\ Len(asked) = Len(turns) + 1 /\ Len(asked) <= MaxTurns
      /\ \A i \in 1..Len(turns) : asked[i] = turns[i]
  <2>1. C!NewTurn(TRUE) \in C!Turn
    BY TurnsAre
  <2>. QED  BY <1>1, <2>1, WithTurn
<1>4. turns \in Seq(C!Turn) /\ Len(turns) \in Nat /\ \A i \in 1..Len(turns) : HasItsText(turns[i])
  BY <1>1 DEF Version
<1>. HIDE DEF asked
<1>5. Len(asked) \in 1..Len(asked) /\ \A j \in 1..Len(asked) : j # Len(asked) => j \in 1..Len(turns)
  BY <1>3, <1>4
<1>6. /\ posted \in Seq(C!Turn) /\ Len(posted) = Len(asked)
      /\ \A j \in 1..Len(asked) : j # Len(asked) => posted[j] = asked[j]
      /\ HasItsText(posted[Len(asked)])
  BY <1>3, <1>5, WithItemIs
<1>. HIDE DEF posted
<1>7. \A j \in 1..Len(posted) : HasItsText(posted[j])
  BY <1>3, <1>4, <1>5, <1>6
<1>8. Version(posted)
  BY <1>3, <1>6, <1>7 DEF Version
<1>9. CASE C!Save(t, <<asked, posted>>)
  <2>. DEFINE versions == <<asked, posted>>
  <2>1. /\ versions \in Seq({asked, posted}) /\ versions # <<>> /\ Len(versions) = 2
        /\ versions[2] = posted
    OBVIOUS
  <2>2. C!Save(t, versions) /\ Version(versions[Len(versions)])
    BY <1>8, <1>9, <2>1
  <2>. HIDE DEF versions
  <2>. QED  BY <2>1, <2>2, SavesVersions
<1>10. <<>> \in Seq({asked}) /\ <<asked>> \in Seq({asked})
  OBVIOUS
<1>. QED  BY <1>2, <1>9, <1>10, SavingFails

LEMMA PublishesVersion ==
  ASSUME ConversationsInv, C!Publish
  PROVE  ConversationsInv'
<1>1. PICK Values : queue \in Seq(Values)
  BY DEF ConversationsInv
<1>2. /\ queue # <<>> /\ queue' = Tail(queue) /\ UNCHANGED <<threads, missed>>
      /\ handed' = [handed EXCEPT ![Head(queue).thread] = Head(queue).turns]
  BY DEF C!Publish
<1>3. /\ Len(queue) \in Nat \ {0} /\ Head(queue) = queue[1] /\ queue' \in Seq(Values)
      /\ Len(queue') = Len(queue) - 1 /\ DOMAIN queue = 1..Len(queue)
      /\ DOMAIN queue' = 1..(Len(queue) - 1)
      /\ \A i \in 1..(Len(queue) - 1) : queue'[i] = queue[i + 1]
  BY <1>1, <1>2
<1>4. queue[1].thread \in ChatThread /\ DOMAIN handed' = ChatThread
  BY <1>2, <1>3 DEF ConversationsInv
<1>5. \A i \in 1..Len(queue') : queue'[i].thread \in ChatThread
  <2>1. SUFFICES ASSUME NEW i \in 1..(Len(queue) - 1) PROVE queue[i + 1].thread \in ChatThread
    BY <1>3
  <2>2. i + 1 \in 1..Len(queue)
    BY <1>3
  <2>. QED  BY <2>2 DEF ConversationsInv
<1>6. ASSUME NEW t \in ChatThread, C!Told(t) PROVE C!Told(t)'
  <2>1. handed'[t] = IF queue[1].thread = t THEN queue[1].turns ELSE handed[t]
    BY <1>2, <1>3 DEF ConversationsInv
  <2>2. \A i \in 1..(Len(queue) - 1) : i + 1 \in 1..Len(queue) /\ i + 1 > 1
    BY <1>3
  <2>3. CASE handed[t] = threads[t] /\ \A i \in DOMAIN queue : queue[i].thread # t
    <3>1. \A i \in DOMAIN queue' : queue'[i].thread # t
      BY <1>3, <2>2, <2>3
    <3>2. queue[1].thread # t
      BY <1>3, <2>3
    <3>. QED  BY <1>2, <2>1, <2>3, <3>1, <3>2 DEF C!Told
  <2>4. ASSUME NEW i \in DOMAIN queue, queue[i] = [thread |-> t, turns |-> threads[t]],
               \A j \in DOMAIN queue : j > i => queue[j].thread # t
        PROVE  C!Told(t)'
    <3>1. CASE i = 1
      <4>1. handed'[t] = threads'[t]
        BY <1>2, <2>1, <2>4, <3>1
      <4>2. \A j \in DOMAIN queue' : queue'[j].thread # t
        BY <1>3, <2>2, <2>4, <3>1
      <4>. QED  BY <4>1, <4>2 DEF C!Told
    <3>2. CASE i # 1
      <4>1. i - 1 \in DOMAIN queue' /\ (i - 1) + 1 = i
        BY <1>3, <2>4, <3>2
      <4>2. queue'[i - 1] = [thread |-> t, turns |-> threads'[t]]
        BY <1>2, <1>3, <2>4, <4>1
      <4>3. ASSUME NEW j \in DOMAIN queue', j > i - 1 PROVE queue'[j].thread # t
        <5>1. j + 1 \in DOMAIN queue /\ j + 1 > i /\ queue'[j] = queue[j + 1]
          BY <1>3, <2>4, <4>3
        <5>. QED  BY <2>4, <5>1
      <4>. QED  BY <4>1, <4>2, <4>3 DEF C!Told
    <3>. QED  BY <3>1, <3>2
  <2>. QED  BY <1>6, <2>3, <2>4 DEF C!Told
<1>7. \A t \in ChatThread :
         C!Stored(t)' => Version(threads'[t]) /\ (t \in missed' \/ C!Told(t)')
  BY <1>2, <1>6 DEF ConversationsInv, C!Stored
<1>8. DOMAIN threads' = ChatThread /\ missed' \subseteq ChatThread
  BY <1>2 DEF ConversationsInv
<1>. QED  BY <1>3, <1>4, <1>5, <1>7, <1>8 DEF ConversationsInv

LEMMA DiesInConversation ==
  ASSUME MaxTurns \in Nat, ConversationsInv, C!Die
  PROVE  ConversationsInv'
<1>. DEFINE due == {queue[i].thread : i \in DOMAIN queue}
<1>1. PICK Values : queue \in Seq(Values)
  BY DEF ConversationsInv
<1>2. DOMAIN queue = 1..Len(queue) /\ due \subseteq ChatThread
  BY <1>1 DEF ConversationsInv
<1>3. queue' = <<>> /\ handed' = handed
  BY DEF C!Die
<1>. HIDE DEF due
<1>4. queue' \in Seq(Values) /\ Len(queue') = 0 /\ DOMAIN queue' = {}
  BY <1>3
<1>5. ASSUME NEW t \in ChatThread, t \notin due, C!Told(t), threads'[t] = threads[t]
      PROVE  C!Told(t)'
  <2>1. handed[t] = threads[t]
    BY <1>5 DEF C!Told, due
  <2>. QED  BY <1>3, <1>4, <1>5, <2>1 DEF C!Told
<1>6. ASSUME NEW t \in ChatThread, t \notin due, threads'[t] = threads[t], missed \subseteq missed'
      PROVE  C!Stored(t)' => Version(threads'[t]) /\ (t \in missed' \/ C!Told(t)')
  <2>1. C!Stored(t)' => C!Stored(t)
    BY <1>6 DEF C!Stored
  <2>2. C!Stored(t) => Version(threads[t]) /\ (t \in missed \/ C!Told(t))
    BY DEF ConversationsInv
  <2>. QED  BY <1>5, <1>6, <2>1, <2>2
<1>7. ASSUME NEW t \in ChatThread, threads'[t] = threads[t], t \in missed'
      PROVE  C!Stored(t)' => Version(threads'[t]) /\ (t \in missed' \/ C!Told(t)')
  <2>1. C!Stored(t)' => C!Stored(t)
    BY <1>7 DEF C!Stored
  <2>. QED  BY <1>7, <2>1 DEF ConversationsInv
<1>8. CASE threads' = threads /\ missed' = missed \cup due
  <2>1. \A t \in ChatThread : C!Stored(t)' => Version(threads'[t]) /\ (t \in missed' \/ C!Told(t)')
    BY <1>6, <1>7, <1>8
  <2>. QED  BY <1>2, <1>3, <1>4, <1>8, <2>1 DEF ConversationsInv
<1>9. ASSUME NEW t \in ChatThread, C!MayGrow(t),
             threads' = [threads EXCEPT ![t] = Append(@, [C!NewTurn(TRUE) EXCEPT !.cut = TRUE])],
             missed' = missed \cup due \cup {t}
      PROVE  ConversationsInv'
  <2>1. Version(threads[t]) /\ Len(threads[t]) < MaxTurns
    BY <1>9 DEF C!MayGrow, ConversationsInv
  <2>. DEFINE it == [C!NewTurn(TRUE) EXCEPT !.cut = TRUE]
  <2>2. it \in C!Turn /\ HasItsText(it)
    BY TurnsAre
  <2>3. threads' = [threads EXCEPT ![t] = Append(threads[t], it)]
    BY <1>9
  <2>. HIDE DEF it
  <2>4. Version(threads'[t])
    BY <2>1, <2>2, <2>3, WithTurn DEF ConversationsInv
  <2>5. \A u \in ChatThread : C!Stored(u)' => Version(threads'[u]) /\ (u \in missed' \/ C!Told(u)')
    <3>1. SUFFICES ASSUME NEW u \in ChatThread
                   PROVE  C!Stored(u)' => Version(threads'[u]) /\ (u \in missed' \/ C!Told(u)')
      OBVIOUS
    <3>2. CASE u = t
      BY <1>9, <2>4, <3>2
    <3>3. CASE u # t
      <4>1. threads'[u] = threads[u]
        BY <2>3, <3>3
      <4>. QED  BY <1>6, <1>7, <1>9, <4>1
    <3>. QED  BY <3>2, <3>3
  <2>6. missed' = missed \cup due \cup {t} /\ t \in ChatThread
    BY <1>9, Zenon
  <2>7. DOMAIN threads' = ChatThread /\ DOMAIN handed' = ChatThread /\ missed' \subseteq ChatThread
    BY <1>2, <1>3, <2>3, <2>6 DEF ConversationsInv
  <2>. QED  BY <1>4, <2>5, <2>7 DEF ConversationsInv
<1>10. ASSUME NEW t \in ChatThread, threads' = [threads EXCEPT ![t] = Broken],
              missed' = missed \cup due
       PROVE  ConversationsInv'
  <2>1. \A u \in ChatThread : C!Stored(u)' => Version(threads'[u]) /\ (u \in missed' \/ C!Told(u)')
    <3>1. SUFFICES ASSUME NEW u \in ChatThread
                   PROVE  C!Stored(u)' => Version(threads'[u]) /\ (u \in missed' \/ C!Told(u)')
      OBVIOUS
    <3>2. CASE u = t
      BY <1>10, <3>2 DEF C!Stored, ConversationsInv
    <3>3. CASE u # t
      <4>1. threads'[u] = threads[u]
        BY <1>10, <3>3
      <4>. QED  BY <1>6, <1>7, <1>10, <4>1
    <3>. QED  BY <3>2, <3>3
  <2>. QED  BY <1>2, <1>3, <1>4, <1>10, <2>1 DEF ConversationsInv
<1>. QED  BY <1>8, <1>9, <1>10 DEF C!Die, due

\* ConversationService, for any threads and limits: the version of a thread that is handed
\* over last is the one that is stored unless a death lost it, and a message of the user has
\* its text unless a death cut its request.
THEOREM ConversationsAreTold ==
  MaxTurns \in Nat /\ C!Spec => [](C!TypeOK /\ C!ConversationsAreAnnounced)
<1>. SUFFICES ASSUME MaxTurns \in Nat
              PROVE  C!Spec => [](C!TypeOK /\ C!ConversationsAreAnnounced)
  OBVIOUS
<1>1. ASSUME C!Init PROVE ConversationsInv
  <2>1. /\ threads = [t \in ChatThread |-> None] /\ queue = <<>> /\ handed = [t \in ChatThread |-> None]
        /\ missed = {}
    BY <1>1 DEF C!Init
  <2>2. queue \in Seq({}) /\ Len(queue) = 0
    BY <2>1
  <2>. QED  BY <2>1, <2>2 DEF ConversationsInv, C!Stored
<1>2. ASSUME ConversationsInv, [C!Next]_(C!vars) PROVE ConversationsInv'
  <2>1. CASE UNCHANGED C!vars
    BY <1>2, <2>1 DEF C!vars, ConversationsInv, C!Stored, C!Told
  <2>2. ASSUME NEW t \in ChatThread, C!CreateThread(t) PROVE ConversationsInv'
    <3>1. Version(<<>>) /\ C!Write(t, <<>>)
      BY <2>2 DEF Version, C!CreateThread
    <3>. QED  BY <1>2, <3>1, WritesVersion
  <2>3. ASSUME NEW t \in ChatThread, C!AddTurn(t) PROVE ConversationsInv'
    <3>. DEFINE after == Append(threads[t], C!NewTurn(FALSE))
    <3>1. Version(threads[t]) /\ Len(threads[t]) < MaxTurns /\ C!Write(t, after)
      BY <1>2, <2>3 DEF C!AddTurn, C!MayGrow, ConversationsInv
    <3>2. C!NewTurn(FALSE) \in C!Turn /\ HasItsText(C!NewTurn(FALSE))
      BY TurnsAre
    <3>3. Version(after)
      BY <3>1, <3>2, WithTurn
    <3>. HIDE DEF after
    <3>. QED  BY <1>2, <3>1, <3>3, WritesVersion
  <2>4. ASSUME NEW t \in ChatThread, C!AppendItem(t) PROVE ConversationsInv'
    <3>1. Version(threads[t]) /\ threads[t] \in Seq(C!Turn)
      BY <1>2, <2>4 DEF C!AppendItem, ConversationsInv, Version
    <3>2. PICK i \in DOMAIN threads[t] : C!Write(t, C!WithItem(threads[t], i))
      BY <2>4 DEF C!AppendItem
    <3>3. i \in 1..Len(threads[t])
      BY <3>1, <3>2
    <3>4. Version(C!WithItem(threads[t], i))
      <4>1. /\ C!WithItem(threads[t], i) \in Seq(C!Turn)
            /\ Len(C!WithItem(threads[t], i)) = Len(threads[t])
            /\ \A j \in 1..Len(threads[t]) :
                  j # i => C!WithItem(threads[t], i)[j] = threads[t][j]
            /\ HasItsText(C!WithItem(threads[t], i)[i])
        BY <3>1, <3>3, WithItemIs
      <4>. QED  BY <3>1, <4>1 DEF Version
    <3>. QED  BY <1>2, <3>2, <3>4, WritesVersion
  <2>5. ASSUME NEW t \in ChatThread, C!UpdateItem(t) PROVE ConversationsInv'
    <3>. DEFINE turns == threads[t]
    <3>1. Version(turns) /\ turns \in Seq(C!Turn)
      BY <1>2, <2>5 DEF C!UpdateItem, ConversationsInv, Version
    <3>2. PICK i \in DOMAIN turns : \E j \in DOMAIN turns[i].items :
             C!Write(t, [turns EXCEPT ![i].items[j] = @ + 1])
      BY <2>5 DEF C!UpdateItem
    <3>3. PICK j \in DOMAIN turns[i].items : C!Write(t, [turns EXCEPT ![i].items[j] = @ + 1])
      BY <3>2
    <3>. DEFINE those == [turns[i].items EXCEPT ![j] = turns[i].items[j] + 1]
                it == [turns[i] EXCEPT !.items = those]
                after == [turns EXCEPT ![i] = it]
    <3>4. C!Write(t, after)
      BY <3>3
    <3>. HIDE DEF turns
    <3>5. i \in 1..Len(turns) /\ turns[i] \in C!Turn /\ turns[i].items \in Seq(Nat)
      <4>1. i \in 1..Len(turns) /\ turns[i] \in C!Turn
        BY <3>1, <3>2
      <4>. QED  BY <4>1 DEF C!Turn
    <3>6. those \in Seq(Nat) /\ those # <<>>
      BY <3>3, <3>5
    <3>. HIDE DEF those
    <3>7. it \in C!Turn /\ it.items = those
      BY <3>5, <3>6 DEF C!Turn
    <3>8. HasItsText(it)
      BY <3>6, <3>7 DEF HasItsText
    <3>. HIDE DEF it
    <3>9. /\ after \in Seq(C!Turn) /\ Len(after) = Len(turns) /\ after[i] = it
          /\ \A k \in 1..Len(turns) : k # i => after[k] = turns[k]
      BY <3>1, <3>5, <3>7
    <3>10. Version(after)
      BY <3>1, <3>8, <3>9 DEF Version
    <3>. HIDE DEF after
    <3>. QED  BY <1>2, <3>4, <3>10, WritesVersion
  <2>6. ASSUME NEW t \in ChatThread, NEW u \in ChatThread \ {t}, C!ForkThread(t, u)
        PROVE  ConversationsInv'
    <3>1. Version(threads[t]) /\ threads[t] \in Seq(C!Turn)
      BY <1>2, <2>6 DEF C!ForkThread, ConversationsInv, Version
    <3>2. PICK i \in DOMAIN threads[t] : C!Write(u, SubSeq(threads[t], 1, i))
      BY <2>6 DEF C!ForkThread
    <3>. DEFINE part == SubSeq(threads[t], 1, i)
    <3>3. /\ i \in 1..Len(threads[t]) /\ part \in Seq(C!Turn) /\ Len(part) = i
          /\ \A j \in 1..i : j \in 1..Len(threads[t]) /\ part[j] = threads[t][j]
      BY <3>1, <3>2
    <3>. HIDE DEF part
    <3>4. Version(part)
      BY <3>1, <3>3 DEF Version
    <3>5. C!Write(u, part)
      BY <3>2 DEF part
    <3>. QED  BY <1>2, <3>4, <3>5, WritesVersion
  <2>7. ASSUME NEW t \in ChatThread, C!PostMessage(t) PROVE ConversationsInv'
    BY <1>2, <2>7, PostsMessage
  <2>8. CASE C!Publish \/ C!Die
    BY <1>2, <2>8, PublishesVersion, DiesInConversation
  <2>. QED  BY <1>2, <2>1, <2>2, <2>3, <2>4, <2>5, <2>6, <2>7, <2>8 DEF C!Next
<1>3. ASSUME ConversationsInv PROVE C!TypeOK /\ C!ConversationsAreAnnounced
  <2>1. PICK Values : queue \in Seq(Values)
    BY <1>3 DEF ConversationsInv
  <2>2. DOMAIN queue = 1..Len(queue)
    BY <2>1
  <2>3. ASSUME NEW t \in ChatThread, C!Stored(t)
        PROVE  /\ Len(threads[t]) <= MaxTurns
               /\ \A i \in DOMAIN threads[t] : threads[t][i] \in C!Turn /\ HasItsText(threads[t][i])
    <3>1. threads[t] \in Seq(C!Turn) /\ Version(threads[t])
      BY <1>3, <2>3 DEF ConversationsInv, Version
    <3>2. DOMAIN threads[t] = 1..Len(threads[t])
      BY <3>1
    <3>. QED  BY <3>1, <3>2 DEF Version
  <2>4. C!TypeOK
    BY <1>3, <2>2, <2>3 DEF C!TypeOK, ConversationsInv
  <2>5. C!ConversationsAreAnnounced
    BY <1>3, <2>3 DEF C!ConversationsAreAnnounced, ConversationsInv, HasItsText
  <2>. QED  BY <2>4, <2>5
<1>. QED  BY <1>1, <1>2, <1>3, PTL DEF C!Spec

----------------------------------------------------------------------------
(* LogRotation: what a run's files say of its beginning and its end.         *)

AnyFile == [status : {"pending", "running", "awaiting_review", "done", "error"}, day : Nat]

Bases == [status : {"pending", "done", "error"}, day : 0..MaxDate]

Journals == [status : {"running", "awaiting_review", "done", "error"}, day : 0..MaxDate]

\* A run that is not pending in its base file ended, and one with events began; a run
\* that began, and whose base file says pending, has events or they were deleted.
FileTells(r) ==
    /\ r \in ended => r \in began
    /\ journal[r] # None => r \in began
    /\ base[r] # None => (r \in ended <=> base[r].status # "pending")
    /\ base[r] # None /\ r \in began => journal[r] # None \/ r \in ended \cup forgotten
    /\ r \in moved => r \in ended /\ base[r] = None

LinesAreKept ==
    aged \/ file + archive >= IF written > MaxLines THEN MaxLines + 1 ELSE written

RotationInv ==
    /\ date \in 0..MaxDate /\ phase \in {"down", "rotate", "reconcile", "work"}
    /\ base \in [LogRun -> Bases \cup {None}] /\ journal \in [LogRun -> Journals \cup {None}]
    /\ moved \cup began \cup ended \cup forgotten \subseteq LogRun
    /\ written \in 0..MaxWritten /\ file \in 0..written /\ archive \in 0..written
    /\ fileDay \in 0..MaxDate /\ aged \in BOOLEAN
    /\ \A r \in LogRun : FileTells(r)
    /\ LinesAreKept

LEMMA FilesAre ==
  ASSUME Q!LogRotationConstants, RotationInv
  PROVE  /\ None \notin Bases \cup Journals
         /\ \A s \in {"pending", "done", "error"} : Q!File(s) \in Bases /\ Q!File(s).status = s
         /\ \A s \in {"running", "awaiting_review", "done", "error"} :
               Q!File(s) \in Journals /\ Q!File(s).status = s
<1>1. Bases \subseteq AnyFile /\ Journals \subseteq AnyFile
  <2>1. \A f \in Bases : f \in AnyFile
    BY DEF Bases, AnyFile, Q!LogRotationConstants
  <2>2. \A f \in Journals : f \in AnyFile
    BY DEF Journals, AnyFile, Q!LogRotationConstants
  <2>. QED  BY <2>1, <2>2
<1>2. date \in 0..MaxDate
  BY DEF RotationInv
<1>3. \A s : Q!File(s) = [status |-> s, day |-> date] /\ Q!File(s).status = s
  BY DEF Q!File
<1>4. \A s \in {"pending", "done", "error"} : Q!File(s) \in Bases
  BY <1>2, <1>3 DEF Bases
<1>5. \A s \in {"running", "awaiting_review", "done", "error"} : Q!File(s) \in Journals
  BY <1>2, <1>3 DEF Journals
<1>6. None \notin Bases \cup Journals
  BY <1>1 DEF Q!LogRotationConstants, AnyFile
<1>. QED  BY <1>3, <1>4, <1>5, <1>6

\* A step of one run, that leaves the log and the other runs alone.
LEMMA RunMoves ==
  ASSUME Q!LogRotationConstants, RotationInv, NEW r \in LogRun,
         UNCHANGED <<date, phase, moved, forgotten, written, file, fileDay, archive, aged>>,
         base' \in [LogRun -> Bases \cup {None}], journal' \in [LogRun -> Journals \cup {None}],
         \A q \in LogRun \ {r} : base'[q] = base[q] /\ journal'[q] = journal[q],
         began' \in {began, began \cup {r}}, ended' \in {ended, ended \cup {r}},
         FileTells(r)'
  PROVE  RotationInv'
<1>1. ASSUME NEW q \in LogRun, q # r PROVE FileTells(q)'
  <2>1. /\ q \in began' <=> q \in began
        /\ q \in ended' <=> q \in ended
        /\ base'[q] = base[q] /\ journal'[q] = journal[q]
    BY <1>1
  <2>. QED  BY <2>1 DEF RotationInv, FileTells
<1>. QED  BY <1>1 DEF RotationInv, LinesAreKept

LEMMA CreateRunFile ==
  ASSUME Q!LogRotationConstants, RotationInv, NEW r \in LogRun, Q!Create(r)
  PROVE  RotationInv'
<1>1. /\ base[r] = None /\ journal[r] = None /\ r \notin moved \cup began
      /\ base' = [base EXCEPT ![r] = Q!File("pending")]
      /\ UNCHANGED <<date, phase, journal, moved, began, ended, forgotten>>
      /\ UNCHANGED <<written, file, fileDay, archive, aged>>
  BY DEF Q!Create, Q!logFiles
<1>2. /\ base' \in [LogRun -> Bases \cup {None}] /\ base'[r].status = "pending"
      /\ \A q \in LogRun \ {r} : base'[q] = base[q]
  BY <1>1, FilesAre DEF RotationInv
<1>3. FileTells(r)'
  BY <1>1, <1>2 DEF RotationInv, FileTells
<1>4. journal' \in [LogRun -> Journals \cup {None}]
  BY <1>1 DEF RotationInv
<1>. QED  BY <1>1, <1>2, <1>3, <1>4, RunMoves

LEMMA BeginRunFile ==
  ASSUME Q!LogRotationConstants, RotationInv, NEW r \in LogRun, Q!Begin(r)
  PROVE  RotationInv'
<1>1. /\ base[r] # None /\ Q!Status(r) = "pending"
      /\ journal' = [journal EXCEPT ![r] = Q!File("running")] /\ began' = began \cup {r}
      /\ UNCHANGED <<date, phase, base, moved, ended, forgotten>>
      /\ UNCHANGED <<written, file, fileDay, archive, aged>>
  BY DEF Q!Begin, Q!logFiles
<1>2. /\ journal' \in [LogRun -> Journals \cup {None}] /\ journal'[r] # None
      /\ \A q \in LogRun \ {r} : journal'[q] = journal[q]
  BY <1>1, FilesAre DEF RotationInv
<1>3. FileTells(r)'
  BY <1>1, <1>2 DEF RotationInv, FileTells
<1>4. base' \in [LogRun -> Bases \cup {None}]
  BY <1>1 DEF RotationInv
<1>. QED  BY <1>1, <1>2, <1>3, <1>4, RunMoves

LEMMA AwaitRunFile ==
  ASSUME Q!LogRotationConstants, RotationInv, NEW r \in LogRun, Q!Await(r)
  PROVE  RotationInv'
<1>1. /\ base[r] # None /\ Q!Status(r) = "running"
      /\ journal' = [journal EXCEPT ![r] = Q!File("awaiting_review")]
      /\ UNCHANGED <<date, phase, base, moved, began, ended, forgotten>>
      /\ UNCHANGED <<written, file, fileDay, archive, aged>>
  BY DEF Q!Await, Q!logFiles
<1>2. /\ journal' \in [LogRun -> Journals \cup {None}] /\ journal'[r] # None
      /\ \A q \in LogRun \ {r} : journal'[q] = journal[q]
  BY <1>1, FilesAre DEF RotationInv
<1>3. journal[r] # None
  BY <1>1 DEF Q!Status, RotationInv, Bases
<1>4. FileTells(r)'
  BY <1>1, <1>2, <1>3 DEF RotationInv, FileTells
<1>5. base' \in [LogRun -> Bases \cup {None}]
  BY <1>1 DEF RotationInv
<1>. QED  BY <1>1, <1>2, <1>4, <1>5, RunMoves

LEMMA FinishRunFile ==
  ASSUME Q!LogRotationConstants, RotationInv, NEW r \in LogRun, Q!Finish(r)
  PROVE  RotationInv'
<1>1. PICK s \in {"done", "error"} :
         /\ base' = [base EXCEPT ![r] = Q!File(s)]
         /\ journal' = [journal EXCEPT ![r] = Q!File(s)]
         /\ ended' = ended \cup {r}
  BY DEF Q!Finish, Q!Terminate
<1>2. /\ base[r] # None /\ Q!Status(r) \in {"running", "awaiting_review"}
      /\ UNCHANGED <<date, phase, moved, began, forgotten>>
      /\ UNCHANGED <<written, file, fileDay, archive, aged>>
  BY DEF Q!Finish, Q!logFiles
<1>3. /\ base' \in [LogRun -> Bases \cup {None}] /\ journal' \in [LogRun -> Journals \cup {None}]
      /\ base'[r].status = s
      /\ \A q \in LogRun \ {r} : base'[q] = base[q] /\ journal'[q] = journal[q]
  BY <1>1, FilesAre DEF RotationInv
<1>4. journal[r] # None
  BY <1>2 DEF Q!Status, RotationInv, Bases
<1>5. FileTells(r)'
  BY <1>1, <1>2, <1>3, <1>4 DEF RotationInv, FileTells
<1>. QED  BY <1>1, <1>2, <1>3, <1>5, RunMoves

LEMMA CleansRunFiles ==
  ASSUME Q!LogRotationConstants, RotationInv, Q!Cleanup
  PROVE  RotationInv'
<1>. DEFINE old == {r \in LogRun : base[r] # None /\ Q!Age(base[r]) > Ttl}
<1>1. /\ base' = [r \in LogRun |-> IF r \in old THEN None ELSE base[r]]
      /\ journal' = [r \in LogRun |-> IF r \in old THEN None ELSE journal[r]]
      /\ UNCHANGED <<date, phase, moved, began, ended, forgotten>>
      /\ UNCHANGED <<written, file, fileDay, archive, aged>>
  BY DEF Q!Cleanup, Q!logFiles
<1>. HIDE DEF old
<1>2. base' \in [LogRun -> Bases \cup {None}] /\ journal' \in [LogRun -> Journals \cup {None}]
  BY <1>1 DEF RotationInv
<1>3. \A r \in LogRun : FileTells(r)'
  BY <1>1 DEF RotationInv, FileTells
<1>. QED  BY <1>1, <1>2, <1>3 DEF RotationInv, LinesAreKept

\* A start of the server.
LEMMA RotatesFiles ==
  ASSUME Q!LogRotationConstants, RotationInv, Q!RunRotation
  PROVE  RotationInv'
<1>. DEFINE old == {r \in LogRun : journal[r] # None /\ Q!Age(journal[r]) > MaxAge}
<1>1. /\ journal' = [r \in LogRun |-> IF r \in old THEN None ELSE journal[r]]
      /\ forgotten' = forgotten \cup old
      /\ base' = [r \in LogRun |-> IF r \in Q!Archived THEN None ELSE base[r]]
      /\ moved' = moved \cup Q!Archived /\ phase' = "reconcile" /\ Q!RotateLog
      /\ UNCHANGED <<date, began, ended, written, fileDay>>
  BY DEF Q!RunRotation
<1>2. old \subseteq LogRun
  OBVIOUS
<1>. HIDE DEF old
<1>3. Q!Archived \subseteq LogRun /\ \A r \in Q!Archived : base[r] # None /\ base[r].status # "pending"
  BY DEF Q!Archived
<1>4. base' \in [LogRun -> Bases \cup {None}] /\ journal' \in [LogRun -> Journals \cup {None}]
  BY <1>1 DEF RotationInv
<1>5. ASSUME NEW r \in LogRun PROVE FileTells(r)'
  <2>1. /\ base'[r] = IF r \in Q!Archived THEN None ELSE base[r]
        /\ journal'[r] = IF r \in old THEN None ELSE journal[r]
    BY <1>1
  <2>2. r \in Q!Archived => r \in ended
    BY <1>3 DEF RotationInv, FileTells
  <2>. QED  BY <1>1, <2>1, <2>2 DEF RotationInv, FileTells
<1>6. /\ file' \in 0..written' /\ archive' \in 0..written' /\ aged' \in BOOLEAN
      /\ written' \in 0..MaxWritten
  <2>1. /\ written' = written /\ written \in 0..MaxWritten /\ file \in 0..written
        /\ archive \in 0..written /\ 0 \in 0..written
    BY <1>1 DEF RotationInv, Q!LogRotationConstants
  <2>2. file' \in {0, file} /\ archive' \in {archive, file}
    BY <1>1 DEF Q!RotateLog
  <2>3. aged' = TRUE \/ aged' = aged
    BY <1>1 DEF Q!RotateLog
  <2>4. aged' \in BOOLEAN
    BY <2>3 DEF RotationInv
  <2>. QED  BY <2>1, <2>2, <2>4
<1>7. LinesAreKept'
  <2>1. written \in Nat /\ file \in Nat /\ archive \in Nat /\ MaxLines \in Nat /\ file <= written
    BY DEF RotationInv, Q!LogRotationConstants
  <2>2. CASE aged'
    BY <2>2 DEF LinesAreKept
  <2>3. CASE aged' = aged /\ file > MaxLines /\ archive' = file /\ file' = 0
    BY <1>1, <2>1, <2>3 DEF LinesAreKept
  <2>4. CASE aged' = aged /\ UNCHANGED <<file, archive>>
    BY <1>1, <2>4 DEF LinesAreKept, RotationInv
  <2>. QED  BY <1>1, <2>2, <2>3, <2>4 DEF Q!RotateLog
<1>8. phase' \in {"down", "rotate", "reconcile", "work"} /\ date' \in 0..MaxDate
      /\ fileDay' \in 0..MaxDate
  BY <1>1 DEF RotationInv
<1>9. moved' \cup began' \cup ended' \cup forgotten' \subseteq LogRun
  BY <1>1, <1>2, <1>3 DEF RotationInv
<1>. QED  BY <1>4, <1>5, <1>6, <1>7, <1>8, <1>9 DEF RotationInv

LEMMA ReconcilesFiles ==
  ASSUME Q!LogRotationConstants, RotationInv, Q!Reconcile
  PROVE  RotationInv'
<1>. DEFINE zombies ==
       {r \in LogRun : base[r] # None /\ Q!Status(r) \in {"running", "awaiting_review"}}
<1>1. /\ base' = [r \in LogRun |-> IF r \in zombies THEN Q!File("error") ELSE base[r]]
      /\ journal' = [r \in LogRun |-> IF r \in zombies THEN Q!File("error") ELSE journal[r]]
      /\ ended' = ended \cup zombies /\ phase' = "work"
      /\ UNCHANGED <<date, moved, began, forgotten>>
      /\ UNCHANGED <<written, file, fileDay, archive, aged>>
  BY DEF Q!Reconcile, Q!logFiles
<1>2. zombies \subseteq LogRun /\ \A r \in zombies : base[r] # None /\ journal[r] # None
  BY DEF Q!Status, RotationInv, Bases
<1>. HIDE DEF zombies
<1>3. base' \in [LogRun -> Bases \cup {None}] /\ journal' \in [LogRun -> Journals \cup {None}]
  BY <1>1, FilesAre DEF RotationInv
<1>4. ASSUME NEW r \in LogRun PROVE FileTells(r)'
  <2>1. CASE r \in zombies
    <3>1. base'[r] = Q!File("error") /\ base'[r].status = "error" /\ r \in ended'
          /\ journal'[r] # None
      BY <1>1, <2>1, FilesAre
    <3>2. r \in began /\ r \notin moved
      BY <1>2, <2>1 DEF RotationInv, FileTells
    <3>. QED  BY <1>1, <3>1, <3>2 DEF FileTells
  <2>2. CASE r \notin zombies
    BY <1>1, <2>2 DEF RotationInv, FileTells
  <2>. QED  BY <2>1, <2>2
<1>. QED  BY <1>1, <1>2, <1>3, <1>4 DEF RotationInv, LinesAreKept

\* LogRotationService, for any runs, ages and sizes: wherever the server stops, and on
\* whatever day it starts, a run that began is taken from its beginning only if its events
\* were deleted for their age before it ended; what is archived had ended; and the last
\* lines of a log are kept.
THEOREM RotationForgetsNone == Q!LogRotationConstants /\ Q!Spec => [](Q!TypeOK /\ Q!NothingIsForgotten)
<1>. SUFFICES ASSUME Q!LogRotationConstants PROVE Q!Spec => [](Q!TypeOK /\ Q!NothingIsForgotten)
  OBVIOUS
<1>1. ASSUME Q!Init PROVE RotationInv
  <2>1. /\ date = 0 /\ phase = "down" /\ written = 0 /\ file = 0 /\ fileDay = 0 /\ archive = 0
        /\ base = [r \in LogRun |-> None] /\ journal = [r \in LogRun |-> None]
        /\ moved = {} /\ began = {} /\ ended = {} /\ forgotten = {}
    BY <1>1 DEF Q!Init
  <2>2. aged \in BOOLEAN
    BY <1>1 DEF Q!Init
  <2>3. MaxDate \in Nat /\ MaxLines \in Nat /\ MaxWritten \in Nat
    BY DEF Q!LogRotationConstants
  <2>4. LinesAreKept
    BY <2>1, <2>3 DEF LinesAreKept
  <2>5. \A r \in LogRun : FileTells(r)
    BY <2>1 DEF FileTells
  <2>6. base \in [LogRun -> Bases \cup {None}] /\ journal \in [LogRun -> Journals \cup {None}]
    BY <2>1
  <2>. QED  BY <2>1, <2>2, <2>3, <2>4, <2>5, <2>6 DEF RotationInv
<1>2. ASSUME RotationInv, [Q!Next]_(Q!vars) PROVE RotationInv'
  <2>1. CASE UNCHANGED Q!vars
    BY <1>2, <2>1 DEF Q!vars, RotationInv, FileTells, LinesAreKept
  <2>2. ASSUME NEW r \in LogRun, Q!Create(r) \/ Q!Begin(r) \/ Q!Await(r) \/ Q!Finish(r)
        PROVE  RotationInv'
    BY <1>2, <2>2, CreateRunFile, BeginRunFile, AwaitRunFile, FinishRunFile
  <2>3. CASE Q!Cleanup \/ Q!RunRotation \/ Q!Reconcile
    BY <1>2, <2>3, CleansRunFiles, RotatesFiles, ReconcilesFiles
  <2>4. CASE Q!AppendLine
    <3>1. /\ written < MaxWritten /\ written' = written + 1 /\ file' = file + 1 /\ fileDay' = date
          /\ UNCHANGED <<date, phase, archive, aged>>
          /\ UNCHANGED <<base, journal, moved, began, ended, forgotten>>
      BY <2>4 DEF Q!AppendLine, Q!runFiles
    <3>2. written \in Nat /\ file \in Nat /\ archive \in Nat /\ MaxLines \in Nat
      BY <1>2 DEF RotationInv, Q!LogRotationConstants
    <3>3. LinesAreKept'
      BY <1>2, <3>1, <3>2 DEF RotationInv, LinesAreKept
    <3>4. \A r \in LogRun : FileTells(r)'
      BY <1>2, <3>1 DEF RotationInv, FileTells
    <3>5. written' \in 0..MaxWritten /\ file' \in 0..written' /\ archive' \in 0..written'
      BY <1>2, <3>1 DEF RotationInv, Q!LogRotationConstants
    <3>. QED  BY <1>2, <3>1, <3>3, <3>4, <3>5 DEF RotationInv
  <2>5. CASE Q!Stop \/ Q!Pass \/ Q!Start
    <3>1. /\ UNCHANGED <<base, journal, moved, began, ended, forgotten>>
          /\ UNCHANGED <<written, file, fileDay, archive, aged>>
      BY <2>5 DEF Q!Stop, Q!Pass, Q!Start, Q!runFiles, Q!logFiles
    <3>2. date' \in 0..MaxDate /\ phase' \in {"down", "rotate", "reconcile", "work"}
      BY <1>2, <2>5 DEF Q!Stop, Q!Pass, Q!Start, RotationInv, Q!LogRotationConstants
    <3>3. (\A r \in LogRun : FileTells(r)') /\ LinesAreKept'
      BY <1>2, <3>1 DEF RotationInv, FileTells, LinesAreKept
    <3>. QED  BY <1>2, <3>1, <3>2, <3>3 DEF RotationInv
  <2>. QED  BY <1>2, <2>1, <2>2, <2>3, <2>4, <2>5 DEF Q!Next
<1>3. ASSUME RotationInv PROVE Q!TypeOK /\ Q!NothingIsForgotten
  <2>1. Q!TypeOK
    BY <1>3 DEF Q!TypeOK, Q!Days, RotationInv, Bases, Journals
  <2>2. ASSUME NEW r \in began, base[r] # None, Q!Status(r) = "pending"
        PROVE  r \in forgotten \ ended
    <3>1. r \in LogRun
      BY <1>3 DEF RotationInv
    <3>2. journal[r] = None /\ base[r].status = "pending"
      BY <1>3, <2>2, <3>1 DEF Q!Status, RotationInv, Journals
    <3>. QED  BY <1>3, <2>2, <3>1, <3>2 DEF RotationInv, FileTells
  <2>3. \A r \in moved : r \in ended /\ base[r] = None
    BY <1>3 DEF RotationInv, FileTells
  <2>. QED  BY <1>3, <2>1, <2>2, <2>3 DEF Q!NothingIsForgotten, RotationInv, LinesAreKept
<1>. QED  BY <1>1, <1>2, <1>3, PTL DEF Q!Spec

----------------------------------------------------------------------------
(* AccountLogins: whose the flows of account providers are.                  *)

JobStates == {"queued", "running", "ended", "failed", "stray", "shown", "cancelled"}

Job == [provider : Provider, op : {"login", "run"}, state : JobStates, age : Nat]

Flow == [job : Nat, provider : Provider, status : {"pending", "approved", "revoked"}]

\* What a client waits for is a job that no other waits for and no flow is of.
Awaited(c) ==
    login[c] # L!Quiet =>
       /\ login[c].job \in DOMAIN jobs /\ login[c].flow \in BOOLEAN
       /\ \A d \in LoginClient \ {c} : login[d] # L!Quiet => login[d].job # login[c].job
       /\ \A f \in flows : f.job # login[c].job

\* A flow is of a login that showed its code, and of the provider it signs in.
OwnLogin(f) ==
    /\ f.job \in DOMAIN jobs
    /\ jobs[f.job].state = "shown" /\ jobs[f.job].provider = f.provider

StandsFor(f) == f.status = "approved" => mode[f.provider] = "account" \/ f.provider \in disturbed

Patient(j) == j.state = "running" /\ j.age > RunTimeout => j.op = "login" /\ j.provider = "codex"

LoginsInv ==
    /\ mode \in [Provider -> {"none", "api_key", "account", None}] /\ disturbed \subseteq Provider
    /\ jobs \in Seq(Job) /\ \A j \in DOMAIN jobs : Patient(jobs[j])
    /\ flows \subseteq Flow /\ \A f, g \in flows : f.job = g.job => f = g
    /\ \A f \in flows : OwnLogin(f) /\ StandsFor(f)
    /\ DOMAIN login = LoginClient /\ \A c \in LoginClient : Awaited(c)

LEMMA LoginJobs ==
  ASSUME LoginsInv
  PROVE  /\ Len(jobs) \in Nat /\ DOMAIN jobs = 1..Len(jobs)
         /\ \A j \in DOMAIN jobs : jobs[j] \in Job
BY DEF LoginsInv

\* Jobs that are no shown logins may change.
LEMMA JobsMove ==
  ASSUME LoginsInv, UNCHANGED <<mode, flows, disturbed>>,
         jobs' \in Seq(Job), DOMAIN jobs \subseteq DOMAIN jobs',
         \A j \in DOMAIN jobs' : Patient(jobs'[j]),
         \A j \in DOMAIN jobs : jobs[j].state = "shown" =>
            jobs'[j].state = "shown" /\ jobs'[j].provider = jobs[j].provider,
         DOMAIN login' = LoginClient, \A c \in LoginClient : Awaited(c)'
  PROVE  LoginsInv'
<1>1. \A f \in flows : OwnLogin(f)' /\ StandsFor(f)'
  BY DEF LoginsInv, OwnLogin, StandsFor
<1>. QED  BY <1>1 DEF LoginsInv

\* Clients stop waiting, or go on.
LEMMA WaitingEnds ==
  ASSUME LoginsInv, flows' = flows, DOMAIN login' = LoginClient, DOMAIN jobs \subseteq DOMAIN jobs',
         \A c \in LoginClient : \/ login'[c] = L!Quiet
                                \/ login[c] # L!Quiet /\ login'[c].job = login[c].job
                                   /\ login'[c].flow = login[c].flow
  PROVE  \A c \in LoginClient : Awaited(c)'
<1>1. SUFFICES ASSUME NEW c \in LoginClient, login'[c] # L!Quiet PROVE Awaited(c)'
  BY DEF Awaited, L!Quiet
<1>2. login[c] # L!Quiet /\ login'[c].job = login[c].job /\ login'[c].flow = login[c].flow
  BY <1>1
<1>3. Awaited(c)
  BY DEF LoginsInv
<1>4. \A d \in LoginClient \ {c} : login'[d] # L!Quiet => login'[d].job # login'[c].job
  BY <1>2, <1>3 DEF Awaited
<1>. QED  BY <1>2, <1>3, <1>4 DEF Awaited, L!Quiet

LEMMA JobChanges ==
  ASSUME L!AccountLoginsConstants, LoginsInv, NEW j \in DOMAIN jobs, jobs[j].state \in {"queued", "running"},
         NEW s \in JobStates, L!State(j, s)
  PROVE  /\ jobs' \in Seq(Job) /\ DOMAIN jobs' = DOMAIN jobs
         /\ \A i \in DOMAIN jobs' : Patient(jobs'[i])
         /\ \A i \in DOMAIN jobs : jobs[i].state = "shown" =>
               jobs'[i].state = "shown" /\ jobs'[i].provider = jobs[i].provider
<1>1. PICK new : new = [jobs[j] EXCEPT !.state = s, !.age = 0]
  OBVIOUS
<1>2. new \in Job /\ new.age = 0
  BY <1>1, LoginJobs DEF Job
<1>3. jobs' = [jobs EXCEPT ![j] = new]
  BY <1>1 DEF L!State
<1>4. jobs' \in Seq(Job) /\ DOMAIN jobs' = DOMAIN jobs
  BY <1>2, <1>3 DEF LoginsInv
<1>5. \A i \in DOMAIN jobs : jobs'[i] = IF i = j THEN new ELSE jobs[i]
  BY <1>3
<1>6. Patient(new)
  BY <1>2 DEF Patient, L!AccountLoginsConstants
<1>. QED  BY <1>4, <1>5, <1>6 DEF LoginsInv

LEMMA SubmitsJob ==
  ASSUME L!AccountLoginsConstants, LoginsInv, NEW c \in LoginClient, NEW p \in Provider, NEW op \in {"login", "run"},
         NEW flow \in BOOLEAN, L!Submit(c, p, op, flow)
  PROVE  LoginsInv'
<1>. DEFINE new == [provider |-> p, op |-> op, state |-> "queued", age |-> 0]
            q == [job |-> Len(jobs) + 1, flow |-> flow, wait |-> 0]
<1>1. /\ login[c] = L!Quiet /\ jobs' = Append(jobs, new) /\ login' = [login EXCEPT ![c] = q]
      /\ UNCHANGED <<mode, flows, disturbed>>
  BY DEF L!Submit
<1>2. new \in Job /\ Patient(new) /\ q.job = Len(jobs) + 1 /\ q.flow = flow
  BY DEF Job, JobStates, Patient
<1>. HIDE DEF new, q
<1>3. /\ jobs' \in Seq(Job) /\ DOMAIN jobs' = DOMAIN jobs \cup {Len(jobs) + 1}
      /\ jobs'[Len(jobs) + 1] = new /\ \A i \in DOMAIN jobs : jobs'[i] = jobs[i]
  BY <1>1, <1>2, LoginJobs DEF LoginsInv
<1>4. \A d \in LoginClient : login'[d] = IF d = c THEN q ELSE login[d]
  BY <1>1 DEF LoginsInv
<1>5. Len(jobs) + 1 \notin DOMAIN jobs
  BY LoginJobs
<1>6. ASSUME NEW d \in LoginClient PROVE Awaited(d)'
  <2>1. CASE d = c
    <3>1. \A f \in flows' : f.job # Len(jobs) + 1
      BY <1>1, <1>5 DEF LoginsInv, OwnLogin
    <3>2. \A b \in LoginClient \ {c} : login'[b] # L!Quiet => login'[b].job # Len(jobs) + 1
      BY <1>4, <1>5 DEF LoginsInv, Awaited
    <3>. QED  BY <1>2, <1>3, <1>4, <2>1, <3>1, <3>2 DEF Awaited
  <2>2. CASE d # c /\ login[d] # L!Quiet
    <3>1. Awaited(d) /\ login'[d] = login[d] /\ login[d].job # Len(jobs) + 1
      BY <1>4, <1>5, <2>2 DEF LoginsInv, Awaited
    <3>. QED  BY <1>1, <1>2, <1>3, <1>4, <2>2, <3>1 DEF Awaited
  <2>. QED  BY <1>4, <2>1, <2>2 DEF Awaited, L!Quiet
<1>7. \A j \in DOMAIN jobs' : Patient(jobs'[j])
  BY <1>2, <1>3 DEF LoginsInv
<1>8. DOMAIN login' = LoginClient
  BY <1>1 DEF LoginsInv
<1>. QED  BY <1>1, <1>3, <1>6, <1>7, <1>8, JobsMove

LEMMA AnswersLogin ==
  ASSUME LoginsInv, NEW c \in LoginClient, L!Answer(c)
  PROVE  LoginsInv'
<1>. DEFINE q == login[c]
            job == jobs[q.job]
            new == [job |-> q.job, provider |-> job.provider, status |-> "pending"]
<1>1. /\ login[c] # L!Quiet /\ login' = [login EXCEPT ![c] = L!Quiet] /\ UNCHANGED <<mode, jobs, disturbed>>
      /\ flows' = flows \/ (job.state = "shown" /\ flows' = flows \cup {new})
  BY DEF L!Answer
<1>2. /\ Awaited(c) /\ q.job \in DOMAIN jobs /\ job \in Job
      /\ \A f \in flows : f.job # q.job
  BY <1>1, LoginJobs DEF LoginsInv, Awaited
<1>3. \A d \in LoginClient : login'[d] = IF d = c THEN L!Quiet ELSE login[d]
  BY <1>1 DEF LoginsInv
<1>4. new \in Flow /\ new.job = q.job /\ new.status = "pending" /\ new.provider = job.provider
  BY <1>2, LoginJobs DEF Flow, Job
<1>. HIDE DEF q, job, new
<1>5. flows' \subseteq Flow /\ \A f \in flows' : f \in flows \/ (f = new /\ job.state = "shown")
  BY <1>1, <1>4 DEF LoginsInv
<1>6. \A f, g \in flows' : f.job = g.job => f = g
  BY <1>2, <1>4, <1>5 DEF LoginsInv
<1>7. \A f \in flows' : OwnLogin(f)' /\ StandsFor(f)'
  BY <1>1, <1>2, <1>4, <1>5 DEF LoginsInv, OwnLogin, StandsFor, job
<1>8. ASSUME NEW d \in LoginClient, d # c, login'[d] # L!Quiet PROVE Awaited(d)'
  <2>1. login'[d] = login[d] /\ Awaited(d) /\ login[d].job # q.job
    BY <1>1, <1>3, <1>8 DEF LoginsInv, Awaited, q
  <2>2. \A f \in flows' : f.job # login[d].job
    BY <1>3, <1>4, <1>5, <1>8, <2>1 DEF Awaited
  <2>. QED  BY <1>1, <1>3, <1>8, <2>1, <2>2 DEF Awaited
<1>9. \A d \in LoginClient : Awaited(d)'
  BY <1>3, <1>8 DEF Awaited, L!Quiet
<1>. QED  BY <1>1, <1>5, <1>6, <1>7, <1>9 DEF LoginsInv

LEMMA GivesUpLogin ==
  ASSUME L!AccountLoginsConstants, LoginsInv, NEW c \in LoginClient, L!GiveUp(c)
  PROVE  LoginsInv'
<1>. DEFINE j == login[c].job
<1>1. /\ login[c] # L!Quiet /\ jobs[j].state \in {"queued", "running"}
      /\ L!State(j, "cancelled") \/ UNCHANGED jobs
      /\ login' = [login EXCEPT ![c] = L!Quiet] /\ UNCHANGED <<mode, flows, disturbed>>
  BY DEF L!GiveUp
<1>2. j \in DOMAIN jobs
  BY <1>1 DEF LoginsInv, Awaited
<1>. HIDE DEF j
<1>3. /\ jobs' \in Seq(Job) /\ DOMAIN jobs' = DOMAIN jobs
      /\ \A i \in DOMAIN jobs' : Patient(jobs'[i])
      /\ \A i \in DOMAIN jobs : jobs[i].state = "shown" =>
            jobs'[i].state = "shown" /\ jobs'[i].provider = jobs[i].provider
  <2>1. CASE L!State(j, "cancelled")
    <3>1. "cancelled" \in JobStates
      BY DEF JobStates
    <3>. QED  BY <1>1, <1>2, <2>1, <3>1, JobChanges
  <2>. QED  BY <1>1, <2>1 DEF LoginsInv
<1>4. DOMAIN login' = LoginClient /\ \A d \in LoginClient : login'[d] = IF d = c THEN L!Quiet ELSE login[d]
  BY <1>1 DEF LoginsInv
<1>5. \A d \in LoginClient : Awaited(d)'
  BY <1>1, <1>3, <1>4, WaitingEnds
<1>. QED  BY <1>1, <1>3, <1>4, <1>5, JobsMove

LEMMA ThreadMoves ==
  ASSUME L!AccountLoginsConstants, LoginsInv, NEW j \in DOMAIN jobs, L!Take(j) \/ L!EndRun(j) \/ L!EndLogin(j)
  PROVE  LoginsInv'
<1>1. /\ jobs[j].state \in {"queued", "running"} /\ UNCHANGED <<mode, flows, login, disturbed>>
      /\ \E s \in JobStates : L!State(j, s)
  BY DEF L!Take, L!EndRun, L!EndLogin, JobStates
<1>2. PICK s \in JobStates : L!State(j, s)
  BY <1>1
<1>3. /\ jobs' \in Seq(Job) /\ DOMAIN jobs' = DOMAIN jobs
      /\ \A i \in DOMAIN jobs' : Patient(jobs'[i])
      /\ \A i \in DOMAIN jobs : jobs[i].state = "shown" =>
            jobs'[i].state = "shown" /\ jobs'[i].provider = jobs[i].provider
  BY <1>1, <1>2, JobChanges
<1>4. (\A d \in LoginClient : Awaited(d)') /\ DOMAIN login' = LoginClient
  BY <1>1, <1>3, WaitingEnds DEF LoginsInv
<1>. QED  BY <1>1, <1>3, <1>4, JobsMove

LEMMA LoginsAge ==
  ASSUME L!AccountLoginsConstants, LoginsInv, L!Tick
  PROVE  LoginsInv'
<1>1. /\ \A j \in L!Threads : L!Hangs(j) \/ jobs[j].age < RunTimeout
      /\ jobs' = [j \in DOMAIN jobs |-> L!Older(j)] /\ UNCHANGED <<mode, flows, disturbed>>
      /\ login' = [c \in LoginClient |-> IF login[c] = L!Quiet THEN L!Quiet
                                         ELSE [login[c] EXCEPT !.wait = @ + 1]]
  BY DEF L!Tick
<1>2. ASSUME NEW j \in DOMAIN jobs
      PROVE  /\ L!Older(j) \in Job /\ Patient(L!Older(j))
             /\ L!Older(j).state = jobs[j].state /\ L!Older(j).provider = jobs[j].provider
  <2>1. jobs[j] \in Job /\ Patient(jobs[j])
    BY LoginJobs DEF LoginsInv
  <2>2. CASE jobs[j].state = "running" /\ jobs[j].age <= RunTimeout
    <3>1. PICK new : new = [jobs[j] EXCEPT !.age = jobs[j].age + 1]
      OBVIOUS
    <3>2. L!Older(j) = new
      BY <2>2, <3>1 DEF L!Older
    <3>3. /\ new \in Job /\ new.state = jobs[j].state /\ new.provider = jobs[j].provider
          /\ new.op = jobs[j].op /\ new.age = jobs[j].age + 1 /\ jobs[j].age \in Nat
      BY <2>1, <3>1 DEF Job
    <3>4. L!Hangs(j) \/ jobs[j].age < RunTimeout
      BY <1>1, <2>2 DEF L!Threads
    <3>5. Patient(new)
      BY <3>3, <3>4 DEF Patient, L!Hangs, L!AccountLoginsConstants
    <3>. QED  BY <3>2, <3>3, <3>5
  <2>3. CASE ~(jobs[j].state = "running" /\ jobs[j].age <= RunTimeout)
    BY <2>1, <2>3 DEF L!Older
  <2>. QED  BY <2>2, <2>3
<1>3. DOMAIN jobs' = DOMAIN jobs /\ \A j \in DOMAIN jobs : jobs'[j] = L!Older(j)
  BY <1>1
<1>4. jobs' \in Seq(Job)
  <2>1. jobs' \in [1..Len(jobs) -> Job]
    BY <1>1, <1>2, LoginJobs
  <2>. QED  BY <2>1, LoginJobs
<1>5. ASSUME NEW c \in LoginClient, login[c] # L!Quiet
      PROVE  login'[c].job = login[c].job /\ login'[c].flow = login[c].flow
  <2>1. login'[c] = [login[c] EXCEPT !.wait = @ + 1]
    BY <1>1, <1>5
  <2>. QED  BY <2>1
<1>6. DOMAIN login' = LoginClient /\ \A c \in LoginClient : login[c] = L!Quiet => login'[c] = L!Quiet
  BY <1>1
<1>7. \A d \in LoginClient : Awaited(d)'
  BY <1>1, <1>3, <1>5, <1>6, WaitingEnds
<1>. QED  BY <1>1, <1>2, <1>3, <1>4, <1>6, <1>7, JobsMove

LEMMA LoginsDie ==
  ASSUME L!AccountLoginsConstants, LoginsInv, L!Die
  PROVE  /\ jobs' \in Seq(Job) /\ DOMAIN jobs' = DOMAIN jobs
         /\ \A j \in DOMAIN jobs' : Patient(jobs'[j])
         /\ \A j \in DOMAIN jobs : jobs[j].state = "shown" =>
               jobs'[j].state = "shown" /\ jobs'[j].provider = jobs[j].provider
         /\ DOMAIN login' = LoginClient /\ \A c \in LoginClient : login'[c] = L!Quiet
<1>1. login' = [c \in LoginClient |-> L!Quiet]
  BY DEF L!Die
<1>2. DOMAIN jobs' = DOMAIN jobs /\ DOMAIN jobs = 1..Len(jobs) /\ Len(jobs) \in Nat
  BY LoginJobs DEF L!Die
<1>3. ASSUME NEW j \in DOMAIN jobs
      PROVE  /\ jobs'[j] \in Job /\ Patient(jobs'[j])
             /\ jobs[j].state = "shown" => jobs'[j] = jobs[j]
  <2>1. jobs[j] \in Job /\ Patient(jobs[j])
    BY LoginJobs DEF LoginsInv
  <2>2. PICK cancelled : cancelled = [jobs[j] EXCEPT !.state = "cancelled"]
    OBVIOUS
  <2>3. PICK alone : alone = [jobs[j] EXCEPT !.state = "stray", !.age = 0]
    OBVIOUS
  <2>4. /\ cancelled \in Job /\ cancelled.state = "cancelled"
        /\ alone \in Job /\ alone.state = "stray"
    BY <2>1, <2>2, <2>3 DEF Job, JobStates
  <2>5. jobs'[j] = CASE jobs[j].state = "queued" -> cancelled
                     [] jobs[j].state = "running" -> alone
                     [] OTHER -> jobs[j]
    BY <2>2, <2>3 DEF L!Die
  <2>6. Patient(cancelled) /\ Patient(alone)
    BY <2>4 DEF Patient
  <2>. QED  BY <2>1, <2>4, <2>5, <2>6
<1>4. jobs' \in Seq(Job)
  <2>1. jobs' = [j \in 1..Len(jobs) |-> jobs'[j]]
    BY <1>2 DEF L!Die
  <2>2. jobs' \in [1..Len(jobs) -> Job]
    BY <1>2, <1>3, <2>1
  <2>. QED  BY <1>2, <2>2
<1>5. DOMAIN login' = LoginClient /\ \A c \in LoginClient : login'[c] = L!Quiet
  BY <1>1
<1>. QED  BY <1>2, <1>3, <1>4, <1>5

\* Flows that another status is written to.
LEMMA MarksFlows ==
  ASSUME LoginsInv, NEW p \in Provider, NEW from, NEW to \in {"approved", "revoked"}, L!Mark(p, from, to)
  PROVE  /\ flows' \subseteq Flow /\ \A f, g \in flows' : f.job = g.job => f = g
         /\ \A f \in flows' : \E g \in flows : /\ f.job = g.job /\ f.provider = g.provider
                                               /\ \/ f = g /\ ~(g.provider = p /\ g.status \in from)
                                                  \/ g.provider = p /\ f.status = to
<1>. DEFINE After(f) == IF f.provider = p /\ f.status \in from THEN [f EXCEPT !.status = to] ELSE f
<1>1. flows' = {After(f) : f \in flows}
  BY DEF L!Mark
<1>2. ASSUME NEW f \in flows
      PROVE  /\ After(f) \in Flow /\ After(f).job = f.job /\ After(f).provider = f.provider
             /\ \/ After(f) = f /\ ~(f.provider = p /\ f.status \in from)
                \/ f.provider = p /\ After(f).status = to
  <2>1. f \in Flow
    BY DEF LoginsInv
  <2>2. PICK new : new = [f EXCEPT !.status = to]
    OBVIOUS
  <2>3. new \in Flow /\ new.job = f.job /\ new.provider = f.provider /\ new.status = to
    BY <2>1, <2>2 DEF Flow
  <2>. QED  BY <2>1, <2>2, <2>3
<1>. HIDE DEF After
<1>3. \A f, g \in flows' : f.job = g.job => f = g
  BY <1>1, <1>2 DEF LoginsInv
<1>. QED  BY <1>1, <1>2, <1>3

LEMMA MarkedFlows ==
  ASSUME LoginsInv, NEW p \in Provider, L!Refresh(p) \/ L!Logout(p)
  PROVE  LoginsInv'
<1>1. /\ mode[p] # None /\ disturbed' = disturbed \ {p} /\ UNCHANGED <<jobs, login>>
      /\ \/ mode' = [mode EXCEPT ![p] = "account"] /\ L!Mark(p, {"pending"}, "approved")
         \/ mode' = [mode EXCEPT ![p] = "none"] /\ L!Mark(p, {"pending", "approved"}, "revoked")
  BY DEF L!Refresh, L!Logout, L!SetMode
<1>2. /\ mode' \in [Provider -> {"none", "api_key", "account", None}]
      /\ \A q \in Provider \ {p} : mode'[q] = mode[q]
  BY <1>1 DEF LoginsInv
<1>3. PICK from \in SUBSET {"pending", "approved"}, to \in {"approved", "revoked"} :
         /\ L!Mark(p, from, to)
         /\ \/ from = {"pending"} /\ to = "approved" /\ mode'[p] = "account"
            \/ from = {"pending", "approved"} /\ to = "revoked"
  BY <1>1 DEF LoginsInv
<1>4. /\ flows' \subseteq Flow /\ \A f, g \in flows' : f.job = g.job => f = g
      /\ \A f \in flows' : \E g \in flows : /\ f.job = g.job /\ f.provider = g.provider
                                            /\ \/ f = g /\ ~(g.provider = p /\ g.status \in from)
                                               \/ g.provider = p /\ f.status = to
  BY <1>3, MarksFlows
<1>5. ASSUME NEW f \in flows' PROVE OwnLogin(f)' /\ StandsFor(f)'
  <2>1. PICK g \in flows : /\ f.job = g.job /\ f.provider = g.provider
                           /\ \/ f = g /\ ~(g.provider = p /\ g.status \in from)
                              \/ g.provider = p /\ f.status = to
    BY <1>4
  <2>2. OwnLogin(g) /\ StandsFor(g) /\ g.provider \in Provider
    BY DEF LoginsInv, Flow
  <2>3. OwnLogin(f)'
    BY <1>1, <2>1, <2>2 DEF OwnLogin
  <2>4. CASE g.provider = p
    BY <1>3, <2>1, <2>3, <2>4 DEF StandsFor
  <2>5. CASE g.provider # p
    BY <1>1, <1>2, <2>1, <2>2, <2>3, <2>5 DEF StandsFor
  <2>. QED  BY <2>4, <2>5
<1>6. \A c \in LoginClient : Awaited(c)'
  <2>1. ASSUME NEW c \in LoginClient, login[c] # L!Quiet PROVE \A f \in flows' : f.job # login[c].job
    BY <1>4, <2>1 DEF LoginsInv, Awaited
  <2>. QED  BY <1>1, <2>1 DEF LoginsInv, Awaited
<1>. QED  BY <1>1, <1>2, <1>4, <1>5, <1>6 DEF LoginsInv

\* The server dies, or the configuration is edited.
LEMMA FlowsAreLeft ==
  ASSUME L!AccountLoginsConstants, LoginsInv,
         L!Restart \/ \E p \in Provider : L!DieBetween(p) \/ L!Edit(p)
  PROVE  LoginsInv'
<1>1. /\ flows' = flows /\ disturbed' \subseteq Provider /\ disturbed \subseteq disturbed'
      /\ mode' \in [Provider -> {"none", "api_key", "account", None}]
      /\ \A q \in Provider : mode'[q] = mode[q] \/ mode'[q] = "account" \/ q \in disturbed'
  BY DEF L!DieBetween, L!Edit, L!Restart, L!SetMode, LoginsInv
<1>2. \A f \in flows : f.provider \in Provider
  BY DEF LoginsInv, Flow
<1>3. /\ jobs' \in Seq(Job) /\ DOMAIN jobs' = DOMAIN jobs
      /\ \A j \in DOMAIN jobs' : Patient(jobs'[j])
      /\ \A j \in DOMAIN jobs : jobs[j].state = "shown" =>
            jobs'[j].state = "shown" /\ jobs'[j].provider = jobs[j].provider
      /\ DOMAIN login' = LoginClient /\ \A c \in LoginClient : login'[c] \in {L!Quiet, login[c]}
  <2>1. CASE L!Die
    BY <2>1, LoginsDie
  <2>2. CASE UNCHANGED <<jobs, login>>
    BY <2>2 DEF LoginsInv
  <2>. QED  BY <2>1, <2>2 DEF L!DieBetween, L!Edit, L!Restart
<1>4. \A c \in LoginClient : Awaited(c)'
  BY <1>1, <1>3, WaitingEnds
<1>5. \A f \in flows' : OwnLogin(f)' /\ StandsFor(f)'
  BY <1>1, <1>2, <1>3 DEF LoginsInv, OwnLogin, StandsFor
<1>. QED  BY <1>1, <1>3, <1>4, <1>5 DEF LoginsInv

\* AccountLogins, for any providers, clients, threads and times: every flow has a login of
\* its own that showed its code, however requests give up and the server dies; it is
\* approved only while its provider is in account mode, unless another hand or a death
\* kept the two files apart; and only Codex logins hold a thread beyond its time.
THEOREM AccountsHold ==
  L!AccountLoginsConstants /\ L!Spec => [](L!TypeOK /\ L!AccountsAreKept)
<1>. SUFFICES ASSUME L!AccountLoginsConstants PROVE L!Spec => [](L!TypeOK /\ L!AccountsAreKept)
  OBVIOUS
<1>1. ASSUME L!Init PROVE LoginsInv
  <2>1. /\ mode \in [Provider -> {"none", "api_key", "account", None}] /\ flows = {} /\ jobs = <<>>
        /\ login = [c \in LoginClient |-> L!Quiet] /\ disturbed = {}
    BY <1>1 DEF L!Init
  <2>2. jobs \in Seq(Job) /\ DOMAIN jobs = {}
    BY <2>1
  <2>. QED  BY <2>1, <2>2 DEF LoginsInv, Awaited
<1>2. ASSUME LoginsInv, [L!Next]_(L!vars) PROVE LoginsInv'
  <2>1. CASE UNCHANGED L!vars
    BY <1>2, <2>1 DEF L!vars, LoginsInv, Awaited, OwnLogin, StandsFor
  <2>2. ASSUME NEW c \in LoginClient, NEW p \in Provider,
               L!Login(c, p) \/ L!StartFlow(c, p) \/ L!Run(c, p)
        PROVE  LoginsInv'
    BY <1>2, <2>2, SubmitsJob DEF L!Login, L!StartFlow, L!Run
  <2>3. ASSUME NEW c \in LoginClient, L!Answer(c) \/ L!GiveUp(c) PROVE LoginsInv'
    BY <1>2, <2>3, AnswersLogin, GivesUpLogin
  <2>4. ASSUME NEW j \in DOMAIN jobs, L!Take(j) \/ L!EndRun(j) \/ L!EndLogin(j) PROVE LoginsInv'
    BY <1>2, <2>4, ThreadMoves
  <2>5. CASE L!Tick
    BY <1>2, <2>5, LoginsAge
  <2>6. ASSUME NEW p \in Provider, L!Refresh(p) \/ L!Logout(p) \/ L!DieBetween(p) \/ L!Edit(p)
        PROVE  LoginsInv'
    BY <1>2, <2>6, MarkedFlows, FlowsAreLeft
  <2>7. CASE L!Restart
    BY <1>2, <2>7, FlowsAreLeft
  <2>. QED  BY <1>2, <2>1, <2>2, <2>3, <2>4, <2>5, <2>6, <2>7 DEF L!Next
<1>3. ASSUME LoginsInv PROVE L!TypeOK /\ L!AccountsAreKept
  <2>1. \A f \in flows : f.provider \in Provider /\ f.status \in {"pending", "approved", "revoked"}
    BY <1>3 DEF LoginsInv, Flow
  <2>2. \A j \in DOMAIN jobs :
           /\ jobs[j].op \in {"login", "run"} /\ jobs[j].provider \in Provider
           /\ jobs[j].state \in JobStates
    BY <1>3, LoginJobs DEF Job
  <2>3. \A c \in LoginClient : login[c] = L!Quiet \/ login[c].job \in DOMAIN jobs
    BY <1>3 DEF LoginsInv, Awaited
  <2>4. L!TypeOK
    BY <1>3, <2>1, <2>2, <2>3 DEF L!TypeOK, LoginsInv, JobStates
  <2>5. \A j \in L!Threads : jobs[j].age > RunTimeout => L!Hangs(j)
    BY <1>3 DEF LoginsInv, L!Threads, L!Hangs, Patient
  <2>6. \A f, g \in flows : f.job = g.job => f = g
    BY <1>3 DEF LoginsInv
  <2>7. \A f \in flows :
           /\ jobs[f.job].state = "shown" /\ jobs[f.job].provider = f.provider
           /\ f.status = "approved" => mode[f.provider] = "account" \/ f.provider \in disturbed
    BY <1>3 DEF LoginsInv, OwnLogin, StandsFor
  <2>. QED  BY <2>4, <2>5, <2>6, <2>7 DEF L!AccountsAreKept
<1>. QED  BY <1>1, <1>2, <1>3, PTL DEF L!Spec

----------------------------------------------------------------------------
(* Observability: whose spans are shown, and since when runs are silent.     *)

Item ==
    [kind : {"node", "handoff", "workflow"}, trace : Exec \cup {None},
     status : T!End]

\* The span under an engine's id is the last execution's that was started, as long as it runs.
OwnSpan(g) ==
    active[g] # None => active[g] \in Exec /\ EngineOf[active[g]] = g /\ exec[active[g]] = "running"

\* While no two executions of an engine met: one that runs has the span, and what is kept
\* of one that ended has its end last.
OwnTrace(x) ==
    EngineOf[x] \notin overlapped =>
       /\ exec[x] = "running" => active[EngineOf[x]] = x
       /\ \A i \in DOMAIN items : items[i].trace = x =>
             /\ exec[x] # "idle"
             /\ items[i].kind = "workflow" => items[i].status = exec[x]
             /\ exec[x] \in T!End =>
                   \E j \in DOMAIN items : j >= i /\ items[j].trace = x /\ items[j].kind = "workflow"

TracesInv ==
    /\ exec \in [Exec -> {"idle", "running"} \cup T!End] /\ steps \in [Exec -> 0..MaxNodes]
    /\ active \in [Engine -> Exec \cup {None}] /\ overlapped \subseteq Engine
    /\ items \in Seq(Item) /\ Len(items) <= MaxSpans
    /\ metrics \in [workflows : Nat, nodes : Nat, failed : Nat]
    /\ recorded.nodes = metrics.nodes /\ recorded.failed = metrics.failed
    /\ \A g \in Engine : OwnSpan(g)
    /\ \A x \in Exec : OwnTrace(x)

LEMMA ItemsAre ==
  ASSUME TracesInv
  PROVE  /\ Len(items) \in Nat /\ DOMAIN items = 1..Len(items)
         /\ \A i \in DOMAIN items : items[i] \in Item
BY DEF TracesInv

\* What is shown after one item more: those that were, but perhaps the first, and the item.
LEMMA Shows ==
  ASSUME T!ObservabilityConstants, TracesInv, NEW it \in Item, T!Show(it)
  PROVE  /\ items' \in Seq(Item) /\ Len(items') <= MaxSpans
         /\ \E k \in {0, 1} :
               /\ Len(items') = Len(items) + 1 - k /\ Len(items) + 1 - k >= 1
               /\ items'[Len(items')] = it
               /\ \A i \in 1..(Len(items') - 1) : i + k \in 1..Len(items) /\ items'[i] = items[i + k]
<1>1. items \in Seq(Item) /\ Len(items) \in Nat /\ Len(items) <= MaxSpans /\ MaxSpans \in Nat \ {0}
  BY DEF TracesInv, T!ObservabilityConstants
<1>2. CASE Len(items) < MaxSpans
  <2>1. items' = Append(items, it)
    BY <1>2 DEF T!Show
  <2>2. /\ items' \in Seq(Item) /\ Len(items') = Len(items) + 1 /\ items'[Len(items) + 1] = it
        /\ \A i \in 1..Len(items) : items'[i] = items[i] /\ i + 0 = i
    BY <1>1, <2>1
  <2>. QED  BY <1>1, <1>2, <2>2
<1>3. CASE ~(Len(items) < MaxSpans)
  <2>. DEFINE rest == Tail(items)
  <2>1. items' = Append(rest, it)
    BY <1>3 DEF T!Show
  <2>2. /\ rest \in Seq(Item) /\ Len(rest) = Len(items) - 1
        /\ \A i \in 1..(Len(items) - 1) : rest[i] = items[i + 1]
    BY <1>1, <1>3
  <2>. HIDE DEF rest
  <2>3. /\ items' \in Seq(Item) /\ Len(items') = Len(items) /\ items'[Len(items)] = it
        /\ \A i \in 1..(Len(items) - 1) : items'[i] = rest[i]
    BY <1>1, <2>1, <2>2
  <2>. QED  BY <1>1, <1>3, <2>2, <2>3
<1>. QED  BY <1>2, <1>3

\* A trace that the new item is not of.
LEMMA OtherTraces ==
  ASSUME T!ObservabilityConstants, TracesInv, NEW it \in Item, T!Show(it), NEW x \in Exec,
         it.trace # x, exec'[x] = exec[x], overlapped' = overlapped,
         exec[x] = "running" /\ EngineOf[x] \notin overlapped => active'[EngineOf[x]] = x
  PROVE  OwnTrace(x)'
<1>1. PICK k \in {0, 1} :
         /\ Len(items') = Len(items) + 1 - k /\ Len(items) + 1 - k >= 1
         /\ items'[Len(items')] = it
         /\ \A i \in 1..(Len(items') - 1) : i + k \in 1..Len(items) /\ items'[i] = items[i + k]
  BY Shows
<1>2. DOMAIN items' = 1..Len(items') /\ DOMAIN items = 1..Len(items) /\ Len(items) \in Nat
  BY Shows, ItemsAre
<1>3. SUFFICES ASSUME EngineOf[x] \notin overlapped, NEW i \in DOMAIN items', items'[i].trace = x
               PROVE  /\ exec[x] # "idle"
                      /\ items'[i].kind = "workflow" => items'[i].status = exec[x]
                      /\ exec[x] \in T!End =>
                            \E j \in DOMAIN items' :
                               j >= i /\ items'[j].trace = x /\ items'[j].kind = "workflow"
  BY DEF OwnTrace, T!End
<1>4. i \in 1..(Len(items') - 1) /\ i + k \in DOMAIN items /\ items'[i] = items[i + k]
  BY <1>1, <1>2, <1>3
<1>5. OwnTrace(x)
  BY DEF TracesInv
<1>6. ASSUME exec[x] \in T!End
      PROVE  \E j \in DOMAIN items' : j >= i /\ items'[j].trace = x /\ items'[j].kind = "workflow"
  <2>1. PICK j \in DOMAIN items : j >= i + k /\ items[j].trace = x /\ items[j].kind = "workflow"
    BY <1>3, <1>4, <1>5, <1>6 DEF OwnTrace
  <2>2. j - k \in 1..(Len(items') - 1) /\ (j - k) + k = j /\ j - k >= i
    <3>1. /\ j \in Int /\ j <= Len(items) /\ i \in Int /\ i >= 1 /\ j >= i + k
          /\ Len(items) \in Int /\ Len(items') = Len(items) + 1 - k
      BY <1>1, <1>2, <1>3, <2>1
    <3>. QED  BY <3>1
  <2>. QED  BY <1>1, <1>2, <2>1, <2>2
<1>. QED  BY <1>3, <1>4, <1>5, <1>6 DEF OwnTrace

\* The execution that reports has its engine's span, unless two met.
LEMMA ReporterHasSpan ==
  ASSUME T!ObservabilityConstants, TracesInv, NEW x \in Exec, exec[x] = "running"
  PROVE  /\ EngineOf[x] \in Engine /\ active[EngineOf[x]] \in Exec \cup {None}
         /\ \A y \in Exec : /\ active[EngineOf[x]] = y => EngineOf[y] = EngineOf[x]
                            /\ EngineOf[y] \notin overlapped /\ EngineOf[y] = EngineOf[x] =>
                                  active[EngineOf[x]] = x /\ (exec[y] = "running" => y = x)
<1>1. EngineOf[x] \in Engine
  BY DEF T!ObservabilityConstants
<1>2. OwnSpan(EngineOf[x]) /\ \A y \in Exec : OwnTrace(y)
  BY <1>1 DEF TracesInv
<1>3. \A y \in Exec : y # None
  BY DEF T!ObservabilityConstants
<1>. QED  BY <1>1, <1>2, <1>3 DEF TracesInv, OwnSpan, OwnTrace

LEMMA StartsTrace ==
  ASSUME T!ObservabilityConstants, TracesInv, NEW x \in Exec, T!RecordWorkflowStart(x)
  PROVE  TracesInv'
<1>1. /\ exec[x] = "idle" /\ exec' = [exec EXCEPT ![x] = "running"]
      /\ active' = [active EXCEPT ![EngineOf[x]] = x]
      /\ overlapped' = overlapped \cup IF T!Running(EngineOf[x]) # {} THEN {EngineOf[x]} ELSE {}
      /\ UNCHANGED <<steps, items, metrics, recorded>>
  BY DEF T!RecordWorkflowStart
<1>2. /\ EngineOf[x] \in Engine /\ active[EngineOf[x]] \in Exec \cup {None}
      /\ \A y \in Exec : EngineOf[y] \in Engine /\ y # None
  BY DEF T!ObservabilityConstants, TracesInv
<1>3. /\ \A y \in Exec : exec'[y] = IF y = x THEN "running" ELSE exec[y]
      /\ \A g \in Engine : active'[g] = IF g = EngineOf[x] THEN x ELSE active[g]
  BY <1>1, <1>2 DEF TracesInv
<1>4. /\ exec' \in [Exec -> {"idle", "running"} \cup T!End]
      /\ active' \in [Engine -> Exec \cup {None}] /\ overlapped' \subseteq Engine
  BY <1>1, <1>2 DEF TracesInv
<1>5. ASSUME NEW g \in Engine PROVE OwnSpan(g)'
  BY <1>1, <1>2, <1>3 DEF TracesInv, OwnSpan
<1>6. ASSUME NEW y \in Exec PROVE OwnTrace(y)'
  <2>1. SUFFICES ASSUME EngineOf[y] \notin overlapped' PROVE OwnTrace(y)'
    BY DEF OwnTrace
  <2>2. EngineOf[y] \notin overlapped /\ OwnTrace(y)
    BY <1>1, <2>1 DEF TracesInv
  <2>3. CASE y = x
    <3>1. \A i \in DOMAIN items : items[i].trace # x
      BY <1>1, <2>2, <2>3 DEF OwnTrace
    <3>. QED  BY <1>1, <1>2, <1>3, <2>3, <3>1 DEF OwnTrace
  <2>4. CASE y # x
    <3>1. exec[y] = "running" => EngineOf[y] # EngineOf[x]
      BY <1>1, <2>1 DEF T!Running
    <3>2. exec'[y] = exec[y] /\ items' = items
      BY <1>1, <1>3, <2>4
    <3>3. exec'[y] = "running" => active'[EngineOf[y]] = y
      BY <1>2, <1>3, <2>2, <3>1, <3>2 DEF OwnTrace
    <3>. QED  BY <2>1, <2>2, <3>2, <3>3 DEF OwnTrace
  <2>. QED  BY <2>3, <2>4
<1>. QED  BY <1>1, <1>4, <1>5, <1>6 DEF TracesInv

\* A node or a handoff is reported.
LEMMA ReportsItem ==
  ASSUME T!ObservabilityConstants, TracesInv, NEW x \in Exec, exec[x] = "running", NEW it \in Item, T!Show(it),
         it.trace \in {active[EngineOf[x]], None}, it.kind # "workflow",
         UNCHANGED <<exec, active, overlapped>>, steps' \in [Exec -> 0..MaxNodes],
         metrics' \in [workflows : Nat, nodes : Nat, failed : Nat],
         recorded'.nodes = metrics'.nodes, recorded'.failed = metrics'.failed
  PROVE  TracesInv'
<1>1. /\ EngineOf[x] \in Engine /\ active[EngineOf[x]] \in Exec \cup {None}
      /\ \A y \in Exec : /\ active[EngineOf[x]] = y => EngineOf[y] = EngineOf[x]
                         /\ EngineOf[y] \notin overlapped /\ EngineOf[y] = EngineOf[x] =>
                               active[EngineOf[x]] = x /\ (exec[y] = "running" => y = x)
  BY ReporterHasSpan
<1>2. items' \in Seq(Item) /\ Len(items') <= MaxSpans
  BY Shows
<1>3. \A g \in Engine : OwnSpan(g)'
  BY DEF TracesInv, OwnSpan
<1>4. ASSUME NEW y \in Exec PROVE OwnTrace(y)'
  <2>1. exec[y] = "running" /\ EngineOf[y] \notin overlapped => active'[EngineOf[y]] = y
    BY DEF TracesInv, OwnTrace
  <2>2. CASE it.trace # y
    BY <2>1, <2>2, OtherTraces
  <2>3. CASE it.trace = y
    <3>1. SUFFICES ASSUME EngineOf[y] \notin overlapped PROVE OwnTrace(y)'
      BY DEF OwnTrace
    <3>2. y = x
      BY <1>1, <2>3, <3>1 DEF T!ObservabilityConstants
    <3>3. PICK k \in {0, 1} :
             /\ Len(items') = Len(items) + 1 - k /\ Len(items) + 1 - k >= 1
             /\ items'[Len(items')] = it
             /\ \A i \in 1..(Len(items') - 1) : i + k \in 1..Len(items) /\ items'[i] = items[i + k]
      BY Shows
    <3>4. DOMAIN items' = 1..Len(items') /\ Len(items') \in Nat /\ DOMAIN items = 1..Len(items)
      BY <1>2, ItemsAre
    <3>5. ASSUME NEW i \in DOMAIN items', items'[i].trace = y, items'[i].kind = "workflow" PROVE FALSE
      <4>1. i \in 1..(Len(items') - 1)
        BY <3>3, <3>4, <3>5
      <4>2. i + k \in DOMAIN items /\ items[i + k].trace = y /\ items[i + k].kind = "workflow"
        BY <3>3, <3>4, <3>5, <4>1
      <4>3. items[i + k].status = exec[y]
        BY <3>1, <4>2 DEF TracesInv, OwnTrace
      <4>4. items[i + k].status \in T!End
        BY <4>2, ItemsAre DEF Item
      <4>. QED  BY <3>2, <4>3, <4>4 DEF T!End
    <3>6. exec'[y] = "running" /\ "running" \notin T!End
      BY <3>2 DEF T!End
    <3>. QED  BY <2>1, <3>1, <3>5, <3>6 DEF OwnTrace
  <2>. QED  BY <2>2, <2>3
<1>. QED  BY <1>2, <1>3, <1>4 DEF TracesInv

LEMMA EndsTrace ==
  ASSUME T!ObservabilityConstants, TracesInv, NEW x \in Exec, NEW status \in T!End,
         T!RecordWorkflowEnd(x, status)
  PROVE  TracesInv'
<1>. DEFINE span == active[EngineOf[x]]
            it == [kind |-> "workflow", trace |-> span, status |-> status]
<1>1. /\ exec[x] = "running" /\ exec' = [exec EXCEPT ![x] = status]
      /\ \/ span = None /\ UNCHANGED <<items, metrics>>
         \/ /\ span # None /\ T!Show(it)
            /\ metrics' = [metrics EXCEPT !.workflows = @ + 1]
      /\ active' = [active EXCEPT ![EngineOf[x]] = None]
      /\ UNCHANGED <<steps, recorded, overlapped>>
  BY DEF T!RecordWorkflowEnd
<1>2. /\ EngineOf[x] \in Engine /\ span \in Exec \cup {None}
      /\ \A y \in Exec : /\ span = y => EngineOf[y] = EngineOf[x]
                         /\ EngineOf[y] \notin overlapped /\ EngineOf[y] = EngineOf[x] =>
                               span = x /\ (exec[y] = "running" => y = x)
  BY <1>1, ReporterHasSpan
<1>3. it \in Item /\ it.trace = span /\ it.kind = "workflow" /\ it.status = status
  BY <1>2 DEF Item
<1>. HIDE DEF it, span
<1>4. /\ \A y \in Exec : exec'[y] = IF y = x THEN status ELSE exec[y]
      /\ \A g \in Engine : active'[g] = IF g = EngineOf[x] THEN None ELSE active[g]
  BY <1>1, <1>2 DEF TracesInv
<1>5. /\ exec' \in [Exec -> {"idle", "running"} \cup T!End] /\ active' \in [Engine -> Exec \cup {None}]
      /\ overlapped' \subseteq Engine /\ steps' \in [Exec -> 0..MaxNodes]
  BY <1>1 DEF TracesInv
<1>6. items' \in Seq(Item) /\ Len(items') <= MaxSpans
  BY <1>1, <1>3, Shows DEF TracesInv
<1>7. /\ metrics' \in [workflows : Nat, nodes : Nat, failed : Nat]
      /\ metrics'.nodes = metrics.nodes /\ metrics'.failed = metrics.failed
  BY <1>1 DEF TracesInv
<1>8. ASSUME NEW g \in Engine PROVE OwnSpan(g)'
  <2>1. CASE g = EngineOf[x]
    BY <1>4, <2>1 DEF OwnSpan
  <2>2. CASE g # EngineOf[x]
    <3>1. active'[g] = active[g] /\ OwnSpan(g)
      BY <1>4, <2>2 DEF TracesInv
    <3>2. active[g] # None => active[g] \in Exec /\ active[g] # x
      BY <2>2, <3>1 DEF OwnSpan
    <3>. QED  BY <1>4, <3>1, <3>2 DEF OwnSpan
  <2>. QED  BY <2>1, <2>2
<1>9. ASSUME NEW y \in Exec, EngineOf[y] \notin overlapped PROVE OwnTrace(y)'
  <2>1. EngineOf[y] \in Engine /\ OwnTrace(y)
    BY DEF T!ObservabilityConstants, TracesInv
  <2>2. CASE y = x
    <3>1. span = x /\ x # None
      BY <1>2, <1>9, <2>2 DEF T!ObservabilityConstants
    <3>2. PICK k \in {0, 1} :
             /\ Len(items') = Len(items) + 1 - k /\ Len(items) + 1 - k >= 1
             /\ items'[Len(items')] = it
             /\ \A i \in 1..(Len(items') - 1) : i + k \in 1..Len(items) /\ items'[i] = items[i + k]
      BY <1>1, <1>3, <3>1, Shows
    <3>3. DOMAIN items' = 1..Len(items') /\ Len(items') \in Nat /\ DOMAIN items = 1..Len(items)
      BY <1>6, ItemsAre
    <3>4. ASSUME NEW i \in DOMAIN items', items'[i].trace = y, items'[i].kind = "workflow"
          PROVE  items'[i].status = status
      <4>1. CASE i \in 1..(Len(items') - 1)
        <5>1. i + k \in DOMAIN items /\ items[i + k].trace = y /\ items[i + k].kind = "workflow"
          BY <3>2, <3>3, <3>4, <4>1
        <5>2. items[i + k].status = exec[y]
          BY <1>9, <2>1, <5>1 DEF OwnTrace
        <5>3. items[i + k].status \in T!End
          BY <5>1, ItemsAre DEF Item
        <5>. QED  BY <1>1, <2>2, <5>2, <5>3 DEF T!End
      <4>2. CASE i \notin 1..(Len(items') - 1)
        <5>1. i = Len(items')
          BY <3>3, <3>4, <4>2
        <5>. QED  BY <1>3, <3>2, <5>1
      <4>. QED  BY <4>1, <4>2
    <3>5. /\ Len(items') \in DOMAIN items' /\ \A i \in DOMAIN items' : Len(items') >= i
          /\ items'[Len(items')].trace = x /\ items'[Len(items')].kind = "workflow"
      BY <1>3, <3>1, <3>2, <3>3
    <3>6. exec'[y] = status /\ status # "idle" /\ status # "running"
      BY <1>4, <2>2 DEF T!End
    <3>. QED  BY <2>2, <3>4, <3>5, <3>6 DEF OwnTrace
  <2>3. CASE y # x
    <3>1. exec'[y] = exec[y] /\ (exec[y] = "running" => EngineOf[y] # EngineOf[x])
      BY <1>2, <1>4, <1>9, <2>3
    <3>2. exec[y] = "running" => active'[EngineOf[y]] = y
      BY <1>4, <1>9, <2>1, <3>1 DEF OwnTrace
    <3>3. CASE span = None
      BY <1>1, <1>9, <2>1, <3>1, <3>2, <3>3 DEF OwnTrace
    <3>4. CASE span # None
      <4>1. span # y
        BY <1>2, <1>9, <2>3
      <4>. QED  BY <1>1, <1>3, <3>1, <3>2, <3>4, <4>1, OtherTraces
    <3>. QED  BY <3>3, <3>4
  <2>. QED  BY <2>2, <2>3
<1>10. \A y \in Exec : OwnTrace(y)'
  BY <1>1, <1>9 DEF OwnTrace
<1>. QED  BY <1>1, <1>5, <1>6, <1>7, <1>8, <1>10 DEF TracesInv

LEMMA CountsNode ==
  ASSUME NEW m \in [workflows : Nat, nodes : Nat, failed : Nat], NEW n \in Nat,
         NEW after, after = [m EXCEPT !.nodes = m.nodes + 1, !.failed = m.failed + n]
  PROVE  /\ after \in [workflows : Nat, nodes : Nat, failed : Nat]
         /\ after.nodes = m.nodes + 1 /\ after.failed = m.failed + n
<1>1. DOMAIN m = {"workflows", "nodes", "failed"} /\ m.workflows \in Nat /\ m.nodes \in Nat /\ m.failed \in Nat
  OBVIOUS
<1>2. after = [workflows |-> m.workflows, nodes |-> m.nodes + 1, failed |-> m.failed + n]
  BY <1>1
<1>. QED  BY <1>1, <1>2

LEMMA NewTraces ==
  ASSUME T!ObservabilityConstants, exec \in [Exec -> {"idle"} \cup T!End], steps \in [Exec -> 0..MaxNodes],
         active = [g \in Engine |-> None], items = <<>>,
         metrics = [workflows |-> 0, nodes |-> 0, failed |-> 0],
         recorded = [nodes |-> 0, failed |-> 0], overlapped = {}
  PROVE  TracesInv
<1>1. items \in Seq(Item) /\ DOMAIN items = {} /\ Len(items) <= MaxSpans
  BY DEF T!ObservabilityConstants
<1>2. \A x \in Exec : exec[x] # "running"
  BY DEF T!End
<1>3. \A x \in Exec : OwnTrace(x)
  BY <1>1, <1>2 DEF OwnTrace
<1>. QED  BY <1>1, <1>3 DEF TracesInv, OwnSpan

\* ObservabilityService, for any engines, executions and sizes: the counters of nodes are
\* exact whatever the deque dropped and, unless two executions of its engine met, a trace
\* shows what became of its execution, and no span is kept of one that is over.
THEOREM TracesHold ==
  T!ObservabilityConstants /\ T!TracesInit /\ [][T!TracesNext]_(T!traces) => [](T!TracesTypeOK /\ T!TracesAreTrue)
<1>. SUFFICES ASSUME T!ObservabilityConstants
              PROVE  T!TracesInit /\ [][T!TracesNext]_(T!traces) => [](T!TracesTypeOK /\ T!TracesAreTrue)
  OBVIOUS
<1>1. ASSUME T!TracesInit PROVE TracesInv
  <2>1. /\ exec = [x \in Exec |-> "idle"] /\ steps = [x \in Exec |-> 0]
        /\ active = [g \in Engine |-> None] /\ items = <<>>
        /\ metrics = [workflows |-> 0, nodes |-> 0, failed |-> 0]
        /\ recorded = [nodes |-> 0, failed |-> 0] /\ overlapped = {}
    BY <1>1 DEF T!TracesInit
  <2>2. exec \in [Exec -> {"idle"} \cup T!End] /\ steps \in [Exec -> 0..MaxNodes]
    BY <2>1 DEF T!ObservabilityConstants
  <2>. QED  BY <2>1, <2>2, NewTraces
<1>2. ASSUME TracesInv, [T!TracesNext]_(T!traces) PROVE TracesInv'
  <2>1. CASE UNCHANGED T!traces
    BY <1>2, <2>1 DEF T!traces, TracesInv, OwnSpan, OwnTrace
  <2>2. ASSUME NEW x \in Exec, T!RecordWorkflowStart(x) PROVE TracesInv'
    BY <1>2, <2>2, StartsTrace
  <2>3. ASSUME NEW x \in Exec, NEW status \in T!End, T!RecordWorkflowEnd(x, status) PROVE TracesInv'
    BY <1>2, <2>3, EndsTrace
  <2>4. ASSUME NEW x \in Exec, NEW status \in {"completed", "failed"}, T!RecordNode(x, status)
        PROVE  TracesInv'
    <3>. DEFINE it == [kind |-> "node", trace |-> active[EngineOf[x]], status |-> status]
    <3>1. /\ exec[x] = "running" /\ steps[x] < MaxNodes /\ steps' = [steps EXCEPT ![x] = @ + 1]
          /\ T!Show(it) /\ UNCHANGED <<exec, active, overlapped>>
          /\ metrics' = [metrics EXCEPT !.nodes = @ + 1, !.failed = @ + T!Failures(status)]
          /\ recorded' = [nodes |-> recorded.nodes + 1, failed |-> recorded.failed + T!Failures(status)]
      BY <2>4 DEF T!RecordNode
    <3>2. it \in Item /\ it.trace = active[EngineOf[x]] /\ it.kind = "node"
      BY <1>2, <3>1, ReporterHasSpan DEF Item, T!End
    <3>. HIDE DEF it
    <3>3. T!Failures(status) \in Nat
      BY DEF T!Failures
    <3>4. /\ metrics' \in [workflows : Nat, nodes : Nat, failed : Nat]
          /\ metrics'.nodes = metrics.nodes + 1 /\ metrics'.failed = metrics.failed + T!Failures(status)
          /\ recorded'.nodes = recorded.nodes + 1 /\ recorded'.failed = recorded.failed + T!Failures(status)
      <4>1. PICK n : n = T!Failures(status)
        OBVIOUS
      <4>2. /\ metrics' = [metrics EXCEPT !.nodes = metrics.nodes + 1, !.failed = metrics.failed + n]
            /\ recorded' = [nodes |-> recorded.nodes + 1, failed |-> recorded.failed + n]
        BY <3>1, <4>1
      <4>3. metrics \in [workflows : Nat, nodes : Nat, failed : Nat] /\ n \in Nat
        BY <1>2, <3>3, <4>1 DEF TracesInv
      <4>4. recorded'.nodes = recorded.nodes + 1 /\ recorded'.failed = recorded.failed + n
        BY <4>2
      <4>. QED  BY <4>1, <4>2, <4>3, <4>4, CountsNode
    <3>5. steps' \in [Exec -> 0..MaxNodes]
      <4>1. steps \in [Exec -> 0..MaxNodes] /\ MaxNodes \in Nat
        BY <1>2 DEF TracesInv, T!ObservabilityConstants
      <4>. QED  BY <3>1, <4>1
    <3>6. recorded'.nodes = metrics'.nodes /\ recorded'.failed = metrics'.failed
      BY <1>2, <3>4 DEF TracesInv
    <3>. QED  BY <1>2, <3>1, <3>2, <3>4, <3>5, <3>6, ReportsItem
  <2>5. ASSUME NEW x \in Exec, T!RecordHandoff(x) PROVE TracesInv'
    <3>. DEFINE it == [kind |-> "handoff", trace |-> None, status |-> "completed"]
    <3>1. /\ exec[x] = "running" /\ steps[x] < MaxNodes /\ steps' = [steps EXCEPT ![x] = @ + 1]
          /\ T!Show(it) /\ UNCHANGED <<exec, active, overlapped, metrics, recorded>>
      BY <2>5 DEF T!RecordHandoff
    <3>2. it \in Item /\ it.trace = None /\ it.kind = "handoff"
      BY DEF Item, T!End
    <3>. HIDE DEF it
    <3>3. steps' \in [Exec -> 0..MaxNodes]
      <4>1. steps \in [Exec -> 0..MaxNodes] /\ MaxNodes \in Nat
        BY <1>2 DEF TracesInv, T!ObservabilityConstants
      <4>. QED  BY <3>1, <4>1
    <3>4. /\ metrics' \in [workflows : Nat, nodes : Nat, failed : Nat]
          /\ recorded'.nodes = metrics'.nodes /\ recorded'.failed = metrics'.failed
      BY <1>2, <3>1 DEF TracesInv
    <3>. QED  BY <1>2, <3>1, <3>2, <3>3, <3>4, ReportsItem
  <2>6. CASE T!Restart
    <3>1. /\ exec' = [x \in Exec |-> IF exec[x] = "running" THEN "idle" ELSE exec[x]]
          /\ steps' = [x \in Exec |-> IF exec[x] = "running" THEN 0 ELSE steps[x]]
          /\ active' = [g \in Engine |-> None] /\ items' = <<>>
          /\ metrics' = [workflows |-> 0, nodes |-> 0, failed |-> 0]
          /\ recorded' = [nodes |-> 0, failed |-> 0] /\ overlapped' = {}
      BY <2>6 DEF T!Restart
    <3>2. exec' \in [Exec -> {"idle"} \cup T!End] /\ steps' \in [Exec -> 0..MaxNodes]
      BY <1>2, <3>1 DEF TracesInv, T!ObservabilityConstants
    <3>3. items' \in Seq(Item) /\ DOMAIN items' = {} /\ Len(items') <= MaxSpans
      BY <3>1 DEF T!ObservabilityConstants
    <3>4. \A x \in Exec : exec'[x] # "running"
      BY <3>2 DEF T!End
    <3>5. (\A x \in Exec : OwnTrace(x)') /\ \A g \in Engine : OwnSpan(g)'
      BY <3>1, <3>3, <3>4 DEF OwnTrace, OwnSpan
    <3>6. exec' \in [Exec -> {"idle", "running"} \cup T!End] /\ active' \in [Engine -> Exec \cup {None}]
      BY <3>1, <3>2
    <3>. QED  BY <3>1, <3>2, <3>3, <3>5, <3>6 DEF TracesInv
  <2>. QED  BY <1>2, <2>1, <2>2, <2>3, <2>4, <2>5, <2>6 DEF T!TracesNext
<1>3. ASSUME TracesInv PROVE T!TracesTypeOK /\ T!TracesAreTrue
  <2>1. \A i \in DOMAIN items :
           items[i].kind \in {"node", "handoff", "workflow"} /\ items[i].trace \in Exec \cup {None}
    BY <1>3, ItemsAre DEF Item
  <2>2. T!TracesTypeOK
    BY <1>3, <2>1 DEF T!TracesTypeOK, TracesInv
  <2>3. ASSUME NEW x \in Exec, T!SpansOf(x) # {}, EngineOf[x] \notin overlapped
        PROVE  T!StatusOf(x) = IF exec[x] = "running" THEN "pending" ELSE exec[x]
    <3>1. OwnTrace(x) /\ exec[x] \in {"idle", "running"} \cup T!End
      BY <1>3 DEF TracesInv
    <3>2. PICK i \in DOMAIN items : items[i].trace = x
      BY <2>3 DEF T!SpansOf
    <3>3. \A j \in T!EndsOf(x) : /\ j \in DOMAIN items /\ items[j].trace = x
                                 /\ items[j].kind = "workflow" /\ items[j].status = exec[x]
                                 /\ items[j].status \in T!End
      BY <1>3, <2>3, <3>1, ItemsAre DEF OwnTrace, T!EndsOf, T!SpansOf, Item
    <3>4. CASE exec[x] = "running"
      <4>1. T!EndsOf(x) = {}
        BY <3>3, <3>4 DEF T!End
      <4>. QED  BY <3>4, <4>1 DEF T!StatusOf
    <3>5. CASE exec[x] # "running"
      <4>1. exec[x] \in T!End
        BY <2>3, <3>1, <3>2, <3>5 DEF OwnTrace
      <4>2. \E j \in T!EndsOf(x) : TRUE
        BY <2>3, <3>1, <3>2, <4>1 DEF OwnTrace, T!EndsOf, T!SpansOf
      <4>3. T!EndsOf(x) \subseteq 1..Len(items) /\ Len(items) \in Nat
        BY <1>3, <3>3, ItemsAre
      <4>4. \E j \in T!EndsOf(x) : \A h \in T!EndsOf(x) : h <= j
        BY <4>2, <4>3, GreatestIs
      <4>5. (CHOOSE j \in T!EndsOf(x) : \A h \in T!EndsOf(x) : h <= j) \in T!EndsOf(x)
        BY <4>4
      <4>6. T!EndsOf(x) # {}
        BY <4>2
      <4>. QED  BY <3>3, <3>5, <4>5, <4>6 DEF T!StatusOf
    <3>. QED  BY <3>4, <3>5
  <2>4. ASSUME NEW g \in Engine, active[g] # None PROVE T!Running(g) # {}
    BY <1>3, <2>4 DEF TracesInv, OwnSpan, T!Running
  <2>5. metrics.nodes = recorded.nodes /\ metrics.failed = recorded.failed
    BY <1>3 DEF TracesInv
  <2>. QED  BY <2>2, <2>3, <2>4, <2>5 DEF T!TracesAreTrue
<1>. QED  BY <1>1, <1>2, <1>3, PTL


HealthRecord ==
    [status : T!ActiveStatuses \cup T!Waiting \cup T!Final, created : Nat, started : Nat \cup {None},
     fixed : BOOLEAN]

\* What is known of a run's times.
Timed(run, last) ==
    /\ run \in HealthRecord /\ run.created <= last /\ last <= clock
    /\ run.started # None => run.created <= run.started /\ run.started <= last
    /\ run.fixed => run.started # None

HealthInv ==
    /\ clock \in 0..MaxClock /\ DOMAIN runs = HealthRun /\ progress \in [HealthRun -> 0..MaxClock]
    /\ \A r \in HealthRun : runs[r] # None => Timed(runs[r], progress[r])
    /\ counters \in [total : 0..MaxReads, human : 0..MaxReads, policy : 0..MaxReads]
    /\ counters.human <= counters.total /\ counters.policy <= counters.total
    /\ seen \subseteq T!ActiveStatuses \cup T!Waiting \cup T!Final
    /\ counters.human > 0 => "HUMAN_APPROVAL_REQUIRED" \in seen
    /\ counters.policy > 0 => "BASELINE_TAMPER_DETECTED" \in seen

\* One run changes.
LEMMA RunChanges ==
  ASSUME T!ObservabilityConstants, HealthInv, NEW r \in HealthRun, DOMAIN runs' = HealthRun,
         \A q \in HealthRun : q # r => runs'[q] = runs[q],
         progress' \in {progress, [progress EXCEPT ![r] = clock]}, UNCHANGED <<clock, counters, seen>>,
         runs'[r] # None => Timed(runs'[r], progress'[r])
  PROVE  HealthInv'
<1>1. progress' \in [HealthRun -> 0..MaxClock] /\ \A q \in HealthRun : q # r => progress'[q] = progress[q]
  BY DEF HealthInv
<1>2. ASSUME NEW q \in HealthRun, runs'[q] # None PROVE Timed(runs[q], progress[q])'
  <2>1. CASE q = r
    BY <1>2, <2>1 DEF Timed
  <2>2. CASE q # r
    <3>1. runs'[q] = runs[q] /\ progress'[q] = progress[q] /\ Timed(runs[q], progress[q])
      BY <1>1, <1>2, <2>2 DEF HealthInv
    <3>. QED  BY <3>1 DEF Timed
  <2>. QED  BY <2>1, <2>2
<1>. QED  BY <1>1, <1>2 DEF HealthInv

LEMMA ChangesRun ==
  ASSUME T!ObservabilityConstants, HealthInv, NEW r \in HealthRun,
         \/ T!CreateRun(r) \/ T!SetRunning(r) \/ T!Leave(r) \/ T!Compact(r) \/ T!Log(r) \/ T!RemoveRun(r)
  PROVE  HealthInv'
<1>. DEFINE run == runs[r]
            last == progress'[r]
<1>1. /\ clock \in Nat /\ DOMAIN runs = HealthRun /\ clock # None
      /\ progress \in [HealthRun -> 0..MaxClock] /\ progress[r] \in Nat
      /\ run # None => Timed(run, progress[r])
  BY DEF HealthInv, T!ObservabilityConstants
<1>2. UNCHANGED <<clock, counters, seen>> /\ progress' \in {progress, [progress EXCEPT ![r] = clock]}
  BY DEF T!CreateRun, T!SetRunning, T!Leave, T!Compact, T!Log, T!RemoveRun, T!Touch
<1>3. last \in {progress[r], clock}
  BY <1>1, <1>2
<1>4. run # None => Timed(run, last)
  BY <1>1, <1>3 DEF Timed, HealthRecord
<1>5. CASE UNCHANGED runs
  BY <1>1, <1>2, <1>4, <1>5, RunChanges
<1>. HIDE DEF run, last
<1>6. ASSUME NEW new, runs' = [runs EXCEPT ![r] = new], new # None => Timed(new, last)
      PROVE  HealthInv'
  BY <1>1, <1>2, <1>6, RunChanges DEF last
<1>7. CASE T!CreateRun(r)
  <2>1. PICK new : new = [status |-> "pending", created |-> clock, started |-> None, fixed |-> FALSE]
    OBVIOUS
  <2>2. runs' = [runs EXCEPT ![r] = new] /\ last = clock
    BY <1>1, <1>7, <2>1 DEF T!CreateRun, T!Touch, last
  <2>3. /\ new \in HealthRecord /\ new.created = clock /\ new.started = None /\ new.fixed = FALSE
    BY <1>1, <2>1 DEF HealthRecord, T!ActiveStatuses
  <2>4. Timed(new, last)
    BY <1>1, <2>2, <2>3 DEF Timed
  <2>. QED  BY <1>6, <2>2, <2>4
<1>8. CASE T!SetRunning(r)
  <2>1. PICK started : started = IF run.fixed THEN run.started ELSE clock
    OBVIOUS
  <2>2. PICK new : new = [run EXCEPT !.status = "running", !.started = started]
    OBVIOUS
  <2>3. /\ run # None /\ last = clock
        /\ runs' = [runs EXCEPT ![r].status = "running", ![r].started = IF runs[r].fixed THEN @ ELSE clock]
    BY <1>1, <1>8 DEF T!SetRunning, T!Touch, T!Exists, run, last
  <2>4. Timed(run, last) /\ run \in HealthRecord
    BY <1>4, <2>3 DEF Timed
  <2>5. started \in Nat \cup {None} /\ run.created \in Nat
    BY <1>1, <2>1, <2>4 DEF HealthRecord
  <2>6. /\ new = [status |-> "running", created |-> run.created, started |-> started, fixed |-> run.fixed]
    BY <2>2, <2>4 DEF HealthRecord
  <2>7. /\ new \in HealthRecord /\ new.created = run.created /\ new.started = started
        /\ new.fixed = run.fixed
    BY <2>4, <2>5, <2>6 DEF HealthRecord, T!ActiveStatuses
  <2>8. Timed(new, last)
    BY <1>1, <2>1, <2>3, <2>4, <2>5, <2>7 DEF Timed
  <2>9. runs' = [runs EXCEPT ![r] = new]
    BY <1>1, <2>1, <2>2, <2>3 DEF run
  <2>. QED  BY <1>6, <2>8, <2>9
<1>9. CASE T!Leave(r)
  <2>1. PICK status \in {"awaiting_subagents"} \cup T!Waiting \cup T!Final : T!Set(r, status)
    BY <1>9 DEF T!Leave
  <2>2. PICK new : new = [run EXCEPT !.status = status]
    OBVIOUS
  <2>3. run # None /\ runs' = [runs EXCEPT ![r] = new]
    BY <1>9, <2>1, <2>2 DEF T!Leave, T!Exists, T!Set, run
  <2>4. Timed(run, last) /\ run \in HealthRecord
    BY <1>4, <2>3 DEF Timed
  <2>5. /\ new \in HealthRecord /\ new.created = run.created /\ new.started = run.started
        /\ new.fixed = run.fixed
    BY <2>2, <2>4 DEF HealthRecord, T!ActiveStatuses
  <2>6. Timed(new, last)
    BY <2>4, <2>5 DEF Timed
  <2>. QED  BY <1>6, <2>3, <2>6
<1>10. CASE T!Compact(r)
  <2>1. PICK new : new = [run EXCEPT !.fixed = TRUE]
    OBVIOUS
  <2>2. run # None /\ run.started # None /\ runs' = [runs EXCEPT ![r] = new]
    BY <1>10, <2>1 DEF T!Compact, T!Exists, run
  <2>3. Timed(run, last) /\ run \in HealthRecord
    BY <1>4, <2>2 DEF Timed
  <2>4. new \in HealthRecord /\ new.created = run.created /\ new.started = run.started
    BY <2>1, <2>3 DEF HealthRecord
  <2>5. Timed(new, last)
    BY <2>2, <2>3, <2>4 DEF Timed
  <2>. QED  BY <1>6, <2>2, <2>5
<1>11. CASE T!RemoveRun(r)
  BY <1>6, <1>11 DEF T!RemoveRun
<1>12. CASE T!Log(r)
  BY <1>5, <1>12 DEF T!Log
<1>. QED  BY <1>7, <1>8, <1>9, <1>10, <1>11, <1>12

LEMMA CountsRead ==
  ASSUME T!ObservabilityConstants, HealthInv, NEW r \in HealthRun, T!Preview(r)
  PROVE  HealthInv'
<1>. DEFINE status == runs[r].status
            human == T!One(status = "HUMAN_APPROVAL_REQUIRED")
            policy == T!One(status = "BASELINE_TAMPER_DETECTED")
<1>1. /\ runs[r] # None /\ counters.total < MaxReads
      /\ counters' = [total |-> counters.total + 1, human |-> counters.human + human,
                      policy |-> counters.policy + policy]
      /\ seen' = seen \cup {status} /\ UNCHANGED <<clock, runs, progress>>
  BY DEF T!Preview, T!Exists, T!Count, T!FinalStatus
<1>2. status \in T!ActiveStatuses \cup T!Waiting \cup T!Final
  BY <1>1 DEF HealthInv, Timed, HealthRecord
<1>3. /\ human \in {0, 1} /\ policy \in {0, 1}
      /\ human = 1 => status = "HUMAN_APPROVAL_REQUIRED"
      /\ policy = 1 => status = "BASELINE_TAMPER_DETECTED"
  BY DEF T!One
<1>. HIDE DEF human, policy, status
<1>4. /\ counters.total \in Nat /\ counters.human \in Nat /\ counters.policy \in Nat /\ MaxReads \in Nat
      /\ counters.human <= counters.total /\ counters.policy <= counters.total
  BY DEF HealthInv, T!ObservabilityConstants
<1>5. /\ counters'.total = counters.total + 1 /\ counters'.human = counters.human + human
      /\ counters'.policy = counters.policy + policy
  BY <1>1
<1>6. counters' \in [total : 0..MaxReads, human : 0..MaxReads, policy : 0..MaxReads]
  BY <1>1, <1>3, <1>4
<1>7. counters'.human > 0 => "HUMAN_APPROVAL_REQUIRED" \in seen'
  BY <1>1, <1>3, <1>4, <1>5 DEF HealthInv
<1>8. counters'.policy > 0 => "BASELINE_TAMPER_DETECTED" \in seen'
  BY <1>1, <1>3, <1>4, <1>5 DEF HealthInv
<1>9. counters'.human <= counters'.total /\ counters'.policy <= counters'.total
  BY <1>3, <1>4, <1>5
<1>10. seen' \subseteq T!ActiveStatuses \cup T!Waiting \cup T!Final
  BY <1>1, <1>2 DEF HealthInv
<1>11. \A q \in HealthRun : runs'[q] # None => Timed(runs[q], progress[q])'
  BY <1>1 DEF HealthInv, Timed
<1>. QED  BY <1>1, <1>6, <1>7, <1>8, <1>9, <1>10, <1>11 DEF HealthInv

\* ObservabilityService, for any runs, thresholds and times: a run that is active and
\* silent for the threshold raises the alert, whatever its base file says; none does that
\* is younger; and a rate raises an alert only after a run was seen so.
THEOREM SilenceIsNoticed ==
  T!ObservabilityConstants /\ T!HealthInit /\ [][T!HealthNext]_(T!health) => [](T!HealthTypeOK /\ T!HealthIsNoticed)
<1>. SUFFICES ASSUME T!ObservabilityConstants
              PROVE  T!HealthInit /\ [][T!HealthNext]_(T!health) => [](T!HealthTypeOK /\ T!HealthIsNoticed)
  OBVIOUS
<1>1. ASSUME T!HealthInit PROVE HealthInv
  <2>1. /\ clock = 0 /\ runs = [r \in HealthRun |-> None] /\ progress = [r \in HealthRun |-> 0]
        /\ counters = [total |-> 0, human |-> 0, policy |-> 0] /\ seen = {}
    BY <1>1 DEF T!HealthInit
  <2>. QED  BY <2>1 DEF HealthInv, T!ObservabilityConstants
<1>2. ASSUME HealthInv, [T!HealthNext]_(T!health) PROVE HealthInv'
  <2>1. CASE UNCHANGED T!health
    BY <1>2, <2>1 DEF T!health, HealthInv, Timed
  <2>2. CASE T!Pass
    <3>1. clock < MaxClock /\ clock' = clock + 1 /\ UNCHANGED <<runs, progress, counters, seen>>
      BY <2>2 DEF T!Pass
    <3>2. clock \in 0..MaxClock /\ MaxClock \in Nat
      BY <1>2 DEF HealthInv, T!ObservabilityConstants
    <3>3. \A r \in HealthRun : runs[r] # None => Timed(runs[r], progress[r])'
      <4>1. \A r \in HealthRun : progress[r] \in Nat
        BY <1>2 DEF HealthInv
      <4>. QED  BY <1>2, <3>1, <3>2, <4>1 DEF HealthInv, Timed
    <3>. QED  BY <1>2, <3>1, <3>2, <3>3 DEF HealthInv
  <2>3. ASSUME NEW r \in HealthRun, T!Preview(r) PROVE HealthInv'
    BY <1>2, <2>3, CountsRead
  <2>. QED  BY <1>2, <2>1, <2>2, <2>3, ChangesRun DEF T!HealthNext
<1>3. ASSUME HealthInv PROVE T!HealthTypeOK /\ T!HealthIsNoticed
  <2>1. ASSUME NEW r \in HealthRun, runs[r] # None
        PROVE  /\ runs[r] \in HealthRecord /\ runs[r].created <= progress[r] /\ progress[r] <= clock
               /\ runs[r].started # None =>
                     /\ runs[r].created <= runs[r].started /\ runs[r].started <= progress[r]
               /\ runs[r].fixed => runs[r].started # None
               /\ progress[r] \in Nat /\ clock \in Nat
    BY <1>3, <2>1 DEF HealthInv, Timed
  <2>2. T!HealthTypeOK
    <3>1. ASSUME NEW r \in HealthRun, runs[r] # None
          PROVE  /\ runs[r].status \in T!ActiveStatuses \cup T!Waiting \cup T!Final
                 /\ runs[r].created \in 0..clock /\ runs[r].started \in (0..clock) \cup {None}
                 /\ runs[r].fixed => runs[r].started # None
      <4>1. /\ runs[r].status \in T!ActiveStatuses \cup T!Waiting \cup T!Final /\ runs[r].created \in Nat
            /\ runs[r].started \in Nat \cup {None}
        BY <2>1, <3>1 DEF HealthRecord
      <4>. QED  BY <2>1, <3>1, <4>1
    <3>. QED  BY <1>3, <3>1 DEF T!HealthTypeOK, HealthInv
  <2>3. ASSUME NEW r \in T!Active
        PROVE  /\ T!Anchor(r) \in Nat /\ T!Anchor(r) <= progress[r]
               /\ runs[r].created \in Nat /\ runs[r].created <= T!Anchor(r)
    <3>1. r \in HealthRun /\ runs[r] # None
      BY <2>3 DEF T!Active, T!Exists
    <3>2. runs[r].created \in Nat /\ runs[r].started \in Nat \cup {None}
      BY <2>1, <3>1 DEF HealthRecord
    <3>. QED  BY <2>1, <3>1, <3>2 DEF T!Anchor
  <2>4. /\ clock \in Nat /\ Threshold \in Int
        /\ \A r \in T!Active : progress[r] \in Nat
    BY <1>3 DEF HealthInv, T!ObservabilityConstants, T!Active
  <2>5. \A r \in T!Active : clock - progress[r] >= Threshold => r \in T!StuckRuns
    BY <2>3, <2>4 DEF T!StuckRuns
  <2>6. \A r \in T!StuckRuns : clock - runs[r].created >= Threshold
    BY <2>3, <2>4 DEF T!StuckRuns
  <2>7. /\ counters.total \in Nat /\ counters.human \in Nat /\ counters.policy \in Nat
        /\ counters.human > 0 => "HUMAN_APPROVAL_REQUIRED" \in seen
        /\ counters.policy > 0 => "BASELINE_TAMPER_DETECTED" \in seen
    BY <1>3 DEF HealthInv
  <2>8. T!AtLeast(counters.policy, 30) => counters.policy > 0
    <3>1. PICK total : total = IF counters.total = 0 THEN 1 ELSE counters.total
      OBVIOUS
    <3>2. T!AtLeast(counters.policy, 30) => counters.policy * 100 >= 30 * total
      BY <3>1 DEF T!AtLeast
    <3>. QED  BY <2>7, <3>1, <3>2
  <2>9. T!AtLeast(counters.human, 70) => counters.human > 0
    <3>1. PICK total : total = IF counters.total = 0 THEN 1 ELSE counters.total
      OBVIOUS
    <3>2. T!AtLeast(counters.human, 70) => counters.human * 100 >= 70 * total
      BY <3>1 DEF T!AtLeast
    <3>. QED  BY <2>7, <3>1, <3>2
  <2>10. /\ "STUCK_RUN_DETECTED" \in T!Alerts <=> T!StuckRuns # {}
         /\ "HIGH_POLICY_BLOCK_RATE" \in T!Alerts => T!AtLeast(counters.policy, 30)
         /\ "HIGH_HUMAN_APPROVAL_RATE" \in T!Alerts => T!AtLeast(counters.human, 70)
    BY DEF T!Alerts
  <2>. QED  BY <2>2, <2>5, <2>6, <2>7, <2>8, <2>9, <2>10 DEF T!HealthIsNoticed
<1>. QED  BY <1>1, <1>2, <1>3, PTL

----------------------------------------------------------------------------
(* Assessment: what is on record of a type of task, and who was refused.     *)

Counts == [successes : Nat, failures : Nat]

Profile == [successes : Nat, failures : Nat, streak : Nat]

Assessed ==
    [task : TaskType, at : {"pending", "working", "reviewed", "escalated", "done", "ended"},
     feedback : BOOLEAN, attempt : Nat, strategy : E!Strategies \cup {None}, base : Nat,
     history : Counts \cup {None}]

\* A streak of failures counts the successes less.
Weight(streak) == IF streak >= 3 THEN 5 ELSE IF streak >= 2 THEN 7 ELSE 10

\* Whom so many successes and failures refuse.
TooFew(successes, failures, streak, rest) ==
    560 * (Weight(streak) * successes) + (successes + failures) * (rest + 7)
       < 2800 * (successes + failures)

\* What is kept of a type of task, exactly unless a command was lost: its streak counts the
\* failures since the last success.  "when" tells how many there were at each success.
Kept1(t, when) ==
    /\ profile[t] # None =>
          /\ profile[t] \in Profile /\ profile[t].streak <= profile[t].failures
          /\ profile[t].successes <= outcomes[t].successes
          /\ profile[t].failures <= outcomes[t].failures
    /\ t \notin unsure =>
          /\ t \in known <=> profile[t] # None
          /\ profile[t] = None => outcomes[t].successes = 0 /\ outcomes[t].failures = 0
          /\ profile[t] # None =>
                /\ profile[t].successes = outcomes[t].successes
                /\ profile[t].failures = outcomes[t].failures
                /\ profile[t].streak = outcomes[t].failures - when[t][outcomes[t].successes]
          /\ when[t][outcomes[t].successes] <= outcomes[t].failures

RecordsInv(when) ==
    /\ DOMAIN profile = TaskType /\ known \subseteq TaskType /\ unsure \subseteq TaskType
    /\ outcomes \in [TaskType -> Counts]
    /\ \A t \in TaskType : Kept1(t, when)

\* What was found of a child, by what was on record then.
Judgment(r, when) ==
    r.strategy # None /\ r.history # None =>
          LET h == r.history
              t == r.task
          IN  /\ h.successes <= outcomes[t].successes /\ when[t][h.successes] <= h.failures
              /\ r.strategy = "escalate"
                    <=> TooFew(h.successes, h.failures, h.failures - when[t][h.successes], r.base)

Judged(c, when) ==
    /\ child[c] \in Assessed /\ child[c].attempt \in 1..Tries[c]
    /\ child[c].at = "escalated" => child[c].strategy = "escalate"
    /\ Judgment(child[c], when)

RefusedOf(t) == {c \in Child : child[c].at = "escalated" /\ child[c].task = t}

Earned(t) == RefusedOf(t) = {} \/ outcomes[t].failures > Cardinality(RefusedOf(t))

Times == [TaskType -> [Nat -> Nat]]

AssessInv ==
    /\ DOMAIN child = Child
    /\ \A t \in TaskType : Earned(t)
    /\ \E when \in Times : RecordsInv(when) /\ \A c \in Child : Judged(c, when)

LEMMA AssessCountIs == \A set : E!Cardinality(set) = Cardinality(set) /\ (E!IsFiniteSet(set) <=> IsFiniteSet(set))
BY DEF E!Cardinality, Cardinality, E!IsFiniteSet, IsFiniteSet

\* Who is refused, by his confidence.
LEMMA RefusedIs ==
  ASSUME NEW f, f = None \/ f \in Profile, NEW rest \in Nat, E!AssessmentConstants
  PROVE  /\ E!Strategy(f, rest) \in E!Strategies
         /\ E!Strategy(f, rest) = "escalate" <=>
               f # None /\ TooFew(f.successes, f.failures, f.streak, rest)
<1>. DEFINE h == E!History(f)
            Reaches(tenths) == 560 * h[1] + h[2] * (rest + 7) >= 1400 * tenths * h[2]
<1>1. E!Strategy(f, rest) = CASE Reaches(8) -> "direct_execute"
                              [] Reaches(6) -> "enrich_context"
                              [] Reaches(4) -> "multi_pass"
                              [] Reaches(2) -> "subdivide"
                              [] OTHER -> "escalate"
  BY Zenon DEF E!Strategy
<1>2. CASE f = None
  <2>1. h[1] = 5 /\ h[2] = 1
    BY <1>2 DEF E!History
  <2>. HIDE DEF h
  <2>2. Reaches(2)
    BY <2>1
  <2>. QED  BY <1>1, <1>2, <2>2 DEF E!Strategies
<1>3. CASE f # None
  <2>1. f \in Profile /\ f.successes \in Nat /\ f.failures \in Nat
    BY <1>3 DEF Profile
  <2>2. h[1] = Weight(f.streak) * f.successes /\ h[2] = f.successes + f.failures
    BY <1>3 DEF E!History, Weight
  <2>3. PICK product : product = h[2] * (rest + 7)
    OBVIOUS
  <2>4. h[1] \in Int /\ h[2] \in Nat /\ product \in Int
    <3>1. Weight(f.streak) \in Int
      BY DEF Weight
    <3>2. h[2] \in Nat
      BY <2>1, <2>2
    <3>. HIDE DEF h
    <3>3. h[1] \in Int
      BY <2>1, <2>2, <3>1
    <3>. QED  BY <2>3, <3>2, <3>3
  <2>5. TooFew(f.successes, f.failures, f.streak, rest) <=> 560 * h[1] + product < 2800 * h[2]
    BY <2>2, <2>3 DEF TooFew
  <2>. HIDE DEF h
  <2>6. /\ Reaches(2) <=> 560 * h[1] + product >= 2800 * h[2]
        /\ Reaches(4) <=> 560 * h[1] + product >= 5600 * h[2]
        /\ Reaches(6) <=> 560 * h[1] + product >= 8400 * h[2]
        /\ Reaches(8) <=> 560 * h[1] + product >= 11200 * h[2]
    BY <2>3, <2>4
  <2>. HIDE DEF Reaches
  <2>7. (Reaches(8) => Reaches(2)) /\ (Reaches(6) => Reaches(2)) /\ (Reaches(4) => Reaches(2))
    BY <2>4, <2>6
  <2>8. Reaches(2) <=> ~TooFew(f.successes, f.failures, f.streak, rest)
    BY <2>4, <2>5, <2>6
  <2>. QED  BY <1>1, <1>3, <2>7, <2>8 DEF E!Strategies
<1>. QED  BY <1>2, <1>3

\* Products of numbers that are as large.
LEMMA Grows ==
  ASSUME NEW a \in Nat, NEW b \in Nat, NEW c \in Nat, NEW d \in Nat, a <= c, b <= d
  PROVE  a * b <= c * d
<1>1. a * b <= a * d
  BY SMT
<1>2. a * d <= c * d
  BY SMT
<1>. QED  BY <1>1, <1>2

\* More failures refuse whom fewer do.
LEMMA MoreRefuse ==
  ASSUME NEW s \in Nat, NEW f \in Nat, NEW g \in Nat, f <= g, NEW k \in Int, NEW l \in Int, k <= l,
         NEW b \in Nat, NEW e \in Nat, e <= b, TooFew(s, f, k, b)
  PROVE  TooFew(s, g, l, e)
<1>. DEFINE m == s + f
            n == s + g
<1>1. m \in Nat /\ n \in Nat /\ m <= n
  OBVIOUS
<1>2. /\ Weight(k) \in {5, 7, 10} /\ Weight(l) \in {5, 7, 10} /\ Weight(l) <= Weight(k)
  BY DEF Weight
<1>3. PICK v \in {5, 7, 10} : v = Weight(k)
  BY <1>2
<1>4. PICK w \in {5, 7, 10} : w = Weight(l)
  BY <1>2
<1>5. 560 * (v * s) + m * (b + 7) < 2800 * m
  BY <1>3 DEF TooFew
<1>. HIDE DEF m, n
<1>6. w * s <= v * s /\ 0 <= w * s /\ w * s \in Nat /\ v * s \in Nat
  BY <1>2, <1>3, <1>4
<1>7. m * (b + 7) = m * b + 7 * m /\ n * (e + 7) = n * e + 7 * n
      /\ m * b \in Nat /\ n * e \in Nat
  BY <1>1
<1>8. 560 * (v * s) < m * (2793 - b)
  <2>1. m * (2793 - b) = 2793 * m - m * b
    BY <1>1
  <2>. QED  BY <1>1, <1>5, <1>6, <1>7, <2>1
<1>9. 2793 - b > 0
  <2>1. SUFFICES ASSUME 2793 <= b PROVE FALSE
    OBVIOUS
  <2>2. m * 2793 <= m * b
    BY <1>1, <2>1, Grows
  <2>. QED  BY <1>1, <1>5, <1>6, <1>7, <2>2
<1>10. m * (2793 - b) <= n * (2793 - e)
  BY <1>1, <1>9, Grows
<1>11. n * (2793 - e) = 2793 * n - n * e
  BY <1>1
<1>12. 560 * (w * s) + n * (e + 7) < 2800 * n
  <2>1. m * (2793 - b) \in Int /\ n * (2793 - e) \in Int
    BY <1>1
  <2>. QED  BY <1>1, <1>6, <1>7, <1>8, <1>10, <1>11, <2>1
<1>. QED  BY <1>4, <1>12 DEF TooFew, n


\* What times say of the successes so far, others that agree say too.
Agree(when, w) == \A u \in TaskType, n \in Nat : n <= outcomes[u].successes => w[u][n] = when[u][n]

\* A type that is not the one recorded keeps what is known of it.
LEMMA OthersAreKept ==
  ASSUME NEW when \in Times, RecordsInv(when), NEW t \in TaskType, NEW success \in BOOLEAN,
         NEW replied, NEW applied, E!Record(t, success, replied, applied),
         NEW w \in Times, NEW u \in TaskType, u # t, w[u] = when[u]
  PROVE  Kept1(u, w)'
<1>1. outcomes'[u] = outcomes[u]
  BY DEF RecordsInv, E!Record
<1>2. profile'[u] = profile[u]
  BY DEF RecordsInv, E!Record
<1>3. u \notin unsure' => u \notin unsure /\ (u \in known' <=> u \in known)
  BY DEF E!Record
<1>4. Kept1(u, when)
  BY DEF RecordsInv
<1>. QED  BY <1>1, <1>2, <1>3, <1>4, Zenon DEF Kept1

\* The streak of a type begins anew with each success.
LEMMA OneIsRecorded ==
  ASSUME NEW when \in Times, RecordsInv(when), NEW t \in TaskType, NEW success \in BOOLEAN,
         NEW replied, NEW applied, E!Record(t, success, replied, applied), E!AssessmentConstants,
         NEW w \in Times,
         w[t] = IF success /\ t \notin unsure'
                THEN [when[t] EXCEPT ![outcomes[t].successes + 1] = outcomes[t].failures]
                ELSE when[t]
  PROVE  Kept1(t, w)'
<1>1. PICK r \in Counts : r = outcomes[t]
  BY DEF RecordsInv
<1>2. r.successes \in Nat /\ r.failures \in Nat
  BY <1>1 DEF Counts
<1>3. outcomes'[t] = [successes |-> r.successes + (IF success THEN 1 ELSE 0),
                      failures |-> r.failures + (IF success THEN 0 ELSE 1)]
  <2>1. outcomes' = IF success THEN [outcomes EXCEPT ![t] = [r EXCEPT !.successes = @ + 1]]
                    ELSE [outcomes EXCEPT ![t] = [r EXCEPT !.failures = @ + 1]]
    BY <1>1 DEF E!Record
  <2>2. outcomes'[t] = IF success THEN [r EXCEPT !.successes = @ + 1] ELSE [r EXCEPT !.failures = @ + 1]
    BY <2>1 DEF RecordsInv
  <2>. QED  BY <1>2, <2>2 DEF Counts
<1>4. PICK f : f = IF profile[t] = None \/ "record" \notin replied THEN E!NoFields ELSE profile[t]
  OBVIOUS
<1>5. profile'[t] = IF "record" \notin applied THEN profile[t] ELSE E!WithOutcome(f, success)
  BY <1>4 DEF E!Record, RecordsInv
<1>6. Kept1(t, when)
  BY DEF RecordsInv
<1>7. /\ f \in Profile /\ f.streak <= f.failures
      /\ f.successes <= r.successes /\ f.failures <= r.failures
      /\ f.streak \in Nat /\ f.successes \in Nat /\ f.failures \in Nat
  <2>1. E!NoFields \in Profile /\ E!NoFields.streak = 0 /\ E!NoFields.failures = 0 /\ E!NoFields.successes = 0
    BY DEF E!NoFields, Profile
  <2>. QED  BY <1>1, <1>2, <1>4, <1>6, <2>1 DEF Kept1, Profile
<1>8. PICK g : g = E!WithOutcome(f, success)
  OBVIOUS
<1>9. /\ g \in Profile
      /\ g.successes = f.successes + (IF success THEN 1 ELSE 0)
      /\ g.failures = f.failures + (IF success THEN 0 ELSE 1)
      /\ g.streak = IF success THEN 0 ELSE f.streak + 1
  BY <1>7, <1>8 DEF E!WithOutcome, Profile
<1>10. g # None
  BY <1>9 DEF E!AssessmentConstants, Profile
<1>11. profile'[t] # None =>
          /\ profile'[t] \in Profile /\ profile'[t].streak <= profile'[t].failures
          /\ profile'[t].successes <= outcomes'[t].successes
          /\ profile'[t].failures <= outcomes'[t].failures
  <2>1. CASE "record" \notin applied
    BY <1>1, <1>2, <1>3, <1>5, <1>6, <2>1 DEF Kept1, Profile
  <2>2. CASE "record" \in applied
    <3>1. profile'[t] = g
      BY <1>5, <1>8, <2>2
    <3>. QED  BY <1>2, <1>3, <1>7, <1>9, <3>1
  <2>. QED  BY <2>1, <2>2
<1>12. ASSUME t \notin unsure'
       PROVE  /\ t \in known' /\ profile'[t] # None
              /\ profile'[t].successes = outcomes'[t].successes
              /\ profile'[t].failures = outcomes'[t].failures
              /\ profile'[t].streak = outcomes'[t].failures - w[t][outcomes'[t].successes]
              /\ w[t][outcomes'[t].successes] <= outcomes'[t].failures
  <2>1. t \notin unsure /\ {"record", "index"} \subseteq replied \cap applied
    BY <1>12 DEF E!Record
  <2>2. t \in known' /\ profile'[t] = g
    BY <1>5, <1>8, <2>1 DEF E!Record
  <2>3. when[t] \in [Nat -> Nat]
    BY DEF Times
  <2>4. /\ f.successes = r.successes /\ f.failures = r.failures
        /\ f.streak = r.failures - when[t][r.successes] /\ when[t][r.successes] <= r.failures
    <3>1. when[t][r.successes] \in Nat /\ when[t][r.successes] <= r.failures
      BY <1>1, <1>2, <1>6, <2>1, <2>3 DEF Kept1
    <3>2. CASE profile[t] = None
      BY <1>1, <1>2, <1>4, <1>6, <2>1, <3>1, <3>2 DEF Kept1, E!NoFields
    <3>3. CASE profile[t] # None
      BY <1>1, <1>2, <1>4, <1>6, <2>1, <3>1, <3>3 DEF Kept1
    <3>. QED  BY <3>2, <3>3
  <2>5. CASE success
    <3>1. w[t] = [when[t] EXCEPT ![r.successes + 1] = r.failures]
      BY <1>1, <1>12, <2>5
    <3>2. w[t][r.successes + 1] = r.failures
      BY <1>2, <2>3, <3>1
    <3>3. outcomes'[t].successes = r.successes + 1 /\ outcomes'[t].failures = r.failures
      BY <1>2, <1>3, <2>5
    <3>. QED  BY <1>2, <1>9, <1>10, <2>2, <2>4, <2>5, <3>2, <3>3
  <2>6. CASE ~success
    <3>1. w[t] = when[t]
      BY <2>6
    <3>2. outcomes'[t].successes = r.successes /\ outcomes'[t].failures = r.failures + 1
      BY <1>2, <1>3, <2>6
    <3>3. when[t][r.successes] \in Nat
      BY <1>2, <2>3
    <3>. QED  BY <1>2, <1>9, <1>10, <2>2, <2>4, <2>6, <3>1, <3>2, <3>3
  <2>. QED  BY <2>5, <2>6
<1>. QED  BY <1>11, <1>12 DEF Kept1

\* Whatever is lost, there are times that the records tell.
LEMMA RecordKeepsRecords ==
  ASSUME NEW when \in Times, RecordsInv(when), NEW t \in TaskType, NEW success \in BOOLEAN,
         NEW replied, NEW applied, E!Record(t, success, replied, applied), E!AssessmentConstants
  PROVE  /\ \E w \in Times : RecordsInv(w)' /\ Agree(when, w)
         /\ \A u \in TaskType : /\ outcomes[u].successes <= outcomes'[u].successes
                                /\ outcomes[u].failures <= outcomes'[u].failures
         /\ ~success => outcomes'[t].failures = outcomes[t].failures + 1
<1>1. outcomes \in [TaskType -> Counts] /\ DOMAIN profile = TaskType
      /\ known \subseteq TaskType /\ unsure \subseteq TaskType
  BY DEF RecordsInv
<1>2. PICK r \in Counts : r = outcomes[t]
  BY <1>1
<1>3. r.successes \in Nat /\ r.failures \in Nat
  BY <1>2 DEF Counts
<1>4. PICK next : next = IF success THEN [r EXCEPT !.successes = @ + 1] ELSE [r EXCEPT !.failures = @ + 1]
  OBVIOUS
<1>5. /\ next \in Counts /\ r.successes <= next.successes /\ r.failures <= next.failures
      /\ ~success => next.failures = r.failures + 1
  BY <1>3, <1>4 DEF Counts
<1>6. outcomes' = [outcomes EXCEPT ![t] = next]
  BY <1>2, <1>4 DEF E!Record
<1>7. outcomes' \in [TaskType -> Counts] /\ outcomes'[t] = next
  BY <1>1, <1>5, <1>6
<1>8. \A u \in TaskType : /\ outcomes[u].successes <= outcomes'[u].successes
                          /\ outcomes[u].failures <= outcomes'[u].failures
  <2>1. TAKE u \in TaskType
  <2>2. CASE u = t
    BY <1>2, <1>5, <1>7, <2>2
  <2>3. CASE u # t
    <3>1. outcomes'[u] = outcomes[u] /\ outcomes[u] \in Counts
      BY <1>1, <1>6, <2>3
    <3>. QED  BY <3>1 DEF Counts
  <2>. QED  BY <2>2, <2>3
<1>9. PICK one : one = IF success /\ t \notin unsure'
                       THEN [when[t] EXCEPT ![r.successes + 1] = r.failures]
                       ELSE when[t]
  OBVIOUS
<1>10. when[t] \in [Nat -> Nat]
  BY DEF Times
<1>11. one \in [Nat -> Nat]
  BY <1>3, <1>9, <1>10
<1>12. PICK w : w = [when EXCEPT ![t] = one]
  OBVIOUS
<1>13. w \in Times /\ w[t] = one /\ \A u \in TaskType \ {t} : w[u] = when[u]
  BY <1>11, <1>12 DEF Times
<1>14. Kept1(t, w)'
  BY <1>2, <1>9, <1>13, OneIsRecorded
<1>15. \A u \in TaskType : Kept1(u, w)'
  BY <1>13, <1>14, OthersAreKept
<1>16. DOMAIN profile' = TaskType
  BY <1>1 DEF E!Record
<1>17. known' \subseteq TaskType /\ unsure' \subseteq TaskType
  BY <1>1 DEF E!Record
<1>18. RecordsInv(w)'
  BY <1>7, <1>15, <1>16, <1>17 DEF RecordsInv
<1>19. Agree(when, w)
  <2>1. ASSUME NEW u \in TaskType, NEW n \in Nat, n <= outcomes[u].successes
        PROVE  w[u][n] = when[u][n]
    <3>1. CASE u = t
      <4>1. n # r.successes + 1
        BY <1>2, <1>3, <2>1, <3>1
      <4>2. one[n] = when[t][n]
        BY <1>9, <1>10, <4>1
      <4>. QED  BY <1>13, <3>1, <4>2
    <3>2. CASE u # t
      BY <1>13, <3>2
    <3>. QED  BY <3>1, <3>2
  <2>. QED  BY <2>1 DEF Agree
<1>. QED  BY <1>2, <1>5, <1>7, <1>8, <1>13, <1>18, <1>19

\* A judgment is not changed by what is recorded after it.
LEMMA JudgmentStays ==
  ASSUME NEW when \in Times, NEW w \in Times, NEW r \in Assessed, Judgment(r, when), Agree(when, w),
         \A u \in TaskType : outcomes[u].successes <= outcomes'[u].successes,
         outcomes \in [TaskType -> Counts], outcomes' \in [TaskType -> Counts]
  PROVE  Judgment(r, w)'
<1>1. SUFFICES ASSUME r.strategy # None, r.history # None
               PROVE  LET h == r.history
                          t == r.task
                      IN  /\ h.successes <= outcomes'[t].successes /\ w[t][h.successes] <= h.failures
                          /\ r.strategy = "escalate"
                                <=> TooFew(h.successes, h.failures, h.failures - w[t][h.successes], r.base)
  BY DEF Judgment
<1>. DEFINE h == r.history
            t == r.task
<1>2. t \in TaskType /\ h \in Counts
  BY <1>1 DEF Assessed
<1>3. h.successes \in Nat /\ h.successes <= outcomes[t].successes
  BY <1>1, <1>2 DEF Judgment, Counts
<1>4. w[t][h.successes] = when[t][h.successes]
  BY <1>2, <1>3 DEF Agree
<1>5. outcomes[t].successes \in Nat /\ outcomes'[t].successes \in Nat
      /\ outcomes[t].successes <= outcomes'[t].successes
  BY <1>2 DEF Counts
<1>. QED  BY <1>1, <1>3, <1>4, <1>5 DEF Judgment

\* What a step of a child writes and records.
Writes(c, next) ==
    /\ next \in Assessed /\ next.attempt \in 1..Tries[c] /\ next.task = child[c].task
    /\ child' = [child EXCEPT ![c] = next]
    /\ child[c].at # "escalated"

LEMMA WrittenStepKeepsInv ==
  ASSUME E!AssessmentConstants, AssessInv, NEW c \in Child, NEW next, Writes(c, next),
         UNCHANGED <<profile, known, outcomes, unsure>>
            \/ \E success \in BOOLEAN : \E replied, applied :
                  E!Record(child[c].task, success, replied, applied),
         next.at = "escalated" =>
            /\ next.strategy = "escalate" /\ outcomes[child[c].task].failures >= 1
            /\ outcomes'[child[c].task].failures = outcomes[child[c].task].failures + 1,
         \A when \in Times : RecordsInv(when) /\ Judged(c, when) => Judgment(next, when)
  PROVE  AssessInv'
<1>. DEFINE t == child[c].task
<1>1. PICK when \in Times : RecordsInv(when) /\ \A d \in Child : Judged(d, when)
  BY DEF AssessInv
<1>2. t \in TaskType
  BY DEF Writes, Assessed
<1>3. outcomes \in [TaskType -> Counts]
  BY <1>1 DEF RecordsInv
<1>4. PICK w \in Times :
         /\ RecordsInv(w)' /\ Agree(when, w)
         /\ \A u \in TaskType : /\ outcomes[u].successes <= outcomes'[u].successes
                                /\ outcomes[u].failures <= outcomes'[u].failures
  <2>1. CASE UNCHANGED <<profile, known, outcomes, unsure>>
    <3>1. RecordsInv(when)'
      BY <1>1, <2>1 DEF RecordsInv, Kept1
    <3>2. Agree(when, when)
      BY DEF Agree
    <3>3. \A u \in TaskType : /\ outcomes[u].successes <= outcomes'[u].successes
                              /\ outcomes[u].failures <= outcomes'[u].failures
      BY <1>3, <2>1 DEF Counts
    <3>. QED  BY <3>1, <3>2, <3>3
  <2>2. ASSUME NEW success \in BOOLEAN, NEW replied, NEW applied,
               E!Record(t, success, replied, applied)
        PROVE  \E w \in Times :
                 /\ RecordsInv(w)' /\ Agree(when, w)
                 /\ \A u \in TaskType : /\ outcomes[u].successes <= outcomes'[u].successes
                                        /\ outcomes[u].failures <= outcomes'[u].failures
    <3>1. \E w \in Times : RecordsInv(w)' /\ Agree(when, w)
      BY <1>1, <1>2, <2>2, RecordKeepsRecords
    <3>2. \A u \in TaskType : /\ outcomes[u].successes <= outcomes'[u].successes
                              /\ outcomes[u].failures <= outcomes'[u].failures
      BY <1>1, <1>2, <2>2, RecordKeepsRecords
    <3>. QED  BY <3>1, <3>2
  <2>. QED  BY <2>1, <2>2
<1>5. outcomes' \in [TaskType -> Counts]
  BY <1>4 DEF RecordsInv
<1>6. DOMAIN child' = Child /\ child'[c] = next /\ \A d \in Child \ {c} : child'[d] = child[d]
  BY DEF AssessInv, Writes
<1>7. \A d \in Child : Judged(d, w)'
  <2>1. TAKE d \in Child
  <2>2. CASE d = c
    <3>1. Judgment(next, w)'
      BY <1>1, <1>3, <1>4, <1>5, JudgmentStays DEF Writes
    <3>. QED  BY <1>6, <2>2, <3>1, Zenon DEF Judged, Judgment, Writes
  <2>3. CASE d # c
    <3>1. PICK r : r = child[d]
      OBVIOUS
    <3>2. Judgment(r, w)'
      BY <1>1, <1>3, <1>4, <1>5, <3>1, JudgmentStays DEF Judged
    <3>. QED  BY <1>1, <1>6, <2>3, <3>1, <3>2, Zenon DEF Judged, Judgment
  <2>. QED  BY <2>2, <2>3
<1>8. \A u \in TaskType : Earned(u)'
  <2>1. TAKE u \in TaskType
  <2>2. RefusedOf(u)' = IF next.at = "escalated" /\ u = t THEN RefusedOf(u) \cup {c} ELSE RefusedOf(u)
    <3>1. RefusedOf(u)' = {d \in Child : child'[d].at = "escalated" /\ child'[d].task = u}
      BY DEF RefusedOf
    <3>2. next.task = t /\ child[c].at # "escalated"
      BY DEF Writes
    <3>. QED  BY <1>6, <3>1, <3>2 DEF RefusedOf
  <2>3. PICK old : old = RefusedOf(u)
    OBVIOUS
  <2>4. IsFiniteSet(old)
    <3>1. IsFiniteSet(Child)
      BY AssessCountIs DEF E!AssessmentConstants
    <3>. QED  BY <2>3, <3>1, FS_Subset DEF RefusedOf
  <2>5. /\ outcomes[u].failures \in Nat /\ outcomes'[u].failures \in Nat
        /\ outcomes[u].failures <= outcomes'[u].failures
    BY <1>3, <1>4, <1>5 DEF Counts
  <2>6. old = {} \/ outcomes[u].failures > Cardinality(old)
    BY <2>3 DEF AssessInv, Earned
  <2>7. Cardinality(old) \in Nat
    BY <2>4, FS_CardinalityType
  <2>8. CASE next.at = "escalated" /\ u = t
    <3>1. RefusedOf(u)' = old \cup {c} /\ c \notin old
      BY <2>2, <2>3, <2>8 DEF Writes, RefusedOf
    <3>2. Cardinality(old \cup {c}) = Cardinality(old) + 1
      BY <2>4, <3>1, FS_AddElement
    <3>3. outcomes'[u].failures = outcomes[u].failures + 1 /\ outcomes[u].failures >= 1
      BY <2>8
    <3>4. old = {} => Cardinality(old) = 0
      BY FS_EmptySet
    <3>5. outcomes'[u].failures > Cardinality(old \cup {c})
      BY <2>5, <2>6, <2>7, <3>2, <3>3, <3>4
    <3>. QED  BY <3>1, <3>5 DEF Earned
  <2>9. CASE ~(next.at = "escalated" /\ u = t)
    <3>1. RefusedOf(u)' = old
      BY <2>2, <2>3, <2>9
    <3>2. old = {} \/ outcomes'[u].failures > Cardinality(old)
      BY <2>5, <2>6, <2>7
    <3>. QED  BY <3>1, <3>2 DEF Earned
  <2>. QED  BY <2>8, <2>9
<1>. QED  BY <1>4, <1>6, <1>7, <1>8 DEF AssessInv


LEMMA BaseIsNat == ASSUME E!AssessmentConstants, NEW c \in Child, child[c] \in Assessed
                   PROVE  E!Base(c) \in Nat
<1>1. E!SiblingScore(c) \in Nat
  <2>1. PICK done : done = {s \in Child \ {c} : child[s].at = "done"}
    OBVIOUS
  <2>2. IsFiniteSet(Child)
    BY AssessCountIs DEF E!AssessmentConstants
  <2>3. IsFiniteSet(done)
    BY <2>1, <2>2, FS_Subset
  <2>4. Cardinality(done) \in Nat
    BY <2>3, FS_CardinalityType
  <2>5. PICK outputs : outputs = Cardinality(done)
    OBVIOUS
  <2>6. E!SiblingScore(c) = IF outputs >= 3 THEN 10 ELSE 5 + 2 * outputs
    BY <2>1, <2>5, AssessCountIs DEF E!SiblingScore
  <2>. QED  BY <2>4, <2>5, <2>6
<1>2. Signals[c] \in Nat /\ Scope[c] \in Nat
  BY DEF E!AssessmentConstants
<1>. QED  BY <1>1, <1>2 DEF E!Base

\* Without failures nobody is refused.
LEMMA RefusalNeedsFailures ==
  ASSUME NEW f \in Profile, f.streak <= f.failures, NEW rest \in Nat,
         TooFew(f.successes, f.failures, f.streak, rest)
  PROVE  f.failures >= 1
<1>1. f.successes \in Nat /\ f.failures \in Nat /\ f.streak \in Nat
  BY DEF Profile
<1>2. SUFFICES ASSUME f.failures = 0 PROVE FALSE
  BY <1>1
<1>3. Weight(f.streak) = 10
  BY <1>1, <1>2 DEF Weight
<1>4. PICK product : product = f.successes * (rest + 7)
  OBVIOUS
<1>5. product \in Nat
  BY <1>1, <1>4
<1>6. 560 * (10 * f.successes) + product < 2800 * f.successes
  BY <1>1, <1>2, <1>3, <1>4 DEF TooFew
<1>. QED  BY <1>1, <1>5, <1>6

LEMMA AssessStepKeepsInv ==
  ASSUME E!AssessmentConstants, AssessInv, NEW c \in Child, NEW answered \in BOOLEAN,
         NEW replied, NEW applied, E!Assess(c, answered, replied, applied)
  PROVE  AssessInv'
<1>. DEFINE t == child[c].task
<1>1. PICK r \in Assessed : r = child[c]
  BY DEF AssessInv, Judged
<1>2. t \in TaskType /\ r.attempt \in 1..Tries[c] /\ r.at = "pending"
  BY <1>1 DEF AssessInv, Judged, Assessed, E!Assess
<1>3. PICK rest \in Nat : rest = E!Base(c)
  BY <1>1, BaseIsNat
<1>4. PICK f : f = IF answered THEN profile[t] ELSE None
  OBVIOUS
<1>5. PICK strategy : strategy = E!Strategy(f, rest)
  OBVIOUS
<1>6. PICK history : history = IF answered /\ t \notin unsure THEN outcomes[t] ELSE None
  OBVIOUS
<1>7. PICK goes : goes = IF strategy = "escalate" THEN "escalated" ELSE "working"
  OBVIOUS
<1>8. PICK next : next = [r EXCEPT !.at = goes, !.strategy = strategy, !.base = rest, !.history = history]
  OBVIOUS
<1>9. /\ child' = [child EXCEPT ![c] = next]
      /\ IF strategy = "escalate" THEN E!Record(t, FALSE, replied, applied)
         ELSE UNCHANGED <<profile, known, outcomes, unsure>>
  BY <1>1, <1>3, <1>4, <1>5, <1>6, <1>7, <1>8 DEF E!Assess
<1>10. \A when \in Times : RecordsInv(when) => Kept1(t, when) /\ outcomes \in [TaskType -> Counts]
  BY <1>2 DEF RecordsInv
<1>11. /\ (f = None \/ (f \in Profile /\ f.streak <= f.failures /\ f.failures <= outcomes[t].failures))
       /\ outcomes[t] \in Counts
  BY <1>2, <1>4, <1>10 DEF AssessInv, Kept1
<1>12. /\ strategy \in E!Strategies
       /\ strategy = "escalate" <=> f # None /\ TooFew(f.successes, f.failures, f.streak, rest)
  BY <1>5, <1>11, RefusedIs
<1>13. /\ next.at = goes /\ next.strategy = strategy /\ next.base = rest /\ next.history = history
       /\ next.task = t /\ next.attempt = r.attempt /\ next \in Assessed
  BY <1>1, <1>6, <1>7, <1>8, <1>11, <1>12 DEF Assessed
<1>14. Writes(c, next)
  BY <1>1, <1>2, <1>9, <1>13 DEF Writes
<1>15. UNCHANGED <<profile, known, outcomes, unsure>>
          \/ \E success \in BOOLEAN : \E replied1, applied1 : E!Record(t, success, replied1, applied1)
  BY <1>9
<1>16. ASSUME next.at = "escalated"
       PROVE  /\ next.strategy = "escalate" /\ outcomes[t].failures >= 1
              /\ outcomes'[t].failures = outcomes[t].failures + 1
  <2>1. strategy = "escalate"
    BY <1>7, <1>13, <1>16
  <2>2. f.failures >= 1 /\ f \in Profile
    BY <1>11, <1>12, <2>1, RefusalNeedsFailures
  <2>3. f.failures \in Nat /\ outcomes[t].failures \in Nat
    BY <1>11, <2>2 DEF Profile, Counts
  <2>4. PICK when \in Times : RecordsInv(when)
    BY DEF AssessInv
  <2>5. outcomes'[t].failures = outcomes[t].failures + 1
    BY <1>2, <1>9, <2>1, <2>4, RecordKeepsRecords
  <2>6. f # None
    BY <1>12, <2>1
  <2>7. outcomes[t].failures >= 1
    BY <1>11, <2>2, <2>3, <2>6
  <2>. QED  BY <1>13, <2>1, <2>5, <2>7
<1>17. ASSUME NEW when \in Times, RecordsInv(when), Judged(c, when)
       PROVE  Judgment(next, when)
  <2>1. SUFFICES ASSUME next.strategy # None, next.history # None
                 PROVE  LET h == next.history
                        IN  /\ h.successes <= outcomes[t].successes /\ when[t][h.successes] <= h.failures
                            /\ next.strategy = "escalate"
                                  <=> TooFew(h.successes, h.failures, h.failures - when[t][h.successes], next.base)
    BY <1>13 DEF Judgment
  <2>2. answered /\ t \notin unsure /\ next.history = outcomes[t] /\ f = profile[t]
    BY <1>4, <1>6, <1>13, <2>1
  <2>3. PICK h \in Counts : h = outcomes[t]
    BY <1>11
  <2>4. h.successes \in Nat /\ h.failures \in Nat
    BY <2>3 DEF Counts
  <2>5. when[t][h.successes] \in Nat /\ when[t][h.successes] <= h.failures
    BY <1>2, <1>17, <1>10, <2>2, <2>3, <2>4 DEF Kept1, Times
  <2>6. strategy = "escalate" <=> TooFew(h.successes, h.failures, h.failures - when[t][h.successes], rest)
    <3>1. CASE f = None
      <4>1. h.successes = 0 /\ h.failures = 0
        BY <1>10, <1>17, <2>2, <2>3, <3>1 DEF Kept1
      <4>2. PICK w : w = Weight(h.failures - when[t][h.successes])
        OBVIOUS
      <4>3. w \in Int
        BY <4>2 DEF Weight
      <4>4. ~(560 * (w * 0) + (0 + 0) * (rest + 7) < 2800 * (0 + 0))
        BY <4>3
      <4>5. ~TooFew(h.successes, h.failures, h.failures - when[t][h.successes], rest)
        BY <4>1, <4>2, <4>4 DEF TooFew
      <4>. QED  BY <1>12, <3>1, <4>5
    <3>2. CASE f # None
      <4>1. f.successes = h.successes /\ f.failures = h.failures
            /\ f.streak = h.failures - when[t][h.successes]
        BY <1>10, <1>17, <2>2, <2>3, <3>2 DEF Kept1
      <4>. QED  BY <1>12, <3>2, <4>1
    <3>. QED  BY <3>1, <3>2
  <2>. QED  BY <1>13, <2>2, <2>3, <2>4, <2>5, <2>6
<1>. QED  BY <1>14, <1>15, <1>16, <1>17, WrittenStepKeepsInv

\* The reviews and the end of a child.
LEMMA OtherStepKeepsInv ==
  ASSUME E!AssessmentConstants, AssessInv, NEW c \in Child, NEW replied, NEW applied,
         E!Approve(c, replied, applied) \/ E!Refuse(c, replied, applied) \/ E!Complete(c, replied, applied)
  PROVE  AssessInv'
<1>. DEFINE t == child[c].task
<1>1. PICK r \in Assessed : r = child[c]
  BY DEF AssessInv, Judged
<1>2. r.attempt \in 1..Tries[c] /\ Tries[c] \in Nat
  BY <1>1 DEF AssessInv, Judged, E!AssessmentConstants
<1>3. PICK next :
         /\ child' = [child EXCEPT ![c] = next] /\ next \in Assessed /\ next.attempt \in 1..Tries[c]
         /\ next.at # "escalated" /\ r.at # "escalated"
         /\ next.task = r.task /\ next.strategy = r.strategy /\ next.base = r.base
         /\ next.history = r.history
         /\ \E success \in BOOLEAN : E!Record(t, success, replied, applied)
  <2>1. CASE E!Approve(c, replied, applied)
    <3>1. PICK next : next = [r EXCEPT !.at = "reviewed"]
      OBVIOUS
    <3>2. child' = [child EXCEPT ![c] = next] /\ r.at = "working" /\ E!Record(t, TRUE, replied, applied)
      BY <1>1, <2>1, <3>1 DEF E!Approve
    <3>3. /\ next \in Assessed /\ next.at = "reviewed" /\ next.task = r.task /\ next.base = r.base
          /\ next.strategy = r.strategy /\ next.history = r.history /\ next.attempt = r.attempt
      BY <1>1, <3>1 DEF Assessed
    <3>. QED  BY <1>2, <3>2, <3>3
  <2>2. CASE E!Refuse(c, replied, applied)
    <3>1. PICK next : next = [child[c] EXCEPT !.at = "pending", !.feedback = TRUE,
                                              !.attempt = child[c].attempt + 1]
      OBVIOUS
    <3>2. /\ child' = [child EXCEPT ![c] = next] /\ r.at = "working" /\ r.attempt < Tries[c]
          /\ E!Record(t, FALSE, replied, applied)
      <4>1. child' = [child EXCEPT ![c] = next]
        BY <2>2, <3>1, SMT DEF E!Refuse
      <4>2. r.at = "working" /\ r.attempt < Tries[c]
        BY <1>1, <2>2 DEF E!Refuse
      <4>3. E!Record(t, FALSE, replied, applied)
        BY <2>2, Zenon DEF E!Refuse
      <4>. QED  BY <4>1, <4>2, <4>3
    <3>3. r.attempt + 1 \in Nat /\ r.attempt + 1 \in 1..Tries[c]
      BY <1>2, <3>2
    <3>4. /\ next \in Assessed /\ next.at = "pending" /\ next.task = r.task /\ next.base = r.base
          /\ next.strategy = r.strategy /\ next.history = r.history /\ next.attempt = r.attempt + 1
      BY <1>1, <3>1, <3>3 DEF Assessed
    <3>. QED  BY <3>2, <3>3, <3>4
  <2>3. CASE E!Complete(c, replied, applied)
    <3>1. PICK success \in BOOLEAN : success <=> r.at = "reviewed"
      OBVIOUS
    <3>2. PICK goes \in {"done", "ended"} : goes = IF success THEN "done" ELSE "ended"
      OBVIOUS
    <3>3. PICK next : next = [r EXCEPT !.at = goes]
      OBVIOUS
    <3>4. /\ child' = [child EXCEPT ![c] = next] /\ r.at \in {"working", "reviewed"}
          /\ E!Record(t, r.at = "reviewed", replied, applied)
      BY <1>1, <2>3, <3>1, <3>2, <3>3 DEF E!Complete
    <3>5. /\ next \in Assessed /\ next.at = goes /\ next.task = r.task /\ next.base = r.base
          /\ next.strategy = r.strategy /\ next.history = r.history /\ next.attempt = r.attempt
      BY <1>1, <3>3 DEF Assessed
    <3>6. (r.at = "reviewed") \in BOOLEAN
      OBVIOUS
    <3>. QED  BY <1>2, <3>2, <3>4, <3>5, <3>6
  <2>. QED  BY <2>1, <2>2, <2>3
<1>4. Writes(c, next)
  BY <1>1, <1>3 DEF Writes
<1>5. ASSUME NEW when \in Times, RecordsInv(when), Judged(c, when)
      PROVE  Judgment(next, when)
  BY <1>1, <1>3, <1>5 DEF Judged, Judgment
<1>. QED  BY <1>3, <1>4, <1>5, WrittenStepKeepsInv

LEMMA AssessInitOK == E!AssessmentConstants /\ E!Init => AssessInv
<1>. SUFFICES ASSUME E!AssessmentConstants, E!Init PROVE AssessInv
  OBVIOUS
<1>1. PICK type \in Given : child = [c \in Child |->
          [task |-> type[c], at |-> "pending", feedback |-> FALSE, attempt |-> 1,
           strategy |-> None, base |-> 0, history |-> None]]
  BY DEF E!Init
<1>2. type \in [Child -> TaskType]
  BY DEF E!AssessmentConstants
<1>3. \A t \in TaskType : outcomes[t] = [successes |-> 0, failures |-> 0] /\ profile[t] = None
  BY DEF E!Init
<1>4. PICK when : when = [t \in TaskType |-> [n \in Nat |-> 0]]
  OBVIOUS
<1>5. when \in Times /\ \A t \in TaskType : when[t][0] = 0
  BY <1>4 DEF Times
<1>6. RecordsInv(when)
  BY <1>3, <1>5 DEF RecordsInv, Kept1, E!Init, Counts
<1>7. \A c \in Child : Judged(c, when) /\ child[c].at = "pending"
  <2>1. TAKE c \in Child
  <2>2. Tries[c] \in Nat \ {0}
    BY DEF E!AssessmentConstants
  <2>3. type[c] \in TaskType
    BY <1>2
  <2>4. child[c] \in Assessed
    BY <1>1, <2>3 DEF Assessed
  <2>. QED  BY <1>1, <2>2, <2>4 DEF Judged, Judgment
<1>8. \A t \in TaskType : Earned(t)
  BY <1>7 DEF Earned, RefusedOf
<1>. QED  BY <1>1, <1>5, <1>6, <1>7, <1>8 DEF AssessInv

LEMMA AssessNextOK == E!AssessmentConstants /\ AssessInv /\ [E!Next]_(E!vars) => AssessInv'
<1>. SUFFICES ASSUME E!AssessmentConstants, AssessInv, [E!Next]_(E!vars) PROVE AssessInv'
  OBVIOUS
<1>1. CASE UNCHANGED E!vars
  BY <1>1 DEF AssessInv, E!vars, RecordsInv, Kept1, Judged, Judgment, Earned, RefusedOf
<1>2. CASE E!Next
  <2>1. PICK c \in Child, delivery \in E!Deliveries : E!Work(c, delivery[1], delivery[2])
    BY <1>2 DEF E!Next
  <2>2. CASE \E answered \in BOOLEAN : E!Assess(c, answered, delivery[1], delivery[2])
    BY <2>2, AssessStepKeepsInv
  <2>3. CASE \/ E!Approve(c, delivery[1], delivery[2]) \/ E!Refuse(c, delivery[1], delivery[2])
             \/ E!Complete(c, delivery[1], delivery[2])
    BY <2>3, OtherStepKeepsInv
  <2>. QED  BY <2>1, <2>2, <2>3 DEF E!Work
<1>. QED  BY <1>1, <1>2

LEMMA AssessInvIsType == E!AssessmentConstants /\ AssessInv => E!TypeOK
<1>. SUFFICES ASSUME E!AssessmentConstants, AssessInv PROVE E!TypeOK
  OBVIOUS
<1>1. PICK when \in Times : RecordsInv(when) /\ \A c \in Child : Judged(c, when)
  BY DEF AssessInv
<1>2. \A t \in TaskType : profile[t] # None => profile[t] \in [successes : Nat, failures : Nat, streak : Nat]
  BY <1>1 DEF RecordsInv, Kept1, Profile
<1>3. known \subseteq TaskType /\ unsure \subseteq TaskType
      /\ outcomes \in [TaskType -> [successes : Nat, failures : Nat]]
  BY <1>1 DEF RecordsInv, Counts
<1>4. \A c \in Child : child[c] \in Assessed /\ child[c].attempt \in 1..Tries[c]
  BY <1>1 DEF Judged
<1>. QED  BY <1>2, <1>3, <1>4 DEF E!TypeOK, Assessed

LEMMA AssessInvIsExact == E!AssessmentConstants /\ AssessInv => E!ProfilesAreExact
<1>. SUFFICES ASSUME E!AssessmentConstants, AssessInv, NEW t \in TaskType
              PROVE  /\ profile[t] # None =>
                           /\ profile[t].streak <= profile[t].failures
                           /\ profile[t].successes <= outcomes[t].successes
                           /\ profile[t].failures <= outcomes[t].failures
                     /\ t \notin unsure =>
                           /\ E!Samples(IF profile[t] = None THEN E!NoFields ELSE profile[t])
                                 = E!Samples(outcomes[t])
                           /\ (t \in known <=> profile[t] # None)
  BY DEF E!ProfilesAreExact
<1>1. PICK when \in Times : RecordsInv(when)
  BY DEF AssessInv
<1>2. Kept1(t, when)
  BY <1>1 DEF RecordsInv
<1>. QED  BY <1>2 DEF Kept1, E!Samples, E!NoFields

LEMMA AssessInvIsEarned == E!AssessmentConstants /\ AssessInv => E!RefusalsAreEarned
<1>. SUFFICES ASSUME E!AssessmentConstants, AssessInv, NEW c \in Child, child[c].at = "escalated"
              PROVE  /\ outcomes[child[c].task].failures > E!Cardinality({d \in Child :
                           child[d].at = "escalated" /\ child[d].task = child[c].task})
                     /\ \A d \in Child :
                           (/\ child[d].strategy # None /\ child[d].task = child[c].task
                            /\ child[c].history # None /\ child[d].history # None
                            /\ child[d].history.successes = child[c].history.successes
                            /\ child[d].history.failures > child[c].history.failures
                            /\ child[d].base <= child[c].base)
                           => child[d].strategy = "escalate"
  BY Zenon DEF E!RefusalsAreEarned
<1>1. PICK when \in Times : RecordsInv(when) /\ \A d \in Child : Judged(d, when)
  BY DEF AssessInv
<1>. DEFINE t == child[c].task
<1>2. t \in TaskType /\ child[c].strategy = "escalate" /\ None \notin Counts
  BY <1>1 DEF Judged, Assessed, E!AssessmentConstants, Counts
<1>3. outcomes[t].failures > E!Cardinality({d \in Child : child[d].at = "escalated" /\ child[d].task = t})
  <2>1. c \in RefusedOf(t)
    BY DEF RefusedOf
  <2>. QED  BY <1>2, <2>1, AssessCountIs DEF AssessInv, Earned, RefusedOf
<1>4. ASSUME NEW d \in Child, child[d].strategy # None, child[d].task = t,
             child[c].history # None, child[d].history # None,
             child[d].history.successes = child[c].history.successes,
             child[d].history.failures > child[c].history.failures,
             child[d].base <= child[c].base
      PROVE  child[d].strategy = "escalate"
  <2>1. PICK h \in Counts : h = child[c].history
    BY <1>1, <1>4 DEF Judged, Assessed
  <2>2. PICK g \in Counts : g = child[d].history
    BY <1>1, <1>4 DEF Judged, Assessed
  <2>3. /\ h.successes \in Nat /\ h.failures \in Nat /\ g.failures \in Nat
        /\ g.successes = h.successes /\ h.failures <= g.failures
    BY <1>4, <2>1, <2>2 DEF Counts
  <2>4. PICK last \in Nat : last = when[t][h.successes]
    BY <1>2, <2>3 DEF Times
  <2>5. child[c].base \in Nat /\ child[d].base \in Nat
    BY <1>1 DEF Judged, Assessed
  <2>6. child[c].strategy # None
    BY <1>2 DEF E!AssessmentConstants
  <2>7. TooFew(h.successes, h.failures, h.failures - last, child[c].base)
    BY <1>1, <1>2, <1>4, <2>1, <2>4, <2>6 DEF Judged, Judgment
  <2>8. TooFew(h.successes, g.failures, g.failures - last, child[d].base)
    <3>1. h.failures - last \in Int /\ g.failures - last \in Int /\ h.failures - last <= g.failures - last
      BY <2>3, <2>4
    <3>2. PICK k \in Int : k = h.failures - last
      BY <3>1
    <3>3. PICK l \in Int : l = g.failures - last
      BY <3>1
    <3>4. k <= l /\ TooFew(h.successes, h.failures, k, child[c].base)
      BY <2>7, <3>1, <3>2, <3>3
    <3>5. PICK much \in Nat : much = child[c].base
      BY <2>5
    <3>6. PICK less \in Nat : less = child[d].base
      BY <2>5
    <3>7. h.successes \in Nat /\ less <= much /\ TooFew(h.successes, h.failures, k, much)
      BY <1>4, <2>3, <3>4, <3>5, <3>6
    <3>8. TooFew(h.successes, g.failures, l, less)
      BY <2>3, <3>4, <3>7, Zenon, MoreRefuse
    <3>. QED  BY <3>3, <3>6, <3>8
  <2>. QED  BY <1>1, <1>4, <2>2, <2>3, <2>4, <2>8 DEF Judged, Judgment
<1>. QED  BY <1>3, <1>4

\* CognitiveAssessmentStage: what is kept of a type of task is what was recorded, unless a
\* command was lost; who is refused a task failed at one of its type before, and who does no
\* better is refused as well.
THEOREM AssessmentsHold == E!AssessmentConstants /\ E!Spec => [](E!TypeOK /\ E!AssessmentsAreFair)
<1>. SUFFICES ASSUME E!AssessmentConstants PROVE E!Spec => [](E!TypeOK /\ E!AssessmentsAreFair)
  OBVIOUS
<1>1. E!Init => AssessInv
  BY AssessInitOK
<1>2. AssessInv /\ [E!Next]_(E!vars) => AssessInv'
  BY AssessNextOK
<1>3. AssessInv => E!TypeOK /\ E!AssessmentsAreFair
  BY AssessInvIsType, AssessInvIsExact, AssessInvIsEarned DEF E!AssessmentsAreFair
<1>. QED  BY <1>1, <1>2, <1>3, PTL DEF E!Spec

----------------------------------------------------------------------------
(* Skills: what is said of an execution, and what its end counts as.         *)

Known == 0..Len(graph.nodes)

Told == Seq({"running", "completed", "error"} \X Known)

Going(said) == said[1] = "running"

\* What is said never falls, and nothing after an end.
Rises(said) ==
    \A i \in 2..Len(said) :
       Going(said[i - 1]) /\ (Going(said[i]) => said[i - 1][2] <= said[i][2])

AllDone(copy) == \A n \in K!Nodes : copy[n] = "done"

\* What ends with the node that is under way.
WithHead(copy, todo) == [copy EXCEPT ![Head(todo)] = "done"]

ToldOf(said, run) ==
    CASE run = None \/ run.at = "queued" -> said = <<>>
      [] run # None /\ run.at = "running" ->
            /\ said # <<>> /\ run.todo # <<>> /\ Going(said[Len(said)])
            /\ said[Len(said)][2] <= K!EndedIn(WithHead(run.copy, run.todo))
      [] run # None /\ run.at = "over" ->
            /\ said # <<>> /\ ~Going(said[Len(said)])
            /\ said[Len(said)][1] = "completed" <=> ~run.raised /\ AllDone(run.copy)
      [] OTHER -> TRUE

RaisedOf == {r \in Execution : skillRuns[r] # None /\ skillRuns[r].at = "over" /\ skillRuns[r].raised}

SkillRunInv(r) ==
    /\ skillRuns[r] # None => skillRuns[r] \in K!Stages(graph)
    /\ plans[r] # None => plans[r] \in K!Copies(graph)
    /\ feed[r] \in Told /\ Rises(feed[r]) /\ ToldOf(feed[r], skillRuns[r])

SkillsInv ==
    /\ graph \in Kept /\ misjudged = FALSE
    /\ DOMAIN skillRuns = Execution /\ DOMAIN plans = Execution /\ DOMAIN feed = Execution
    /\ analytics \in [total : Nat, successful : Nat, failed : Nat]
    /\ analytics.total = analytics.failed + analytics.successful
    /\ analytics.failed = Cardinality(RaisedOf)
    /\ \A r \in Execution : SkillRunInv(r)

LEMMA SkillsCountIs == \A set : K!Cardinality(set) = Cardinality(set) /\ (K!IsFiniteSet(set) <=> IsFiniteSet(set))
BY DEF K!Cardinality, Cardinality, K!IsFiniteSet, IsFiniteSet

\* The elements of a list are no more than it lists.
LEMMA ListIsFinite ==
  ASSUME NEW Whole, NEW list \in Seq(Whole)
  PROVE  /\ IsFiniteSet(K!Range(list)) /\ Cardinality(K!Range(list)) \in 0..Len(list)
         /\ K!Range(list) \subseteq Whole /\ K!Range(list) = {list[i] : i \in 1..Len(list)}
         /\ (\A i, j \in 1..Len(list) : list[i] = list[j] => i = j) => Cardinality(K!Range(list)) = Len(list)
<1>1. Len(list) \in Nat /\ DOMAIN list = 1..Len(list) /\ \A i \in 1..Len(list) : list[i] \in Whole
  OBVIOUS
<1>2. K!Range(list) = {list[i] : i \in 1..Len(list)}
  BY <1>1, Zenon DEF K!Range
<1>3. IsFiniteSet(1..Len(list)) /\ Cardinality(1..Len(list)) = Len(list)
  <2>1. 1 \in Int /\ Len(list) \in Int
    BY <1>1
  <2>2. Cardinality(1..Len(list)) = IF 1 > Len(list) THEN 0 ELSE Len(list) - 1 + 1
    BY <2>1, FS_Interval
  <2>3. IsFiniteSet(1..Len(list))
    BY <2>1, FS_Interval
  <2>. QED  BY <1>1, <2>2, <2>3
<1>. DEFINE f == [i \in 1..Len(list) |-> list[i]]
<1>4. f \in Surjection(1..Len(list), K!Range(list))
  <2>1. f \in [1..Len(list) -> K!Range(list)]
    BY <1>2
  <2>2. \A t \in K!Range(list) : \E s \in 1..Len(list) : f[s] = t
    BY <1>2
  <2>. QED  BY <2>1, <2>2 DEF Surjection
<1>5. /\ IsFiniteSet(K!Range(list)) /\ Cardinality(K!Range(list)) <= Len(list)
      /\ Cardinality(K!Range(list)) = Len(list) <=> f \in Injection(1..Len(list), K!Range(list))
  <2>. HIDE DEF f
  <2>. QED  BY <1>3, <1>4, FS_Surjection
<1>6. Cardinality(K!Range(list)) \in Nat
  BY <1>5, FS_CardinalityType
<1>7. ASSUME \A i, j \in 1..Len(list) : list[i] = list[j] => i = j
      PROVE  f \in Injection(1..Len(list), K!Range(list))
  <2>1. f \in [1..Len(list) -> K!Range(list)]
    BY <1>2
  <2>2. \A i, j \in 1..Len(list) : f[i] = f[j] => i = j
    BY <1>7
  <2>. QED  BY <2>1, <2>2 DEF Injection, IsInjective
<1>8. K!Range(list) \subseteq Whole
  BY <1>1, <1>2
<1>. QED  BY <1>1, <1>2, <1>5, <1>6, <1>7, <1>8

\* The more has ended, the more is said.
LEMMA EndedGrows ==
  ASSUME K!SkillsConstants, graph \in Kept, NEW copy, NEW other,
         \A n \in K!Nodes : copy[n] \in K!Ended => other[n] \in K!Ended
  PROVE  /\ K!EndedIn(copy) \in Known /\ K!EndedIn(other) \in Known
         /\ K!EndedIn(copy) <= K!EndedIn(other)
<1>. DEFINE Of(c) == {n \in K!Nodes : c[n] \in K!Ended}
<1>1. graph.nodes \in Seq(DOMAIN NodeType)
  BY DEF K!SkillsConstants, K!Graph
<1>2. /\ IsFiniteSet(K!Nodes) /\ Cardinality(K!Nodes) \in Nat
      /\ Cardinality(K!Nodes) <= Len(graph.nodes) /\ Len(graph.nodes) \in Nat
  BY <1>1, ListIsFinite DEF K!Nodes
<1>3. \A c : IsFiniteSet(Of(c)) /\ Cardinality(Of(c)) <= Cardinality(K!Nodes) /\ Cardinality(Of(c)) \in Nat
  <2>1. TAKE c
  <2>2. Of(c) \subseteq K!Nodes
    OBVIOUS
  <2>3. IsFiniteSet(Of(c)) /\ Cardinality(Of(c)) <= Cardinality(K!Nodes)
    BY <1>2, <2>2, FS_Subset
  <2>. QED  BY <2>3, FS_CardinalityType
<1>4. Cardinality(Of(copy)) <= Cardinality(Of(other))
  <2>1. Of(copy) \subseteq Of(other)
    OBVIOUS
  <2>. HIDE DEF Of
  <2>. QED  BY <1>3, <2>1, FS_Subset
<1>5. \A c : K!EndedIn(c) = Cardinality(Of(c))
  BY SkillsCountIs DEF K!EndedIn
<1>. HIDE DEF Of
<1>. QED  BY <1>2, <1>3, <1>4, <1>5 DEF Known

LEMMA FreeIs ==
  ASSUME NEW Whole, NEW todo \in Seq(Whole)
  PROVE  K!Free(todo) \in 0..Len(todo)
<1>. DEFINE Done(i) == NodeType[todo[i]] = "orchestrator" /\ todo[i] \notin Prompted
            Stops == {k \in 0..Len(todo) : k < Len(todo) => ~Done(k + 1)}
<1>1. Len(todo) \in Nat /\ Len(todo) \in Stops /\ Stops \subseteq Nat
  OBVIOUS
<1>. HIDE DEF Done
<1>2. PICK k \in Stops : \A m \in Stops : k <= m
  <2>. HIDE DEF Stops
  <2>. QED  BY <1>1, LeastIs
<1>3. ASSUME NEW i \in 1..k PROVE Done(i)
  <2>1. i - 1 \notin Stops /\ i - 1 \in 0..Len(todo)
    <3>1. k \in 0..Len(todo)
      BY <1>2
    <3>2. i - 1 \in 0..Len(todo) /\ ~(k <= i - 1)
      BY <1>1, <3>1
    <3>. HIDE DEF Stops
    <3>. QED  BY <1>2, <3>2
  <2>2. i - 1 + 1 = i
    BY <1>1
  <2>. QED  BY <2>1, <2>2
<1>4. k \in 0..Len(todo) /\ (k < Len(todo) => ~Done(k + 1))
  BY <1>2
<1>5. \E m \in 0..Len(todo) :
         /\ \A i \in 1..m : NodeType[todo[i]] = "orchestrator" /\ todo[i] \notin Prompted
         /\ m < Len(todo) => NodeType[todo[m + 1]] # "orchestrator" \/ todo[m + 1] \in Prompted
  BY <1>3, <1>4 DEF Done
<1>. QED  BY <1>5, Zenon DEF K!Free

LEMMA DoneUpToIs ==
  ASSUME K!SkillsConstants, graph \in Kept, NEW copy \in K!Copies(graph), NEW todo \in Seq(K!Nodes),
         NEW k \in 0..Len(todo)
  PROVE  /\ K!DoneUpTo(copy, todo, k) \in K!Copies(graph)
         /\ \A n \in K!Nodes : K!DoneUpTo(copy, todo, k)[n]
                = IF \E i \in 1..k : todo[i] = n THEN "done" ELSE copy[n]
<1>1. DOMAIN copy = K!Nodes /\ \A n \in K!Nodes : copy[n] \in {"pending", "running"} \cup K!Ended
  BY DEF K!Copies, K!Nodes
<1>2. \A n \in K!Nodes : K!DoneUpTo(copy, todo, k)[n]
                = IF \E i \in 1..k : todo[i] = n THEN "done" ELSE copy[n]
  BY <1>1, Zenon DEF K!DoneUpTo
<1>3. K!DoneUpTo(copy, todo, k) \in [K!Nodes -> {"pending", "running"} \cup K!Ended]
  BY <1>1 DEF K!DoneUpTo, K!Ended
<1>. QED  BY <1>2, <1>3, Zenon DEF K!Copies, K!Nodes

LEMMA JoinIs ==
  ASSUME NEW Whole, NEW one \in Seq(Whole), NEW other \in Seq(Whole)
  PROVE  /\ one \o other \in Seq(Whole) /\ Len(one \o other) = Len(one) + Len(other)
         /\ \A i \in 1..Len(one) : (one \o other)[i] = one[i]
         /\ \A i \in 1..Len(other) : (one \o other)[Len(one) + i] = other[i]
OBVIOUS

\* The progress that is told while nodes are done without a model.
LEMMA ProgressRises ==
  ASSUME K!SkillsConstants, graph \in Kept, NEW copy \in K!Copies(graph), NEW todo \in Seq(K!Nodes),
         NEW k \in 0..Len(todo), NEW said \in Told, said # <<>>, Rises(said), Going(said[Len(said)]),
         said[Len(said)][2] <= K!EndedIn(copy), NEW next,
         next = said \o [i \in 1 .. 2 * k |-> <<"running", K!EndedIn(K!DoneUpTo(copy, todo, i \div 2))>>]
  PROVE  /\ next \in Told /\ next # <<>> /\ Rises(next) /\ Going(next[Len(next)])
         /\ next[Len(next)][2] <= K!EndedIn(K!DoneUpTo(copy, todo, k))
<1>. DEFINE Count(m) == K!EndedIn(K!DoneUpTo(copy, todo, m))
            more == [i \in 1 .. 2 * k |-> <<"running", Count(i \div 2)>>]
<1>1. Len(todo) \in Nat /\ k \in Nat /\ Len(said) \in Nat \ {0}
  BY DEF Told
<1>2. ASSUME NEW m \in 0..k, NEW n \in 0..k, m <= n
      PROVE  Count(m) \in Known /\ Count(n) \in Known /\ Count(m) <= Count(n)
  <2>1. m \in 0..Len(todo) /\ n \in 0..Len(todo) /\ 1..m \subseteq 1..n
    BY <1>1, <1>2
  <2>2. \A x \in K!Nodes : K!DoneUpTo(copy, todo, m)[x] \in K!Ended
                              => K!DoneUpTo(copy, todo, n)[x] \in K!Ended
    <3>1. TAKE x \in K!Nodes
    <3>2. "done" \in K!Ended
      BY DEF K!Ended
    <3>3. K!DoneUpTo(copy, todo, m)[x] = IF \E i \in 1..m : todo[i] = x THEN "done" ELSE copy[x]
      BY <2>1, DoneUpToIs
    <3>4. K!DoneUpTo(copy, todo, n)[x] = IF \E i \in 1..n : todo[i] = x THEN "done" ELSE copy[x]
      BY <2>1, DoneUpToIs
    <3>. QED  BY <2>1, <3>2, <3>3, <3>4, Zenon
  <2>. QED  BY <2>2, EndedGrows
<1>3. K!EndedIn(copy) <= Count(0) /\ K!EndedIn(copy) \in Known
  <2>1. \A x \in K!Nodes : copy[x] \in K!Ended => K!DoneUpTo(copy, todo, 0)[x] \in K!Ended
    <3>1. TAKE x \in K!Nodes
    <3>2. 0 \in 0..Len(todo) /\ 1..0 = {}
      BY <1>1
    <3>3. K!DoneUpTo(copy, todo, 0)[x] = IF \E i \in 1..0 : todo[i] = x THEN "done" ELSE copy[x]
      BY <3>2, DoneUpToIs
    <3>. QED  BY <3>2, <3>3
  <2>. QED  BY <2>1, EndedGrows
<1>4. \A i \in 1 .. 2 * k : i \div 2 \in 0..k
  BY <1>1
<1>. HIDE DEF Count
<1>5. PICK words : words = {"running", "completed", "error"} \X Known
  OBVIOUS
<1>6. /\ more \in Seq(words) /\ Len(more) = 2 * k /\ said \in Seq(words)
      /\ \A i \in 1 .. 2 * k : more[i][1] = "running" /\ more[i][2] = Count(i \div 2)
  <2>1. \A i \in 1 .. 2 * k : <<"running", Count(i \div 2)>> \in words
    BY <1>1, <1>2, <1>4, <1>5
  <2>2. 2 * k \in Nat
    BY <1>1
  <2>3. more \in Seq(words) /\ Len(more) = 2 * k
    BY <2>1, <2>2
  <2>4. \A i \in 1 .. 2 * k : more[i] = <<"running", Count(i \div 2)>>
    BY Zenon
  <2>. HIDE DEF more
  <2>5. ASSUME NEW i \in 1 .. 2 * k PROVE more[i][1] = "running" /\ more[i][2] = Count(i \div 2)
    <3>1. PICK c : c = Count(i \div 2)
      OBVIOUS
    <3>2. more[i] = <<"running", c>>
      BY <2>4, <3>1, Zenon
    <3>. QED  BY <3>1, <3>2
  <2>. QED  BY <1>5, <2>3, <2>5 DEF Told
<1>7. next = said \o more
  BY Zenon DEF Count
<1>. HIDE DEF more
<1>8. /\ Len(next) = Len(said) + 2 * k /\ Len(next) \in Nat \ {0} /\ next \in Told
      /\ \A i \in 1..Len(said) : next[i] = said[i]
      /\ \A i \in 1 .. 2 * k : /\ next[Len(said) + i][1] = "running"
                               /\ next[Len(said) + i][2] = Count(i \div 2)
  <2>1. /\ next \in Seq(words) /\ Len(next) = Len(said) + Len(more)
        /\ \A i \in 1..Len(said) : next[i] = said[i]
        /\ \A i \in 1..Len(more) : next[Len(said) + i] = more[i]
    <3>1. PICK rest \in Seq(words) : rest = more
      BY <1>6
    <3>2. said \in Seq(words) /\ next = said \o rest
      BY <1>6, <1>7, <3>1
    <3>3. /\ said \o rest \in Seq(words) /\ Len(said \o rest) = Len(said) + Len(rest)
          /\ \A i \in 1..Len(said) : (said \o rest)[i] = said[i]
          /\ \A i \in 1..Len(rest) : (said \o rest)[Len(said) + i] = rest[i]
      BY <3>1, <3>2, JoinIs
    <3>. QED  BY <3>1, <3>2, <3>3, Zenon
  <2>2. Len(next) = Len(said) + 2 * k /\ Len(next) \in Nat \ {0}
    BY <1>1, <1>6, <2>1
  <2>3. next \in Told
    BY <1>5, <2>1 DEF Told
  <2>4. \A i \in 1 .. 2 * k : /\ next[Len(said) + i][1] = "running"
                             /\ next[Len(said) + i][2] = Count(i \div 2)
    BY <1>6, <2>1, Zenon
  <2>. QED  BY <2>1, <2>2, <2>3, <2>4
<1>9. \A i \in 1..Len(next) : i > Len(said) => Going(next[i])
  <2>1. TAKE i \in 1..Len(next)
  <2>2. HAVE i > Len(said)
  <2>3. i - Len(said) \in 1 .. 2 * k /\ Len(said) + (i - Len(said)) = i
    BY <1>1, <1>8, <2>2
  <2>4. next[Len(said) + (i - Len(said))][1] = "running"
    BY <1>8, <2>3
  <2>. QED  BY <2>3, <2>4 DEF Going
<1>10. Going(next[Len(next)])
  <2>1. Len(next) \in 1..Len(next)
    BY <1>8
  <2>2. CASE k = 0
    <3>1. next[Len(next)] = said[Len(said)]
      BY <1>1, <1>8, <2>2
    <3>. QED  BY <3>1
  <2>3. CASE k # 0
    <3>1. Len(next) > Len(said)
      BY <1>1, <1>8, <2>3
    <3>. QED  BY <1>9, <2>1, <3>1
  <2>. QED  BY <2>2, <2>3
<1>11. next[Len(next)][2] <= Count(k) /\ Count(k) \in Known
  <2>1. k \in 0..k /\ 0 \in 0..k /\ 0 <= k
    BY <1>1
  <2>2. Count(0) <= Count(k) /\ Count(0) \in Known /\ Count(k) \in Known
    BY <1>2, <2>1
  <2>3. CASE k = 0
    <3>1. next[Len(next)] = said[Len(said)]
      BY <1>1, <1>8, <2>3
    <3>2. said[Len(said)][2] \in Known
      BY <1>1 DEF Told
    <3>. QED  BY <1>1, <1>3, <2>2, <3>1, <3>2 DEF Known, Count
  <2>4. CASE k # 0
    <3>1. 2 * k \in 1 .. 2 * k /\ (2 * k) \div 2 = k
      BY <1>1, <2>4
    <3>2. next[Len(said) + 2 * k][2] = Count((2 * k) \div 2)
      BY <1>8, <3>1
    <3>3. next[Len(next)][2] = Count(k)
      BY <1>8, <3>1, <3>2
    <3>. QED  BY <2>2, <3>3 DEF Known
  <2>. QED  BY <2>3, <2>4
<1>12. Rises(next)
  <2>1. SUFFICES ASSUME NEW i \in 2..Len(next)
                 PROVE  Going(next[i - 1]) /\ (Going(next[i]) => next[i - 1][2] <= next[i][2])
    BY DEF Rises
  <2>2. CASE i <= Len(said)
    <3>1. i \in 2..Len(said) /\ next[i] = said[i] /\ next[i - 1] = said[i - 1]
      BY <1>1, <1>8, <2>2
    <3>. QED  BY <3>1 DEF Rises
  <2>3. CASE i = Len(said) + 1
    <3>1. next[i - 1] = said[Len(said)] /\ 1 \in 1 .. 2 * k /\ 1 \div 2 = 0
      BY <1>1, <1>8, <2>3
    <3>2. next[Len(said) + 1][2] = Count(1 \div 2)
      BY <1>8, <3>1
    <3>3. said[Len(said)][2] \in Known
      BY <1>1 DEF Told
    <3>4. Count(0) \in Known
      BY <1>1, <1>2
    <3>5. next[i][2] = Count(0)
      BY <2>3, <3>1, <3>2
    <3>6. said[Len(said)][2] <= Count(0)
      <4>1. PICK a \in Nat : a = said[Len(said)][2]
        BY <3>3 DEF Known
      <4>2. PICK b \in Nat : b = K!EndedIn(copy)
        BY <1>3 DEF Known
      <4>3. PICK c \in Nat : c = Count(0)
        BY <3>4 DEF Known
      <4>. QED  BY <1>3, <4>1, <4>2, <4>3
    <3>. QED  BY <3>1, <3>5, <3>6
  <2>4. CASE i > Len(said) + 1
    <3>. DEFINE m == i - Len(said)
    <3>1. m \in 2 .. 2 * k /\ m - 1 \in 1 .. 2 * k /\ m \in 1 .. 2 * k /\ m \in Nat
          /\ Len(said) + m = i /\ Len(said) + (m - 1) = i - 1
      BY <1>1, <1>8, <2>4
    <3>. HIDE DEF m
    <3>2. next[Len(said) + m][2] = Count(m \div 2)
      BY <1>8, <3>1
    <3>3. next[Len(said) + (m - 1)][2] = Count((m - 1) \div 2)
      BY <1>8, <3>1
    <3>6. Going(next[i - 1])
      <4>1. next[Len(said) + (m - 1)][1] = "running"
        BY <1>8, <3>1
      <4>. QED  BY <3>1, <4>1 DEF Going
    <3>4. (m - 1) \div 2 <= m \div 2
      BY <3>1
    <3>5. Count((m - 1) \div 2) <= Count(m \div 2)
      BY <1>2, <1>4, <3>1, <3>4
    <3>. QED  BY <3>1, <3>2, <3>3, <3>5, <3>6
  <2>. QED  BY <1>1, <1>8, <2>2, <2>3, <2>4
<1>. QED  BY <1>8, <1>10, <1>11, <1>12 DEF Count

\* One more word after those that go on.
LEMMA SaidMore ==
  ASSUME NEW said \in Told, said # <<>>, Rises(said), Going(said[Len(said)]),
         NEW word \in {"running", "completed", "error"} \X Known,
         Going(word) => said[Len(said)][2] <= word[2]
  PROVE  /\ Append(said, word) \in Told /\ Append(said, word) # <<>> /\ Rises(Append(said, word))
         /\ Append(said, word)[Len(Append(said, word))] = word
<1>1. /\ Len(said) \in Nat \ {0} /\ Append(said, word) \in Told
      /\ Len(Append(said, word)) = Len(said) + 1
      /\ Append(said, word)[Len(said) + 1] = word
      /\ \A i \in 1..Len(said) : Append(said, word)[i] = said[i]
  BY DEF Told
<1>. DEFINE next == Append(said, word)
<1>. HIDE DEF next
<1>2. SUFFICES ASSUME NEW i \in 2..Len(next)
               PROVE  Going(next[i - 1]) /\ (Going(next[i]) => next[i - 1][2] <= next[i][2])
  BY <1>1 DEF Rises, next
<1>3. CASE i <= Len(said)
  <2>1. i \in 2..Len(said) /\ next[i] = said[i] /\ next[i - 1] = said[i - 1]
    BY <1>1, <1>3 DEF next
  <2>. QED  BY <2>1 DEF Rises
<1>4. CASE i = Len(said) + 1
  <2>1. next[i - 1] = said[Len(said)] /\ next[i] = word
    BY <1>1, <1>4 DEF next
  <2>. QED  BY <2>1
<1>. QED  BY <1>1, <1>3, <1>4 DEF next

\* What is told until a node needs a model, or the end.
LEMMA VisitsTell ==
  ASSUME K!SkillsConstants, graph \in Kept, NEW copy \in K!Copies(graph), NEW todo \in Seq(K!Nodes),
         NEW said \in Told, said # <<>>, Rises(said), Going(said[Len(said)]),
         said[Len(said)][2] <= K!EndedIn(copy), NEW v, v = K!Visits(copy, todo, said)
  PROVE  /\ v.copy \in K!Copies(graph) /\ v.todo \in Seq(K!Nodes)
         /\ v.told \in Told /\ v.told # <<>> /\ Rises(v.told)
         /\ v.todo = <<>> => /\ ~Going(v.told[Len(v.told)])
                             /\ v.told[Len(v.told)][1] = "completed" <=> AllDone(v.copy)
         /\ v.todo # <<>> => /\ Going(v.told[Len(v.told)])
                             /\ v.told[Len(v.told)][2] <= K!EndedIn(WithHead(v.copy, v.todo))
<1>1. PICK k \in 0..Len(todo) : k = K!Free(todo)
  BY FreeIs
<1>2. PICK done : done = K!DoneUpTo(copy, todo, k)
  OBVIOUS
<1>3. done \in K!Copies(graph)
  BY <1>2, DoneUpToIs
<1>4. PICK next : next = said \o [i \in 1 .. 2 * k |-> <<"running", K!EndedIn(K!DoneUpTo(copy, todo, i \div 2))>>]
  OBVIOUS
<1>5. /\ next \in Told /\ next # <<>> /\ Rises(next) /\ Going(next[Len(next)])
      /\ next[Len(next)][2] <= K!EndedIn(done)
  BY <1>1, <1>2, <1>4, ProgressRises
<1>6. Len(todo) \in Nat /\ Len(graph.nodes) \in Nat /\ Len(graph.nodes) \in Known /\ 0 \in Known
  <2>1. graph.nodes \in Seq(DOMAIN NodeType)
    BY DEF K!SkillsConstants, K!Graph
  <2>. QED  BY <2>1 DEF Known
<1>7. CASE k = Len(todo)
  <2>1. PICK word : word = IF AllDone(done) THEN <<"completed", Len(graph.nodes)>> ELSE <<"error", 0>>
    OBVIOUS
  <2>2. word \in {"running", "completed", "error"} \X Known /\ ~Going(word)
        /\ (word[1] = "completed" <=> AllDone(done))
    BY <1>6, <2>1 DEF Going
  <2>3. v = [copy |-> done, todo |-> <<>>, told |-> Append(next, word)]
    BY <1>1, <1>2, <1>4, <1>7, <2>1, Zenon DEF K!Visits, AllDone
  <2>4. v.copy = done /\ v.todo = <<>> /\ v.told = Append(next, word)
    BY <2>3
  <2>5. /\ Append(next, word) \in Told /\ Append(next, word) # <<>> /\ Rises(Append(next, word))
        /\ Append(next, word)[Len(Append(next, word))] = word
    BY <1>5, <2>2, SaidMore
  <2>6. <<>> \in Seq(K!Nodes)
    OBVIOUS
  <2>. QED  BY <1>3, <2>2, <2>4, <2>5, <2>6, Zenon
<1>8. CASE k # Len(todo)
  <2>1. k + 1 \in 1..Len(todo) /\ todo[k + 1] \in K!Nodes
    BY <1>6, <1>8
  <2>2. PICK n \in K!Nodes : n = todo[k + 1]
    BY <2>1
  <2>3. PICK word : word = <<"running", K!EndedIn(done)>>
    OBVIOUS
  <2>4. K!EndedIn(done) \in Known
    BY EndedGrows
  <2>5. word \in {"running", "completed", "error"} \X Known /\ Going(word) /\ word[2] = K!EndedIn(done)
    BY <2>3, <2>4 DEF Going
  <2>6. PICK rest : rest = SubSeq(todo, k + 1, Len(todo))
    OBVIOUS
  <2>7. rest \in Seq(K!Nodes) /\ rest # <<>> /\ Head(rest) = n
    <3>1. rest \in Seq(K!Nodes) /\ Len(rest) = Len(todo) - k
      BY <1>6, <2>1, <2>6
    <3>2. rest[1] = todo[k + 1]
      BY <1>6, <2>1, <2>6
    <3>3. Len(rest) >= 1
      BY <1>6, <2>1, <3>1
    <3>. QED  BY <2>2, <3>1, <3>2, <3>3
  <2>8. PICK after : after = [done EXCEPT ![n] = "running"]
    OBVIOUS
  <2>9. v = [copy |-> after, todo |-> rest, told |-> Append(next, word)]
    BY <1>1, <1>2, <1>4, <1>8, <2>2, <2>3, <2>6, <2>8, Zenon DEF K!Visits
  <2>10. v.copy = after /\ v.todo = rest /\ v.told = Append(next, word)
    BY <2>9
  <2>11. /\ Append(next, word) \in Told /\ Append(next, word) # <<>> /\ Rises(Append(next, word))
         /\ Append(next, word)[Len(Append(next, word))] = word
    BY <1>5, <2>5, SaidMore
  <2>12. done \in [K!Nodes -> {"pending", "running"} \cup K!Ended]
    BY <1>3, Zenon DEF K!Copies, K!Nodes
  <2>13. after \in [K!Nodes -> {"pending", "running"} \cup K!Ended]
    BY <2>8, <2>12
  <2>14. after \in K!Copies(graph)
    BY <2>13, Zenon DEF K!Copies, K!Nodes
  <2>15. \A x \in K!Nodes : done[x] \in K!Ended => WithHead(after, rest)[x] \in K!Ended
    <3>1. WithHead(after, rest) = [after EXCEPT ![n] = "done"]
      BY <2>7 DEF WithHead
    <3>. QED  BY <2>8, <2>12, <2>13, <3>1 DEF K!Ended
  <2>16. K!EndedIn(done) <= K!EndedIn(WithHead(after, rest))
    BY <2>15, EndedGrows
  <2>. QED  BY <2>5, <2>7, <2>10, <2>11, <2>14, <2>16, Zenon
<1>. QED  BY <1>7, <1>8

\* What an execution goes on to, or its end.
LEMMA ProceedKeepsInv ==
  ASSUME K!SkillsConstants, SkillsInv, NEW r \in Execution, NEW copy \in K!Copies(graph),
         NEW todo \in Seq(K!Nodes), NEW said \in Told, said # <<>>, Rises(said), Going(said[Len(said)]),
         said[Len(said)][2] <= K!EndedIn(copy), plans[r] # None => plans[r] \in K!Copies(graph),
         skillRuns[r] # None, skillRuns[r].at \in {"queued", "running"},
         K!Proceed(r, plans[r], K!Visits(copy, todo, said)),
         UNCHANGED <<graph, analytics, misjudged>>
  PROVE  SkillsInv'
<1>1. PICK v : v = K!Visits(copy, todo, said)
  OBVIOUS
<1>2. graph \in Kept
  BY DEF SkillsInv
<1>3. /\ v.copy \in K!Copies(graph) /\ v.todo \in Seq(K!Nodes)
      /\ v.told \in Told /\ v.told # <<>> /\ Rises(v.told)
      /\ v.todo = <<>> => /\ ~Going(v.told[Len(v.told)])
                          /\ v.told[Len(v.told)][1] = "completed" <=> AllDone(v.copy)
      /\ v.todo # <<>> => /\ Going(v.told[Len(v.told)])
                          /\ v.told[Len(v.told)][2] <= K!EndedIn(WithHead(v.copy, v.todo))
  BY <1>1, <1>2, VisitsTell
<1>4. PICK run : run = IF v.todo = <<>> THEN [at |-> "over", raised |-> FALSE, copy |-> v.copy]
                       ELSE [at |-> "running", copy |-> v.copy, todo |-> v.todo]
  OBVIOUS
<1>5. PICK plan : plan = IF v.todo = <<>> THEN v.copy ELSE plans[r]
  OBVIOUS
<1>6. /\ skillRuns' = [skillRuns EXCEPT ![r] = run] /\ plans' = [plans EXCEPT ![r] = plan]
      /\ feed' = [feed EXCEPT ![r] = v.told]
  BY <1>1, <1>4, <1>5, Zenon DEF K!Proceed
<1>7. run \in K!Stages(graph) /\ run # None
  <2>1. v.todo \in Seq(K!Range(graph.nodes))
    BY <1>3 DEF K!Nodes
  <2>2. run \in K!Stages(graph)
    BY <1>3, <1>4, <2>1 DEF K!Stages
  <2>. QED  BY <1>2, <2>2 DEF K!SkillsConstants
<1>8. ToldOf(v.told, run)
  <2>1. CASE v.todo = <<>>
    <3>1. run.at = "over" /\ run.raised = FALSE /\ run.copy = v.copy
      BY <1>4, <2>1
    <3>. QED  BY <1>3, <1>7, <2>1, <3>1 DEF ToldOf
  <2>2. CASE v.todo # <<>>
    <3>1. run.at = "running" /\ run.todo = v.todo /\ run.copy = v.copy
      BY <1>4, <2>2
    <3>. QED  BY <1>3, <1>7, <2>2, <3>1 DEF ToldOf
  <2>. QED  BY <2>1, <2>2
<1>9. plan # None => plan \in K!Copies(graph)
  BY <1>3, <1>5
<1>10. RaisedOf' = RaisedOf
  <2>1. run.at = "over" => run.raised = FALSE
    BY <1>4
  <2>2. \A q \in Execution : skillRuns'[q] = IF q = r THEN run ELSE skillRuns[q]
    BY <1>6 DEF SkillsInv
  <2>3. RaisedOf' = {q \in Execution : skillRuns'[q] # None /\ skillRuns'[q].at = "over" /\ skillRuns'[q].raised}
    BY DEF RaisedOf
  <2>. QED  BY <2>1, <2>2, <2>3 DEF RaisedOf
<1>11. \A q \in Execution : SkillRunInv(q)'
  <2>1. TAKE q \in Execution
  <2>2. CASE q = r
    <3>1. skillRuns'[q] = run /\ plans'[q] = plan /\ feed'[q] = v.told
      BY <1>6, <2>2 DEF SkillsInv
    <3>. QED  BY <1>3, <1>7, <1>8, <1>9, <3>1 DEF SkillRunInv, Told, Known, ToldOf, AllDone, K!Nodes, K!EndedIn
  <2>3. CASE q # r
    <3>1. skillRuns'[q] = skillRuns[q] /\ plans'[q] = plans[q] /\ feed'[q] = feed[q]
      BY <1>6, <2>3 DEF SkillsInv
    <3>2. SkillRunInv(q)
      BY DEF SkillsInv
    <3>. QED  BY <3>1, <3>2 DEF SkillRunInv, Told, Known, ToldOf, AllDone, K!Nodes, K!EndedIn
  <2>. QED  BY <2>2, <2>3
<1>. QED  BY <1>6, <1>10, <1>11 DEF SkillsInv

LEMMA ExecuteKeepsInv ==
  ASSUME K!SkillsConstants, SkillsInv, NEW r \in Execution, K!Execute(r)
  PROVE  SkillsInv'
<1>1. PICK run : run = [at |-> "queued"]
  OBVIOUS
<1>2. PICK plan : plan = [n \in K!Nodes |-> "pending"]
  OBVIOUS
<1>3. /\ skillRuns' = [skillRuns EXCEPT ![r] = run] /\ plans' = [plans EXCEPT ![r] = plan]
      /\ UNCHANGED <<graph, feed, analytics, misjudged>> /\ skillRuns[r] = None
  BY <1>1, <1>2 DEF K!Execute
<1>4. run \in K!Stages(graph) /\ run # None /\ run.at = "queued"
  <2>1. run \in K!Stages(graph)
    BY <1>1 DEF K!Stages
  <2>. QED  BY <1>1, <2>1 DEF K!SkillsConstants, SkillsInv
<1>5. plan \in K!Copies(graph)
  BY <1>2 DEF K!Copies, K!Nodes
<1>6. RaisedOf' = RaisedOf
  <2>1. \A q \in Execution : skillRuns'[q] = IF q = r THEN run ELSE skillRuns[q]
    BY <1>3 DEF SkillsInv
  <2>2. RaisedOf' = {q \in Execution : skillRuns'[q] # None /\ skillRuns'[q].at = "over" /\ skillRuns'[q].raised}
    BY DEF RaisedOf
  <2>. QED  BY <1>3, <1>4, <2>1, <2>2 DEF RaisedOf
<1>7. \A q \in Execution : SkillRunInv(q)'
  <2>1. TAKE q \in Execution
  <2>2. SkillRunInv(q)
    BY DEF SkillsInv
  <2>3. CASE q = r
    <3>1. skillRuns'[q] = run /\ plans'[q] = plan /\ feed'[q] = feed[q]
      BY <1>3, <2>3 DEF SkillsInv
    <3>2. feed[q] = <<>>
      BY <1>3, <2>2, <2>3 DEF SkillRunInv, ToldOf
    <3>3. ToldOf(feed[q], run)'
      BY <1>3, <1>4, <3>2 DEF ToldOf
    <3>. QED  BY <1>3, <1>4, <1>5, <2>2, <3>1, <3>2 DEF SkillRunInv, Told, Known, ToldOf
  <2>4. CASE q # r
    <3>1. skillRuns'[q] = skillRuns[q] /\ plans'[q] = plans[q] /\ feed'[q] = feed[q]
      BY <1>3, <2>4 DEF SkillsInv
    <3>. QED  BY <1>3, <2>2, <3>1 DEF SkillRunInv, Told, Known, ToldOf, AllDone, K!Nodes, K!EndedIn
  <2>. QED  BY <2>3, <2>4
<1>. QED  BY <1>3, <1>6, <1>7 DEF SkillsInv

LEMMA BeginKeepsInv ==
  ASSUME K!SkillsConstants, SkillsInv, NEW r \in Execution, K!Begin(r)
  PROVE  SkillsInv'
<1>1. PICK started : started = <<<<"running", 0>>>>
  OBVIOUS
<1>2. graph \in Kept /\ SkillRunInv(r) /\ skillRuns[r] # None /\ skillRuns[r].at = "queued"
      /\ UNCHANGED <<graph, misjudged>>
  BY DEF K!Begin, SkillsInv
<1>3. /\ started \in Told /\ started # <<>> /\ Rises(started) /\ Len(started) = 1
      /\ started[1] = <<"running", 0>> /\ Going(started[Len(started)]) /\ 0 \in Known
  <2>1. 0 \in Known
    <3>1. graph.nodes \in Seq(DOMAIN NodeType)
      BY <1>2 DEF K!SkillsConstants, K!Graph
    <3>. QED  BY <3>1 DEF Known
  <2>. QED  BY <1>1, <2>1 DEF Told, Rises, Going
<1>4. CASE plans[r] = None
  <2>1. PICK run : run = [at |-> "over", raised |-> TRUE]
    OBVIOUS
  <2>2. run \in K!Stages(graph) /\ run # None /\ run.at = "over" /\ run.raised
    <3>1. run \in K!Stages(graph)
      BY <2>1 DEF K!Stages
    <3>. QED  BY <1>2, <2>1, <3>1 DEF K!SkillsConstants
  <2>3. PICK next : next = Append(started, <<"error", 0>>)
    OBVIOUS
  <2>4. /\ skillRuns' = [skillRuns EXCEPT ![r] = run] /\ feed' = [feed EXCEPT ![r] = next]
        /\ K!RecordSkillRun(FALSE) /\ UNCHANGED plans
    BY <1>1, <1>4, <2>1, <2>3 DEF K!Begin
  <2>5. /\ next \in Told /\ next # <<>> /\ Rises(next) /\ next[Len(next)] = <<"error", 0>>
    <3>1. <<"error", 0>> \in {"running", "completed", "error"} \X Known /\ ~Going(<<"error", 0>>)
      BY <1>3 DEF Going
    <3>. QED  BY <1>3, <2>3, <3>1, SaidMore
  <2>6. RaisedOf' = RaisedOf \cup {r} /\ r \notin RaisedOf
    <3>1. \A q \in Execution : skillRuns'[q] = IF q = r THEN run ELSE skillRuns[q]
      BY <2>4 DEF SkillsInv
    <3>2. RaisedOf' = {q \in Execution : skillRuns'[q] # None /\ skillRuns'[q].at = "over" /\ skillRuns'[q].raised}
      BY DEF RaisedOf
    <3>. QED  BY <1>2, <2>2, <3>1, <3>2 DEF RaisedOf
  <2>7. analytics'.failed = Cardinality(RaisedOf')
        /\ analytics' \in [total : Nat, successful : Nat, failed : Nat]
        /\ analytics'.total = analytics'.failed + analytics'.successful
    <3>1. IsFiniteSet(Execution)
      BY SkillsCountIs DEF K!SkillsConstants
    <3>2. IsFiniteSet(RaisedOf)
      BY <3>1, FS_Subset DEF RaisedOf
    <3>3. Cardinality(RaisedOf \cup {r}) = Cardinality(RaisedOf) + 1
      BY <2>6, <3>2, FS_AddElement
    <3>4. analytics' = [total |-> analytics.total + 1, successful |-> analytics.successful + 0,
                        failed |-> analytics.failed + 1]
      BY <2>4 DEF K!RecordSkillRun
    <3>5. /\ analytics \in [total : Nat, successful : Nat, failed : Nat]
          /\ analytics.total = analytics.failed + analytics.successful
          /\ analytics.failed = Cardinality(RaisedOf)
      BY DEF SkillsInv
    <3>. QED  BY <2>6, <3>3, <3>4, <3>5
  <2>8. \A q \in Execution : SkillRunInv(q)'
    <3>1. TAKE q \in Execution
    <3>2. CASE q = r
      <4>1. skillRuns'[q] = run /\ plans'[q] = plans[q] /\ feed'[q] = next
        BY <2>4, <3>2 DEF SkillsInv
      <4>2. next[Len(next)][1] = "error"
        BY <2>5
      <4>3. ToldOf(next, run)'
        BY <2>2, <2>5, <4>2 DEF ToldOf, Going
      <4>. QED  BY <1>2, <2>2, <2>5, <3>2, <4>1, <4>3 DEF SkillRunInv, Told, Known, ToldOf, AllDone, K!Nodes, K!EndedIn
    <3>3. CASE q # r
      <4>1. skillRuns'[q] = skillRuns[q] /\ plans'[q] = plans[q] /\ feed'[q] = feed[q]
        BY <2>4, <3>3 DEF SkillsInv
      <4>2. SkillRunInv(q)
        BY DEF SkillsInv
      <4>. QED  BY <1>2, <4>1, <4>2 DEF SkillRunInv, Told, Known, ToldOf, AllDone, K!Nodes, K!EndedIn
    <3>. QED  BY <3>2, <3>3
  <2>. QED  BY <1>2, <2>4, <2>7, <2>8 DEF SkillsInv
<1>5. CASE plans[r] # None
  <2>1. plans[r] \in K!Copies(graph)
    BY <1>2, <1>5 DEF SkillRunInv
  <2>2. graph.nodes \in Seq(K!Nodes)
    <3>1. graph.nodes \in Seq(DOMAIN NodeType)
      BY <1>2 DEF K!SkillsConstants, K!Graph
    <3>2. K!Nodes = {graph.nodes[i] : i \in 1..Len(graph.nodes)}
      BY <3>1, ListIsFinite DEF K!Nodes
    <3>. QED  BY <3>1, <3>2
  <2>3. started[Len(started)][2] <= K!EndedIn(plans[r])
    <3>1. K!EndedIn(plans[r]) \in Known
      BY <1>2, EndedGrows
    <3>. QED  BY <1>3, <3>1 DEF Known
  <2>4. K!Proceed(r, plans[r], K!Visits(plans[r], graph.nodes, started)) /\ UNCHANGED analytics
    BY <1>1, <1>5, Zenon DEF K!Begin
  <2>. QED  BY <1>2, <1>3, <2>1, <2>2, <2>3, <2>4, ProceedKeepsInv
<1>. QED  BY <1>4, <1>5

LEMMA NodeEndsKeepsInv ==
  ASSUME K!SkillsConstants, SkillsInv, NEW r \in Execution, NEW status \in K!Ended,
         K!NodeEnds(r, status)
  PROVE  SkillsInv'
<1>1. /\ graph \in Kept /\ SkillRunInv(r) /\ skillRuns[r] # None /\ skillRuns[r].at = "running"
      /\ UNCHANGED <<graph, analytics, misjudged>>
  BY DEF K!NodeEnds, SkillsInv
<1>2. PICK run : run = skillRuns[r]
  OBVIOUS
<1>3. /\ run.copy \in K!Copies(graph) /\ run.todo \in Seq(K!Nodes) /\ run.todo # <<>>
      /\ feed[r] \in Told /\ feed[r] # <<>> /\ Rises(feed[r]) /\ Going(feed[r][Len(feed[r])])
      /\ feed[r][Len(feed[r])][2] <= K!EndedIn(WithHead(run.copy, run.todo))
  <2>1. run \in K!Stages(graph)
    BY <1>1, <1>2 DEF SkillRunInv
  <2>2. run.copy \in K!Copies(graph) /\ run.todo \in Seq(K!Range(graph.nodes))
    BY <1>1, <1>2, <2>1 DEF K!Stages
  <2>. QED  BY <1>1, <1>2, <2>2 DEF SkillRunInv, ToldOf, K!Nodes
<1>4. PICK n \in K!Nodes : n = Head(run.todo)
  BY <1>3
<1>5. PICK copy : copy = [run.copy EXCEPT ![n] = status]
  OBVIOUS
<1>6. run.copy \in [K!Nodes -> {"pending", "running"} \cup K!Ended]
  BY <1>3, Zenon DEF K!Copies, K!Nodes
<1>7. copy \in K!Copies(graph)
  <2>1. copy \in [K!Nodes -> {"pending", "running"} \cup K!Ended]
    BY <1>5, <1>6
  <2>. QED  BY <2>1, Zenon DEF K!Copies, K!Nodes
<1>8. K!EndedIn(WithHead(run.copy, run.todo)) <= K!EndedIn(copy)
      /\ K!EndedIn(WithHead(run.copy, run.todo)) \in Known /\ K!EndedIn(copy) \in Known
  <2>1. \A x \in K!Nodes : WithHead(run.copy, run.todo)[x] \in K!Ended => copy[x] \in K!Ended
    <3>1. WithHead(run.copy, run.todo) = [run.copy EXCEPT ![n] = "done"]
      BY <1>4 DEF WithHead
    <3>. QED  BY <1>5, <1>6, <3>1
  <2>. QED  BY <1>1, <2>1, EndedGrows
<1>9. PICK word : word = <<"running", K!EndedIn(copy)>>
  OBVIOUS
<1>10. /\ word \in {"running", "completed", "error"} \X Known /\ Going(word) /\ word[2] = K!EndedIn(copy)
  BY <1>8, <1>9 DEF Going
<1>11. feed[r][Len(feed[r])][2] <= K!EndedIn(copy)
  <2>1. feed[r][Len(feed[r])][2] \in Known
    BY <1>3 DEF Told
  <2>. QED  BY <1>3, <1>8, <2>1 DEF Known
<1>12. PICK next : next = Append(feed[r], word)
  OBVIOUS
<1>13. /\ next \in Told /\ next # <<>> /\ Rises(next) /\ next[Len(next)] = word
  BY <1>3, <1>10, <1>11, <1>12, SaidMore
<1>14. Tail(run.todo) \in Seq(K!Nodes)
  BY <1>3
<1>15. K!Proceed(r, plans[r], K!Visits(copy, Tail(run.todo), next))
  BY <1>2, <1>4, <1>5, <1>9, <1>12, Zenon DEF K!NodeEnds
<1>16. Going(next[Len(next)]) /\ next[Len(next)][2] <= K!EndedIn(copy)
  BY <1>8, <1>10, <1>13 DEF Known
<1>17. plans[r] # None => plans[r] \in K!Copies(graph)
  BY <1>1 DEF SkillRunInv
<1>. QED  BY <1>1, <1>7, <1>13, <1>14, <1>15, <1>16, <1>17, ProceedKeepsInv

LEMMA DeletePlanKeepsInv ==
  ASSUME SkillsInv, NEW r \in Execution, K!DeletePlan(r)
  PROVE  SkillsInv'
<1>1. /\ plans' = [plans EXCEPT ![r] = None] /\ UNCHANGED <<graph, skillRuns, feed, analytics, misjudged>>
  BY DEF K!DeletePlan
<1>2. \A q \in Execution : SkillRunInv(q)'
  <2>1. TAKE q \in Execution
  <2>2. SkillRunInv(q) /\ (plans'[q] # None => plans'[q] = plans[q])
    BY <1>1 DEF SkillsInv
  <2>. QED  BY <1>1, <2>2 DEF SkillRunInv, Told, Known, ToldOf, AllDone, K!Nodes, K!EndedIn
<1>. QED  BY <1>1, <1>2 DEF SkillsInv, RaisedOf

LEMMA DieKeepsInv ==
  ASSUME K!SkillsConstants, SkillsInv, K!Die
  PROVE  SkillsInv'
<1>1. PICK lost : lost = [at |-> "lost"]
  OBVIOUS
<1>2. /\ skillRuns' = [r \in Execution |-> IF skillRuns[r] # None /\ skillRuns[r].at \in {"queued", "running"}
                                           THEN lost ELSE skillRuns[r]]
      /\ UNCHANGED <<graph, plans, feed, analytics, misjudged>>
  BY <1>1 DEF K!Die
<1>3. lost \in K!Stages(graph) /\ lost # None /\ lost.at = "lost"
  <2>1. lost \in K!Stages(graph)
    BY <1>1 DEF K!Stages
  <2>. QED  BY <1>1, <2>1 DEF K!SkillsConstants, SkillsInv
<1>4. RaisedOf' = RaisedOf
  <2>1. RaisedOf' = {q \in Execution : skillRuns'[q] # None /\ skillRuns'[q].at = "over" /\ skillRuns'[q].raised}
    BY DEF RaisedOf
  <2>. QED  BY <1>2, <1>3, <2>1 DEF RaisedOf
<1>5. \A q \in Execution : SkillRunInv(q)'
  <2>1. TAKE q \in Execution
  <2>2. SkillRunInv(q)
    BY DEF SkillsInv
  <2>3. CASE skillRuns'[q] = lost
    <3>1. ToldOf(feed[q], lost)'
      BY <1>3 DEF ToldOf
    <3>. QED  BY <1>2, <1>3, <2>2, <2>3, <3>1 DEF SkillRunInv, Told, Known, ToldOf
  <2>4. CASE skillRuns'[q] = skillRuns[q]
    BY <1>2, <2>2, <2>4 DEF SkillRunInv, Told, Known, ToldOf, AllDone, K!Nodes, K!EndedIn
  <2>. QED  BY <1>2, <2>3, <2>4
<1>. QED  BY <1>2, <1>4, <1>5 DEF SkillsInv

----------------------------------------------------------------------------
(* The search for a cycle: what was left leads only to what was left before, *)
(* and what is on the stack is a path.                                       *)

NodesOf(g) == K!Range(g.nodes)

\* What the check has made sure of when it searches.
Searched(g) ==
    /\ g.nodes \in Seq(DOMAIN NodeType) /\ IsFiniteSet(g.edges)
    /\ g.edges \subseteq NodesOf(g) \X NodesOf(g)
    /\ \A i, j \in 1..Len(g.nodes) : g.nodes[i] = g.nodes[j] => i = j

Loop(g) ==
    \E m \in Nat \ {0} : \E path \in [1..m -> NodesOf(g)] :
       /\ <<path[m], path[1]>> \in g.edges
       /\ \A i \in 1..(m - 1) : <<path[i], path[i + 1]>> \in g.edges

Search(g) ==
    [stack : Seq(NodesOf(g)), left : Seq(NodesOf(g)), looked : SUBSET g.edges, cycle : BOOLEAN]

Unrepeated(list) == \A i, j \in 1..Len(list) : list[i] = list[j] => i = j

IsListed(list, n) == \E i \in 1..Len(list) : list[i] = n

\* Every edge of a node that was left leads to one that was left before.
LeftInOrder(g, behind) ==
    \A e \in g.edges, a \in 1..Len(behind) : behind[a] = e[1] => \E b \in 1..(a - 1) : behind[b] = e[2]

\* An edge that was looked at leads up the stack or to what was left.
LookedIsFollowed(stack, behind, looked) ==
    \A e \in looked : \/ IsListed(behind, e[2])
                      \/ \E i, j \in 1..Len(stack) : i < j /\ stack[i] = e[1] /\ stack[j] = e[2]

IsPath(g, stack) == \A i \in 1..(Len(stack) - 1) : <<stack[i], stack[i + 1]>> \in g.edges

Apart(stack, behind) == \A i \in 1..Len(stack), j \in 1..Len(behind) : stack[i] # behind[j]

SearchInv(g, s) ==
    /\ s \in Search(g) /\ Unrepeated(s.stack) /\ Unrepeated(s.left) /\ Apart(s.stack, s.left)
    /\ IsPath(g, s.stack)
    /\ s.cycle => Loop(g) /\ s.stack # <<>>
    /\ ~s.cycle => LookedIsFollowed(s.stack, s.left, s.looked) /\ LeftInOrder(g, s.left)

Progress(s) == Cardinality(s.looked) + Len(s.stack) + 2 * Len(s.left)

IsOver(g, s) == s.cycle \/ (s.stack = <<>> /\ NodesOf(g) \subseteq K!Visited(s))

LEMMA ListedIs ==
  ASSUME NEW Whole, NEW list \in Seq(Whole), NEW n
  PROVE  n \in K!Range(list) <=> IsListed(list, n)
<1>1. K!Range(list) = {list[i] : i \in 1..Len(list)}
  BY ListIsFinite
<1>. QED  BY <1>1 DEF IsListed

LEMMA VisitedIs ==
  ASSUME NEW g, NEW s \in Search(g), NEW n
  PROVE  n \in K!Visited(s) <=> IsListed(s.stack, n) \/ IsListed(s.left, n)
<1>1. s.stack \in Seq(NodesOf(g)) /\ s.left \in Seq(NodesOf(g))
  BY DEF Search
<1>2. n \in K!Range(s.stack) <=> IsListed(s.stack, n)
  BY <1>1, ListedIs
<1>3. n \in K!Range(s.left) <=> IsListed(s.left, n)
  BY <1>1, ListedIs
<1>. QED  BY <1>2, <1>3 DEF K!Visited

LEMMA AppendIs ==
  ASSUME NEW Whole, NEW list \in Seq(Whole), NEW n \in Whole
  PROVE  /\ Append(list, n) \in Seq(Whole) /\ Len(Append(list, n)) = Len(list) + 1
         /\ Append(list, n)[Len(list) + 1] = n
         /\ \A i \in 1..Len(list) : Append(list, n)[i] = list[i]
         /\ Len(list) \in Nat
OBVIOUS

\* A node that is new is put on the stack.
LEMMA VisitKeepsInv ==
  ASSUME NEW g, Searched(g), NEW s, SearchInv(g, s), ~s.cycle, NEW n \in NodesOf(g), n \notin K!Visited(s),
         NEW looked, looked = s.looked \/ (\E e \in g.edges : /\ looked = s.looked \cup {e} /\ e[2] = n
                                               /\ s.stack # <<>> /\ e[1] = s.stack[Len(s.stack)]),
         s.stack # <<>> => <<s.stack[Len(s.stack)], n>> \in g.edges,
         NEW t, t = [stack |-> Append(s.stack, n), left |-> s.left, looked |-> looked, cycle |-> FALSE]
  PROVE  SearchInv(g, t)
<1>1. PICK stack \in Seq(NodesOf(g)) : stack = s.stack
  BY DEF SearchInv, Search
<1>2. PICK behind \in Seq(NodesOf(g)) : behind = s.left
  BY DEF SearchInv, Search
<1>3. PICK k \in Nat : k = Len(stack)
  BY <1>1
<1>4. PICK next : next = Append(stack, n)
  OBVIOUS
<1>5. /\ next \in Seq(NodesOf(g)) /\ Len(next) = k + 1 /\ next[k + 1] = n
      /\ \A i \in 1..k : next[i] = stack[i]
  BY <1>1, <1>3, <1>4, AppendIs
<1>6. /\ Unrepeated(stack) /\ Unrepeated(behind) /\ Apart(stack, behind) /\ IsPath(g, stack)
      /\ LookedIsFollowed(stack, behind, s.looked) /\ LeftInOrder(g, behind) /\ s.looked \subseteq g.edges
  BY <1>1, <1>2 DEF SearchInv, Search
<1>7. ~IsListed(stack, n) /\ ~IsListed(behind, n)
  BY <1>1, <1>2, VisitedIs DEF SearchInv
<1>8. t.stack = next /\ t.left = behind /\ t.looked = looked /\ t.cycle = FALSE
  BY <1>1, <1>2, <1>4
<1>9. looked \subseteq g.edges
  BY <1>6
<1>10. t \in Search(g)
  BY <1>1, <1>2, <1>4, <1>5, <1>9 DEF Search
<1>11. Unrepeated(next)
  <2>1. \A i \in 1..k : next[i] # n
    BY <1>3, <1>5, <1>7 DEF IsListed
  <2>2. \A i, j \in 1..k : next[i] = next[j] => i = j
    BY <1>3, <1>5, <1>6 DEF Unrepeated
  <2>3. \A i \in 1..(k + 1) : i \in 1..k \/ i = k + 1
    BY <1>3
  <2>4. \A i, j \in 1..(k + 1) : next[i] = next[j] => i = j
    BY <1>5, <2>1, <2>2, <2>3, Zenon
  <2>. QED  BY <1>5, <2>4 DEF Unrepeated
<1>12. Apart(next, behind)
  BY <1>2, <1>3, <1>5, <1>6, <1>7 DEF Apart, IsListed
<1>13. IsPath(g, next)
  <2>1. SUFFICES ASSUME NEW i \in 1..k PROVE <<next[i], next[i + 1]>> \in g.edges
    BY <1>3, <1>5 DEF IsPath
  <2>2. CASE i < k
    <3>1. i \in 1..(k - 1) /\ i + 1 \in 1..k
      BY <1>3, <2>2
    <3>. QED  BY <1>3, <1>5, <1>6, <3>1 DEF IsPath
  <2>3. CASE i = k
    <3>1. k # 0 /\ next[i] = stack[k] /\ next[i + 1] = n
      BY <1>3, <1>5, <2>3
    <3>2. stack # <<>>
      BY <1>1, <1>3, <3>1
    <3>. QED  BY <1>1, <1>3, <3>1, <3>2
  <2>. QED  BY <1>3, <2>2, <2>3
<1>14. LookedIsFollowed(next, behind, looked)
  <2>1. SUFFICES ASSUME NEW e \in looked
                 PROVE  \/ IsListed(behind, e[2])
                        \/ \E i, j \in 1..(k + 1) : i < j /\ next[i] = e[1] /\ next[j] = e[2]
    BY <1>5 DEF LookedIsFollowed
  <2>2. CASE e \in s.looked
    <3>1. CASE \E i, j \in 1..k : i < j /\ stack[i] = e[1] /\ stack[j] = e[2]
      BY <1>3, <1>5, <3>1
    <3>. QED  BY <1>3, <1>6, <2>2, <3>1 DEF LookedIsFollowed
  <2>3. CASE e \notin s.looked
    <3>1. e[2] = n /\ stack # <<>> /\ e[1] = stack[k]
      BY <1>1, <1>3, <2>3
    <3>2. k \in 1..k
      BY <1>1, <1>3, <3>1
    <3>3. k \in 1..(k + 1) /\ k + 1 \in 1..(k + 1) /\ k < k + 1 /\ next[k] = e[1] /\ next[k + 1] = e[2]
      BY <1>3, <1>5, <3>1, <3>2
    <3>. QED  BY <3>3
  <2>. QED  BY <2>2, <2>3
<1>. QED  BY <1>6, <1>8, <1>10, <1>11, <1>12, <1>13, <1>14 DEF SearchInv

\* The edge leads back into the stack: the rest of the stack is a cycle.
LEMMA BackIsLoop ==
  ASSUME NEW g, NEW stack \in Seq(NodesOf(g)), IsPath(g, stack), NEW i \in 1..Len(stack),
         <<stack[Len(stack)], stack[i]>> \in g.edges
  PROVE  Loop(g)
<1>0. PICK k \in Nat : k = Len(stack)
  OBVIOUS
<1>1. PICK m \in Nat \ {0} : m = k - i + 1
  <2>1. PICK h \in 1..k : h = i
    BY <1>0
  <2>2. k - h + 1 \in Nat \ {0}
    OBVIOUS
  <2>. QED  BY <2>1, <2>2
<1>. DEFINE path == [j \in 1..m |-> stack[i + j - 1]]
<1>2. \A j \in 1..m : i + j - 1 \in 1..k
  BY <1>0, <1>1
<1>3. path \in [1..m -> NodesOf(g)]
  BY <1>0, <1>2
<1>4. path[1] = stack[i] /\ path[m] = stack[k]
  <2>1. i \in Nat /\ 1 \in 1..m /\ m \in 1..m /\ i + 1 - 1 = i /\ i + m - 1 = k
    BY <1>0, <1>1
  <2>2. path[1] = stack[i + 1 - 1] /\ path[m] = stack[i + m - 1]
    BY <2>1
  <2>. QED  BY <2>1, <2>2
<1>5. ASSUME NEW j \in 1..(m - 1) PROVE <<path[j], path[j + 1]>> \in g.edges
  <2>1. j \in 1..m /\ j + 1 \in 1..m /\ i + j - 1 \in 1..(k - 1) /\ i + (j + 1) - 1 = (i + j - 1) + 1
    BY <1>0, <1>1
  <2>2. path[j] = stack[i + j - 1] /\ path[j + 1] = stack[i + (j + 1) - 1]
    BY <2>1
  <2>3. <<stack[i + j - 1], stack[(i + j - 1) + 1]>> \in g.edges
    BY <1>0, <2>1 DEF IsPath
  <2>. QED  BY <2>1, <2>2, <2>3
<1>. HIDE DEF path
<1>. QED  BY <1>0, <1>1, <1>3, <1>4, <1>5 DEF Loop

\* An edge to a node that was visited is looked at.
LEMMA SeenKeepsInv ==
  ASSUME NEW g, Searched(g), NEW s, SearchInv(g, s), ~s.cycle, NEW e \in g.edges, s.stack # <<>>,
         e[1] = s.stack[Len(s.stack)], e[2] \in K!Visited(s),
         NEW t, t = [stack |-> s.stack, left |-> s.left, looked |-> s.looked \cup {e},
                     cycle |-> e[2] \in K!Range(s.stack)]
  PROVE  SearchInv(g, t)
<1>1. PICK stack \in Seq(NodesOf(g)) : stack = s.stack
  BY DEF SearchInv, Search
<1>2. PICK behind \in Seq(NodesOf(g)) : behind = s.left
  BY DEF SearchInv, Search
<1>3. PICK back \in BOOLEAN : back <=> e[2] \in K!Range(stack)
  OBVIOUS
<1>4. t = [stack |-> stack, left |-> behind, looked |-> s.looked \cup {e}, cycle |-> back]
  BY <1>1, <1>2, <1>3
<1>5. t.stack = stack /\ t.left = behind /\ t.looked = s.looked \cup {e} /\ t.cycle = back
  BY <1>4
<1>6. /\ Unrepeated(stack) /\ Unrepeated(behind) /\ Apart(stack, behind) /\ IsPath(g, stack)
      /\ LookedIsFollowed(stack, behind, s.looked) /\ LeftInOrder(g, behind) /\ s.looked \subseteq g.edges
  BY <1>1, <1>2 DEF SearchInv, Search
<1>7. t \in Search(g)
  BY <1>1, <1>2, <1>3, <1>4, <1>6 DEF Search
<1>8. back => Loop(g) /\ stack # <<>>
  <2>1. SUFFICES ASSUME back PROVE Loop(g)
    BY <1>1
  <2>2. IsListed(stack, e[2])
    BY <1>1, <1>3, <2>1, ListedIs
  <2>3. PICK i \in 1..Len(stack) : stack[i] = e[2]
    BY <2>2 DEF IsListed
  <2>4. e = <<e[1], e[2]>>
    BY DEF Searched
  <2>5. <<stack[Len(stack)], stack[i]>> \in g.edges
    BY <1>1, <2>3, <2>4
  <2>. QED  BY <1>1, <1>6, <2>3, <2>5, BackIsLoop
<1>9. ~back => LookedIsFollowed(stack, behind, s.looked \cup {e})
  <2>1. SUFFICES ASSUME ~back PROVE IsListed(behind, e[2])
    BY <1>6 DEF LookedIsFollowed
  <2>2. ~IsListed(stack, e[2])
    BY <1>1, <1>3, <2>1, ListedIs
  <2>. QED  BY <1>1, <1>2, <2>2, VisitedIs DEF SearchInv
<1>. QED  BY <1>5, <1>6, <1>7, <1>8, <1>9 DEF SearchInv

LEMMA SearchIsOf ==
  ASSUME NEW g, NEW stack \in Seq(NodesOf(g)), NEW behind \in Seq(NodesOf(g)),
         NEW looked \in SUBSET g.edges, NEW back \in BOOLEAN
  PROVE  [stack |-> stack, left |-> behind, looked |-> looked, cycle |-> back] \in Search(g)
BY DEF Search

\* A node whose edges were all looked at is left.
LEMMA LeaveKeepsInv ==
  ASSUME NEW g, Searched(g), NEW s, SearchInv(g, s), ~s.cycle, s.stack # <<>>, K!Ahead(g, s) = {},
         NEW t, t = [stack |-> SubSeq(s.stack, 1, Len(s.stack) - 1),
                     left |-> Append(s.left, s.stack[Len(s.stack)]),
                     looked |-> s.looked, cycle |-> FALSE]
  PROVE  SearchInv(g, t) /\ Len(t.stack) = Len(s.stack) - 1 /\ Len(t.left) = Len(s.left) + 1
<1>1. PICK stack \in Seq(NodesOf(g)) : stack = s.stack
  BY DEF SearchInv, Search
<1>2. PICK behind \in Seq(NodesOf(g)) : behind = s.left
  BY DEF SearchInv, Search
<1>3. PICK k \in Nat : k = Len(stack)
  BY <1>1
<1>4. k >= 1
  BY <1>1, <1>3
<1>5. PICK n \in NodesOf(g) : n = stack[k]
  BY <1>1, <1>3, <1>4
<1>6. PICK rest : rest = SubSeq(stack, 1, k - 1)
  OBVIOUS
<1>7. rest \in Seq(NodesOf(g)) /\ Len(rest) = k - 1 /\ \A i \in 1..(k - 1) : rest[i] = stack[i]
  BY <1>3, <1>4, <1>6
<1>8. PICK last \in Nat : last = Len(behind)
  BY <1>2
<1>9. PICK more : more = Append(behind, n)
  OBVIOUS
<1>10. /\ more \in Seq(NodesOf(g)) /\ Len(more) = last + 1 /\ more[last + 1] = n
       /\ \A i \in 1..last : more[i] = behind[i]
  BY <1>2, <1>5, <1>8, <1>9, AppendIs
<1>11. /\ Unrepeated(stack) /\ Unrepeated(behind) /\ Apart(stack, behind) /\ IsPath(g, stack)
       /\ LookedIsFollowed(stack, behind, s.looked) /\ LeftInOrder(g, behind) /\ s.looked \subseteq g.edges
  BY <1>1, <1>2 DEF SearchInv, Search
<1>12. t = [stack |-> rest, left |-> more, looked |-> s.looked, cycle |-> FALSE]
  BY <1>1, <1>2, <1>3, <1>5, <1>6, <1>9
<1>13. t.stack = rest /\ t.left = more /\ t.looked = s.looked /\ t.cycle = FALSE
  BY <1>12
<1>14. t \in Search(g)
  <2>1. rest \in Seq(NodesOf(g)) /\ more \in Seq(NodesOf(g)) /\ s.looked \in SUBSET g.edges /\ FALSE \in BOOLEAN
    BY <1>7, <1>10, <1>11
  <2>2. [stack |-> rest, left |-> more, looked |-> s.looked, cycle |-> FALSE] \in Search(g)
    BY <2>1, SearchIsOf
  <2>. QED  BY <1>12, <2>2, Zenon
<1>15. Unrepeated(rest)
  <2>1. SUFFICES ASSUME NEW i \in 1..(k - 1), NEW j \in 1..(k - 1), rest[i] = rest[j] PROVE i = j
    BY <1>7 DEF Unrepeated
  <2>2. i \in 1..k /\ j \in 1..k
    BY <1>3
  <2>3. stack[i] = stack[j]
    BY <1>7, <2>1
  <2>. QED  BY <1>3, <1>11, <2>2, <2>3 DEF Unrepeated
<1>16. Unrepeated(more)
  <2>1. \A i \in 1..last : more[i] # n
    BY <1>3, <1>4, <1>5, <1>8, <1>10, <1>11 DEF Apart
  <2>2. \A i, j \in 1..last : more[i] = more[j] => i = j
    BY <1>8, <1>10, <1>11 DEF Unrepeated
  <2>3. \A i \in 1..(last + 1) : i \in 1..last \/ i = last + 1
    BY <1>8
  <2>4. \A i, j \in 1..(last + 1) : more[i] = more[j] => i = j
    BY <1>10, <2>1, <2>2, <2>3, Zenon
  <2>. QED  BY <1>10, <2>4 DEF Unrepeated
<1>17. Apart(rest, more)
  <2>1. ASSUME NEW i \in 1..(k - 1), NEW j \in 1..(last + 1) PROVE rest[i] # more[j]
    <3>1. i \in 1..k /\ rest[i] = stack[i] /\ k \in 1..k /\ i # k
      BY <1>3, <1>4, <1>7
    <3>2. CASE j = last + 1
      BY <1>3, <1>5, <1>10, <1>11, <3>1, <3>2 DEF Unrepeated
    <3>3. CASE j # last + 1
      <4>1. j \in 1..last
        BY <1>8, <3>3
      <4>. QED  BY <1>3, <1>8, <1>10, <1>11, <3>1, <4>1 DEF Apart
    <3>. QED  BY <3>2, <3>3
  <2>. QED  BY <1>7, <1>10, <2>1 DEF Apart
<1>18. IsPath(g, rest)
  <2>1. SUFFICES ASSUME NEW i \in 1..(k - 2) PROVE <<rest[i], rest[i + 1]>> \in g.edges
    BY <1>3, <1>7 DEF IsPath
  <2>2. i \in 1..(k - 1) /\ i + 1 \in 1..(k - 1)
    BY <1>3
  <2>. QED  BY <1>3, <1>7, <1>11, <2>2 DEF IsPath
\* Its edges lead to what was left, for nothing is above it.
<1>19. \A e \in s.looked : e[1] = n => IsListed(behind, e[2])
  <2>1. SUFFICES ASSUME NEW e \in s.looked, e[1] = n,
                        NEW i \in 1..k, NEW j \in 1..k, i < j, stack[i] = e[1]
                 PROVE  FALSE
    BY <1>3, <1>11 DEF LookedIsFollowed
  <2>2. k \in 1..k /\ stack[k] = stack[i] /\ i # k
    BY <1>3, <1>4, <1>5, <2>1
  <2>. QED  BY <1>3, <1>11, <2>2 DEF Unrepeated
<1>20. LookedIsFollowed(rest, more, s.looked)
  <2>1. SUFFICES ASSUME NEW e \in s.looked
                 PROVE  \/ IsListed(more, e[2])
                        \/ \E i, j \in 1..(k - 1) : i < j /\ rest[i] = e[1] /\ rest[j] = e[2]
    BY <1>7 DEF LookedIsFollowed
  <2>2. CASE IsListed(behind, e[2])
    <3>1. PICK i \in 1..last : behind[i] = e[2]
      BY <1>8, <2>2 DEF IsListed
    <3>2. i \in 1..(last + 1) /\ more[i] = e[2]
      BY <1>8, <1>10, <3>1
    <3>. QED  BY <1>10, <3>2 DEF IsListed
  <2>3. ASSUME NEW i \in 1..k, NEW j \in 1..k, i < j, stack[i] = e[1], stack[j] = e[2]
        PROVE  \/ IsListed(more, e[2])
               \/ \E a, b \in 1..(k - 1) : a < b /\ rest[a] = e[1] /\ rest[b] = e[2]
    <3>1. CASE j = k
      <4>1. last + 1 \in 1..(last + 1) /\ more[last + 1] = e[2]
        BY <1>5, <1>8, <1>10, <2>3, <3>1
      <4>. QED  BY <1>10, <4>1 DEF IsListed
    <3>2. CASE j # k
      <4>1. i \in 1..(k - 1) /\ j \in 1..(k - 1)
        BY <1>3, <2>3, <3>2
      <4>. QED  BY <1>7, <2>3, <4>1
    <3>. QED  BY <3>1, <3>2
  <2>. QED  BY <1>3, <1>11, <2>2, <2>3 DEF LookedIsFollowed
<1>21. LeftInOrder(g, more)
  <2>1. SUFFICES ASSUME NEW e \in g.edges, NEW a \in 1..(last + 1), more[a] = e[1]
                 PROVE  \E b \in 1..(a - 1) : more[b] = e[2]
    BY <1>10 DEF LeftInOrder
  <2>2. CASE a = last + 1
    <3>1. e[1] = n
      BY <1>10, <2>1, <2>2
    <3>2. e \in s.looked
      BY <1>1, <1>3, <1>5, <3>1 DEF K!Ahead, K!Top
    <3>3. PICK b \in 1..last : behind[b] = e[2]
      BY <1>8, <1>19, <3>1, <3>2 DEF IsListed
    <3>. QED  BY <1>8, <1>10, <2>2, <3>3
  <2>3. CASE a # last + 1
    <3>1. a \in 1..last /\ behind[a] = e[1]
      BY <1>8, <1>10, <2>1, <2>3
    <3>2. PICK b \in 1..(a - 1) : behind[b] = e[2]
      BY <1>8, <1>11, <3>1 DEF LeftInOrder
    <3>3. b \in 1..last
      BY <1>8, <3>1
    <3>. QED  BY <1>10, <3>2, <3>3
  <2>. QED  BY <2>2, <2>3
<1>22. SearchInv(g, t)
  BY <1>13, <1>14, <1>15, <1>16, <1>17, <1>18, <1>20, <1>21 DEF SearchInv
<1>. QED  BY <1>1, <1>2, <1>3, <1>7, <1>8, <1>10, <1>13, <1>22

\* A step of the search goes on, or the search is over.
LEMMA LookKeepsInv ==
  ASSUME NEW g, Searched(g), NEW s, SearchInv(g, s), NEW t, t = K!Look(g, s)
  PROVE  /\ SearchInv(g, t)
         /\ IsOver(g, s) => t = s
         /\ ~IsOver(g, s) => Progress(t) >= Progress(s) + 1
         /\ Progress(s) \in Nat /\ Progress(t) \in Nat
<1>1. /\ s.stack \in Seq(NodesOf(g)) /\ s.left \in Seq(NodesOf(g)) /\ s.looked \subseteq g.edges
      /\ Len(s.stack) \in Nat /\ Len(s.left) \in Nat /\ s \in Search(g) /\ s.cycle \in BOOLEAN
      /\ s = [stack |-> s.stack, left |-> s.left, looked |-> s.looked, cycle |-> s.cycle]
  BY DEF SearchInv, Search
<1>2. IsFiniteSet(s.looked) /\ Cardinality(s.looked) \in Nat
  BY <1>1, FS_Subset, FS_CardinalityType DEF Searched
<1>3. Progress(s) \in Nat
  BY <1>1, <1>2 DEF Progress
<1>4. IsOver(g, s) <=> s.cycle \/ (s.stack = <<>> /\ K!Range(g.nodes) \subseteq K!Visited(s))
  BY DEF IsOver, NodesOf
<1>5. CASE IsOver(g, s)
  <2>1. t = s
    <3>1. CASE s.cycle
      <4>1. s.stack # <<>>
        BY <3>1 DEF SearchInv
      <4>. QED  BY <3>1, <4>1, Zenon DEF K!Look
    <3>2. CASE ~s.cycle
      <4>1. s.stack = <<>> /\ K!Range(g.nodes) \subseteq K!Visited(s)
        BY <1>4, <1>5, <3>2
      <4>2. K!Ahead(g, s) = {}
        BY <4>1 DEF K!Ahead
      <4>. QED  BY <3>2, <4>1, <4>2, Zenon DEF K!Look
    <3>. QED  BY <3>1, <3>2
  <2>. QED  BY <1>3, <1>5, <2>1
<1>6. CASE ~s.cycle /\ s.stack = <<>> /\ ~(K!Range(g.nodes) \subseteq K!Visited(s))
  <2>1. PICK n : n = K!Root(g, s)
    OBVIOUS
  <2>2. n \in NodesOf(g) /\ n \notin K!Visited(s)
    <3>. DEFINE New == {i \in 1..Len(g.nodes) : g.nodes[i] \notin K!Visited(s)}
    <3>1. K!Range(g.nodes) = {g.nodes[i] : i \in 1..Len(g.nodes)} /\ DOMAIN g.nodes = 1..Len(g.nodes)
          /\ Len(g.nodes) \in Nat
      BY ListIsFinite DEF Searched
    <3>2. New # {} /\ New \subseteq Nat
      BY <1>6, <3>1
    <3>3. PICK i \in New : \A j \in New : i <= j
      <4>. HIDE DEF New
      <4>. QED  BY <3>2, LeastIs
    <3>4. \A j \in 1 .. i - 1 : g.nodes[j] \in K!Visited(s)
      <4>1. ASSUME NEW j \in 1 .. i - 1, g.nodes[j] \notin K!Visited(s) PROVE FALSE
        <5>1. i \in 1..Len(g.nodes)
          BY <3>3
        <5>2. j \in 1..Len(g.nodes) /\ ~(i <= j)
          BY <3>1, <5>1
        <5>3. j \in New
          BY <4>1, <5>2
        <5>. QED  BY <3>3, <5>2, <5>3
      <4>. QED  BY <4>1
    <3>5. \E a \in DOMAIN g.nodes : g.nodes[a] \notin K!Visited(s) /\ \A j \in 1 .. a - 1 : g.nodes[j] \in K!Visited(s)
      BY <3>1, <3>3, <3>4
    <3>6. PICK a \in DOMAIN g.nodes : g.nodes[a] \notin K!Visited(s) /\ n = g.nodes[a]
      BY <2>1, <3>5, Zenon DEF K!Root
    <3>. QED  BY <3>1, <3>6 DEF NodesOf
  <2>3. t = K!Visit(s, n)
    BY <1>6, <2>1, Zenon DEF K!Look, K!Ahead
  <2>4. t = [stack |-> Append(s.stack, n), left |-> s.left, looked |-> s.looked, cycle |-> FALSE]
    BY <1>1, <1>6, <2>3 DEF K!Visit
  <2>5. SearchInv(g, t)
    BY <1>6, <2>2, <2>4, VisitKeepsInv
  <2>6. t.stack = Append(s.stack, n) /\ t.left = s.left /\ t.looked = s.looked
    BY <2>4
  <2>7. Len(t.stack) = Len(s.stack) + 1
    BY <1>1, <2>2, <2>6, AppendIs
  <2>. QED  BY <1>1, <1>2, <1>3, <1>4, <1>6, <2>5, <2>6, <2>7 DEF Progress
<1>7. CASE ~s.cycle /\ s.stack # <<>> /\ K!Ahead(g, s) # {}
  <2>1. PICK e : e = CHOOSE x \in K!Ahead(g, s) : TRUE
    OBVIOUS
  <2>2. e \in K!Ahead(g, s)
    BY <1>7, <2>1
  <2>3. /\ e \in g.edges /\ e \notin s.looked /\ e[1] = s.stack[Len(s.stack)]
        /\ e[2] \in NodesOf(g) /\ e = <<e[1], e[2]>>
    BY <2>2 DEF K!Ahead, K!Top, Searched
  <2>4. t = K!LookAt(s, e)
    BY <1>7, <2>1, Zenon DEF K!Look
  <2>5. IsFiniteSet(s.looked \cup {e}) /\ Cardinality(s.looked \cup {e}) = Cardinality(s.looked) + 1
    BY <1>2, <2>3, FS_AddElement
  <2>6. CASE e[2] \notin K!Visited(s)
    <3>1. t = [stack |-> Append(s.stack, e[2]), left |-> s.left, looked |-> s.looked \cup {e}, cycle |-> FALSE]
      BY <1>1, <1>7, <2>4, <2>6 DEF K!LookAt, K!Visit
    <3>2. <<s.stack[Len(s.stack)], e[2]>> \in g.edges
      BY <2>3
    <3>3. PICK looked : looked = s.looked \cup {e}
      OBVIOUS
    <3>4. \E x \in g.edges : /\ looked = s.looked \cup {x} /\ x[2] = e[2]
                             /\ s.stack # <<>> /\ x[1] = s.stack[Len(s.stack)]
      BY <1>7, <2>3, <3>3
    <3>5. SearchInv(g, t)
      BY <1>7, <2>3, <2>6, <3>1, <3>2, <3>3, <3>4, VisitKeepsInv
    <3>6. t.stack = Append(s.stack, e[2]) /\ t.left = s.left /\ t.looked = s.looked \cup {e}
      BY <3>1
    <3>7. Len(t.stack) = Len(s.stack) + 1
      BY <1>1, <2>3, <3>6, AppendIs
    <3>. QED  BY <1>1, <1>2, <1>3, <1>4, <1>7, <2>5, <3>5, <3>6, <3>7 DEF Progress
  <2>7. CASE e[2] \in K!Visited(s)
    <3>1. t = [stack |-> s.stack, left |-> s.left, looked |-> s.looked \cup {e},
               cycle |-> e[2] \in K!Range(s.stack)]
      BY <1>1, <2>4, <2>7 DEF K!LookAt
    <3>2. SearchInv(g, t)
      BY <1>7, <2>3, <2>7, <3>1, SeenKeepsInv
    <3>3. t.stack = s.stack /\ t.left = s.left /\ t.looked = s.looked \cup {e}
      BY <3>1
    <3>. QED  BY <1>1, <1>2, <1>3, <1>4, <1>7, <2>5, <3>2, <3>3 DEF Progress
  <2>. QED  BY <2>6, <2>7
<1>8. CASE ~s.cycle /\ s.stack # <<>> /\ K!Ahead(g, s) = {}
  <2>1. t = [s EXCEPT !.stack = SubSeq(@, 1, Len(@) - 1), !.left = Append(@, K!Top(s))]
    BY <1>8, Zenon DEF K!Look
  <2>2. t = [stack |-> SubSeq(s.stack, 1, Len(s.stack) - 1), left |-> Append(s.left, s.stack[Len(s.stack)]),
             looked |-> s.looked, cycle |-> FALSE]
    BY <1>1, <1>8, <2>1 DEF K!Top
  <2>3. SearchInv(g, t) /\ Len(t.stack) = Len(s.stack) - 1 /\ Len(t.left) = Len(s.left) + 1
    BY <1>8, <2>2, LeaveKeepsInv
  <2>4. t.looked = s.looked /\ Len(s.stack) >= 1
    BY <1>1, <1>8, <2>2
  <2>. QED  BY <1>1, <1>2, <1>3, <1>4, <1>8, <2>3, <2>4 DEF Progress
<1>. QED  BY <1>1, <1>4, <1>5, <1>6, <1>7, <1>8

\* The search goes step by step.
LEMMA SearchIs ==
  ASSUME NEW g, K!Steps(g) \in Nat
  PROVE  \E search : /\ search[0] = K!Unvisited /\ K!HasCycle(g) = search[K!Steps(g)].cycle
                     /\ \A k \in 1..K!Steps(g) : search[k] = K!Look(g, search[k - 1])
<1>. DEFINE final == K!Steps(g)
            Is(f, n) == f = [k \in 0..n |-> IF k = 0 THEN K!Unvisited ELSE K!Look(g, f[k - 1])]
            Lacking == {n \in 0..final : ~\E f : Is(f, n)}
<1>1. final \in Nat
  OBVIOUS
<1>. HIDE DEF final
<1>2. \E f : Is(f, 0)
  <2>1. Is([k \in 0..0 |-> K!Unvisited], 0)
    OBVIOUS
  <2>. QED  BY <2>1
<1>3. ASSUME NEW n \in 0..final, n > 0, NEW f, Is(f, n - 1) PROVE \E h : Is(h, n)
  <2>. DEFINE h == [k \in 0..n |-> IF k = n THEN K!Look(g, f[n - 1]) ELSE f[k]]
  <2>1. DOMAIN h = 0..n /\ h = [k \in 0..n |-> h[k]]
    OBVIOUS
  <2>2. \A k \in 0..(n - 1) : h[k] = f[k]
    BY <1>3
  <2>3. h[0] = K!Unvisited
    BY <1>1, <1>3, <2>2
  <2>4. ASSUME NEW k \in 1..n PROVE h[k] = K!Look(g, h[k - 1])
    <3>1. CASE k = n
      BY <1>1, <1>3, <2>2, <3>1
    <3>2. CASE k # n
      <4>1. k \in 0..(n - 1) /\ k # 0 /\ k - 1 \in 0..(n - 1)
        BY <1>1, <3>2
      <4>2. f[k] = K!Look(g, f[k - 1])
        BY <1>3, <4>1
      <4>. QED  BY <2>2, <4>1, <4>2
    <3>. QED  BY <3>1, <3>2
  <2>. HIDE DEF h
  <2>5. \A k \in 0..n : h[k] = IF k = 0 THEN K!Unvisited ELSE K!Look(g, h[k - 1])
    BY <1>1, <2>3, <2>4
  <2>6. Is(h, n)
    BY <2>1, <2>5
  <2>. QED  BY <2>6
<1>4. Lacking = {}
  <2>1. SUFFICES ASSUME Lacking # {} PROVE FALSE
    OBVIOUS
  <2>2. PICK n \in Lacking : \A m \in Lacking : n <= m
    <3>1. Lacking \subseteq Nat
      BY <1>1
    <3>. HIDE DEF Lacking
    <3>. QED  BY <2>1, <3>1, LeastIs
  <2>. HIDE DEF Is
  <2>3. n \in 0..final /\ n # 0 /\ ~\E f : Is(f, n)
    BY <1>2, <2>2
  <2>4. n - 1 \in 0..final /\ n - 1 \notin Lacking
    BY <1>1, <2>2, <2>3
  <2>5. PICK f : Is(f, n - 1)
    BY <2>4
  <2>. QED  BY <1>1, <1>3, <2>3, <2>5
<1>5. PICK f : Is(f, final)
  <2>. HIDE DEF Is
  <2>. QED  BY <1>1, <1>4
<1>. DEFINE search == CHOOSE h : Is(h, final)
<1>6. Is(search, final)
  <2>. HIDE DEF Is
  <2>. QED  BY <1>5
<1>7. K!HasCycle(g) = search[final].cycle
  BY DEF K!HasCycle, final
<1>. HIDE DEF search
<1>8. \A k \in 0..final : search[k] = IF k = 0 THEN K!Unvisited ELSE K!Look(g, search[k - 1])
  BY <1>6
<1>9. search[0] = K!Unvisited /\ \A k \in 1..final : search[k] = K!Look(g, search[k - 1])
  BY <1>1, <1>8
<1>. QED  BY <1>7, <1>9, Zenon DEF final

LEMMA UnvisitedHolds == ASSUME NEW g, Searched(g) PROVE SearchInv(g, K!Unvisited)
<1>1. PICK s : s = K!Unvisited
  OBVIOUS
<1>2. s.stack = <<>> /\ s.left = <<>> /\ s.looked = {} /\ s.cycle = FALSE
  BY <1>1 DEF K!Unvisited
<1>3. <<>> \in Seq(NodesOf(g)) /\ {} \in SUBSET g.edges /\ FALSE \in BOOLEAN
  OBVIOUS
<1>4. s \in Search(g)
  BY <1>1, <1>3, SearchIsOf DEF K!Unvisited
<1>5. Unrepeated(<<>>) /\ Apart(<<>>, <<>>)
  BY DEF Unrepeated, Apart
<1>6. IsPath(g, <<>>)
  <2>1. 1..(Len(<<>>) - 1) = {}
    OBVIOUS
  <2>. QED  BY <2>1 DEF IsPath
<1>7. LeftInOrder(g, <<>>) /\ LookedIsFollowed(<<>>, <<>>, {})
  BY DEF LeftInOrder, LookedIsFollowed
<1>. QED  BY <1>1, <1>2, <1>4, <1>5, <1>6, <1>7 DEF SearchInv

LEMMA SearchGoesOn ==
  ASSUME NEW g, Searched(g), NEW final \in Nat, NEW search, search[0] = K!Unvisited,
         \A k \in 1..final : search[k] = K!Look(g, search[k - 1])
  PROVE  \A k \in 0..final : /\ SearchInv(g, search[k]) /\ Progress(search[k]) \in Nat
                             /\ IsOver(g, search[k]) \/ Progress(search[k]) >= k
<1>. DEFINE Right(k) == /\ SearchInv(g, search[k]) /\ Progress(search[k]) \in Nat
                        /\ IsOver(g, search[k]) \/ Progress(search[k]) >= k
            Wrong == {k \in 0..final : ~Right(k)}
<1>1. Right(0)
  <2>1. SearchInv(g, search[0])
    BY UnvisitedHolds
  <2>2. PICK t : t = K!Look(g, search[0])
    OBVIOUS
  <2>3. Progress(search[0]) \in Nat
    BY <2>1, <2>2, LookKeepsInv
  <2>. QED  BY <2>1, <2>3
<1>2. ASSUME NEW k \in 1..final, Right(k - 1) PROVE Right(k)
  <2>1. PICK s : s = search[k - 1]
    OBVIOUS
  <2>2. PICK t : t = search[k]
    OBVIOUS
  <2>3. t = K!Look(g, s) /\ k - 1 \in Nat
    BY <2>1, <2>2
  <2>4. SearchInv(g, s) /\ (IsOver(g, s) \/ Progress(s) >= k - 1)
    BY <1>2, <2>1
  <2>5. /\ SearchInv(g, t)
        /\ IsOver(g, s) => t = s
        /\ ~IsOver(g, s) => Progress(t) >= Progress(s) + 1
        /\ Progress(s) \in Nat /\ Progress(t) \in Nat
    BY <2>3, <2>4, LookKeepsInv
  <2>6. IsOver(g, t) \/ Progress(t) >= k
    <3>1. CASE IsOver(g, s)
      BY <2>5, <3>1
    <3>2. CASE ~IsOver(g, s)
      BY <2>3, <2>4, <2>5, <3>2
    <3>. QED  BY <3>1, <3>2
  <2>. QED  BY <2>2, <2>5, <2>6
<1>. HIDE DEF Right
<1>3. Wrong = {}
  <2>1. SUFFICES ASSUME Wrong # {} PROVE FALSE
    OBVIOUS
  <2>2. PICK k \in Wrong : \A m \in Wrong : k <= m
    <3>1. Wrong \subseteq Nat
      OBVIOUS
    <3>. HIDE DEF Wrong
    <3>. QED  BY <2>1, <3>1, LeastIs
  <2>3. k \in 1..final /\ ~Right(k)
    BY <1>1, <2>2
  <2>4. k - 1 \in 0..final /\ ~(k <= k - 1)
    BY <2>3
  <2>5. Right(k - 1)
    BY <2>2, <2>4
  <2>. QED  BY <1>2, <2>3, <2>5
<1>4. \A k \in 0..final : Right(k)
  BY <1>3
<1>. QED  BY <1>4 DEF Right

\* Every node is visited and left, and every edge looked at, once.
LEMMA ProgressIsBounded ==
  ASSUME NEW g, Searched(g), NEW s, SearchInv(g, s)
  PROVE  /\ K!Steps(g) \in Nat /\ Progress(s) < K!Steps(g)
         /\ Len(s.stack) + Len(s.left) <= Len(g.nodes)
<1>1. PICK stack \in Seq(NodesOf(g)) : stack = s.stack
  BY DEF SearchInv, Search
<1>2. PICK behind \in Seq(NodesOf(g)) : behind = s.left
  BY DEF SearchInv, Search
<1>3. Unrepeated(stack) /\ Unrepeated(behind) /\ Apart(stack, behind) /\ s.looked \subseteq g.edges
  BY <1>1, <1>2 DEF SearchInv, Search
<1>4. PICK Up : Up = K!Range(stack)
  OBVIOUS
<1>5. PICK Behind : Behind = K!Range(behind)
  OBVIOUS
<1>6. IsFiniteSet(Up) /\ Cardinality(Up) = Len(stack) /\ Up \subseteq NodesOf(g)
  BY <1>3, <1>4, ListIsFinite DEF Unrepeated
<1>7. IsFiniteSet(Behind) /\ Cardinality(Behind) = Len(behind) /\ Behind \subseteq NodesOf(g)
  BY <1>3, <1>5, ListIsFinite DEF Unrepeated
<1>8. Up \cap Behind = {}
  <2>1. Up = {stack[i] : i \in 1..Len(stack)}
    BY <1>4, ListIsFinite
  <2>2. Behind = {behind[i] : i \in 1..Len(behind)}
    BY <1>5, ListIsFinite
  <2>. QED  BY <1>3, <2>1, <2>2 DEF Apart
<1>9. IsFiniteSet(NodesOf(g)) /\ Cardinality(NodesOf(g)) \in 0..Len(g.nodes) /\ Len(g.nodes) \in Nat
  BY ListIsFinite DEF Searched, NodesOf
<1>10. Cardinality(Up \cup Behind) = Len(stack) + Len(behind)
  <2>1. Cardinality(Up \cup Behind) = Cardinality(Up) + Cardinality(Behind) - Cardinality(Up \cap Behind)
    BY <1>6, <1>7, FS_Union
  <2>2. Cardinality(Up \cap Behind) = 0
    BY <1>8, FS_EmptySet
  <2>3. PICK a \in Nat : a = Len(stack)
    OBVIOUS
  <2>4. PICK b \in Nat : b = Len(behind)
    OBVIOUS
  <2>5. Cardinality(Up) = a /\ Cardinality(Behind) = b
    BY <1>6, <1>7, <2>3, <2>4, Zenon
  <2>. QED  BY <2>1, <2>2, <2>3, <2>4, <2>5
<1>11. Cardinality(Up \cup Behind) <= Cardinality(NodesOf(g))
  <2>1. Up \cup Behind \in SUBSET NodesOf(g)
    BY <1>6, <1>7
  <2>. QED  BY <1>9, <2>1, FS_Subset
<1>12. /\ Cardinality(s.looked) <= Cardinality(g.edges)
       /\ Cardinality(s.looked) \in Nat /\ Cardinality(g.edges) \in Nat
  <2>1. IsFiniteSet(g.edges) /\ s.looked \in SUBSET g.edges
    BY <1>3 DEF Searched
  <2>. QED  BY <2>1, FS_Subset, FS_CardinalityType
<1>13. K!Steps(g) = 2 * Len(g.nodes) + Cardinality(g.edges) + 1
  BY SkillsCountIs DEF K!Steps
<1>14. Progress(s) = Cardinality(s.looked) + Len(stack) + 2 * Len(behind)
  BY <1>1, <1>2 DEF Progress
<1>15. PICK a \in Nat : a = Len(stack)
  OBVIOUS
<1>16. PICK b \in Nat : b = Len(behind)
  OBVIOUS
<1>17. PICK c \in Nat : c = Len(g.nodes)
  BY <1>9
<1>18. a + b <= c
  BY <1>9, <1>10, <1>11, <1>15, <1>16, <1>17
<1>19. PICK d \in Nat : d = Cardinality(s.looked)
  BY <1>12
<1>20. PICK e \in Nat : e = Cardinality(g.edges)
  BY <1>12
<1>21. d <= e /\ K!Steps(g) = 2 * c + e + 1 /\ Progress(s) = d + a + 2 * b
  BY <1>12, <1>13, <1>14, <1>15, <1>16, <1>17, <1>19, <1>20
<1>22. K!Steps(g) \in Nat /\ Progress(s) < K!Steps(g)
  BY <1>18, <1>21
<1>. QED  BY <1>1, <1>2, <1>15, <1>16, <1>17, <1>18, <1>22

\* When no edge led back into the stack, the nodes are in order in the reverse of what was left.
LEMMA OverIsOrdered ==
  ASSUME NEW g, Searched(g), NEW s, SearchInv(g, s), IsOver(g, s), ~s.cycle
  PROVE  \E place \in K!Injection(NodesOf(g), DOMAIN g.nodes) :
            \A e \in g.edges : {e[1], e[2]} \subseteq NodesOf(g) /\ place[e[1]] < place[e[2]]
<1>1. PICK behind \in Seq(NodesOf(g)) : behind = s.left
  BY DEF SearchInv, Search
<1>2. Unrepeated(behind) /\ LeftInOrder(g, behind) /\ s \in Search(g)
  BY <1>1 DEF SearchInv
<1>3. s.stack = <<>> /\ NodesOf(g) \subseteq K!Visited(s)
  BY DEF IsOver
<1>4. PICK c \in Nat : c = Len(behind)
  OBVIOUS
<1>5. PICK n \in Nat : n = Len(g.nodes)
  BY DEF Searched
<1>6. c <= n
  <2>1. Len(s.stack) + Len(s.left) <= Len(g.nodes)
    BY ProgressIsBounded
  <2>2. Len(s.stack) = 0
    BY <1>3
  <2>. QED  BY <1>1, <1>4, <1>5, <2>1, <2>2
<1>7. DOMAIN g.nodes = 1..n
  BY <1>5 DEF Searched
<1>8. \A x \in NodesOf(g) : \E i \in 1..c : behind[i] = x
  <2>1. TAKE x \in NodesOf(g)
  <2>2. IsListed(s.stack, x) \/ IsListed(s.left, x)
    BY <1>2, <1>3, VisitedIs
  <2>3. ~IsListed(<<>>, x)
    BY DEF IsListed
  <2>. QED  BY <1>1, <1>3, <1>4, <2>2, <2>3 DEF IsListed
<1>9. \A i, j \in 1..c : behind[i] = behind[j] => i = j
  BY <1>2, <1>4 DEF Unrepeated
<1>. DEFINE At(x) == CHOOSE i \in 1..c : behind[i] = x
            place == [x \in NodesOf(g) |-> c + 1 - At(x)]
<1>10. \A x \in NodesOf(g) : At(x) \in 1..c /\ behind[At(x)] = x
  BY <1>8
<1>. HIDE DEF At
<1>11. \A x \in NodesOf(g) : place[x] \in 1..n /\ place[x] = c + 1 - At(x)
  BY <1>6, <1>10
<1>12. place \in [NodesOf(g) -> 1..n]
  BY <1>11
<1>13. ASSUME NEW x \in NodesOf(g), NEW y \in NodesOf(g), place[x] = place[y] PROVE x = y
  <2>1. At(x) = At(y)
    BY <1>10, <1>11, <1>13
  <2>. QED  BY <1>10, <2>1
<1>14. ASSUME NEW e \in g.edges PROVE {e[1], e[2]} \subseteq NodesOf(g) /\ place[e[1]] < place[e[2]]
  <2>1. e[1] \in NodesOf(g) /\ e[2] \in NodesOf(g)
    BY DEF Searched
  <2>2. At(e[1]) \in 1..c /\ behind[At(e[1])] = e[1]
    BY <1>10, <2>1
  <2>3. PICK b \in 1..(At(e[1]) - 1) : behind[b] = e[2]
    BY <1>2, <1>4, <2>2 DEF LeftInOrder
  <2>4. b \in 1..c
    BY <2>2, <2>3
  <2>5. b = At(e[2])
    BY <1>9, <1>10, <2>1, <2>3, <2>4
  <2>6. place[e[1]] = c + 1 - At(e[1]) /\ place[e[2]] = c + 1 - b
    BY <1>11, <2>1, <2>5
  <2>. QED  BY <2>1, <2>2, <2>3, <2>6
<1>15. place \in K!Injection(NodesOf(g), DOMAIN g.nodes)
  <2>. HIDE DEF place
  <2>1. DOMAIN place = NodesOf(g)
    BY <1>12
  <2>2. K!IsInjective(place)
    BY <1>13, <2>1 DEF K!IsInjective
  <2>. QED  BY <1>7, <1>12, <2>2 DEF K!Injection
<1>. HIDE DEF place
<1>. QED  BY <1>14, <1>15

\* The nodes of a cycle have no order in which every edge leads on.
LEMMA LoopHasNoOrder ==
  ASSUME NEW g, Loop(g), NEW place, \A x \in NodesOf(g) : place[x] \in Nat
  PROVE  \E e \in g.edges : ~(place[e[1]] < place[e[2]])
<1>1. SUFFICES ASSUME \A e \in g.edges : place[e[1]] < place[e[2]] PROVE FALSE
  OBVIOUS
<1>0. PICK m \in Nat \ {0} :
         \E path \in [1..m -> NodesOf(g)] :
            /\ <<path[m], path[1]>> \in g.edges
            /\ \A i \in 1..(m - 1) : <<path[i], path[i + 1]>> \in g.edges
  BY DEF Loop
<1>2. PICK path \in [1..m -> NodesOf(g)] :
         /\ <<path[m], path[1]>> \in g.edges
         /\ \A i \in 1..(m - 1) : <<path[i], path[i + 1]>> \in g.edges
  BY <1>0
<1>. DEFINE Places == {place[path[i]] : i \in 1..m}
<1>3. Places \subseteq Nat /\ Places # {}
  <2>1. \A i \in 1..m : place[path[i]] \in Nat
    OBVIOUS
  <2>2. 1 \in 1..m
    OBVIOUS
  <2>. QED  BY <2>1, <2>2
<1>4. PICK p \in Places : \A q \in Places : p <= q
  <2>. HIDE DEF Places
  <2>. QED  BY <1>3, LeastIs
<1>5. PICK i \in 1..m : p = place[path[i]]
  OBVIOUS
\* The node before it in the cycle has a smaller place.
<1>6. \E j \in 1..m : <<path[j], path[i]>> \in g.edges
  <2>1. CASE i = 1
    <3>1. m \in 1..m
      OBVIOUS
    <3>. QED  BY <1>2, <2>1, <3>1
  <2>2. CASE i # 1
    <3>1. i - 1 \in 1..m /\ i - 1 \in 1..(m - 1) /\ (i - 1) + 1 = i
      BY <2>2
    <3>2. <<path[i - 1], path[(i - 1) + 1]>> \in g.edges
      BY <1>2, <3>1
    <3>. QED  BY <3>1, <3>2
  <2>. QED  BY <2>1, <2>2
<1>7. PICK j \in 1..m : <<path[j], path[i]>> \in g.edges
  BY <1>6
<1>8. place[path[j]] < place[path[i]]
  BY <1>1, <1>7
<1>9. place[path[j]] \in Places /\ place[path[j]] \in Nat /\ p \in Nat
  BY <1>3
<1>10. p <= place[path[j]]
  BY <1>4, <1>9
<1>. QED  BY <1>5, <1>8, <1>9, <1>10

LEMMA CycleIsFound ==
  ASSUME NEW g, Searched(g)
  PROVE  /\ K!HasCycle(g) \in BOOLEAN
         /\ ~K!HasCycle(g) <=>
               \E place \in K!Injection(NodesOf(g), DOMAIN g.nodes) :
                  \A e \in g.edges : {e[1], e[2]} \subseteq NodesOf(g) /\ place[e[1]] < place[e[2]]
<1>1. K!Steps(g) \in Nat
  BY UnvisitedHolds, ProgressIsBounded
<1>2. PICK search : /\ search[0] = K!Unvisited /\ K!HasCycle(g) = search[K!Steps(g)].cycle
                    /\ \A k \in 1..K!Steps(g) : search[k] = K!Look(g, search[k - 1])
  BY <1>1, SearchIs
<1>3. PICK s : s = search[K!Steps(g)]
  OBVIOUS
<1>4. K!Steps(g) \in 0..K!Steps(g)
  BY <1>1
<1>5. SearchInv(g, s) /\ Progress(s) \in Nat /\ (IsOver(g, s) \/ Progress(s) >= K!Steps(g))
  BY <1>1, <1>2, <1>3, <1>4, SearchGoesOn
<1>6. IsOver(g, s)
  <2>1. Progress(s) < K!Steps(g)
    BY <1>5, ProgressIsBounded
  <2>. QED  BY <1>1, <1>5, <2>1
<1>7. K!HasCycle(g) = s.cycle /\ s.cycle \in BOOLEAN
  BY <1>2, <1>3, <1>5 DEF SearchInv, Search
<1>8. CASE ~s.cycle
  BY <1>5, <1>6, <1>7, <1>8, OverIsOrdered
<1>9. CASE s.cycle
  <2>1. SUFFICES ASSUME NEW place \in K!Injection(NodesOf(g), DOMAIN g.nodes),
                        \A e \in g.edges : {e[1], e[2]} \subseteq NodesOf(g) /\ place[e[1]] < place[e[2]]
                 PROVE  FALSE
    BY <1>7, <1>9
  <2>2. DOMAIN g.nodes \subseteq Nat
    BY DEF Searched
  <2>3. \A x \in NodesOf(g) : place[x] \in Nat
    BY <2>2 DEF K!Injection
  <2>4. Loop(g)
    BY <1>5, <1>9 DEF SearchInv
  <2>. QED  BY <2>1, <2>3, <2>4, LoopHasNoOrder
<1>. QED  BY <1>7, <1>8, <1>9

\* Exactly one node is an orchestrator.
LEMMA OneOrchestratorIs ==
  ASSUME NEW g, g.nodes \in Seq(DOMAIN NodeType),
         \A i, j \in 1..Len(g.nodes) : g.nodes[i] = g.nodes[j] => i = j
  PROVE  K!OneOrchestrator(g) <=>
            \E n \in NodesOf(g) : /\ NodeType[n] = "orchestrator"
                                  /\ \A m \in NodesOf(g) \ {n} : NodeType[m] # "orchestrator"
<1>. DEFINE Those == {i \in DOMAIN g.nodes : NodeType[g.nodes[i]] = "orchestrator"}
<1>1. PICK c \in Nat : c = Len(g.nodes)
  OBVIOUS
<1>2. DOMAIN g.nodes = 1..c
  BY <1>1
<1>3. NodesOf(g) = {g.nodes[i] : i \in 1..c}
  BY <1>1, ListIsFinite DEF NodesOf
<1>4. \A i, j \in 1..c : g.nodes[i] = g.nodes[j] => i = j
  BY <1>1
<1>5. IsFiniteSet(Those)
  <2>1. IsFiniteSet(1..c)
    BY FS_Interval
  <2>2. Those \in SUBSET (1..c)
    BY <1>2
  <2>. HIDE DEF Those
  <2>. QED  BY <2>1, <2>2, FS_Subset
<1>6. K!OneOrchestrator(g) <=> \E x : Those = {x}
  <2>1. K!OneOrchestrator(g) <=> Cardinality(Those) = 1
    BY SkillsCountIs DEF K!OneOrchestrator
  <2>. HIDE DEF Those
  <2>. QED  BY <1>5, <2>1, FS_Singleton
<1>7. \A i \in 1..c : i \in Those <=> NodeType[g.nodes[i]] = "orchestrator"
  BY <1>2
<1>8. Those \subseteq 1..c
  BY <1>2
<1>. HIDE DEF Those
<1>9. ASSUME NEW x, Those = {x}
      PROVE  \E n \in NodesOf(g) : /\ NodeType[n] = "orchestrator"
                                   /\ \A m \in NodesOf(g) \ {n} : NodeType[m] # "orchestrator"
  <2>1. x \in 1..c /\ NodeType[g.nodes[x]] = "orchestrator"
    BY <1>7, <1>8, <1>9
  <2>2. g.nodes[x] \in NodesOf(g)
    BY <1>3, <2>1
  <2>3. ASSUME NEW m \in NodesOf(g) \ {g.nodes[x]} PROVE NodeType[m] # "orchestrator"
    <3>1. PICK i \in 1..c : m = g.nodes[i]
      BY <1>3
    <3>2. i # x
      BY <3>1
    <3>. QED  BY <1>7, <1>9, <3>1, <3>2
  <2>. QED  BY <2>1, <2>2, <2>3
<1>10. ASSUME NEW n \in NodesOf(g), NodeType[n] = "orchestrator",
              \A m \in NodesOf(g) \ {n} : NodeType[m] # "orchestrator"
       PROVE  \E x : Those = {x}
  <2>1. PICK x \in 1..c : n = g.nodes[x]
    BY <1>3
  <2>2. x \in Those
    BY <1>7, <1>10, <2>1
  <2>3. ASSUME NEW i \in Those PROVE i = x
    <3>1. i \in 1..c /\ NodeType[g.nodes[i]] = "orchestrator"
      BY <1>7, <1>8
    <3>2. g.nodes[i] \in NodesOf(g)
      BY <1>3, <3>1
    <3>3. g.nodes[i] = n
      BY <1>10, <3>1, <3>2
    <3>. QED  BY <1>4, <2>1, <3>1, <3>3
  <2>4. Those = {x}
    BY <2>2, <2>3
  <2>. QED  BY <2>4
<1>. QED  BY <1>6, <1>9, <1>10

\* The check of a graph lets through those that can be executed in order, and no others.
LEMMA ValidIsSensible ==
  ASSUME K!SkillsConstants, NEW g \in Offers
  PROVE  K!Valid(g) <=> K!Sensible(g)
<1>1. /\ g.nodes \in Seq(DOMAIN NodeType) /\ IsFiniteSet(g.edges)
      /\ g.edges \subseteq (DOMAIN NodeType) \X (DOMAIN NodeType)
  BY SkillsCountIs DEF K!SkillsConstants, K!Graph
<1>2. PICK c \in Nat : c = Len(g.nodes)
  BY <1>1
<1>3. DOMAIN g.nodes = 1..c
  BY <1>1, <1>2
<1>. DEFINE Once == \A i, j \in 1..c : g.nodes[i] = g.nodes[j] => i = j
            Inside == g.edges \subseteq NodesOf(g) \X NodesOf(g)
            One == \E n \in NodesOf(g) : /\ NodeType[n] = "orchestrator"
                                         /\ \A m \in NodesOf(g) \ {n} : NodeType[m] # "orchestrator"
            InOrder == \E place \in K!Injection(NodesOf(g), DOMAIN g.nodes) :
                          \A e \in g.edges : {e[1], e[2]} \subseteq NodesOf(g) /\ place[e[1]] < place[e[2]]
<1>4. K!Sensible(g) <=> One /\ InOrder /\ Once
  BY <1>3, Zenon DEF K!Sensible, NodesOf
<1>5. K!Valid(g) <=> g.nodes # <<>> /\ Once /\ Inside /\ K!OneOrchestrator(g) /\ ~K!HasCycle(g)
  <2>1. K!IsInjective(g.nodes) <=> Once
    BY <1>3, Zenon DEF K!IsInjective
  <2>. HIDE DEF Once
  <2>. QED  BY <2>1, Zenon DEF K!Valid, NodesOf
<1>6. InOrder => Inside
  <2>1. SUFFICES ASSUME InOrder, NEW e \in g.edges PROVE e \in NodesOf(g) \X NodesOf(g)
    OBVIOUS
  <2>2. e[1] \in NodesOf(g) /\ e[2] \in NodesOf(g)
    BY <2>1
  <2>3. e = <<e[1], e[2]>>
    BY <1>1
  <2>. QED  BY <2>2, <2>3
<1>7. One => g.nodes # <<>>
  <2>1. NodesOf(g) = {g.nodes[i] : i \in 1..c}
    BY <1>1, <1>2, ListIsFinite DEF NodesOf
  <2>2. g.nodes = <<>> => c = 0
    BY <1>2
  <2>. QED  BY <2>1, <2>2
<1>8. Once => (K!OneOrchestrator(g) <=> One)
  BY <1>1, <1>2, OneOrchestratorIs
<1>9. Once /\ Inside => (~K!HasCycle(g) <=> InOrder)
  <2>1. SUFFICES ASSUME Once, Inside PROVE ~K!HasCycle(g) <=> InOrder
    OBVIOUS
  <2>2. Searched(g)
    BY <1>1, <1>2, <2>1 DEF Searched
  <2>. QED  BY <2>2, CycleIsFound
<1>. HIDE DEF Once, Inside, One, InOrder
<1>. QED  BY <1>4, <1>5, <1>6, <1>7, <1>8, <1>9

LEMMA SubmitKeepsInv ==
  ASSUME K!SkillsConstants, SkillsInv, NEW g \in Offers, K!Submit(g)
  PROVE  SkillsInv'
<1>1. K!Valid(g) <=> K!Sensible(g)
  BY ValidIsSensible
<1>2. K!Valid(g) \in BOOLEAN /\ K!Sensible(g) \in BOOLEAN
  BY DEF K!Valid, K!Sensible
<1>3. misjudged' = FALSE /\ UNCHANGED <<graph, skillRuns, plans, feed, analytics>>
  BY <1>1, <1>2 DEF K!Submit, SkillsInv
<1>. QED  BY <1>3 DEF SkillsInv, SkillRunInv, RaisedOf, Told, Known, ToldOf, AllDone, K!Nodes, K!EndedIn

LEMMA SkillsInit ==
  ASSUME K!SkillsConstants, K!RunsInit
  PROVE  SkillsInv
<1>1. /\ graph \in Kept /\ misjudged = FALSE
      /\ skillRuns = [r \in Execution |-> None] /\ plans = [r \in Execution |-> None]
      /\ feed = [r \in Execution |-> <<>>] /\ analytics = [total |-> 0, successful |-> 0, failed |-> 0]
  BY DEF K!RunsInit
<1>2. RaisedOf = {}
  BY <1>1 DEF RaisedOf
<1>3. Cardinality(RaisedOf) = 0
  BY <1>2, FS_EmptySet
<1>4. /\ analytics \in [total : Nat, successful : Nat, failed : Nat]
      /\ analytics.total = analytics.failed + analytics.successful /\ analytics.failed = 0
  BY <1>1
<1>5. \A r \in Execution : SkillRunInv(r)
  <2>1. TAKE r \in Execution
  <2>2. feed[r] = <<>> /\ skillRuns[r] = None /\ plans[r] = None
    BY <1>1
  <2>3. <<>> \in Told /\ Rises(<<>>)
    <3>1. 2..Len(<<>>) = {}
      OBVIOUS
    <3>. QED  BY <3>1 DEF Told, Rises
  <2>. QED  BY <2>2, <2>3 DEF SkillRunInv, ToldOf
<1>. QED  BY <1>1, <1>3, <1>4, <1>5 DEF SkillsInv

LEMMA SkillsStep ==
  ASSUME K!SkillsConstants, SkillsInv, [K!RunsNext]_(K!executions)
  PROVE  SkillsInv'
<1>1. CASE UNCHANGED K!executions
  <2>1. UNCHANGED <<graph, skillRuns, plans, feed, analytics, misjudged>>
    BY <1>1 DEF K!executions
  <2>. QED  BY <2>1 DEF SkillsInv, SkillRunInv, RaisedOf, Told, Known, ToldOf, AllDone, K!Nodes, K!EndedIn
<1>2. ASSUME NEW g \in Offers, K!Submit(g) PROVE SkillsInv'
  BY <1>2, SubmitKeepsInv
<1>3. ASSUME NEW r \in Execution, K!Execute(r) PROVE SkillsInv'
  BY <1>3, ExecuteKeepsInv
<1>4. ASSUME NEW r \in Execution, K!Begin(r) PROVE SkillsInv'
  BY <1>4, BeginKeepsInv
<1>5. ASSUME NEW r \in Execution, K!DeletePlan(r) PROVE SkillsInv'
  BY <1>5, DeletePlanKeepsInv
<1>6. ASSUME NEW r \in Execution, NEW s \in K!Ended, K!NodeEnds(r, s) PROVE SkillsInv'
  BY <1>6, NodeEndsKeepsInv
<1>7. CASE K!Die
  BY <1>7, DieKeepsInv
<1>. QED  BY <1>1, <1>2, <1>3, <1>4, <1>5, <1>6, <1>7 DEF K!RunsNext

\* What the invariant says of an execution is what clients are promised.
LEMMA SkillsInvTells ==
  ASSUME K!SkillsConstants, SkillsInv
  PROVE  K!TypeOK /\ K!SkillRunsAreReported
<1>1. /\ graph \in Kept /\ misjudged = FALSE
      /\ analytics \in [total : Nat, successful : Nat, failed : Nat]
      /\ analytics.total = analytics.failed + analytics.successful
      /\ analytics.failed = Cardinality(RaisedOf)
      /\ \A r \in Execution : SkillRunInv(r)
  BY DEF SkillsInv
<1>2. ASSUME NEW r \in Execution, NEW i \in 1..Len(feed[r])
      PROVE  feed[r][i] \in {"running", "completed", "error"} \X (0..Len(graph.nodes))
  <2>1. PICK Kinds : Kinds = {"running", "completed", "error"} \X Known
    OBVIOUS
  <2>2. feed[r] \in Seq(Kinds)
    BY <1>1, <2>1 DEF SkillRunInv, Told
  <2>3. feed[r][i] \in Kinds
    BY <2>2
  <2>. QED  BY <2>1, <2>3 DEF Known
<1>3. K!TypeOK
  <2>1. \A r \in Execution : /\ skillRuns[r] # None => skillRuns[r] \in K!Stages(graph)
                             /\ plans[r] # None => plans[r] \in K!Copies(graph)
    BY <1>1 DEF SkillRunInv
  <2>2. misjudged \in BOOLEAN
    BY <1>1
  <2>. QED  BY <1>1, <1>2, <2>1, <2>2, Zenon DEF K!TypeOK
<1>4. ASSUME NEW r \in Execution
      PROVE  \A i \in 2..Len(feed[r]) :
                /\ feed[r][i - 1][1] = "running"
                /\ feed[r][i][1] = "running" => feed[r][i - 1][2] <= feed[r][i][2]
  <2>1. Rises(feed[r])
    BY <1>1 DEF SkillRunInv
  <2>. QED  BY <2>1, Zenon DEF Rises, Going
<1>5. ASSUME NEW r \in Execution, skillRuns[r] # None, skillRuns[r].at = "over"
      PROVE  /\ ~(feed[r][Len(feed[r])][1] = "running")
             /\ feed[r][Len(feed[r])][1] = "completed"
                <=> ~skillRuns[r].raised /\ \A n \in K!Nodes : skillRuns[r].copy[n] = "done"
  <2>1. ToldOf(feed[r], skillRuns[r])
    BY <1>1 DEF SkillRunInv
  <2>2. /\ ~Going(feed[r][Len(feed[r])])
        /\ feed[r][Len(feed[r])][1] = "completed" <=> ~skillRuns[r].raised /\ AllDone(skillRuns[r].copy)
    BY <1>5, <2>1 DEF ToldOf
  <2>. QED  BY <2>2, Zenon DEF Going, AllDone
<1>6. analytics.failed = K!Cardinality({r \in Execution :
         skillRuns[r] # None /\ skillRuns[r].at = "over" /\ skillRuns[r].raised})
  BY <1>1, SkillsCountIs DEF RaisedOf
<1>7. K!SkillRunsAreReported
  BY <1>1, <1>4, <1>5, <1>6, Zenon DEF K!SkillRunsAreReported
<1>. QED  BY <1>3, <1>7

\* Of every execution of a skill: progress never falls while it runs, its end is told
\* once, last, and as a success exactly when all of its nodes are done; analytics count
\* those that raised; and a graph is let through exactly when its nodes can be put in an
\* order in which every edge leads on, whatever the graph.
THEOREM SkillRunsHold ==
  K!SkillsConstants /\ K!RunsInit /\ [][K!RunsNext]_(K!executions)
     => [](K!TypeOK /\ K!SkillRunsAreReported)
<1>. SUFFICES ASSUME K!SkillsConstants
              PROVE  K!RunsInit /\ [][K!RunsNext]_(K!executions)
                        => [](K!TypeOK /\ K!SkillRunsAreReported)
  OBVIOUS
<1>1. K!RunsInit => SkillsInv
  BY SkillsInit
<1>2. SkillsInv /\ [K!RunsNext]_(K!executions) => SkillsInv'
  BY SkillsStep
<1>3. SkillsInv => K!TypeOK /\ K!SkillRunsAreReported
  BY SkillsInvTells
<1>. QED  BY <1>1, <1>2, <1>3, PTL

----------------------------------------------------------------------------
(* The services beside each other: a step of one leaves the others alone.   *)

\* A step is one of the service that moves.
LEMMA OneMoves ==
  ASSUME MCNext
  PROVE  \/ (Only("threats") /\ H!Next)
         \/ (Only("selection") /\ S!Next)
         \/ (Only("license") /\ B!LicenseNext)
         \/ (Only("life") /\ F!Next)
         \/ (Only("logins") /\ L!Next)
         \/ (Only("traces") /\ T!TracesNext)
         \/ (Only("sessions") /\ B!SessionsNext)
         \/ (Only("agents") /\ G!Next)
         \/ (Only("conversations") /\ C!Next)
         \/ (Only("tools") /\ R!Next)
         \/ (Only("admission") /\ M!Next)
         \/ (Only("rotation") /\ Q!Next)
         \/ (Only("health") /\ T!HealthNext)
         \/ (Only("skills") /\ K!RunsNext)
         \/ (Only("assessment") /\ E!Next)
BY Zenon DEF MCNext, ThreatsMove, SelectionMoves, LicenseMoves, LifeMoves, LoginsMove,
             TracesMove, SessionsMove, AgentsMove, ConversationsMove, ToolsMove,
             AdmissionMoves, RotationMoves, HealthMoves, SkillsMove, AssessmentMoves

LEMMA ThreatsAreBeside == MCSpec => H!Spec
<1>1. MCInit => H!Init
  BY Zenon DEF MCInit
<1>2. [MCNext]_<<service, varsH, varsS, varsB, varsF, varsL, varsT, varsA, varsG, varsC, varsR,
                varsM, varsQ, varsW, varsK, varsE>>
        => [H!Next]_(H!vars)
  <2>1. UNCHANGED varsH => UNCHANGED H!vars
    BY Zenon DEF varsH, H!vars
  <2>2. UNCHANGED <<service, varsH, varsS, varsB, varsF, varsL, varsT, varsA, varsG, varsC, varsR,
                    varsM, varsQ, varsW, varsK, varsE>>
          => UNCHANGED varsH
    BY Zenon
  <2>3. ASSUME NEW s \in Service \ {"threats"}, Only(s) PROVE UNCHANGED varsH
    BY <2>3 DEF Only, Service
  <2>4. Service \ {"threats"} = {"selection", "license", "life", "logins", "traces",
          "sessions", "agents", "conversations", "tools", "admission", "rotation", "health",
          "skills", "assessment"}
    BY DEF Service
  <2>5. ASSUME MCNext PROVE H!Next \/ UNCHANGED varsH
    BY Zenon, <2>3, <2>4, <2>5, OneMoves
  <2>. QED  BY Zenon, <2>1, <2>2, <2>5
<1>. QED  BY <1>1, <1>2, PTL DEF MCSpec, H!Spec

LEMMA SelectionIsBeside == MCSpec => S!Spec
<1>1. MCInit => S!Init
  BY Zenon DEF MCInit
<1>2. [MCNext]_<<service, varsH, varsS, varsB, varsF, varsL, varsT, varsA, varsG, varsC, varsR,
                varsM, varsQ, varsW, varsK, varsE>>
        => [S!Next]_(S!vars)
  <2>1. UNCHANGED varsS => UNCHANGED S!vars
    BY Zenon DEF varsS, S!vars
  <2>2. UNCHANGED <<service, varsH, varsS, varsB, varsF, varsL, varsT, varsA, varsG, varsC, varsR,
                    varsM, varsQ, varsW, varsK, varsE>>
          => UNCHANGED varsS
    BY Zenon
  <2>3. ASSUME NEW s \in Service \ {"selection"}, Only(s) PROVE UNCHANGED varsS
    BY <2>3 DEF Only, Service
  <2>4. Service \ {"selection"} = {"threats", "license", "life", "logins", "traces",
          "sessions", "agents", "conversations", "tools", "admission", "rotation", "health",
          "skills", "assessment"}
    BY DEF Service
  <2>5. ASSUME MCNext PROVE S!Next \/ UNCHANGED varsS
    BY Zenon, <2>3, <2>4, <2>5, OneMoves
  <2>. QED  BY Zenon, <2>1, <2>2, <2>5
<1>. QED  BY <1>1, <1>2, PTL DEF MCSpec, S!Spec

LEMMA LicenseIsBeside == MCSpec => B!LicenseSpec
<1>1. MCInit => B!LicenseInit
  BY Zenon DEF MCInit
<1>2. [MCNext]_<<service, varsH, varsS, varsB, varsF, varsL, varsT, varsA, varsG, varsC, varsR,
                varsM, varsQ, varsW, varsK, varsE>>
        => [B!LicenseNext]_(B!licenseVars)
  <2>1. UNCHANGED varsB => UNCHANGED B!licenseVars
    BY Zenon DEF varsB, B!licenseVars
  <2>2. UNCHANGED <<service, varsH, varsS, varsB, varsF, varsL, varsT, varsA, varsG, varsC, varsR,
                    varsM, varsQ, varsW, varsK, varsE>>
          => UNCHANGED varsB
    BY Zenon
  <2>3. ASSUME NEW s \in Service \ {"license"}, Only(s) PROVE UNCHANGED varsB
    BY <2>3 DEF Only, Service
  <2>4. Service \ {"license"} = {"threats", "selection", "life", "logins", "traces",
          "sessions", "agents", "conversations", "tools", "admission", "rotation", "health",
          "skills", "assessment"}
    BY DEF Service
  <2>5. ASSUME MCNext PROVE B!LicenseNext \/ UNCHANGED varsB
    BY Zenon, <2>3, <2>4, <2>5, OneMoves
  <2>. QED  BY Zenon, <2>1, <2>2, <2>5
<1>. QED  BY <1>1, <1>2, PTL DEF MCSpec, B!LicenseSpec

LEMMA LifeIsBeside == MCSpec => F!Spec
<1>1. MCInit => F!Init
  BY Zenon DEF MCInit
<1>2. [MCNext]_<<service, varsH, varsS, varsB, varsF, varsL, varsT, varsA, varsG, varsC, varsR,
                varsM, varsQ, varsW, varsK, varsE>>
        => [F!Next]_(F!vars)
  <2>1. UNCHANGED varsF => UNCHANGED F!vars
    BY Zenon DEF varsF, F!vars
  <2>2. UNCHANGED <<service, varsH, varsS, varsB, varsF, varsL, varsT, varsA, varsG, varsC, varsR,
                    varsM, varsQ, varsW, varsK, varsE>>
          => UNCHANGED varsF
    BY Zenon
  <2>3. ASSUME NEW s \in Service \ {"life"}, Only(s) PROVE UNCHANGED varsF
    BY <2>3 DEF Only, Service
  <2>4. Service \ {"life"} = {"threats", "selection", "license", "logins", "traces",
          "sessions", "agents", "conversations", "tools", "admission", "rotation", "health",
          "skills", "assessment"}
    BY DEF Service
  <2>5. ASSUME MCNext PROVE F!Next \/ UNCHANGED varsF
    BY Zenon, <2>3, <2>4, <2>5, OneMoves
  <2>. QED  BY Zenon, <2>1, <2>2, <2>5
<1>. QED  BY <1>1, <1>2, PTL DEF MCSpec, F!Spec

LEMMA LoginsAreBeside == MCSpec => L!Spec
<1>1. MCInit => L!Init
  BY Zenon DEF MCInit
<1>2. [MCNext]_<<service, varsH, varsS, varsB, varsF, varsL, varsT, varsA, varsG, varsC, varsR,
                varsM, varsQ, varsW, varsK, varsE>>
        => [L!Next]_(L!vars)
  <2>1. UNCHANGED varsL => UNCHANGED L!vars
    BY Zenon DEF varsL, L!vars
  <2>2. UNCHANGED <<service, varsH, varsS, varsB, varsF, varsL, varsT, varsA, varsG, varsC, varsR,
                    varsM, varsQ, varsW, varsK, varsE>>
          => UNCHANGED varsL
    BY Zenon
  <2>3. ASSUME NEW s \in Service \ {"logins"}, Only(s) PROVE UNCHANGED varsL
    BY <2>3 DEF Only, Service
  <2>4. Service \ {"logins"} = {"threats", "selection", "license", "life", "traces",
          "sessions", "agents", "conversations", "tools", "admission", "rotation", "health",
          "skills", "assessment"}
    BY DEF Service
  <2>5. ASSUME MCNext PROVE L!Next \/ UNCHANGED varsL
    BY Zenon, <2>3, <2>4, <2>5, OneMoves
  <2>. QED  BY Zenon, <2>1, <2>2, <2>5
<1>. QED  BY <1>1, <1>2, PTL DEF MCSpec, L!Spec

LEMMA TracesAreBeside == MCSpec => T!TracesInit /\ [][T!TracesNext]_(T!traces)
<1>1. MCInit => T!TracesInit
  BY Zenon DEF MCInit
<1>2. [MCNext]_<<service, varsH, varsS, varsB, varsF, varsL, varsT, varsA, varsG, varsC, varsR,
                varsM, varsQ, varsW, varsK, varsE>>
        => [T!TracesNext]_(T!traces)
  <2>1. UNCHANGED varsT => UNCHANGED T!traces
    BY Zenon DEF varsT, T!traces
  <2>2. UNCHANGED <<service, varsH, varsS, varsB, varsF, varsL, varsT, varsA, varsG, varsC, varsR,
                    varsM, varsQ, varsW, varsK, varsE>>
          => UNCHANGED varsT
    BY Zenon
  <2>3. ASSUME NEW s \in Service \ {"traces"}, Only(s) PROVE UNCHANGED varsT
    BY <2>3 DEF Only, Service
  <2>4. Service \ {"traces"} = {"threats", "selection", "license", "life", "logins",
          "sessions", "agents", "conversations", "tools", "admission", "rotation", "health",
          "skills", "assessment"}
    BY DEF Service
  <2>5. ASSUME MCNext PROVE T!TracesNext \/ UNCHANGED varsT
    BY Zenon, <2>3, <2>4, <2>5, OneMoves
  <2>. QED  BY Zenon, <2>1, <2>2, <2>5
<1>. QED  BY <1>1, <1>2, PTL DEF MCSpec

LEMMA SessionsAreBeside == MCSpec => B!SessionsSpec
<1>1. MCInit => B!SessionsInit
  BY Zenon DEF MCInit
<1>2. [MCNext]_<<service, varsH, varsS, varsB, varsF, varsL, varsT, varsA, varsG, varsC, varsR,
                varsM, varsQ, varsW, varsK, varsE>>
        => [B!SessionsNext]_(B!sessionVars)
  <2>1. UNCHANGED varsA => UNCHANGED B!sessionVars
    BY Zenon DEF varsA, B!sessionVars
  <2>2. UNCHANGED <<service, varsH, varsS, varsB, varsF, varsL, varsT, varsA, varsG, varsC, varsR,
                    varsM, varsQ, varsW, varsK, varsE>>
          => UNCHANGED varsA
    BY Zenon
  <2>3. ASSUME NEW s \in Service \ {"sessions"}, Only(s) PROVE UNCHANGED varsA
    BY <2>3 DEF Only, Service
  <2>4. Service \ {"sessions"} = {"threats", "selection", "license", "life", "logins",
          "traces", "agents", "conversations", "tools", "admission", "rotation", "health",
          "skills", "assessment"}
    BY DEF Service
  <2>5. ASSUME MCNext PROVE B!SessionsNext \/ UNCHANGED varsA
    BY Zenon, <2>3, <2>4, <2>5, OneMoves
  <2>. QED  BY Zenon, <2>1, <2>2, <2>5
<1>. QED  BY <1>1, <1>2, PTL DEF MCSpec, B!SessionsSpec

LEMMA AgentsAreBeside == MCSpec => G!Spec
<1>1. MCInit => G!Init
  BY Zenon DEF MCInit
<1>2. [MCNext]_<<service, varsH, varsS, varsB, varsF, varsL, varsT, varsA, varsG, varsC, varsR,
                varsM, varsQ, varsW, varsK, varsE>>
        => [G!Next]_(G!vars)
  <2>1. UNCHANGED varsG => UNCHANGED G!vars
    BY Zenon DEF varsG, G!vars
  <2>2. UNCHANGED <<service, varsH, varsS, varsB, varsF, varsL, varsT, varsA, varsG, varsC, varsR,
                    varsM, varsQ, varsW, varsK, varsE>>
          => UNCHANGED varsG
    BY Zenon
  <2>3. ASSUME NEW s \in Service \ {"agents"}, Only(s) PROVE UNCHANGED varsG
    BY <2>3 DEF Only, Service
  <2>4. Service \ {"agents"} = {"threats", "selection", "license", "life", "logins",
          "traces", "sessions", "conversations", "tools", "admission", "rotation", "health",
          "skills", "assessment"}
    BY DEF Service
  <2>5. ASSUME MCNext PROVE G!Next \/ UNCHANGED varsG
    BY Zenon, <2>3, <2>4, <2>5, OneMoves
  <2>. QED  BY Zenon, <2>1, <2>2, <2>5
<1>. QED  BY <1>1, <1>2, PTL DEF MCSpec, G!Spec

LEMMA ConversationsAreBeside == MCSpec => C!Spec
<1>1. MCInit => C!Init
  BY Zenon DEF MCInit
<1>2. [MCNext]_<<service, varsH, varsS, varsB, varsF, varsL, varsT, varsA, varsG, varsC, varsR,
                varsM, varsQ, varsW, varsK, varsE>>
        => [C!Next]_(C!vars)
  <2>1. UNCHANGED varsC => UNCHANGED C!vars
    BY Zenon DEF varsC, C!vars
  <2>2. UNCHANGED <<service, varsH, varsS, varsB, varsF, varsL, varsT, varsA, varsG, varsC, varsR,
                    varsM, varsQ, varsW, varsK, varsE>>
          => UNCHANGED varsC
    BY Zenon
  <2>3. ASSUME NEW s \in Service \ {"conversations"}, Only(s) PROVE UNCHANGED varsC
    BY <2>3 DEF Only, Service
  <2>4. Service \ {"conversations"} = {"threats", "selection", "license", "life", "logins",
          "traces", "sessions", "agents", "tools", "admission", "rotation", "health",
          "skills", "assessment"}
    BY DEF Service
  <2>5. ASSUME MCNext PROVE C!Next \/ UNCHANGED varsC
    BY Zenon, <2>3, <2>4, <2>5, OneMoves
  <2>. QED  BY Zenon, <2>1, <2>2, <2>5
<1>. QED  BY <1>1, <1>2, PTL DEF MCSpec, C!Spec

LEMMA ToolsAreBeside == MCSpec => R!Spec
<1>1. MCInit => R!Init
  BY Zenon DEF MCInit
<1>2. [MCNext]_<<service, varsH, varsS, varsB, varsF, varsL, varsT, varsA, varsG, varsC, varsR,
                varsM, varsQ, varsW, varsK, varsE>>
        => [R!Next]_(R!vars)
  <2>1. UNCHANGED varsR => UNCHANGED R!vars
    BY Zenon DEF varsR, R!vars
  <2>2. UNCHANGED <<service, varsH, varsS, varsB, varsF, varsL, varsT, varsA, varsG, varsC, varsR,
                    varsM, varsQ, varsW, varsK, varsE>>
          => UNCHANGED varsR
    BY Zenon
  <2>3. ASSUME NEW s \in Service \ {"tools"}, Only(s) PROVE UNCHANGED varsR
    BY <2>3 DEF Only, Service
  <2>4. Service \ {"tools"} = {"threats", "selection", "license", "life", "logins",
          "traces", "sessions", "agents", "conversations", "admission", "rotation",
          "health", "skills", "assessment"}
    BY DEF Service
  <2>5. ASSUME MCNext PROVE R!Next \/ UNCHANGED varsR
    BY Zenon, <2>3, <2>4, <2>5, OneMoves
  <2>. QED  BY Zenon, <2>1, <2>2, <2>5
<1>. QED  BY <1>1, <1>2, PTL DEF MCSpec, R!Spec

LEMMA AdmissionIsBeside == MCSpec => M!Spec
<1>1. MCInit => M!Init
  BY Zenon DEF MCInit
<1>2. [MCNext]_<<service, varsH, varsS, varsB, varsF, varsL, varsT, varsA, varsG, varsC, varsR,
                varsM, varsQ, varsW, varsK, varsE>>
        => [M!Next]_(M!vars)
  <2>1. UNCHANGED varsM => UNCHANGED M!vars
    BY Zenon DEF varsM, M!vars
  <2>2. UNCHANGED <<service, varsH, varsS, varsB, varsF, varsL, varsT, varsA, varsG, varsC, varsR,
                    varsM, varsQ, varsW, varsK, varsE>>
          => UNCHANGED varsM
    BY Zenon
  <2>3. ASSUME NEW s \in Service \ {"admission"}, Only(s) PROVE UNCHANGED varsM
    BY <2>3 DEF Only, Service
  <2>4. Service \ {"admission"} = {"threats", "selection", "license", "life", "logins",
          "traces", "sessions", "agents", "conversations", "tools", "rotation", "health",
          "skills", "assessment"}
    BY DEF Service
  <2>5. ASSUME MCNext PROVE M!Next \/ UNCHANGED varsM
    BY Zenon, <2>3, <2>4, <2>5, OneMoves
  <2>. QED  BY Zenon, <2>1, <2>2, <2>5
<1>. QED  BY <1>1, <1>2, PTL DEF MCSpec, M!Spec

LEMMA RotationIsBeside == MCSpec => Q!Spec
<1>1. MCInit => Q!Init
  BY Zenon DEF MCInit
<1>2. [MCNext]_<<service, varsH, varsS, varsB, varsF, varsL, varsT, varsA, varsG, varsC, varsR,
                varsM, varsQ, varsW, varsK, varsE>>
        => [Q!Next]_(Q!vars)
  <2>1. UNCHANGED varsQ => UNCHANGED Q!vars
    BY Zenon DEF varsQ, Q!vars
  <2>2. UNCHANGED <<service, varsH, varsS, varsB, varsF, varsL, varsT, varsA, varsG, varsC, varsR,
                    varsM, varsQ, varsW, varsK, varsE>>
          => UNCHANGED varsQ
    BY Zenon
  <2>3. ASSUME NEW s \in Service \ {"rotation"}, Only(s) PROVE UNCHANGED varsQ
    BY <2>3 DEF Only, Service
  <2>4. Service \ {"rotation"} = {"threats", "selection", "license", "life", "logins",
          "traces", "sessions", "agents", "conversations", "tools", "admission", "health",
          "skills", "assessment"}
    BY DEF Service
  <2>5. ASSUME MCNext PROVE Q!Next \/ UNCHANGED varsQ
    BY Zenon, <2>3, <2>4, <2>5, OneMoves
  <2>. QED  BY Zenon, <2>1, <2>2, <2>5
<1>. QED  BY <1>1, <1>2, PTL DEF MCSpec, Q!Spec

LEMMA HealthIsBeside == MCSpec => T!HealthInit /\ [][T!HealthNext]_(T!health)
<1>1. MCInit => T!HealthInit
  BY Zenon DEF MCInit
<1>2. [MCNext]_<<service, varsH, varsS, varsB, varsF, varsL, varsT, varsA, varsG, varsC, varsR,
                varsM, varsQ, varsW, varsK, varsE>>
        => [T!HealthNext]_(T!health)
  <2>1. UNCHANGED varsW => UNCHANGED T!health
    BY Zenon DEF varsW, T!health
  <2>2. UNCHANGED <<service, varsH, varsS, varsB, varsF, varsL, varsT, varsA, varsG, varsC, varsR,
                    varsM, varsQ, varsW, varsK, varsE>>
          => UNCHANGED varsW
    BY Zenon
  <2>3. ASSUME NEW s \in Service \ {"health"}, Only(s) PROVE UNCHANGED varsW
    BY <2>3 DEF Only, Service
  <2>4. Service \ {"health"} = {"threats", "selection", "license", "life", "logins",
          "traces", "sessions", "agents", "conversations", "tools", "admission", "rotation",
          "skills", "assessment"}
    BY DEF Service
  <2>5. ASSUME MCNext PROVE T!HealthNext \/ UNCHANGED varsW
    BY Zenon, <2>3, <2>4, <2>5, OneMoves
  <2>. QED  BY Zenon, <2>1, <2>2, <2>5
<1>. QED  BY <1>1, <1>2, PTL DEF MCSpec

LEMMA SkillsAreBeside == MCSpec => K!RunsInit /\ [][K!RunsNext]_(K!executions)
<1>1. MCInit => K!RunsInit
  BY Zenon DEF MCInit
<1>2. [MCNext]_<<service, varsH, varsS, varsB, varsF, varsL, varsT, varsA, varsG, varsC, varsR,
                varsM, varsQ, varsW, varsK, varsE>>
        => [K!RunsNext]_(K!executions)
  <2>1. UNCHANGED varsK => UNCHANGED K!executions
    BY Zenon DEF varsK, K!executions
  <2>2. UNCHANGED <<service, varsH, varsS, varsB, varsF, varsL, varsT, varsA, varsG, varsC, varsR,
                    varsM, varsQ, varsW, varsK, varsE>>
          => UNCHANGED varsK
    BY Zenon
  <2>3. ASSUME NEW s \in Service \ {"skills"}, Only(s) PROVE UNCHANGED varsK
    BY <2>3 DEF Only, Service
  <2>4. Service \ {"skills"} = {"threats", "selection", "license", "life", "logins",
          "traces", "sessions", "agents", "conversations", "tools", "admission", "rotation",
          "health", "assessment"}
    BY DEF Service
  <2>5. ASSUME MCNext PROVE K!RunsNext \/ UNCHANGED varsK
    BY Zenon, <2>3, <2>4, <2>5, OneMoves
  <2>. QED  BY Zenon, <2>1, <2>2, <2>5
<1>. QED  BY <1>1, <1>2, PTL DEF MCSpec

LEMMA AssessmentIsBeside == MCSpec => E!Spec
<1>1. MCInit => E!Init
  BY Zenon DEF MCInit
<1>2. [MCNext]_<<service, varsH, varsS, varsB, varsF, varsL, varsT, varsA, varsG, varsC, varsR,
                varsM, varsQ, varsW, varsK, varsE>>
        => [E!Next]_(E!vars)
  <2>1. UNCHANGED varsE => UNCHANGED E!vars
    BY Zenon DEF varsE, E!vars
  <2>2. UNCHANGED <<service, varsH, varsS, varsB, varsF, varsL, varsT, varsA, varsG, varsC, varsR,
                    varsM, varsQ, varsW, varsK, varsE>>
          => UNCHANGED varsE
    BY Zenon
  <2>3. ASSUME NEW s \in Service \ {"assessment"}, Only(s) PROVE UNCHANGED varsE
    BY <2>3 DEF Only, Service
  <2>4. Service \ {"assessment"} = {"threats", "selection", "license", "life", "logins",
          "traces", "sessions", "agents", "conversations", "tools", "admission", "rotation",
          "health", "skills"}
    BY DEF Service
  <2>5. ASSUME MCNext PROVE E!Next \/ UNCHANGED varsE
    BY Zenon, <2>3, <2>4, <2>5, OneMoves
  <2>. QED  BY Zenon, <2>1, <2>2, <2>5
<1>. QED  BY <1>1, <1>2, PTL DEF MCSpec, E!Spec

\* Whatever the loops, the calls and the ends of a server: every daemon process that is left
\* behind is of a server that did not shut down, and the worker takes no run without the
\* authority.
THEOREM ServersAreOrderly == MCSpec => []ServerIsOrderly
<1>1. F!TypeOK /\ F!ServerIsOrderly => ServerIsOrderly
  BY Zenon DEF ServerIsOrderly
<1>. QED  BY <1>1, LifespanAssumption, LifeIsOrderly, LifeIsBeside, PTL

\* For any repositories, providers, agents, conversations and runs: files that requests share
\* say what was written last.
THEOREM FilesKept == MCSpec => []FilesAreKept
<1>1. /\ S!TypeOK /\ S!NoneReturns /\ L!TypeOK /\ L!AccountsAreKept
      /\ G!TypeOK /\ G!AgentsKeepTheirWorktrees /\ C!TypeOK /\ C!ConversationsAreAnnounced
      /\ Q!TypeOK /\ Q!NothingIsForgotten
      => FilesAreKept
  BY Zenon DEF FilesAreKept
<1>2. MCSpec => [](S!TypeOK /\ S!NoneReturns)
  BY SelectionAssumption, SelectionHolds, SelectionIsBeside, PTL
<1>3. MCSpec => [](L!TypeOK /\ L!AccountsAreKept)
  BY LoginsAssumption, AccountsHold, LoginsAreBeside, PTL
<1>4. MCSpec => [](G!TypeOK /\ G!AgentsKeepTheirWorktrees)
  BY SubAgentsAssumption, WorktreesAreKept, AgentsAreBeside, PTL
<1>5. MCSpec => [](C!TypeOK /\ C!ConversationsAreAnnounced)
  BY ConversationsAssumption, ConversationsAreTold, ConversationsAreBeside, PTL
<1>6. MCSpec => [](Q!TypeOK /\ Q!NothingIsForgotten)
  BY RotationAssumption, RotationForgetsNone, RotationIsBeside, PTL
<1>. QED  BY <1>1, <1>2, <1>3, <1>4, <1>5, <1>6, PTL

\* For any sources of events, licences, sessions, tools and runs: requests and starts are
\* judged by what holds.
THEOREM AccessJudged == MCSpec => []AccessIsJudged
<1>1. /\ H!TypeOK /\ H!EventsAreAnswered /\ H!CalmEndsAll
      /\ B!LicenseTypeOK /\ B!RunningIsLicensed /\ B!SessionsTypeOK /\ B!SessionsHold
      /\ R!TypeOK /\ R!ToolsAreKnown /\ M!TypeOK /\ M!RunsAreAdmitted
      => AccessIsJudged
  BY Zenon DEF AccessIsJudged
<1>2. MCSpec => [](H!TypeOK /\ H!EventsAreAnswered /\ H!CalmEndsAll)
  BY ThresholdAssumption, ThreatsAreAnswered, ThreatsAreBeside, PTL
<1>3. MCSpec => [](B!LicenseTypeOK /\ B!RunningIsLicensed)
  BY AccessAssumption, LicenseHolds, LicenseIsBeside, PTL
<1>4. MCSpec => [](B!SessionsTypeOK /\ B!SessionsHold)
  BY AccessAssumption, SessionsAreHeld, SessionsAreBeside, PTL
<1>5. MCSpec => [](R!TypeOK /\ R!ToolsAreKnown)
  BY ToolsAssumption, ToolsAreKnownToAll, ToolsAreBeside, PTL
<1>6. MCSpec => [](M!TypeOK /\ M!RunsAreAdmitted)
  BY AdmissionAssumption, AdmissionHolds, AdmissionIsBeside, PTL
<1>. QED  BY <1>1, <1>2, <1>3, <1>4, <1>5, <1>6, PTL

\* For any engines, runs, skills and children: what is shown of them adds up.
THEOREM NumbersTrue == MCSpec => []NumbersAreTrue
<1>1. /\ T!TracesTypeOK /\ T!TracesAreTrue /\ T!HealthTypeOK /\ T!HealthIsNoticed
      /\ K!TypeOK /\ K!SkillRunsAreReported /\ E!TypeOK /\ E!AssessmentsAreFair
      => NumbersAreTrue
  BY Zenon DEF NumbersAreTrue
<1>2. MCSpec => [](T!TracesTypeOK /\ T!TracesAreTrue)
  BY ObservabilityAssumption, TracesHold, TracesAreBeside, PTL
<1>3. MCSpec => [](T!HealthTypeOK /\ T!HealthIsNoticed)
  BY ObservabilityAssumption, SilenceIsNoticed, HealthIsBeside, PTL
<1>4. MCSpec => [](K!TypeOK /\ K!SkillRunsAreReported)
  BY SkillsAssumption, SkillRunsHold, SkillsAreBeside, PTL
<1>5. MCSpec => [](E!TypeOK /\ E!AssessmentsAreFair)
  BY AssessmentAssumption, AssessmentsHold, AssessmentIsBeside, PTL
<1>. QED  BY <1>1, <1>2, <1>3, <1>4, <1>5, PTL

LEMMA ServiceIsOne == MCSpec => [](service \in Service)
<1>1. MCInit => service \in Service
  BY Zenon DEF MCInit
<1>2. service \in Service
      /\ [MCNext]_<<service, varsH, varsS, varsB, varsF, varsL, varsT, varsA, varsG, varsC, varsR,
                    varsM, varsQ, varsW, varsK, varsE>>
        => (service \in Service)'
  <2>1. ASSUME NEW s, Only(s) PROVE UNCHANGED service
    BY <2>1, Zenon DEF Only
  <2>2. ASSUME MCNext PROVE UNCHANGED service
    BY <2>1, <2>2, Zenon DEF MCNext, ThreatsMove, SelectionMoves, LicenseMoves, LifeMoves, LoginsMove,
       TracesMove, SessionsMove, AgentsMove, ConversationsMove, ToolsMove, AdmissionMoves,
       RotationMoves, HealthMoves, SkillsMove, AssessmentMoves
  <2>3. UNCHANGED <<service, varsH, varsS, varsB, varsF, varsL, varsT, varsA, varsG, varsC, varsR,
                    varsM, varsQ, varsW, varsK, varsE>>
          => UNCHANGED service
    BY Zenon
  <2>. QED  BY <2>2, <2>3
<1>. QED  BY <1>1, <1>2, PTL DEF MCSpec

\* For any values of the constants: the variables that move have their types.
THEOREM TypesHold == MCSpec => []TypesOK
<1>1. service \in Service
      /\ H!TypeOK /\ S!TypeOK /\ B!LicenseTypeOK /\ F!TypeOK /\ L!TypeOK /\ T!TracesTypeOK
      /\ B!SessionsTypeOK /\ G!TypeOK /\ C!TypeOK /\ R!TypeOK /\ M!TypeOK /\ Q!TypeOK
      /\ T!HealthTypeOK /\ K!TypeOK /\ E!TypeOK
      => TypesOK
  BY DEF TypesOK, Service
<1>2. MCSpec => [](H!TypeOK /\ B!LicenseTypeOK /\ B!SessionsTypeOK /\ R!TypeOK /\ M!TypeOK)
  <2>1. MCSpec => []H!TypeOK
    BY ThresholdAssumption, ThreatsAreAnswered, ThreatsAreBeside, PTL
  <2>2. MCSpec => []B!LicenseTypeOK
    BY AccessAssumption, LicenseHolds, LicenseIsBeside, PTL
  <2>3. MCSpec => []B!SessionsTypeOK
    BY AccessAssumption, SessionsAreHeld, SessionsAreBeside, PTL
  <2>4. MCSpec => []R!TypeOK
    BY ToolsAssumption, ToolsAreKnownToAll, ToolsAreBeside, PTL
  <2>5. MCSpec => []M!TypeOK
    BY AdmissionAssumption, AdmissionHolds, AdmissionIsBeside, PTL
  <2>. QED  BY <2>1, <2>2, <2>3, <2>4, <2>5, PTL
<1>3. MCSpec => [](S!TypeOK /\ L!TypeOK /\ G!TypeOK /\ C!TypeOK /\ Q!TypeOK)
  <2>1. MCSpec => []S!TypeOK
    BY SelectionAssumption, SelectionHolds, SelectionIsBeside, PTL
  <2>2. MCSpec => []L!TypeOK
    BY LoginsAssumption, AccountsHold, LoginsAreBeside, PTL
  <2>3. MCSpec => []G!TypeOK
    BY SubAgentsAssumption, WorktreesAreKept, AgentsAreBeside, PTL
  <2>4. MCSpec => []C!TypeOK
    BY ConversationsAssumption, ConversationsAreTold, ConversationsAreBeside, PTL
  <2>5. MCSpec => []Q!TypeOK
    BY RotationAssumption, RotationForgetsNone, RotationIsBeside, PTL
  <2>. QED  BY <2>1, <2>2, <2>3, <2>4, <2>5, PTL
<1>4. MCSpec => [](T!TracesTypeOK /\ T!HealthTypeOK /\ K!TypeOK /\ E!TypeOK)
  <2>1. MCSpec => []T!TracesTypeOK
    BY ObservabilityAssumption, TracesHold, TracesAreBeside, PTL
  <2>2. MCSpec => []T!HealthTypeOK
    BY ObservabilityAssumption, SilenceIsNoticed, HealthIsBeside, PTL
  <2>3. MCSpec => []K!TypeOK
    BY SkillsAssumption, SkillRunsHold, SkillsAreBeside, PTL
  <2>4. MCSpec => []E!TypeOK
    BY AssessmentAssumption, AssessmentsHold, AssessmentIsBeside, PTL
  <2>. QED  BY <2>1, <2>2, <2>3, <2>4, PTL
<1>5. MCSpec => []F!TypeOK
  BY LifespanAssumption, LifeIsOrderly, LifeIsBeside, PTL
<1>. QED  BY <1>1, <1>2, <1>3, <1>4, <1>5, ServiceIsOne, PTL

=============================================================================
