------------------------- MODULE OpsRunStore_proofs -------------------------
(***************************************************************************)
(* Proofs about OpsRunStore, for every set of runs, keys and stages and    *)
(* every compaction threshold.                                             *)
(***************************************************************************)
EXTENDS OpsRunStore, Integers, Sequences, FiniteSets, WellFoundedInduction, TLAPS

----------------------------------------------------------------------------
(* Reading a run. *)

\* What a materialised record is made of.
LEMMA MaterializeFields ==
  ASSUME NEW b \in RunRecord, NEW l \in EventLog
  PROVE  /\ Materialize(b, l) \in RunRecord
         /\ Materialize(b, l).status = (IF l.status = None THEN b.status ELSE l.status)
         /\ Materialize(b, l).stage = (IF l.stage = None THEN b.stage ELSE l.stage)
         /\ Materialize(b, l).marks = b.marks \cup l.marks
         /\ Materialize(b, l).key = b.key
         /\ Materialize(b, l).child = b.child
         /\ Materialize(b, l).attempt = b.attempt
         /\ Materialize(b, l).rerunOf = b.rerunOf
BY DEF Materialize, RunRecord, EventLog, Overlay

LEMMA EmptyLogType == EmptyLog \in EventLog
BY BoundsAssumption DEF EmptyLog, EventLog

\* Replaying an empty log changes nothing.
LEMMA MaterializeEmpty ==
  ASSUME NEW b \in RunRecord
  PROVE  Materialize(b, EmptyLog) = b
BY DEF Materialize, RunRecord, EmptyLog, Overlay

\* Replaying a log over a base that holds its effect changes nothing.
LEMMA MaterializeTwice ==
  ASSUME NEW b \in RunRecord, NEW l \in EventLog
  PROVE  Materialize(Materialize(b, l), l) = Materialize(b, l)
BY DEF Materialize, RunRecord, EventLog, Overlay

\* One more event keeps a log well formed.
LEMMA AddEventType ==
  ASSUME NEW l \in EventLog
  PROVE  /\ \A s \in Status : AddStatus(l, s) \in EventLog
         /\ \A g \in Stage : AddStage(l, g) \in EventLog
         /\ \A m \in MergeField : AddMark(l, m) \in EventLog
<1>1. Longer(l) \in EventLog
  <2>1. l.length \in 0..CompactAt /\ CompactAt \in Nat
    BY BoundsAssumption DEF EventLog
  <2>2. (IF l.length < CompactAt THEN l.length + 1 ELSE l.length) \in 0..CompactAt
    BY <2>1
  <2>. QED  BY <2>2 DEF Longer, EventLog
<1>. QED  BY <1>1 DEF AddStatus, AddStage, AddMark, EventLog

\* An event adds to what is read exactly the field it carries.
LEMMA AddEventFields ==
  ASSUME NEW b \in RunRecord, NEW l \in EventLog
  PROVE  /\ \A s \in Status :
              Materialize(b, AddStatus(l, s)) = [Materialize(b, l) EXCEPT !.status = s]
         /\ \A g \in Stage :
              Materialize(b, AddStage(l, g)) = [Materialize(b, l) EXCEPT !.stage = g]
         /\ \A m \in MergeField :
              Materialize(b, AddMark(l, m)) = [Materialize(b, l) EXCEPT !.marks = @ \cup {m}]
<1>0. /\ Longer(l).status = l.status /\ Longer(l).stage = l.stage
      /\ Longer(l).marks = l.marks
  BY DEF Longer, EventLog
<1>L. Longer(l) = [length |-> Longer(l).length, status |-> l.status,
                   stage |-> l.stage, marks |-> l.marks]
  BY DEF Longer, EventLog
<1>1. ASSUME NEW s \in Status
      PROVE  Materialize(b, AddStatus(l, s)) = [Materialize(b, l) EXCEPT !.status = s]
  <2>1. /\ AddStatus(l, s).status = s /\ AddStatus(l, s).stage = l.stage
        /\ AddStatus(l, s).marks = l.marks
    BY <1>L DEF AddStatus
  <2>2. s # None
    BY NoneAssumption
  <2>. QED  BY <2>1, <2>2 DEF Materialize, RunRecord, Overlay
<1>2. ASSUME NEW g \in Stage
      PROVE  Materialize(b, AddStage(l, g)) = [Materialize(b, l) EXCEPT !.stage = g]
  <2>1. /\ AddStage(l, g).stage = g /\ AddStage(l, g).status = l.status
        /\ AddStage(l, g).marks = l.marks
    BY <1>L DEF AddStage
  <2>2. g # None
    BY NoneAssumption
  <2>. QED  BY <2>1, <2>2 DEF Materialize, RunRecord, Overlay
<1>3. ASSUME NEW m \in MergeField
      PROVE  Materialize(b, AddMark(l, m))
               = [Materialize(b, l) EXCEPT !.marks = @ \cup {m}]
  <2>1. /\ AddMark(l, m).marks = l.marks \cup {m} /\ AddMark(l, m).status = l.status
        /\ AddMark(l, m).stage = l.stage
    BY <1>L DEF AddMark
  <2>2. b.marks \cup (l.marks \cup {m}) = (b.marks \cup l.marks) \cup {m}
    OBVIOUS
  <2>. QED  BY <2>1, <2>2 DEF Materialize, RunRecord, Overlay
<1>. QED  BY <1>1, <1>2, <1>3

----------------------------------------------------------------------------
(* The inductive invariant. *)

\* A rerun's source was created before it.
LineageKnown ==
    \A r \in Stored : base[r].rerunOf \in Run => base[base[r].rerunOf] # Absent

\* The status that ends a child is held by an event, which the base-file
\* writes of a re-queue cannot hide.
ChildMask ==
    \A r \in Stored :
       base[r].child /\ View(r).status \in TerminalStatus => log[r].status # None

\* A run without a base file has no events that a new file could inherit.
NoFileNoLog == \A r \in Run : base[r] \in {Absent, Removed} => log[r] = EmptyLog

\* The older root runs of a key age first.
StalePrefix ==
    \A q, r \in Stored :
       /\ ~base[q].child /\ ~base[r].child
       /\ base[q].key = base[r].key
       /\ base[q].attempt <= base[r].attempt
       /\ r \in stale
       => q \in stale

IInv ==
    /\ TypeOK
    /\ AttemptsDistinct
    /\ LineageIncreases
    /\ LineageKnown
    /\ ChildMask
    /\ NoFileNoLog
    /\ StalePrefix

----------------------------------------------------------------------------
(* What the actions have in common. *)

\* A step that leaves the identity of the stored runs alone: only the attempt
\* of a child may grow.
KeepsIdentity ==
    \A q \in Run :
       /\ base'[q] = Absent <=> base[q] = Absent
       /\ q \in Stored' => /\ q \in Stored
                           /\ base'[q].key = base[q].key
                           /\ base'[q].child = base[q].child
                           /\ base'[q].rerunOf = base[q].rerunOf
                           /\ base'[q].attempt >= base[q].attempt
                           /\ ~base[q].child => base'[q].attempt = base[q].attempt

LEMMA StoredRecord ==
  ASSUME TypeOK, NEW r \in Run
  PROVE  /\ r \in Stored <=> base[r] \in RunRecord
         /\ log[r] \in EventLog
BY NoneAssumption DEF TypeOK, Stored

LEMMA RecordFields ==
  ASSUME NEW b \in RunRecord
  PROVE  /\ b.key \in Key /\ b.child \in BOOLEAN /\ b.status \in Status
         /\ b.attempt \in 1..MaxAttempt /\ b.attempt \in Int
         /\ b.stage \in Stage \cup {None} /\ b.marks \in SUBSET MergeField
         /\ b.rerunOf \in Run \cup {None}
BY BoundsAssumption DEF RunRecord

\* Identity kept, the invariants about identity are kept.
LEMMA IdentityInvariants ==
  ASSUME IInv, TypeOK', KeepsIdentity
  PROVE  AttemptsDistinct' /\ LineageIncreases' /\ LineageKnown'
<1>1. AttemptsDistinct'
  BY DEF IInv, AttemptsDistinct, KeepsIdentity, Stored
<1>2. LineageIncreases'
  <2> SUFFICES ASSUME NEW r \in Stored', NEW q \in Stored',
                      base'[r].rerunOf = q, ~base'[q].child, base'[q].key = base'[r].key
               PROVE  base'[q].attempt < base'[r].attempt
    BY DEF LineageIncreases, Stored
  <2>1. q \in Run /\ r \in Run /\ q \in Stored /\ r \in Stored
    BY DEF KeepsIdentity, Stored
  <2>2. /\ base[r].rerunOf = q /\ ~base[q].child /\ base[q].key = base[r].key
        /\ base'[q].attempt = base[q].attempt /\ base'[r].attempt >= base[r].attempt
    BY <2>1 DEF KeepsIdentity
  <2>3. base[q].attempt < base[r].attempt
    BY <2>1, <2>2 DEF IInv, LineageIncreases
  <2>4. base[q] \in RunRecord /\ base[r] \in RunRecord /\ base'[r] \in RunRecord
    BY <2>1, StoredRecord DEF IInv, TypeOK, Stored
  <2>5. base[q].attempt \in Int /\ base[r].attempt \in Int /\ base'[r].attempt \in Int
    BY <2>4, RecordFields
  <2>. QED  BY <2>2, <2>3, <2>5
<1>3. LineageKnown'
  BY DEF IInv, LineageKnown, KeepsIdentity, Stored
<1>. QED  BY <1>1, <1>2, <1>3

\* Identity kept and nobody ageing, the order of ageing is kept.
LEMMA AgeInvariant ==
  ASSUME IInv, KeepsIdentity, stale' = stale \cap Stored'
  PROVE  StalePrefix'
BY DEF IInv, StalePrefix, KeepsIdentity, Stored

\* What the writes of an operation on run r that adds the event leading to log
\* l leave behind, whole or cut short: r reads as l over its base, or as before
\* the files of every other run, and the ages shrink at most.
Rewrites(r, l) ==
    /\ base' \in [Run -> RunRecord \cup {Absent, Removed}]
    /\ log' \in [Run -> EventLog]
    /\ \A q \in Run \ {r} : base'[q] = base[q] /\ log'[q] = log[q]
    /\ base'[r] \in {base[r], Materialize(base[r], l)}
    /\ Materialize(base'[r], log'[r]) = Materialize(base[r], l)
    /\ log'[r] = l \/ (log'[r] = EmptyLog /\ base'[r] = Materialize(base[r], l))
    /\ idle' \subseteq idle

LEMMA WritesRewrite ==
  ASSUME TypeOK, NEW r \in Stored, NEW l \in EventLog
  PROVE  /\ AppendAndCompact(r, l) => Rewrites(r, l)
         /\ AppendAndPersist(r, l) => Rewrites(r, l)
         /\ \A persists \in BOOLEAN : CrashAfterAppend(r, l, persists) => Rewrites(r, l)
<1> DEFINE m == Materialize(base[r], l)
<1>0. r \in Run /\ base[r] \in RunRecord
  BY StoredRecord DEF Stored
<1>1. /\ m \in RunRecord /\ Materialize(m, l) = m /\ Materialize(m, EmptyLog) = m
      /\ EmptyLog \in EventLog
  BY <1>0, MaterializeFields, MaterializeTwice, MaterializeEmpty, EmptyLogType
<1> HIDE DEF m
<1>2. ASSUME AppendEvent(r, l), Persist(r, m)
      PROVE  Rewrites(r, l)
  BY <1>0, <1>1, <1>2 DEF Rewrites, AppendEvent, Persist, TypeOK, m
<1>3. ASSUME AppendEvent(r, l), UNCHANGED <<base, idle>>
      PROVE  Rewrites(r, l)
  BY <1>0, <1>3 DEF Rewrites, AppendEvent, TypeOK
<1>4. ASSUME AppendEvent(r, EmptyLog), Persist(r, m)
      PROVE  Rewrites(r, l)
  BY <1>0, <1>1, <1>4 DEF Rewrites, AppendEvent, Persist, TypeOK, m
<1>. QED  BY <1>2, <1>3, <1>4 DEF AppendAndCompact, AppendAndPersist, CrashAfterAppend, m

\* A rewrite of r that leaves it neither silent nor terminal without an event
\* keeps the invariant.
LEMMA RewritePreserves ==
  ASSUME IInv, NEW r \in Stored, NEW l \in EventLog, Rewrites(r, l), UNCHANGED stale,
         \/ ~base[r].child
         \/ log'[r].status # None
         \/ Materialize(base[r], l).status \notin TerminalStatus
  PROVE  IInv'
<1>0. TypeOK /\ r \in Run /\ base[r] \in RunRecord
  BY StoredRecord DEF IInv, Stored
<1>1. base'[r] \in RunRecord /\ Stored' = Stored
  <2>1. base'[r] \in RunRecord
    BY <1>0, MaterializeFields DEF Rewrites
  <2>2. \A q \in Run : base'[q] \in {Absent, Removed} <=> base[q] \in {Absent, Removed}
    BY <1>0, <2>1, NoneAssumption DEF Rewrites
  <2>. QED  BY <2>1, <2>2 DEF Stored
<1>2. TypeOK'
  BY <1>0, <1>1 DEF TypeOK, Rewrites
<1>3. KeepsIdentity
  <2>1. /\ base'[r].key = base[r].key /\ base'[r].child = base[r].child
        /\ base'[r].rerunOf = base[r].rerunOf /\ base'[r].attempt = base[r].attempt
    BY <1>0, MaterializeFields DEF Rewrites
  <2>2. base'[r] # Absent /\ base[r] # Absent
    BY <1>0, <1>1, NoneAssumption
  <2>3. \A q \in Stored : base[q].attempt \in Int
    BY <1>0, RecordFields, StoredRecord DEF Stored
  <2>. QED  BY <1>1, <2>1, <2>2, <2>3 DEF KeepsIdentity, Rewrites, Stored
<1>4. ChildMask'
  <2> SUFFICES ASSUME NEW q \in Stored', (base[q].child)',
                      View(q)' .status \in TerminalStatus
               PROVE  log'[q].status # None
    BY DEF ChildMask
  <2>1. CASE q = r
    <3>1. View(q)' = Materialize(base[r], l) /\ base[r].child
      BY <2>1, <1>0, <1>1, <1>3 DEF View, Rewrites, KeepsIdentity
    <3>. QED  BY <3>1, <2>1
  <2>2. CASE q # r
    <3>1. q \in Stored /\ base'[q] = base[q] /\ log'[q] = log[q]
      BY <2>2, <1>1 DEF Rewrites, Stored
    <3>. QED  BY <3>1 DEF IInv, ChildMask, View
  <2>. QED  BY <2>1, <2>2
<1>5. NoFileNoLog'
  BY <1>0, <1>1, NoneAssumption DEF IInv, NoFileNoLog, Rewrites
<1>6. StalePrefix'
  BY <1>0, <1>1, <1>3, AgeInvariant DEF TypeOK
<1>. QED  BY <1>2, <1>3, <1>4, <1>5, <1>6, IdentityInvariants DEF IInv

----------------------------------------------------------------------------
(* Each action keeps the invariant. *)

LEMMA ViewFields ==
  ASSUME TypeOK, NEW r \in Stored
  PROVE  /\ View(r) \in RunRecord
         /\ View(r).key = base[r].key /\ View(r).child = base[r].child
         /\ View(r).attempt = base[r].attempt /\ View(r).rerunOf = base[r].rerunOf
         /\ View(r).status = (IF log[r].status = None THEN base[r].status ELSE log[r].status)
BY StoredRecord, MaterializeFields DEF View, Stored

\* The event an operation adds, and the status it makes a reader see.
LEMMA EventsOfRun ==
  ASSUME TypeOK, NEW r \in Stored
  PROVE  /\ \A s \in Status :
              /\ StatusEvent(r, s) \in EventLog
              /\ Materialize(base[r], StatusEvent(r, s)) = [View(r) EXCEPT !.status = s]
              /\ StatusEvent(r, s).status = s
         /\ \A g \in Stage :
              /\ StageEvent(r, g) \in EventLog
              /\ Materialize(base[r], StageEvent(r, g)) = [View(r) EXCEPT !.stage = g]
         /\ \A m \in MergeField :
              /\ MergeEvent(r, m) \in EventLog
              /\ Materialize(base[r], MergeEvent(r, m))
                   = [View(r) EXCEPT !.marks = @ \cup {m}]
<1>1. r \in Run /\ base[r] \in RunRecord /\ log[r] \in EventLog
  BY StoredRecord DEF Stored
<1>2. \A s \in Status : AddStatus(log[r], s).status = s
  <2>1. Longer(log[r]) = [Longer(log[r]) EXCEPT !.status = log[r].status]
    BY <1>1 DEF Longer, EventLog
  <2>. QED  BY <1>1 DEF AddStatus, Longer, EventLog
<1>3. /\ \A s \in Status : StatusEvent(r, s) \in EventLog
      /\ \A g \in Stage : StageEvent(r, g) \in EventLog
      /\ \A m \in MergeField : MergeEvent(r, m) \in EventLog
  BY <1>1, AddEventType DEF StatusEvent, StageEvent, MergeEvent
<1>4. \A s \in Status :
         Materialize(base[r], StatusEvent(r, s)) = [View(r) EXCEPT !.status = s]
  BY <1>1, AddEventFields DEF StatusEvent, View
<1>5. \A g \in Stage :
         Materialize(base[r], StageEvent(r, g)) = [View(r) EXCEPT !.stage = g]
  BY <1>1, AddEventFields DEF StageEvent, View
<1>6. \A m \in MergeField :
         Materialize(base[r], MergeEvent(r, m)) = [View(r) EXCEPT !.marks = @ \cup {m}]
  BY <1>1, AddEventFields DEF MergeEvent, View
<1>. QED  BY <1>2, <1>3, <1>4, <1>5, <1>6 DEF StatusEvent

LEMMA UpdatePreserves ==
  ASSUME IInv, NEW r \in Run, NEW s \in Requested,
         UpdateRunStatus(r, s) \/ CrashInUpdate(r, s)
  PROVE  IInv' /\ Rewrites(r, StatusEvent(r, s))
<1> DEFINE l == StatusEvent(r, s)
<1>1. TypeOK /\ r \in Stored /\ s \in Status
  BY BoundsAssumption DEF IInv, UpdateRunStatus, CrashInUpdate, MayUpdate
<1>2. /\ l \in EventLog /\ l.status = s /\ s # None
      /\ Materialize(base[r], l) = [View(r) EXCEPT !.status = s]
  BY <1>1, EventsOfRun, NoneAssumption
<1>3. Materialize(base[r], l).status = s
  BY <1>1, <1>2, ViewFields DEF RunRecord
<1> HIDE DEF l
<1>4. Rewrites(r, l) /\ UNCHANGED stale
  <2>1. CASE UpdateRunStatus(r, s)
    BY <2>1, <1>1, <1>2, WritesRewrite DEF UpdateRunStatus, l
  <2>2. CASE CrashInUpdate(r, s)
    BY <2>2, <1>1, <1>2, WritesRewrite DEF CrashInUpdate, l
  <2>. QED  BY <2>1, <2>2
<1>5. log'[r].status # None \/ s \notin TerminalStatus
  <2>1. CASE UpdateRunStatus(r, s)
    <3>1. ASSUME s \in TerminalStatus
          PROVE  log'[r] = l
      BY <3>1, <2>1, <1>1
      DEF UpdateRunStatus, AppendAndPersist, AppendEvent, TypeOK, Stored, l
    <3>. QED  BY <3>1, <1>2
  <2>2. CASE CrashInUpdate(r, s)
    <3>1. log'[r] = l
      BY <2>2, <1>1 DEF CrashInUpdate, CrashAfterAppend, AppendEvent, TypeOK, Stored, l
    <3>. QED  BY <3>1, <1>2
  <2>. QED  BY <2>1, <2>2
<1>. QED  BY <1>1, <1>2, <1>3, <1>4, <1>5, RewritePreserves DEF l

LEMMA MergeGatePreserves ==
  ASSUME IInv, NEW r \in Run, NEW l,
         \/ \E g \in Stage : l = StageEvent(r, g)
         \/ \E m \in MergeField : l = MergeEvent(r, m),
         r \in Stored, ~base[r].child, UNCHANGED stale,
         AppendAndCompact(r, l) \/ CrashAfterAppend(r, l, l.length >= CompactAt)
  PROVE  IInv' /\ Rewrites(r, l)
<1>0. TypeOK
  BY DEF IInv
<1>1. l \in EventLog
  <2>1. /\ \A g \in Stage : StageEvent(r, g) \in EventLog
        /\ \A m \in MergeField : MergeEvent(r, m) \in EventLog
    BY <1>0, EventsOfRun
  <2>. QED  BY <2>1
<1>2. Rewrites(r, l)
  <2>1. (l.length >= CompactAt) \in BOOLEAN
    OBVIOUS
  <2>. QED  BY <1>0, <1>1, <2>1, WritesRewrite
<1>. QED  BY <1>1, <1>2, RewritePreserves

\* A re-queue of run r rewrites the status of its base, and its attempt.
LEMMA RequeuePreserves ==
  ASSUME IInv, NEW r \in Run, RequeueAfterReview(r) \/ RequeueSubdivided(r)
  PROVE  /\ IInv' /\ r \in Stored /\ base[r].child
         /\ UNCHANGED log /\ Stored' = Stored
         /\ \E n \in {base[r].attempt, base[r].attempt + 1} :
               base' = [base EXCEPT ![r] = [base[r] EXCEPT !.status = "pending",
                                                           !.attempt = n]]
<1>0. TypeOK /\ r \in Stored /\ base[r] \in RunRecord /\ base[r].child
  BY StoredRecord DEF IInv, RequeueAfterReview, RequeueSubdivided
<1>1. base[r].attempt \in 1..MaxAttempt /\ base[r].attempt \in Int /\ MaxAttempt \in Nat
  BY <1>0, RecordFields, BoundsAssumption
<1>2. PICK n \in {base[r].attempt, base[r].attempt + 1} :
         /\ base' = [base EXCEPT ![r] = [base[r] EXCEPT !.status = "pending", !.attempt = n]]
         /\ n \in 1..MaxAttempt /\ n >= base[r].attempt
  <2>1. CASE RequeueAfterReview(r)
    BY <2>1, <1>0, <1>1 DEF RequeueAfterReview, Persist
  <2>2. CASE RequeueSubdivided(r)
    <3>1. base[r] = [base[r] EXCEPT !.attempt = base[r].attempt]
      BY <1>0 DEF RunRecord
    <3>2. [base[r] EXCEPT !.status = "pending"]
            = [base[r] EXCEPT !.status = "pending", !.attempt = base[r].attempt]
      BY <1>0 DEF RunRecord
    <3>3. base' = [base EXCEPT ![r] = [base[r] EXCEPT !.status = "pending",
                                                      !.attempt = base[r].attempt]]
      BY <2>2, <3>2 DEF RequeueSubdivided, Persist
    <3>. QED  BY <3>3, <1>1
  <2>. QED  BY <2>1, <2>2
<1>3. UNCHANGED <<log, stale>> /\ idle' \subseteq idle
  BY DEF RequeueAfterReview, RequeueSubdivided, Persist
<1> DEFINE b == [base[r] EXCEPT !.status = "pending", !.attempt = n]
<1>4. /\ b \in RunRecord /\ b.status = "pending" /\ b.key = base[r].key /\ b.child
      /\ b.child = base[r].child /\ b.rerunOf = base[r].rerunOf /\ b.attempt = n
  BY <1>0, <1>2 DEF RunRecord, Status, ActiveStatus
<1>5. base' = [base EXCEPT ![r] = b]
  BY <1>2
<1> HIDE DEF b
<1>6. TypeOK' /\ Stored' = Stored
  <2>1. \A q \in Run : base'[q] = IF q = r THEN b ELSE base[q]
    BY <1>5 DEF IInv, TypeOK
  <2>2. Stored' = Stored
    BY <2>1, <1>0, <1>4, NoneAssumption DEF Stored
  <2>. QED  BY <1>0, <1>3, <1>4, <1>5, <2>2 DEF TypeOK
<1>7. base'[r] = b /\ \A q \in Run \ {r} : base'[q] = base[q]
  BY <1>0, <1>5 DEF TypeOK, Stored
<1>8. KeepsIdentity
  <2>1. \A q \in Stored : base[q].attempt \in Int
    BY <1>0, RecordFields, StoredRecord DEF Stored
  <2>2. b # Absent /\ base[r] # Absent
    BY <1>0, <1>4, NoneAssumption
  <2>. QED  BY <1>0, <1>2, <1>4, <1>6, <1>7, <2>1, <2>2 DEF KeepsIdentity, Stored
<1>9. ChildMask'
  <2> SUFFICES ASSUME NEW q \in Stored', View(q)'.status \in TerminalStatus, base'[q].child,
                      log'[q].status = None
               PROVE  FALSE
    BY DEF ChildMask
  <2>1. CASE q = r
    <3>1. View(q)'.status = b.status
      <4>1. log'[r] = log[r] /\ log[r] \in EventLog
        BY <1>0, <1>3, StoredRecord
      <4>2. View(q)' = Materialize(b, log[r])
        BY <2>1, <1>7, <4>1 DEF View
      <4>. QED  BY <2>1, <4>1, <4>2, <1>4, MaterializeFields
    <3>. QED  BY <3>1, <1>4 DEF TerminalStatus
  <2>2. CASE q # r
    BY <2>2, <1>3, <1>6, <1>7 DEF IInv, ChildMask, View, Stored
  <2>. QED  BY <2>1, <2>2
<1>10. NoFileNoLog'
  BY <1>0, <1>3, <1>4, <1>7, NoneAssumption DEF IInv, NoFileNoLog
<1>11. StalePrefix'
  BY <1>0, <1>3, <1>6, <1>8, AgeInvariant DEF TypeOK
<1>. QED  BY <1>0, <1>2, <1>3, <1>6, <1>8, <1>9, <1>10, <1>11, IdentityInvariants DEF IInv

MarkStaleEntry(q, e) ==
    /\ e = [View(q) EXCEPT !.status = "error"]
    /\ e \in RunRecord
    /\ e.key = base[q].key /\ e.child = base[q].child
    /\ e.attempt = base[q].attempt /\ e.rerunOf = base[q].rerunOf

\* Marking runs stale changes the status in their base files and nothing else
\* that a creation or the invariant looks at.
LEMMA MarkStaleKeeps ==
  ASSUME TypeOK, NEW k \in Key
  PROVE  /\ MarkStale(Displaced(k)) \in [Run -> RunRecord \cup {Absent, Removed}]
         /\ Displaced(k) \subseteq Stored
         /\ \A q \in Displaced(k) : ~base[q].child /\ base[q].key = k /\ IsActive(q)
         /\ \A q \in Run \ Displaced(k) : MarkStale(Displaced(k))[q] = base[q]
         /\ \A q \in Displaced(k) :
               MarkStaleEntry(q, MarkStale(Displaced(k))[q])
<1> DEFINE D == Displaced(k)
<1>1. D \subseteq Stored /\ \A q \in D : ~base[q].child /\ base[q].key = k /\ IsActive(q)
  BY DEF Displaced, Newest, ActiveForKey, RunsForKey
<1>2. D \subseteq Run
  BY <1>1 DEF Stored
<1> HIDE DEF D
<1>3. \A q \in D : MarkStale(D)[q] = [View(q) EXCEPT !.status = "error"]
  BY <1>2 DEF MarkStale
<1>4. \A q \in Run \ D : MarkStale(D)[q] = base[q]
  BY <1>2 DEF MarkStale
<1>5. ASSUME NEW q \in D
      PROVE  MarkStaleEntry(q, MarkStale(D)[q])
  <2>1. /\ View(q) \in RunRecord
        /\ View(q).key = base[q].key /\ View(q).child = base[q].child
        /\ View(q).attempt = base[q].attempt /\ View(q).rerunOf = base[q].rerunOf
    BY <1>1, ViewFields
  <2>2. "error" \in Status
    BY DEF Status, TerminalStatus
  <2>. QED  BY <2>1, <2>2, <1>3 DEF RunRecord, MarkStaleEntry
<1>6. \A q \in Run : MarkStale(D)[q] \in RunRecord \cup {Absent, Removed}
  <2>1. \A q \in Run \ D : base[q] \in RunRecord \cup {Absent, Removed}
    BY DEF TypeOK
  <2>. QED  BY <2>1, <1>4, <1>5 DEF MarkStaleEntry
<1>7. MarkStale(D) \in [Run -> RunRecord \cup {Absent, Removed}]
  <2>1. MarkStale(D) = [q \in Run |-> MarkStale(D)[q]]
    BY DEF MarkStale
  <2>. QED  BY <1>6, <2>1
<1>. QED  BY <1>1, <1>4, <1>5, <1>7 DEF D

\* A creation as its effect on the base files.
LEMMA CreateEffect ==
  ASSUME TypeOK, NEW r \in Run, NEW k \in Key, NEW n \in 1..MaxAttempt,
         NEW source \in Run \cup {None}, Create(r, k, n, source)
  PROVE  /\ base' \in [Run -> RunRecord \cup {Absent, Removed}]
         /\ base[r] = Absent /\ r \notin Stored /\ Stored' = Stored \cup {r}
         /\ Displaced(k) \subseteq Stored
         /\ base'[r] = NewRun(k, FALSE, n, source) /\ base'[r] \in RunRecord
         /\ \A q \in Displaced(k) : base'[q] = [View(q) EXCEPT !.status = "error"]
         /\ \A q \in Run \ (Displaced(k) \cup {r}) : base'[q] = base[q]
         /\ \A q \in Stored : /\ base'[q].key = base[q].key
                              /\ base'[q].child = base[q].child
                              /\ base'[q].attempt = base[q].attempt
                              /\ base'[q].rerunOf = base[q].rerunOf
                              /\ base[q].child => base'[q] = base[q]
<1> DEFINE M == MarkStale(Displaced(k))
           new == NewRun(k, FALSE, n, source)
<1>1. /\ base[r] = Absent /\ r \notin Stored /\ base' = [M EXCEPT ![r] = new]
  BY DEF Create, CanCreate, Stored
<1>2. new \in RunRecord
  BY DEF NewRun, RunRecord, Status, ActiveStatus
<1>3. M \in [Run -> RunRecord \cup {Absent, Removed}]
  BY MarkStaleKeeps
<1> HIDE DEF M, new
<1>4. /\ base' \in [Run -> RunRecord \cup {Absent, Removed}]
      /\ base'[r] = new /\ \A q \in Run \ {r} : base'[q] = M[q]
  BY <1>1, <1>2, <1>3
<1>5. Displaced(k) \subseteq Stored /\ r \notin Displaced(k) /\ Stored \subseteq Run
  BY <1>1, MarkStaleKeeps DEF Stored
<1>6. /\ \A q \in Run \ Displaced(k) : M[q] = base[q]
      /\ \A q \in Displaced(k) : ~base[q].child
      /\ \A q \in Displaced(k) :
            /\ M[q] = [View(q) EXCEPT !.status = "error"] /\ M[q] \in RunRecord
            /\ M[q].key = base[q].key /\ M[q].child = base[q].child
            /\ M[q].attempt = base[q].attempt /\ M[q].rerunOf = base[q].rerunOf
  <2>1. \A q \in Run \ Displaced(k) : M[q] = base[q]
    BY MarkStaleKeeps DEF M
  <2>2. \A q \in Displaced(k) : ~base[q].child
    BY MarkStaleKeeps
  <2>3. \A q \in Displaced(k) : MarkStaleEntry(q, M[q])
    BY MarkStaleKeeps DEF M
  <2>. QED  BY <2>1, <2>2, <2>3 DEF MarkStaleEntry
<1>7. Stored' = Stored \cup {r}
  <2>1. new \notin {Absent, Removed}
    BY <1>2, NoneAssumption
  <2>2. ASSUME NEW q \in Run \ {r}
        PROVE  base'[q] \in {Absent, Removed} <=> base[q] \in {Absent, Removed}
    <3>1. CASE q \in Displaced(k)
      <4>1. M[q] \in RunRecord /\ base'[q] = M[q] /\ q \in Stored
        BY <3>1, <1>4, <1>5, <1>6
      <4>. QED  BY <4>1, NoneAssumption DEF Stored
    <3>2. CASE q \notin Displaced(k)
      BY <3>2, <1>4, <1>6
    <3>. QED  BY <3>1, <3>2
  <2>. QED  BY <1>4, <2>1, <2>2 DEF Stored
<1>. QED  BY <1>1, <1>2, <1>4, <1>5, <1>6, <1>7 DEF new

LEMMA CreatePreserves ==
  ASSUME IInv, NEW r \in Run, NEW k \in Key, NEW n \in 1..MaxAttempt,
         NEW source \in Stored \cup {None}, Create(r, k, n, source),
         \/ UNCHANGED log
         \/ AppendEvent(r, StatusEvent(r, "pending"))
  PROVE  IInv'
<1>0. TypeOK /\ source \in Run \cup {None}
  BY DEF IInv, Stored
<1>1. /\ base' \in [Run -> RunRecord \cup {Absent, Removed}]
      /\ base[r] = Absent /\ r \notin Stored /\ Stored' = Stored \cup {r}
      /\ base'[r] = NewRun(k, FALSE, n, source) /\ base'[r] \in RunRecord
      /\ \A q \in Run \ Stored' : base'[q] = base[q]
      /\ \A q \in Stored : /\ base'[q].key = base[q].key
                           /\ base'[q].child = base[q].child
                           /\ base'[q].attempt = base[q].attempt
                           /\ base'[q].rerunOf = base[q].rerunOf
                           /\ base[q].child => base'[q] = base[q]
  <2>1. Stored \subseteq Run
    BY DEF Stored
  <2>. QED  BY <1>0, <2>1, CreateEffect
<1>2. /\ base'[r].key = k /\ base'[r].child = FALSE /\ base'[r].attempt = n
      /\ base'[r].rerunOf = source
  BY <1>1 DEF NewRun
<1>3. /\ n \in Int /\ \A q \in Stored : base[q].attempt \in Int
      /\ \A q \in Stored : ~base[q].child /\ base[q].key = k => base[q].attempt < n
  <2>1. \A q \in Stored : base[q].attempt \in Int
    BY <1>0, StoredRecord, RecordFields DEF Stored
  <2>. QED  BY <2>1, BoundsAssumption DEF Create, IsNextAttempt, RunsForKey
<1>4. UNCHANGED stale /\ idle' \subseteq idle /\ r \notin stale
  BY <1>0, <1>1 DEF Create, TypeOK
<1>5. log' \in [Run -> EventLog] /\ \A q \in Run \ {r} : log'[q] = log[q]
  <2>1. StatusEvent(r, "pending") \in EventLog
    BY <1>0, StoredRecord, AddEventType DEF StatusEvent, Status, ActiveStatus
  <2>. QED  BY <1>0, <2>1 DEF TypeOK, AppendEvent
<1>6. TypeOK'
  BY <1>0, <1>1, <1>4, <1>5 DEF TypeOK
<1>7. AttemptsDistinct'
  <2> SUFFICES ASSUME NEW p \in Stored', NEW q \in Stored',
                      ~base'[p].child, ~base'[q].child, base'[p].key = base'[q].key,
                      base'[p].attempt = base'[q].attempt
               PROVE  p = q
    BY DEF AttemptsDistinct
  <2>1. CASE p \in Stored /\ q \in Stored
    BY <2>1, <1>1 DEF IInv, AttemptsDistinct
  <2>2. ASSUME NEW x \in Stored, ~base[x].child, base[x].key = k
        PROVE  base[x].attempt # n
    BY <2>2, <1>3
  <2>3. CASE p = r /\ q \in Stored
    <3>1. ~base[q].child /\ base[q].key = k /\ base[q].attempt = n
      BY <2>3, <1>1, <1>2
    <3>. QED  BY <3>1, <2>2, <2>3
  <2>4. CASE q = r /\ p \in Stored
    <3>1. ~base[p].child /\ base[p].key = k /\ base[p].attempt = n
      BY <2>4, <1>1, <1>2
    <3>. QED  BY <3>1, <2>2, <2>4
  <2>. QED  BY <2>1, <2>3, <2>4, <1>1
<1>8. LineageIncreases'
  <2> SUFFICES ASSUME NEW p \in Stored', NEW q \in Stored',
                      base'[p].rerunOf = q, ~base'[q].child, base'[q].key = base'[p].key
               PROVE  base'[q].attempt < base'[p].attempt
    BY DEF LineageIncreases
  <2>1. CASE p = r
    <3>1. q = source /\ source # None
      BY <2>1, <1>1, <1>2, NoneAssumption DEF Stored
    <3>. QED  BY <2>1, <3>1, <1>1, <1>2, <1>3
  <2>2. CASE p # r
    <3>1. p \in Stored /\ base[p].rerunOf = q
      BY <2>2, <1>1
    <3>2. q # r
      BY <3>1, <1>1 DEF IInv, LineageKnown
    <3>. QED  BY <3>1, <3>2, <1>1 DEF IInv, LineageIncreases
  <2>. QED  BY <2>1, <2>2
<1>9. LineageKnown'
  <2>1. \A q \in Run : base[q] # Absent => base'[q] # Absent
    BY <1>1, NoneAssumption DEF Stored
  <2>2. source \in Run => base[source] # Absent
    BY NoneAssumption DEF Stored
  <2> SUFFICES ASSUME NEW q \in Stored', base'[q].rerunOf \in Run
               PROVE  base'[base'[q].rerunOf] # Absent
    BY DEF LineageKnown
  <2>3. CASE q = r
    BY <2>1, <2>2, <2>3, <1>2
  <2>4. CASE q \in Stored
    BY <2>1, <2>4, <1>1 DEF IInv, LineageKnown
  <2>. QED  BY <2>3, <2>4, <1>1
<1>10. ChildMask'
  <2> SUFFICES ASSUME NEW q \in Stored', base'[q].child, View(q)'.status \in TerminalStatus
               PROVE  log'[q].status # None
    BY DEF ChildMask
  <2>1. q \in Stored /\ q # r /\ q \in Run
    BY <1>1, <1>2 DEF Stored
  <2>2. base'[q] = base[q] /\ log'[q] = log[q] /\ base[q].child
    BY <2>1, <1>1, <1>5
  <2>. QED  BY <2>1, <2>2 DEF IInv, ChildMask, View
<1>11. NoFileNoLog'
  BY <1>1, <1>5 DEF IInv, NoFileNoLog, Stored
<1>12. StalePrefix'
  <2> SUFFICES ASSUME NEW q \in Stored', NEW p \in Stored',
                      ~base'[q].child, ~base'[p].child, base'[q].key = base'[p].key,
                      base'[q].attempt <= base'[p].attempt, p \in stale
               PROVE  q \in stale
    BY <1>4 DEF StalePrefix
  <2>1. p \in Stored
    BY <1>1, <1>4
  <2>2. q # r
    <3>1. ASSUME q = r
          PROVE  FALSE
      <4>1. ~base[p].child /\ base[p].key = k /\ n <= base[p].attempt
        BY <3>1, <2>1, <1>1, <1>2
      <4>. QED  BY <4>1, <2>1, <1>3
    <3>. QED  BY <3>1
  <2>. QED  BY <2>1, <2>2, <1>1 DEF IInv, StalePrefix
<1>. QED  BY <1>6, <1>7, <1>8, <1>9, <1>10, <1>11, <1>12 DEF IInv

\* Death after the stale runs are rewritten: they alone change, in their base.
LEMMA DisplaceEffect ==
  ASSUME IInv, NEW k \in Key, base' = MarkStale(Displaced(k))
  PROVE  /\ base' \in [Run -> RunRecord \cup {Absent, Removed}]
         /\ Displaced(k) \subseteq Stored /\ Stored' = Stored
         /\ \A q \in Run \ Displaced(k) : base'[q] = base[q]
         /\ \A q \in Displaced(k) : MarkStaleEntry(q, base'[q]) /\ ~base[q].child
         /\ \A p, q \in Displaced(k) : p = q
<1>0. TypeOK
  BY DEF IInv
<1>1. /\ base' \in [Run -> RunRecord \cup {Absent, Removed}]
      /\ Displaced(k) \subseteq Stored
      /\ \A q \in Run \ Displaced(k) : base'[q] = base[q]
      /\ \A q \in Displaced(k) : MarkStaleEntry(q, base'[q])
      /\ \A q \in Displaced(k) : ~base[q].child /\ base[q].key = k
  BY <1>0, MarkStaleKeeps
<1>2. Stored' = Stored
  <2>1. ASSUME NEW q \in Run
        PROVE  base'[q] \in {Absent, Removed} <=> base[q] \in {Absent, Removed}
    <3>1. CASE q \in Displaced(k)
      BY <3>1, <1>1, NoneAssumption DEF MarkStaleEntry, Stored
    <3>2. CASE q \notin Displaced(k)
      BY <3>2, <1>1
    <3>. QED  BY <3>1, <3>2
  <2>. QED  BY <2>1 DEF Stored
<1>3. ASSUME NEW p \in Displaced(k), NEW q \in Displaced(k)
      PROVE  p = q
  <2>1. p \in Stored /\ q \in Stored
    BY <1>1
  <2>2. base[p].attempt <= base[q].attempt /\ base[q].attempt <= base[p].attempt
    BY DEF Displaced, Newest
  <2>3. base[p].attempt \in Int /\ base[q].attempt \in Int
    BY <1>0, <2>1, StoredRecord, RecordFields DEF Stored
  <2>4. base[p].attempt = base[q].attempt
    BY <2>2, <2>3
  <2>. QED  BY <2>1, <2>4, <1>1 DEF IInv, AttemptsDistinct
<1>. QED  BY <1>1, <1>2, <1>3

LEMMA CrashInCreatePreserves ==
  ASSUME IInv, NEW r \in Run, NEW k \in Key, CrashInCreate(r, k)
  PROVE  IInv'
<1>1. CASE \E n \in 1..MaxAttempt : Create(r, k, n, None) /\ UNCHANGED log
  BY <1>1, CreatePreserves
<1>2. CASE /\ base' = MarkStale(Displaced(k))
           /\ idle' = idle \ Displaced(k)
           /\ UNCHANGED <<log, stale>>
  <2>0. TypeOK
    BY DEF IInv
  <2>1. /\ base' \in [Run -> RunRecord \cup {Absent, Removed}]
        /\ Displaced(k) \subseteq Stored /\ Stored' = Stored
        /\ \A q \in Run \ Displaced(k) : base'[q] = base[q]
        /\ \A q \in Displaced(k) : MarkStaleEntry(q, base'[q]) /\ ~base[q].child
    BY <1>2, DisplaceEffect
  <2>2. TypeOK'
    BY <1>2, <2>0, <2>1 DEF TypeOK
  <2>3. KeepsIdentity
    <3>1. ASSUME NEW q \in Run
          PROVE  /\ base'[q] = Absent <=> base[q] = Absent
                 /\ q \in Stored => /\ base'[q].key = base[q].key
                                    /\ base'[q].child = base[q].child
                                    /\ base'[q].rerunOf = base[q].rerunOf
                                    /\ base'[q].attempt = base[q].attempt
      <4>1. CASE q \in Displaced(k)
        BY <4>1, <2>1, NoneAssumption DEF MarkStaleEntry, Stored
      <4>2. CASE q \notin Displaced(k)
        BY <4>2, <2>1
      <4>. QED  BY <4>1, <4>2
    <3>2. \A q \in Stored : base[q].attempt \in Int
      BY <2>0, RecordFields, StoredRecord DEF Stored
    <3>. QED  BY <2>1, <3>1, <3>2 DEF KeepsIdentity
  <2>4. ChildMask'
    <3> SUFFICES ASSUME NEW q \in Stored', base'[q].child, View(q)'.status \in TerminalStatus
                 PROVE  log'[q].status # None
      BY DEF ChildMask
    <3>1. q \in Run \ Displaced(k) /\ q \in Stored
      BY <2>1, <2>3 DEF KeepsIdentity, Stored
    <3>. QED  BY <3>1, <2>1, <1>2 DEF IInv, ChildMask, View
  <2>5. NoFileNoLog'
    BY <1>2, <2>1 DEF IInv, NoFileNoLog, Stored
  <2>6. StalePrefix'
    BY <1>2, <2>0, <2>1, <2>3, AgeInvariant DEF TypeOK
  <2>. QED  BY <2>2, <2>3, <2>4, <2>5, <2>6, IdentityInvariants DEF IInv
<1>. QED  BY <1>1, <1>2 DEF CrashInCreate

LEMMA SpawnEffect ==
  ASSUME TypeOK, NEW r \in Run, NEW parent \in Run, SpawnChild(r, parent)
  PROVE  /\ base[r] = Absent /\ r \notin Stored /\ parent \in Stored
         /\ base' = [base EXCEPT ![r] = NewRun(base[parent].key, TRUE, 1, None)]
         /\ base[parent].key \in Key
         /\ NewRun(base[parent].key, TRUE, 1, None) \in RunRecord
         /\ Stored' = Stored \cup {r}
<1>1. base[r] = Absent /\ r \notin Stored /\ parent \in Stored
  BY DEF SpawnChild, Stored
<1>2. base[parent].key \in Key /\ 1 \in 1..MaxAttempt
  <2>1. base[parent] \in RunRecord
    BY <1>1, StoredRecord
  <2>2. base[parent].attempt \in 1..MaxAttempt
    BY <2>1 DEF RunRecord
  <2>. QED  BY <2>1, <2>2, BoundsAssumption DEF RunRecord
<1> DEFINE new == NewRun(base[parent].key, TRUE, 1, None)
<1>3. new \in RunRecord
  BY <1>2 DEF NewRun, RunRecord, Status, ActiveStatus
<1>4. base' = [base EXCEPT ![r] = new]
  BY DEF SpawnChild
<1>5. Stored' = Stored \cup {r}
  <2>1. base'[r] = new /\ \A q \in Run \ {r} : base'[q] = base[q]
    BY <1>4 DEF TypeOK
  <2>. QED  BY <2>1, <1>3, NoneAssumption DEF Stored
<1>. QED  BY <1>1, <1>2, <1>3, <1>4, <1>5

LEMMA SpawnPreserves ==
  ASSUME IInv, NEW r \in Run, NEW parent \in Run, SpawnChild(r, parent)
  PROVE  IInv'
<1>0. TypeOK
  BY DEF IInv
<1> DEFINE new == NewRun(base[parent].key, TRUE, 1, None)
<1>1. /\ base[r] = Absent /\ r \notin Stored /\ base' = [base EXCEPT ![r] = new]
      /\ new \in RunRecord /\ Stored' = Stored \cup {r}
  BY <1>0, SpawnEffect
<1>2. new.child = TRUE /\ new.rerunOf = None /\ new.status = "pending"
  BY DEF NewRun
<1> HIDE DEF new
<1>3. base'[r] = new /\ \A q \in Run \ {r} : base'[q] = base[q]
  BY <1>0, <1>1 DEF TypeOK
<1>4. UNCHANGED <<log, stale>> /\ idle' \subseteq idle
  BY DEF SpawnChild
<1>5. TypeOK'
  BY <1>0, <1>1, <1>4 DEF TypeOK
<1>6. AttemptsDistinct'
  BY <1>1, <1>2, <1>3 DEF IInv, AttemptsDistinct, Stored
<1>7. LineageIncreases'
  <2>1. None \notin Stored'
    BY NoneAssumption DEF Stored
  <2>. QED  BY <2>1, <1>1, <1>2, <1>3 DEF IInv, LineageIncreases, Stored
<1>8. LineageKnown'
  <2>1. new # Absent
    BY <1>1, NoneAssumption
  <2>2. new.rerunOf \notin Run
    BY <1>2, NoneAssumption
  <2>. QED  BY <2>1, <2>2, <1>1, <1>3 DEF IInv, LineageKnown, Stored
<1>9. ChildMask'
  <2> SUFFICES ASSUME NEW q \in Stored', base'[q].child, View(q)'.status \in TerminalStatus
               PROVE  log'[q].status # None
    BY DEF ChildMask
  <2>1. CASE q = r
    <3>1. View(q)' = Materialize(new, EmptyLog)
      BY <2>1, <1>1, <1>3, <1>4 DEF View, IInv, NoFileNoLog
    <3>2. View(q)'.status = "pending"
      BY <3>1, <1>1, <1>2, MaterializeEmpty
    <3>. QED  BY <3>2 DEF TerminalStatus
  <2>2. CASE q # r
    BY <2>2, <1>1, <1>3, <1>4 DEF IInv, ChildMask, View, Stored
  <2>. QED  BY <2>1, <2>2
<1>10. NoFileNoLog'
  BY <1>1, <1>3, <1>4 DEF IInv, NoFileNoLog, Stored
<1>11. StalePrefix'
  BY <1>0, <1>1, <1>2, <1>3, <1>4 DEF IInv, StalePrefix, TypeOK, Stored
<1>. QED  BY <1>5, <1>6, <1>7, <1>8, <1>9, <1>10, <1>11 DEF IInv

\* Steps that leave files alone.
LEMMA AgePreserves ==
  ASSUME IInv, NEW r \in Run, UNCHANGED <<base, log>>,
         TypeOK', StalePrefix'
  PROVE  IInv'
<1>1. AttemptsDistinct' /\ LineageIncreases' /\ LineageKnown'
  BY DEF IInv, AttemptsDistinct, LineageIncreases, LineageKnown, Stored
<1>2. ChildMask' /\ NoFileNoLog'
  BY DEF IInv, ChildMask, NoFileNoLog, Stored, View
<1>. QED  BY <1>1, <1>2 DEF IInv

LEMMA GrowStalePreserves ==
  ASSUME IInv, NEW r \in Run, GrowStale(r)
  PROVE  IInv'
<1>1. /\ UNCHANGED <<base, log, idle>> /\ stale' = stale \cup {r} /\ r \in Stored \ stale
      /\ \/ base[r].child
         \/ \A q \in RunsForKey(base[r].key) \ stale : base[r].attempt <= base[q].attempt
  BY DEF GrowStale
<1>2. TypeOK'
  BY <1>1 DEF IInv, TypeOK, Stored
<1>3. Stored' = Stored
  BY <1>1 DEF Stored
<1>4. StalePrefix'
  <2> SUFFICES ASSUME NEW q \in Stored, NEW p \in Stored,
                      ~base[q].child, ~base[p].child, base[q].key = base[p].key,
                      base[q].attempt <= base[p].attempt, p \in stale', q \notin stale
               PROVE  q = r
    BY <1>1, <1>3 DEF StalePrefix
  <2>1. p = r
    BY <1>1 DEF IInv, StalePrefix
  <2>2. base[r].attempt <= base[q].attempt
    BY <1>1, <2>1 DEF RunsForKey
  <2>3. base[q].attempt \in Int /\ base[r].attempt \in Int
    BY <2>1, StoredRecord, RecordFields DEF IInv, Stored
  <2>4. base[q].attempt = base[r].attempt
    BY <2>1, <2>2, <2>3
  <2>. QED  BY <2>1, <2>4, <1>1 DEF IInv, AttemptsDistinct
<1>. QED  BY <1>1, <1>2, <1>4, AgePreserves

LEMMA GrowIdlePreserves ==
  ASSUME IInv, NEW r \in Run, GrowIdle(r)
  PROVE  IInv'
<1>1. UNCHANGED <<base, log, stale>> /\ idle' = idle \cup {r} /\ r \in stale
  BY DEF GrowIdle
<1>2. TypeOK' /\ StalePrefix'
  BY <1>1 DEF IInv, TypeOK, StalePrefix, Stored
<1>. QED  BY <1>1, <1>2, AgePreserves

LEMMA CleanupPreserves ==
  ASSUME IInv, NEW r \in Run, CleanupOldRun(r)
  PROVE  IInv'
<1>0. TypeOK
  BY DEF IInv
<1>1. /\ r \in idle /\ r \in Stored
      /\ base'[r] = Removed /\ \A q \in Run \ {r} : base'[q] = base[q]
      /\ log'[r] = EmptyLog /\ \A q \in Run \ {r} : log'[q] = log[q]
      /\ stale' = stale \ {r} /\ idle' = idle \ {r}
  BY <1>0 DEF CleanupOldRun, TypeOK, Stored
<1>2. Stored' = Stored \ {r}
  BY <1>1 DEF Stored
<1>3. TypeOK'
  <2>1. /\ base' \in [Run -> RunRecord \cup {Absent, Removed}]
        /\ log' \in [Run -> EventLog]
    BY <1>0, EmptyLogType DEF CleanupOldRun, TypeOK
  <2>. QED  BY <2>1, <1>0, <1>1, <1>2 DEF TypeOK
<1>4. KeepsIdentity
  <2>1. \A q \in Stored : base[q].attempt \in Int
    BY <1>0, RecordFields, StoredRecord DEF Stored
  <2>2. base[r] # Absent /\ Removed # Absent
    BY <1>1, NoneAssumption DEF Stored
  <2>. QED  BY <1>1, <1>2, <2>1, <2>2 DEF KeepsIdentity, Stored
<1>5. ChildMask'
  BY <1>1, <1>2 DEF IInv, ChildMask, View, Stored
<1>6. NoFileNoLog'
  BY <1>1 DEF IInv, NoFileNoLog
<1>7. StalePrefix'
  BY <1>0, <1>1, <1>2, <1>4, AgeInvariant DEF TypeOK
<1>. QED  BY <1>3, <1>4, <1>5, <1>6, <1>7, IdentityInvariants DEF IInv

----------------------------------------------------------------------------
(* The invariant theorems. *)

LEMMA InitEstablishes == Init => IInv
<1> SUFFICES ASSUME Init
             PROVE  IInv
  OBVIOUS
<1>1. Stored = {} /\ \A r \in Run : base[r] = Absent /\ log[r] = EmptyLog
  BY DEF Init, Stored
<1>2. TypeOK
  BY <1>1, EmptyLogType DEF Init, TypeOK
<1>. QED  BY <1>1, <1>2 DEF IInv, AttemptsDistinct, LineageIncreases, LineageKnown,
                        ChildMask, NoFileNoLog, StalePrefix

LEMMA NextPreserves == IInv /\ [Next]_vars => IInv'
<1> SUFFICES ASSUME IInv, [Next]_vars
             PROVE  IInv'
  OBVIOUS
<1>1. CASE UNCHANGED vars
  BY <1>1 DEF vars, IInv, TypeOK, AttemptsDistinct, LineageIncreases, LineageKnown,
              ChildMask, NoFileNoLog, StalePrefix, Stored, View
<1>2. ASSUME NEW r \in Run, NEW k \in Key, CreateRun(r, k)
      PROVE  IInv'
  BY <1>2, CreatePreserves DEF CreateRun
<1>3. ASSUME NEW r \in Run, NEW k \in Key, CrashInCreate(r, k)
      PROVE  IInv'
  BY <1>3, CrashInCreatePreserves
<1>4. ASSUME NEW r \in Run, NEW q \in Run, NEW k \in Key, Rerun(r, q, k)
      PROVE  IInv'
  BY <1>4, CreatePreserves DEF Rerun
<1>5. ASSUME NEW r \in Run, NEW q \in Run, SpawnChild(r, q)
      PROVE  IInv'
  BY <1>5, SpawnPreserves
<1>6. ASSUME NEW r \in Run, NEW s \in Requested, UpdateRunStatus(r, s) \/ CrashInUpdate(r, s)
      PROVE  IInv'
  BY <1>6, UpdatePreserves
<1>7. ASSUME NEW r \in Run, NEW g \in Stage,
             SetRunStage(r, g) \/ CrashInMergeGate(r, StageEvent(r, g))
      PROVE  IInv'
  BY <1>7, MergeGatePreserves DEF SetRunStage, CrashInMergeGate
<1>8. ASSUME NEW r \in Run, NEW m \in MergeField,
             UpdateMergeMetadata(r, m) \/ CrashInMergeGate(r, MergeEvent(r, m))
      PROVE  IInv'
  BY <1>8, MergeGatePreserves DEF UpdateMergeMetadata, CrashInMergeGate
<1>9. ASSUME NEW r \in Run, RequeueAfterReview(r) \/ RequeueSubdivided(r)
      PROVE  IInv'
  BY <1>9, RequeuePreserves
<1>10. ASSUME NEW r \in Run, GrowStale(r) \/ GrowIdle(r) \/ CleanupOldRun(r)
       PROVE  IInv'
  BY <1>10, GrowStalePreserves, GrowIdlePreserves, CleanupPreserves
<1>. QED  BY <1>1, <1>2, <1>3, <1>4, <1>5, <1>6, <1>7, <1>8, <1>9, <1>10 DEF Next

THEOREM InductiveInvariant == Spec => []IInv
BY InitEstablishes, NextPreserves, PTL DEF Spec

\* Base files, logs and ages are always well formed.
THEOREM TypeCorrect == Spec => []TypeOK
<1>1. IInv => TypeOK
  BY DEF IInv
<1>. QED  BY <1>1, InductiveInvariant, PTL

\* The attempt numbers create_run hands out identify the root runs of a key.
THEOREM AttemptsIdentify == Spec => []AttemptsDistinct
<1>1. IInv => AttemptsDistinct
  BY DEF IInv
<1>. QED  BY <1>1, InductiveInvariant, PTL

\* A rerun is always numbered above the run it repeats.
THEOREM LineageOrdered == Spec => []LineageIncreases
<1>1. IInv => LineageIncreases
  BY DEF IInv
<1>. QED  BY <1>1, InductiveInvariant, PTL

----------------------------------------------------------------------------
(* The store implements RunView. *)

LEMMA SameVocabulary ==
  /\ RV!Status = Status /\ RV!ActiveStatus = ActiveStatus
  /\ RV!TerminalStatus = TerminalStatus /\ RV!ValidTransitions = ValidTransitions
  /\ RV!RunRecord = RunRecord
  /\ \A k, c, n, s : RV!NewRun(k, c, n, s) = NewRun(k, c, n, s)
<1>1. /\ RV!Status = Status /\ RV!ActiveStatus = ActiveStatus
      /\ RV!TerminalStatus = TerminalStatus
  BY DEF RV!Status, Status, RV!ActiveStatus, ActiveStatus, RV!TerminalStatus,
         TerminalStatus, RV!ParkedStatus, ParkedStatus
<1>2. RV!ValidTransitions = ValidTransitions
  BY <1>1 DEF RV!ValidTransitions, ValidTransitions
<1>3. RV!RunRecord = RunRecord
  BY <1>1 DEF RV!RunRecord, RunRecord
<1>4. \A k, c, n, s : RV!NewRun(k, c, n, s) = NewRun(k, c, n, s)
  BY DEF RV!NewRun, NewRun
<1>. QED  BY <1>1, <1>2, <1>3, <1>4

LEMMA ViewOfRun ==
  ASSUME TypeOK
  PROVE  /\ RV!Existing = Stored
         /\ \A r \in Stored : viewOfRuns[r] = View(r) /\ View(r) \in RunRecord
         /\ \A r \in Run \ Stored : viewOfRuns[r] = base[r]
<1>1. /\ \A r \in Stored : viewOfRuns[r] = View(r) /\ View(r) \in RunRecord
      /\ \A r \in Run \ Stored : viewOfRuns[r] = base[r]
  BY ViewFields DEF viewOfRuns, Stored
<1>2. RV!Existing = {r \in Run : viewOfRuns[r] \in RunRecord}
  BY SameVocabulary DEF RV!Existing
<1>3. \A r \in Run \ Stored : base[r] \notin RunRecord
  BY NoneAssumption DEF Stored
<1>. QED  BY <1>1, <1>2, <1>3 DEF Stored

LEMMA InitRefines == Init => RV!Init
BY DEF Init, RV!Init, viewOfRuns, Stored

\* A rewrite of r shows as one change of its view.
LEMMA RewriteShows ==
  ASSUME TypeOK, TypeOK', NEW r \in Stored, NEW l \in EventLog, Rewrites(r, l)
  PROVE  viewOfRuns' = [viewOfRuns EXCEPT ![r] = Materialize(base[r], l)]
<1>0. r \in Run /\ base[r] \in RunRecord
  BY StoredRecord DEF Stored
<1>1. base'[r] \in RunRecord /\ Stored' = Stored
  <2>1. base'[r] \in RunRecord
    BY <1>0, MaterializeFields DEF Rewrites
  <2>2. \A q \in Run : base'[q] \in {Absent, Removed} <=> base[q] \in {Absent, Removed}
    BY <1>0, <2>1, NoneAssumption DEF Rewrites
  <2>. QED  BY <2>1, <2>2 DEF Stored
<1>2. viewOfRuns'[r] = Materialize(base[r], l)
  BY <1>0, <1>1 DEF viewOfRuns, View, Rewrites
<1>3. \A q \in Run \ {r} : viewOfRuns'[q] = viewOfRuns[q]
  BY <1>1 DEF viewOfRuns, View, Rewrites
<1>4. /\ viewOfRuns = [q \in Run |-> viewOfRuns[q]]
      /\ viewOfRuns' = [q \in Run |-> viewOfRuns'[q]]
  BY DEF viewOfRuns
<1>. QED  BY <1>2, <1>3, <1>4

LEMMA UpdateRefines ==
  ASSUME IInv, IInv', NEW r \in Run, NEW s \in Requested,
         UpdateRunStatus(r, s) \/ CrashInUpdate(r, s)
  PROVE  RV!Move(r, s)
<1>1. /\ TypeOK /\ TypeOK' /\ r \in Stored /\ s \in Status
      /\ s \in ValidTransitions[View(r).status]
  BY BoundsAssumption DEF IInv, UpdateRunStatus, CrashInUpdate, MayUpdate
<1>2. /\ StatusEvent(r, s) \in EventLog
      /\ Materialize(base[r], StatusEvent(r, s)) = [View(r) EXCEPT !.status = s]
  BY <1>1, EventsOfRun
<1>3. Rewrites(r, StatusEvent(r, s))
  BY UpdatePreserves
<1>4. viewOfRuns' = [viewOfRuns EXCEPT ![r] = [View(r) EXCEPT !.status = s]]
  BY <1>1, <1>2, <1>3, RewriteShows
<1>5. viewOfRuns[r] = View(r) /\ r \in RV!Existing
  BY <1>1, ViewOfRun
<1>. QED  BY <1>1, <1>4, <1>5, SameVocabulary DEF RV!Move

LEMMA MergeGateRefines ==
  ASSUME IInv, IInv', NEW r \in Stored, NEW l, Rewrites(r, l)
  PROVE  /\ \A g \in Stage : l = StageEvent(r, g) => RV!EnterStage(r, g)
         /\ \A m \in MergeField : l = MergeEvent(r, m) => RV!Record(r, m)
<1>1. /\ TypeOK /\ TypeOK' /\ viewOfRuns[r] = View(r) /\ r \in RV!Existing
  BY ViewOfRun DEF IInv
<1>2. ASSUME NEW g \in Stage, l = StageEvent(r, g)
      PROVE  RV!EnterStage(r, g)
  <2>1. l \in EventLog /\ Materialize(base[r], l) = [View(r) EXCEPT !.stage = g]
    BY <1>1, <1>2, EventsOfRun
  <2>2. viewOfRuns' = [viewOfRuns EXCEPT ![r] = [View(r) EXCEPT !.stage = g]]
    BY <1>1, <2>1, RewriteShows
  <2>. QED  BY <1>1, <2>2 DEF RV!EnterStage
<1>3. ASSUME NEW m \in MergeField, l = MergeEvent(r, m)
      PROVE  RV!Record(r, m)
  <2>1. l \in EventLog /\ Materialize(base[r], l) = [View(r) EXCEPT !.marks = @ \cup {m}]
    BY <1>1, <1>3, EventsOfRun
  <2>2. viewOfRuns' = [viewOfRuns EXCEPT ![r] = [View(r) EXCEPT !.marks = @ \cup {m}]]
    BY <1>1, <2>1, RewriteShows
  <2>. QED  BY <1>1, <2>2 DEF RV!Record
<1>. QED  BY <1>2, <1>3

LEMMA RequeueRefines ==
  ASSUME IInv, IInv', NEW r \in Run, RequeueAfterReview(r) \/ RequeueSubdivided(r)
  PROVE  RV!Requeue(r)
<1>1. /\ r \in Stored /\ base[r].child /\ UNCHANGED log /\ Stored' = Stored
      /\ \E n \in {base[r].attempt, base[r].attempt + 1} :
            base' = [base EXCEPT ![r] = [base[r] EXCEPT !.status = "pending",
                                                        !.attempt = n]]
  BY RequeuePreserves
<1>2. PICK n \in {base[r].attempt, base[r].attempt + 1} :
         base' = [base EXCEPT ![r] = [base[r] EXCEPT !.status = "pending", !.attempt = n]]
  BY <1>1
<1>3. /\ TypeOK /\ TypeOK' /\ viewOfRuns[r] = View(r) /\ r \in RV!Existing
      /\ base[r] \in RunRecord /\ log[r] \in EventLog /\ base \in [Run -> RunRecord \cup {Absent, Removed}]
  BY <1>1, ViewOfRun, StoredRecord DEF IInv, TypeOK
<1> DEFINE b == [base[r] EXCEPT !.status = "pending", !.attempt = n]
           s == IF log[r].status = None THEN "pending" ELSE log[r].status
<1>4. base'[r] = b /\ \A q \in Run \ {r} : base'[q] = base[q]
  BY <1>2, <1>3
<1>5. Stored' = Stored /\ r \in Run
  BY <1>1 DEF Stored
<1>6. View(r)' = [View(r) EXCEPT !.status = s, !.attempt = n]
  <2>1. View(r)' = Materialize(b, log[r])
    BY <1>1, <1>4 DEF View
  <2>2. Materialize(b, log[r]) = [Materialize(base[r], log[r]) EXCEPT !.status = s, !.attempt = n]
    BY <1>3 DEF Materialize, Overlay, RunRecord, EventLog
  <2>. QED  BY <2>1, <2>2 DEF View
<1>7. viewOfRuns' = [viewOfRuns EXCEPT ![r] = [View(r) EXCEPT !.status = s, !.attempt = n]]
  <2>1. viewOfRuns'[r] = View(r)'
    BY <1>1, <1>5 DEF viewOfRuns
  <2>2. \A q \in Run \ {r} : viewOfRuns'[q] = viewOfRuns[q]
    BY <1>1, <1>4, <1>5 DEF viewOfRuns, View
  <2>3. /\ viewOfRuns = [q \in Run |-> viewOfRuns[q]]
        /\ viewOfRuns' = [q \in Run |-> viewOfRuns'[q]]
    BY DEF viewOfRuns
  <2>. QED  BY <2>1, <2>2, <2>3, <1>6
<1>8. /\ View(r).attempt = base[r].attempt /\ View(r).child
      /\ View(r).status = (IF log[r].status = None THEN base[r].status ELSE log[r].status)
  BY <1>1, <1>3, ViewFields
<1>9. s \in {View(r).status} \cup (IF View(r).status \in TerminalStatus THEN {} ELSE {"pending"})
  BY <1>1, <1>8 DEF IInv, ChildMask
<1>10. s \in {viewOfRuns[r].status} \cup
              (IF viewOfRuns[r].status \in RV!TerminalStatus THEN {} ELSE {"pending"})
  BY <1>3, <1>9, SameVocabulary
<1>11. viewOfRuns' = [viewOfRuns EXCEPT ![r].status = s, ![r].attempt = n]
  BY <1>3, <1>7 DEF viewOfRuns
<1> HIDE DEF s
<1>. QED  BY <1>3, <1>8, <1>10, <1>11 DEF RV!Requeue

\* Writing error into the base of a displaced run shows, unless an event hides it.
LEMMA DisplacedView ==
  ASSUME TypeOK, NEW q \in Stored, IsActive(q), MarkStaleEntry(q, base'[q]),
         log'[q] = log[q]
  PROVE  /\ View(q)' = View(q) \/ View(q)' = [View(q) EXCEPT !.status = "error"]
         /\ View(q).status \in ActiveStatus
         /\ "error" \in ValidTransitions[View(q).status]
<1>1. base[q] \in RunRecord /\ log[q] \in EventLog
  BY StoredRecord DEF Stored
<1> DEFINE v == Materialize(base[q], log[q])
<1>2. v \in RunRecord
  BY <1>1, MaterializeFields
<1>3. View(q)' = Materialize([v EXCEPT !.status = "error"], log[q])
  BY DEF MarkStaleEntry, View
<1>4. Materialize([v EXCEPT !.status = "error"], log[q])
        = IF log[q].status = None THEN [v EXCEPT !.status = "error"] ELSE v
  BY <1>1 DEF Materialize, Overlay, RunRecord, EventLog
<1>5. View(q).status \in ActiveStatus
  BY DEF IsActive
<1>6. \A s \in ActiveStatus : "error" \in ValidTransitions[s]
  BY DEF ActiveStatus, ValidTransitions, Status, TerminalStatus
<1>. QED  BY <1>3, <1>4, <1>5, <1>6 DEF View

LEMMA CreateRefines ==
  ASSUME IInv, NEW r \in Run, NEW k \in Key, NEW n \in 1..MaxAttempt,
         NEW source \in Stored \cup {None}, Create(r, k, n, source),
         \/ UNCHANGED log
         \/ AppendEvent(r, StatusEvent(r, "pending"))
  PROVE  RV!StartRoot(r, k, n, source)
<1>0. TypeOK /\ source \in Run \cup {None}
  BY DEF IInv, Stored
<1>1. /\ base[r] = Absent /\ r \notin Stored /\ Stored' = Stored \cup {r}
      /\ base'[r] = NewRun(k, FALSE, n, source) /\ base'[r] \in RunRecord
      /\ \A q \in Run \ (Displaced(k) \cup {r}) : base'[q] = base[q]
  BY <1>0, CreateEffect
<1>2. /\ log[r] = EmptyLog /\ log'[r] \in {EmptyLog, AddStatus(EmptyLog, "pending")}
      /\ \A q \in Run \ {r} : log'[q] = log[q]
  BY <1>0, <1>1 DEF IInv, NoFileNoLog, AppendEvent, StatusEvent, TypeOK
<1>3. View(r)' = NewRun(k, FALSE, n, source)
  <2> DEFINE new == NewRun(k, FALSE, n, source)
  <2>1. new \in RunRecord /\ new.status = "pending" /\ "pending" \in Status
    BY <1>1 DEF NewRun, Status, ActiveStatus
  <2> HIDE DEF new
  <2>2. Materialize(new, EmptyLog) = new
    BY <2>1, MaterializeEmpty
  <2>3. Materialize(new, AddStatus(EmptyLog, "pending")) = [new EXCEPT !.status = "pending"]
    BY <2>1, <2>2, AddEventFields, EmptyLogType
  <2>4. [new EXCEPT !.status = "pending"] = new
    BY <2>1 DEF RunRecord
  <2>5. View(r)' = Materialize(new, log'[r])
    BY <1>1 DEF View, new
  <2>. QED  BY <1>2, <2>2, <2>3, <2>4, <2>5 DEF new
<1> DEFINE D == Displaced(k)
           displaced == {q \in D : View(q)' # View(q)}
<1>4. D \subseteq Stored /\ r \notin D /\ \A q \in D : /\ ~base[q].child /\ base[q].key = k
                                                       /\ IsActive(q)
  BY <1>0, <1>1, MarkStaleKeeps
<1>5. \A q \in D : MarkStaleEntry(q, base'[q])
  <2>1. base' = [MarkStale(D) EXCEPT ![r] = NewRun(k, FALSE, n, source)]
    BY DEF Create
  <2>2. MarkStale(D) \in [Run -> RunRecord \cup {Absent, Removed}]
    BY <1>0, MarkStaleKeeps
  <2>3. \A q \in D : base'[q] = MarkStale(D)[q]
    BY <2>1, <2>2, <1>4 DEF Stored
  <2>. QED  BY <1>0, <2>3, MarkStaleKeeps
<1> HIDE DEF D
<1>6. ASSUME NEW q \in D
      PROVE  /\ View(q)' = View(q) \/ View(q)' = [View(q) EXCEPT !.status = "error"]
             /\ View(q).status \in ActiveStatus
             /\ View(q).key = k
  <2>1. q \in Stored /\ log'[q] = log[q]
    BY <1>2, <1>4 DEF Stored
  <2>. QED  BY <1>0, <1>4, <1>5, <2>1, DisplacedView, ViewFields
<1>7. \A q \in Run : viewOfRuns'[q] =
            IF q = r THEN NewRun(k, FALSE, n, source)
            ELSE IF q \in displaced THEN [viewOfRuns[q] EXCEPT !.status = "error"]
            ELSE viewOfRuns[q]
  <2>1. \A q \in Run : viewOfRuns'[q] = IF q \in Stored' THEN View(q)' ELSE base'[q]
    BY DEF viewOfRuns
  <2>2. \A q \in Run : viewOfRuns[q] = IF q \in Stored THEN View(q) ELSE base[q]
    BY DEF viewOfRuns
  <2>3. ASSUME NEW q \in Run, q # r, q \notin D
        PROVE  viewOfRuns'[q] = viewOfRuns[q]
    BY <2>1, <2>2, <2>3, <1>1, <1>2 DEF View, D
  <2>4. ASSUME NEW q \in D
        PROVE  viewOfRuns'[q] = View(q)' /\ viewOfRuns[q] = View(q)
    BY <2>1, <2>2, <1>1, <1>4 DEF Stored
  <2>. QED  BY <2>1, <2>3, <2>4, <1>1, <1>3, <1>4, <1>6
<1>8. viewOfRuns' = [q \in Run |->
                       IF q = r THEN RV!NewRun(k, FALSE, n, source)
                       ELSE IF q \in displaced THEN [viewOfRuns[q] EXCEPT !.status = "error"]
                       ELSE viewOfRuns[q]]
  <2>1. viewOfRuns' = [q \in Run |-> viewOfRuns'[q]]
    BY DEF viewOfRuns
  <2>. QED  BY <1>7, <2>1, SameVocabulary
<1>9. viewOfRuns[r] = Absent
  BY <1>0, <1>1, ViewOfRun
<1>10. \A q \in RV!Existing :
          ~viewOfRuns[q].child /\ viewOfRuns[q].key = k => viewOfRuns[q].attempt < n
  <2> SUFFICES ASSUME NEW q \in Stored, ~View(q).child, View(q).key = k
               PROVE  View(q).attempt < n
    BY <1>0, ViewOfRun
  <2>1. ~base[q].child /\ base[q].key = k /\ View(q).attempt = base[q].attempt
    BY <1>0, ViewFields
  <2>. QED  BY <2>1 DEF Create, IsNextAttempt, RunsForKey
<1>11. displaced \in SUBSET {q \in RV!Existing : /\ viewOfRuns[q].key = k
                                                 /\ viewOfRuns[q].status \in RV!ActiveStatus}
  BY <1>0, <1>4, <1>6, ViewOfRun, SameVocabulary
<1> HIDE DEF displaced
<1>. QED  BY <1>8, <1>9, <1>10, <1>11 DEF RV!StartRoot

LEMMA CrashInCreateRefines ==
  ASSUME IInv, NEW r \in Run, NEW k \in Key, CrashInCreate(r, k)
  PROVE  RV!Next \/ UNCHANGED viewOfRuns
<1>0. TypeOK
  BY DEF IInv
<1>1. CASE \E n \in 1..MaxAttempt : Create(r, k, n, None) /\ UNCHANGED log
  <2>1. PICK n \in 1..MaxAttempt : Create(r, k, n, None) /\ UNCHANGED log
    BY <1>1
  <2>2. RV!StartRoot(r, k, n, None)
    BY <2>1, CreateRefines
  <2>. QED  BY <2>2 DEF RV!Next
<1>2. CASE base' = MarkStale(Displaced(k)) /\ UNCHANGED log /\ Displaced(k) # {}
  <2>1. PICK q \in Displaced(k) : TRUE
    BY <1>2
  <2>2. /\ Displaced(k) = {q} /\ q \in Stored /\ Stored' = Stored
        /\ \A p \in Run \ {q} : base'[p] = base[p]
        /\ MarkStaleEntry(q, base'[q])
    BY <1>2, <2>1, DisplaceEffect
  <2>3. IsActive(q)
    BY <1>0, MarkStaleKeeps
  <2>4. /\ View(q)' = View(q) \/ View(q)' = [View(q) EXCEPT !.status = "error"]
        /\ "error" \in ValidTransitions[View(q).status]
    BY <1>0, <1>2, <2>2, <2>3, DisplacedView
  <2>5. viewOfRuns' = [viewOfRuns EXCEPT ![q] = View(q)']
    <3>1. \A p \in Run \ {q} : viewOfRuns'[p] = viewOfRuns[p]
      BY <1>2, <2>2 DEF viewOfRuns, View
    <3>2. viewOfRuns'[q] = View(q)'
      BY <2>2 DEF viewOfRuns, Stored
    <3>3. /\ viewOfRuns = [p \in Run |-> viewOfRuns[p]]
          /\ viewOfRuns' = [p \in Run |-> viewOfRuns'[p]]
      BY DEF viewOfRuns
    <3>. QED  BY <3>1, <3>2, <3>3
  <2>6. viewOfRuns[q] = View(q) /\ q \in RV!Existing /\ q \in Run
    BY <1>0, <2>2, ViewOfRun DEF Stored
  <2>7. CASE View(q)' = View(q)
    <3>1. viewOfRuns' = viewOfRuns
      BY <2>5, <2>6, <2>7 DEF viewOfRuns
    <3>. QED  BY <3>1
  <2>8. CASE View(q)' = [View(q) EXCEPT !.status = "error"]
    <3>1. RV!Move(q, "error")
      BY <2>4, <2>5, <2>6, <2>8, SameVocabulary DEF RV!Move
    <3>2. "error" \in RV!Status
      BY DEF RV!Status, RV!TerminalStatus
    <3>. QED  BY <2>6, <3>1, <3>2 DEF RV!Next
  <2>. QED  BY <2>4, <2>7, <2>8
<1>. QED  BY <1>1, <1>2 DEF CrashInCreate

LEMMA SpawnRefines ==
  ASSUME IInv, NEW r \in Run, NEW parent \in Run, SpawnChild(r, parent)
  PROVE  \E k \in Key : RV!StartChild(r, k)
<1>0. TypeOK
  BY DEF IInv
<1> DEFINE new == NewRun(base[parent].key, TRUE, 1, None)
<1>1. /\ base[r] = Absent /\ r \notin Stored
      /\ base' = [base EXCEPT ![r] = new]
      /\ base[parent].key \in Key /\ new \in RunRecord /\ Stored' = Stored \cup {r}
  BY <1>0, SpawnEffect
<1>2. log[r] = EmptyLog /\ UNCHANGED log
  BY <1>1 DEF IInv, NoFileNoLog, SpawnChild
<1> HIDE DEF new
<1>3. base'[r] = new /\ \A q \in Run \ {r} : base'[q] = base[q]
  BY <1>0, <1>1 DEF TypeOK
<1>4. viewOfRuns'[r] = new
  <2>1. View(r)' = Materialize(new, EmptyLog)
    BY <1>2, <1>3 DEF View
  <2>. QED  BY <2>1, <1>1, MaterializeEmpty DEF viewOfRuns
<1>5. \A q \in Run \ {r} : viewOfRuns'[q] = viewOfRuns[q]
  BY <1>1, <1>2, <1>3 DEF viewOfRuns, View
<1>6. viewOfRuns' = [viewOfRuns EXCEPT ![r] = new]
  <2>1. /\ viewOfRuns = [q \in Run |-> viewOfRuns[q]]
        /\ viewOfRuns' = [q \in Run |-> viewOfRuns'[q]]
    BY DEF viewOfRuns
  <2>. QED  BY <1>4, <1>5, <2>1
<1>7. viewOfRuns[r] = Absent
  BY <1>0, <1>1, ViewOfRun
<1>8. new = RV!NewRun(base[parent].key, TRUE, 1, None)
  BY SameVocabulary DEF new
<1>. QED  BY <1>1, <1>6, <1>7, <1>8 DEF RV!StartChild

LEMMA CleanupRefines ==
  ASSUME IInv, NEW r \in Run, CleanupOldRun(r)
  PROVE  RV!Remove(r)
<1>1. /\ r \in Stored
      /\ base'[r] = Removed /\ \A q \in Run \ {r} : base'[q] = base[q]
      /\ \A q \in Run \ {r} : log'[q] = log[q]
  BY DEF CleanupOldRun, IInv, TypeOK, Stored
<1>2. viewOfRuns' = [viewOfRuns EXCEPT ![r] = Removed]
  <2>1. viewOfRuns'[r] = Removed /\ \A q \in Run \ {r} : viewOfRuns'[q] = viewOfRuns[q]
    BY <1>1 DEF viewOfRuns, View, Stored
  <2>2. /\ viewOfRuns = [q \in Run |-> viewOfRuns[q]]
        /\ viewOfRuns' = [q \in Run |-> viewOfRuns'[q]]
    BY DEF viewOfRuns
  <2>. QED  BY <2>1, <2>2
<1>3. r \in RV!Existing
  BY <1>1, ViewOfRun DEF IInv
<1>. QED  BY <1>2, <1>3 DEF RV!Remove

LEMMA StepRefines == IInv /\ IInv' /\ [Next]_vars => [RV!Next]_viewOfRuns
<1> SUFFICES ASSUME IInv, IInv', [Next]_vars
             PROVE  RV!Next \/ UNCHANGED viewOfRuns
  OBVIOUS
<1>1. CASE UNCHANGED vars
  BY <1>1 DEF vars, viewOfRuns, View, Stored
<1>2. ASSUME NEW r \in Run, NEW k \in Key, CreateRun(r, k)
      PROVE  RV!Next
  <2>1. \E n \in 1..MaxAttempt : RV!StartRoot(r, k, n, None)
    BY <1>2, CreateRefines DEF CreateRun
  <2>. QED  BY <2>1 DEF RV!Next
<1>3. ASSUME NEW r \in Run, NEW k \in Key, CrashInCreate(r, k)
      PROVE  RV!Next \/ UNCHANGED viewOfRuns
  BY <1>3, CrashInCreateRefines
<1>4. ASSUME NEW r \in Run, NEW q \in Run, NEW k \in Key, Rerun(r, q, k)
      PROVE  RV!Next
  <2>1. \E n \in 1..MaxAttempt : RV!StartRoot(r, k, n, q)
    BY <1>4, CreateRefines DEF Rerun
  <2>. QED  BY <2>1 DEF RV!Next
<1>5. ASSUME NEW r \in Run, NEW q \in Run, SpawnChild(r, q)
      PROVE  RV!Next
  <2>1. \E k \in Key : RV!StartChild(r, k)
    BY <1>5, SpawnRefines
  <2>. QED  BY <2>1 DEF RV!Next
<1>6. ASSUME NEW r \in Run, NEW s \in Requested, UpdateRunStatus(r, s) \/ CrashInUpdate(r, s)
      PROVE  RV!Next
  <2>1. RV!Move(r, s) /\ s \in RV!Status
    BY <1>6, UpdateRefines, SameVocabulary, BoundsAssumption
  <2>. QED  BY <2>1 DEF RV!Next
<1>7. ASSUME NEW r \in Run, NEW g \in Stage,
             SetRunStage(r, g) \/ CrashInMergeGate(r, StageEvent(r, g))
      PROVE  RV!Next
  <2>1. r \in Stored /\ Rewrites(r, StageEvent(r, g))
    BY <1>7, MergeGatePreserves DEF SetRunStage, CrashInMergeGate
  <2>2. RV!EnterStage(r, g)
    BY <2>1, MergeGateRefines
  <2>. QED  BY <2>2 DEF RV!Next
<1>8. ASSUME NEW r \in Run, NEW m \in MergeField,
             UpdateMergeMetadata(r, m) \/ CrashInMergeGate(r, MergeEvent(r, m))
      PROVE  RV!Next
  <2>1. r \in Stored /\ Rewrites(r, MergeEvent(r, m))
    BY <1>8, MergeGatePreserves DEF UpdateMergeMetadata, CrashInMergeGate
  <2>2. RV!Record(r, m)
    BY <2>1, MergeGateRefines
  <2>. QED  BY <2>2 DEF RV!Next
<1>9. ASSUME NEW r \in Run, RequeueAfterReview(r) \/ RequeueSubdivided(r)
      PROVE  RV!Next
  <2>1. RV!Requeue(r)
    BY <1>9, RequeueRefines
  <2>. QED  BY <2>1 DEF RV!Next
<1>10. ASSUME NEW r \in Run, GrowStale(r) \/ GrowIdle(r)
       PROVE  UNCHANGED viewOfRuns
  BY <1>10 DEF GrowStale, GrowIdle, viewOfRuns, View, Stored
<1>11. ASSUME NEW r \in Run, CleanupOldRun(r)
       PROVE  RV!Next
  BY <1>11, CleanupRefines DEF RV!Next
<1>. QED  BY <1>1, <1>2, <1>3, <1>4, <1>5, <1>6, <1>7, <1>8, <1>9, <1>10, <1>11 DEF Next

\* Whatever is in base files and logs, a reader sees RunView's behaviour.
THEOREM StoreImplementsRunView == Spec => ImplementsRunView
BY InitRefines, StepRefines, InductiveInvariant, PTL DEF Spec, ImplementsRunView, RV!Spec

----------------------------------------------------------------------------
(* Action properties. *)

\* No step makes a stored run unknown.
LEMMA StoredStaysKnown ==
  ASSUME IInv, [Next]_vars, NEW r \in Stored
  PROVE  base'[r] # Absent
<1>0. /\ TypeOK /\ r \in Run /\ base[r] # Absent
  BY DEF IInv, Stored
<1>1. ASSUME NEW x \in Run, NEW k \in Key, CreateRun(x, k) \/ CrashInCreate(x, k)
      PROVE  base'[r] # Absent
  <2>1. ASSUME NEW n \in 1..MaxAttempt, Create(x, k, n, None)
        PROVE  base'[r] # Absent
    <3>1. Stored' = Stored \cup {x}
      BY <1>0, <2>1, CreateEffect
    <3>. QED  BY <3>1 DEF Stored
  <2>2. ASSUME base' = MarkStale(Displaced(k))
        PROVE  base'[r] # Absent
    <3>1. Stored' = Stored
      BY <2>2, DisplaceEffect
    <3>. QED  BY <3>1 DEF Stored
  <2>. QED  BY <1>1, <2>1, <2>2 DEF CreateRun, CrashInCreate
<1>2. ASSUME NEW x \in Run, NEW q \in Run, NEW k \in Key, Rerun(x, q, k)
      PROVE  base'[r] # Absent
  <2>1. PICK n \in 1..MaxAttempt : Create(x, k, n, q)
    BY <1>2 DEF Rerun
  <2>2. Stored' = Stored \cup {x}
    BY <1>0, <2>1, CreateEffect
  <2>. QED  BY <2>2 DEF Stored
<1>3. ASSUME NEW x \in Run, NEW q \in Run, SpawnChild(x, q)
      PROVE  base'[r] # Absent
  <2>1. Stored' = Stored \cup {x}
    BY <1>0, <1>3, SpawnEffect
  <2>. QED  BY <2>1 DEF Stored
<1>4. ASSUME NEW x \in Stored, NEW l \in EventLog, Rewrites(x, l)
      PROVE  base'[r] # Absent
  <2>1. base'[x] \in RunRecord
    BY <1>0, <1>4, StoredRecord, MaterializeFields DEF Rewrites, Stored
  <2>. QED  BY <2>1, <1>0, <1>4, NoneAssumption DEF Rewrites
<1>5. ASSUME NEW x \in Run, NEW s \in Requested, UpdateRunStatus(x, s) \/ CrashInUpdate(x, s)
      PROVE  base'[r] # Absent
  <2>1. x \in Stored /\ s \in Status
    BY <1>5, BoundsAssumption DEF UpdateRunStatus, CrashInUpdate, MayUpdate
  <2>. QED  BY <1>0, <1>4, <1>5, <2>1, UpdatePreserves, EventsOfRun
<1>6. ASSUME NEW x \in Run, NEW g \in Stage,
             SetRunStage(x, g) \/ CrashInMergeGate(x, StageEvent(x, g))
      PROVE  base'[r] # Absent
  <2>1. x \in Stored /\ Rewrites(x, StageEvent(x, g))
    BY <1>6, MergeGatePreserves DEF SetRunStage, CrashInMergeGate
  <2>. QED  BY <1>0, <1>4, <2>1, EventsOfRun
<1>7. ASSUME NEW x \in Run, NEW m \in MergeField,
             UpdateMergeMetadata(x, m) \/ CrashInMergeGate(x, MergeEvent(x, m))
      PROVE  base'[r] # Absent
  <2>1. x \in Stored /\ Rewrites(x, MergeEvent(x, m))
    BY <1>7, MergeGatePreserves DEF UpdateMergeMetadata, CrashInMergeGate
  <2>. QED  BY <1>0, <1>4, <2>1, EventsOfRun
<1>8. ASSUME NEW x \in Run, RequeueAfterReview(x) \/ RequeueSubdivided(x)
      PROVE  base'[r] # Absent
  BY <1>8, RequeuePreserves DEF Stored
<1>9. ASSUME NEW x \in Run, GrowStale(x) \/ GrowIdle(x) \/ UNCHANGED vars
      PROVE  base'[r] # Absent
  BY <1>0, <1>9 DEF GrowStale, GrowIdle, vars
<1>10. ASSUME NEW x \in Run, CleanupOldRun(x)
       PROVE  base'[r] # Absent
  BY <1>0, <1>10, NoneAssumption DEF CleanupOldRun, TypeOK
<1>. QED  BY <1>0, <1>1, <1>2, <1>3, <1>5, <1>6, <1>7, <1>8, <1>9, <1>10 DEF Next

\* RunView keeps the status of a finished run.
LEMMA FinalInView ==
  ASSUME TypeOK, [RV!Next]_viewOfRuns, NEW r \in Stored,
         View(r).status \in TerminalStatus, viewOfRuns'[r] # Removed
  PROVE  viewOfRuns'[r].status = View(r).status
<1>0. /\ r \in Run /\ viewOfRuns[r] = View(r) /\ View(r) \in RunRecord
      /\ viewOfRuns[r] # Absent
      /\ viewOfRuns = [q \in Run |-> viewOfRuns[q]]
  BY ViewOfRun, NoneAssumption DEF Stored, viewOfRuns
<1>1. /\ View(r).status \notin RV!ActiveStatus /\ View(r).status \in RV!TerminalStatus
      /\ RV!ValidTransitions[View(r).status] = {}
  <2>1. View(r).status \notin ActiveStatus /\ ValidTransitions[View(r).status] = {}
    BY DEF TerminalStatus, ActiveStatus, ValidTransitions, Status
  <2>. QED  BY <2>1, SameVocabulary
<1>2. ASSUME NEW x \in Run, NEW k \in Key, NEW n \in 1..MaxAttempt,
             NEW source \in Run \cup {None}, RV!StartRoot(x, k, n, source)
      PROVE  viewOfRuns'[r].status = View(r).status
  BY <1>0, <1>1, <1>2 DEF RV!StartRoot
<1>3. ASSUME NEW x \in Run, NEW k \in Key, RV!StartChild(x, k)
      PROVE  viewOfRuns'[r].status = View(r).status
  BY <1>0, <1>3 DEF RV!StartChild
<1>4. ASSUME NEW x \in Run, NEW s \in RV!Status, RV!Move(x, s)
      PROVE  viewOfRuns'[r].status = View(r).status
  BY <1>0, <1>1, <1>4 DEF RV!Move
<1>5. ASSUME NEW x \in Run, RV!Requeue(x)
      PROVE  viewOfRuns'[r].status = View(r).status
  <2>1. PICK s \in {viewOfRuns[x].status} \cup
                     (IF viewOfRuns[x].status \in RV!TerminalStatus THEN {} ELSE {"pending"}),
             n \in {viewOfRuns[x].attempt, viewOfRuns[x].attempt + 1} :
           viewOfRuns' = [viewOfRuns EXCEPT ![x].status = s, ![x].attempt = n]
    BY <1>5 DEF RV!Requeue
  <2>2. CASE x = r
    <3>1. s = View(r).status
      BY <1>0, <1>1, <2>1, <2>2
    <3>2. viewOfRuns'[r] = [View(r) EXCEPT !.status = s, !.attempt = n]
      BY <1>0, <2>1, <2>2
    <3>. QED  BY <1>0, <3>1, <3>2 DEF RunRecord
  <2>3. CASE x # r
    BY <1>0, <2>1, <2>3
  <2>. QED  BY <2>2, <2>3
<1>6. ASSUME NEW x \in Run, NEW g \in Stage, RV!EnterStage(x, g)
      PROVE  viewOfRuns'[r].status = View(r).status
  BY <1>0, <1>6 DEF RV!EnterStage, RunRecord
<1>7. ASSUME NEW x \in Run, NEW m \in MergeField, RV!Record(x, m)
      PROVE  viewOfRuns'[r].status = View(r).status
  BY <1>0, <1>7 DEF RV!Record, RunRecord
<1>8. ASSUME NEW x \in Run, RV!Remove(x)
      PROVE  viewOfRuns'[r].status = View(r).status
  BY <1>0, <1>8 DEF RV!Remove
<1>9. CASE UNCHANGED viewOfRuns
  BY <1>0, <1>9
<1>. QED  BY <1>2, <1>3, <1>4, <1>5, <1>6, <1>7, <1>8, <1>9 DEF RV!Next

\* A finished run never changes its status again, for any reader.
THEOREM FinishedRunsStay == Spec => TerminalIsFinal
<1>1. ASSUME IInv, IInv', [Next]_vars
      PROVE  \A r \in Stored :
                /\ View(r).status \in TerminalStatus
                /\ base'[r] # Removed
                => View(r)'.status = View(r).status
  <2> SUFFICES ASSUME NEW r \in Stored, View(r).status \in TerminalStatus,
                      base'[r] # Removed
               PROVE  View(r)'.status = View(r).status
    OBVIOUS
  <2>1. r \in Stored'
    BY <1>1, StoredStaysKnown DEF Stored
  <2>2. TypeOK /\ TypeOK'
    BY <1>1 DEF IInv
  <2>3. viewOfRuns'[r] = View(r)' /\ View(r)' # Removed
    <3>1. viewOfRuns'[r] = View(r)'
      BY <2>1 DEF viewOfRuns, Stored
    <3>2. base'[r] \in RunRecord /\ log'[r] \in EventLog
      BY <2>1, <2>2, NoneAssumption DEF TypeOK, Stored
    <3>3. View(r)' \in RunRecord
      BY <3>2, MaterializeFields DEF View
    <3>. QED  BY <3>1, <3>3, NoneAssumption
  <2>4. [RV!Next]_viewOfRuns
    BY <1>1, StepRefines
  <2>. QED  BY <2>2, <2>3, <2>4, FinalInView
<1>. QED  BY <1>1, InductiveInvariant, PTL DEF Spec, TerminalIsFinal

\* The newest active run exists, and its age bounds that of the others.
LEMMA DisplacedCovers ==
  ASSUME IInv, NEW k \in Key, Displaced(k) \subseteq stale
  PROVE  ActiveForKey(k) \subseteq stale
<1>1. /\ TypeOK /\ MaxAttempt \in Nat
      /\ \A q \in ActiveForKey(k) : q \in Stored /\ ~base[q].child /\ base[q].key = k
  BY BoundsAssumption DEF IInv, ActiveForKey, RunsForKey
<1>2. \A q \in ActiveForKey(k) : base[q].attempt \in 1..MaxAttempt
  BY <1>1, StoredRecord, RecordFields DEF Stored
<1> SUFFICES ASSUME NEW q \in ActiveForKey(k)
             PROVE  q \in stale
  OBVIOUS
<1> DEFINE Headroom == {MaxAttempt - base[p].attempt : p \in ActiveForKey(k)}
<1>3. Headroom \subseteq Nat /\ Headroom # {}
  BY <1>1, <1>2
<1>4. PICK h \in Headroom : \A g \in Headroom : <<g, h>> \notin OpToRel(<, Nat)
  <2>. HIDE DEF Headroom
  <2>. QED  BY <1>3, NatLessThanWellFounded, WFMin
<1>5. \A g \in Headroom : h <= g
  <2>1. \A g \in Headroom : g \in Nat /\ h \in Nat
    BY <1>3
  <2>2. ASSUME NEW g \in Nat, NEW m \in Nat, g < m
        PROVE  <<g, m>> \in OpToRel(<, Nat)
    BY <2>2 DEF OpToRel
  <2>. HIDE DEF Headroom
  <2>3. ASSUME NEW g \in Headroom, g < h
        PROVE  FALSE
    BY <1>4, <2>1, <2>2, <2>3
  <2>. QED  BY <2>1, <2>3
<1>6. PICK p \in ActiveForKey(k) : h = MaxAttempt - base[p].attempt
  OBVIOUS
<1>7. \A x \in ActiveForKey(k) : base[x].attempt <= base[p].attempt
  <2> SUFFICES ASSUME NEW x \in ActiveForKey(k)
               PROVE  base[x].attempt <= base[p].attempt
    OBVIOUS
  <2>1. MaxAttempt - base[p].attempt <= MaxAttempt - base[x].attempt
    BY <1>5, <1>6
  <2>. QED  BY <2>1, <1>1, <1>2
<1>8. p \in stale
  BY <1>7 DEF Displaced, Newest
<1>. QED  BY <1>1, <1>7, <1>8 DEF IInv, StalePrefix

\* No root run appears beside a fresh active run of its key.
THEOREM CreationRefusedByFresh == Spec => CreationOnlyOverStale
<1>1. ASSUME IInv, [Next]_vars
      PROVE  \A r \in Run :
                base[r] = Absent /\ base'[r] # Absent /\ ~base'[r].child
                => ActiveForKey(base'[r].key) \subseteq stale
  <2> SUFFICES ASSUME NEW r \in Run, base[r] = Absent, base'[r] # Absent, ~base'[r].child
               PROVE  ActiveForKey(base'[r].key) \subseteq stale
    OBVIOUS
  <2>0. TypeOK /\ IInv /\ r \notin Stored
    BY <1>1 DEF IInv, Stored
  <2>1. ASSUME NEW x \in Run, NEW k \in Key, NEW n \in 1..MaxAttempt,
               NEW source \in Stored \cup {None}, Create(x, k, n, source)
        PROVE  ActiveForKey(base'[r].key) \subseteq stale
    <3>1. source \in Run \cup {None}
      BY DEF Stored
    <3>3. x = r
      <4>2. \A q \in Run \ (Displaced(k) \cup {x}) : base'[q] = base[q]
        BY <2>0, <2>1, <3>1, CreateEffect
      <4>3. r \notin Displaced(k)
        BY <2>0, MarkStaleKeeps
      <4>. QED  BY <2>0, <4>2, <4>3
    <3>5. base'[r].key = k
      <4>1. base' = [MarkStale(Displaced(k)) EXCEPT ![x] = NewRun(k, FALSE, n, source)]
        BY <2>1 DEF Create
      <4>. QED  BY <3>3, <4>1 DEF NewRun, MarkStale
    <3>4. Displaced(k) \subseteq stale
      BY <2>1 DEF Create, CanCreate
    <3>. QED  BY <2>0, <3>4, <3>5, DisplacedCovers
  <2>2. ASSUME NEW k \in Key, base' = MarkStale(Displaced(k))
        PROVE  FALSE
    BY <2>0, <2>2, DisplaceEffect DEF Stored
  <2>3. ASSUME NEW x \in Run, NEW q \in Run, SpawnChild(x, q)
        PROVE  FALSE
    <3>1. /\ base' = [base EXCEPT ![x] = NewRun(base[q].key, TRUE, 1, None)]
          /\ base \in [Run -> RunRecord \cup {Absent, Removed}]
      BY <2>0, <2>3, SpawnEffect DEF TypeOK
    <3>2. base'[x].child
      BY <3>1 DEF NewRun
    <3>. QED  BY <2>0, <3>1, <3>2
  <2>4. ASSUME NEW x \in Stored, NEW l, Rewrites(x, l)
        PROVE  FALSE
    BY <2>0, <2>4 DEF Rewrites
  <2>5. ASSUME NEW x \in Run, NEW s \in Requested,
               UpdateRunStatus(x, s) \/ CrashInUpdate(x, s)
        PROVE  FALSE
    BY <2>0, <2>4, <2>5, UpdatePreserves DEF UpdateRunStatus, CrashInUpdate, MayUpdate
  <2>6. ASSUME NEW x \in Run, NEW g \in Stage,
               SetRunStage(x, g) \/ CrashInMergeGate(x, StageEvent(x, g))
        PROVE  FALSE
    BY <2>0, <2>4, <2>6, MergeGatePreserves DEF SetRunStage, CrashInMergeGate
  <2>7. ASSUME NEW x \in Run, NEW m \in MergeField,
               UpdateMergeMetadata(x, m) \/ CrashInMergeGate(x, MergeEvent(x, m))
        PROVE  FALSE
    BY <2>0, <2>4, <2>7, MergeGatePreserves DEF UpdateMergeMetadata, CrashInMergeGate
  <2>8. ASSUME NEW x \in Run, RequeueAfterReview(x) \/ RequeueSubdivided(x)
        PROVE  FALSE
    BY <2>0, <2>8, RequeuePreserves DEF TypeOK
  <2>9. ASSUME NEW x \in Run, GrowStale(x) \/ GrowIdle(x) \/ UNCHANGED vars
        PROVE  FALSE
    BY <2>0, <2>9 DEF GrowStale, GrowIdle, vars
  <2>10. ASSUME NEW x \in Run, CleanupOldRun(x)
         PROVE  FALSE
    BY <2>0, <2>10 DEF CleanupOldRun, TypeOK, Stored
  <2>11. ASSUME NEW x \in Run, NEW k \in Key, CreateRun(x, k) \/ CrashInCreate(x, k)
         PROVE  ActiveForKey(base'[r].key) \subseteq stale
    BY <2>1, <2>2, <2>11 DEF CreateRun, CrashInCreate
  <2>12. ASSUME NEW x \in Run, NEW q \in Run, NEW k \in Key, Rerun(x, q, k)
         PROVE  ActiveForKey(base'[r].key) \subseteq stale
    BY <2>1, <2>12 DEF Rerun
  <2>. QED  BY <1>1, <2>3, <2>5, <2>6, <2>7, <2>8, <2>9, <2>10, <2>11, <2>12 DEF Next
<1>. QED  BY <1>1, InductiveInvariant, PTL DEF Spec, CreationOnlyOverStale

=============================================================================
