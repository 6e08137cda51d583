---------------------------- MODULE LogRotation ----------------------------
(***************************************************************************)
(* LogRotationService, which goes over the files of runs and logs once, at *)
(* each start of the server, before runs are reconciled and the worker     *)
(* takes them; and the cleanup loop, which removes runs while it is up.    *)
(*                                                                         *)
(* A run is a base file and a file of events, each with the day it was     *)
(* last written.  The base file keeps the status pending while the events  *)
(* say what became of the run, up to its end.                              *)
(***************************************************************************)
EXTENDS Integers

CONSTANTS
  Run,
  Ttl,         \* days after which the loop removes a base file,
  ArchiveAge,  \* after which one of an ended run is moved,
  MaxAge,      \* and after which events and logs are deleted
  MaxLines,    \* lines of a log file that is large
  MaxDay, MaxWritten,  \* bounds of the model
  None

LogRotationConstants ==
    /\ MaxDay \in Nat /\ MaxLines \in Nat /\ MaxWritten \in Nat
    /\ Ttl \in Int /\ ArchiveAge \in Int /\ MaxAge \in Int
    /\ None \notin [status : {"pending", "running", "awaiting_review", "done", "error"}, day : Nat]

VARIABLES
  day,
  phase,     \* down, or where the server is: rotate, reconcile or work
  base,      \* [Run -> the status and the day of its base file, or None]
  events,    \* [Run -> those of its events, or None]
  moved,     \* runs in the archive
  begun,     \* runs that began
  ended,     \* and ended
  forgotten, \* runs whose events were deleted for their age
  written,   \* lines of a log so far
  file,      \* how many are in the file, written on the day
  fileDay,
  archive,   \* how many in its archive
  aged       \* lines were deleted for their age

vars == <<day, phase, base, events, moved, begun, ended, forgotten, written, file, fileDay,
          archive, aged>>

runFiles == <<base, events, moved, begun, ended, forgotten>>
logFiles == <<written, file, fileDay, archive, aged>>

Days == 0 .. MaxDay

TypeOK ==
    /\ day \in Days /\ phase \in {"down", "rotate", "reconcile", "work"}
    /\ \A r \in Run :
          /\ base[r] # None => base[r] \in [status : {"pending", "done", "error"}, day : Days]
          /\ events[r] # None =>
                events[r] \in [status : {"running", "awaiting_review", "done", "error"}, day : Days]
    /\ moved \cup begun \cup ended \cup forgotten \subseteq Run
    /\ written \in 0 .. MaxWritten /\ file \in 0 .. written /\ archive \in 0 .. written
    /\ fileDay \in Days /\ aged \in BOOLEAN

Init ==
    /\ day = 0 /\ phase = "down"
    /\ base = [r \in Run |-> None] /\ events = [r \in Run |-> None]
    /\ moved = {} /\ begun = {} /\ ended = {} /\ forgotten = {}
    /\ written = 0 /\ file = 0 /\ fileDay = 0 /\ archive = 0 /\ aged = FALSE

\* The materialized status.
Status(r) == IF events[r] # None THEN events[r].status ELSE base[r].status

Age(f) == day - f.day

File(status) == [status |-> status, day |-> day]

----------------------------------------------------------------------------
(* While the server is up. *)

Create(r) ==
    /\ phase = "work" /\ base[r] = None /\ events[r] = None /\ r \notin moved \cup begun
    /\ base' = [base EXCEPT ![r] = File("pending")]
    /\ UNCHANGED <<day, phase, events, moved, begun, ended, forgotten, logFiles>>

Begin(r) ==
    /\ phase = "work" /\ base[r] # None /\ Status(r) = "pending"
    /\ events' = [events EXCEPT ![r] = File("running")]
    /\ begun' = begun \cup {r}
    /\ UNCHANGED <<day, phase, base, moved, ended, forgotten, logFiles>>

Await(r) ==
    /\ phase = "work" /\ base[r] # None /\ Status(r) = "running"
    /\ events' = [events EXCEPT ![r] = File("awaiting_review")]
    /\ UNCHANGED <<day, phase, base, moved, begun, ended, forgotten, logFiles>>

\* A terminal status is written to the base file as well.
Terminate(r, status) ==
    /\ base' = [base EXCEPT ![r] = File(status)]
    /\ events' = [events EXCEPT ![r] = File(status)]
    /\ ended' = ended \cup {r}

Finish(r) ==
    /\ phase = "work" /\ base[r] # None /\ Status(r) \in {"running", "awaiting_review"}
    /\ \E status \in {"done", "error"} : Terminate(r, status)
    /\ UNCHANGED <<day, phase, moved, begun, forgotten, logFiles>>

\* cleanup_old_runs: whatever the status.
Cleanup ==
    /\ phase = "work"
    /\ LET old == {r \in Run : base[r] # None /\ Age(base[r]) > Ttl}
       IN  /\ base' = [r \in Run |-> IF r \in old THEN None ELSE base[r]]
           /\ events' = [r \in Run |-> IF r \in old THEN None ELSE events[r]]
    /\ UNCHANGED <<day, phase, moved, begun, ended, forgotten, logFiles>>

AppendLine ==
    /\ phase = "work" /\ written < MaxWritten
    /\ written' = written + 1 /\ file' = file + 1 /\ fileDay' = day
    /\ UNCHANGED <<day, phase, runFiles, archive, aged>>

\* The server stops at any time, also in the middle of its start.
Stop ==
    /\ phase # "down" /\ phase' = "down"
    /\ UNCHANGED <<day, runFiles, logFiles>>

Pass ==
    /\ day < MaxDay /\ day' = day + 1
    /\ UNCHANGED <<phase, runFiles, logFiles>>

----------------------------------------------------------------------------
(* Its start. *)

Start ==
    /\ phase = "down" /\ phase' = "rotate"
    /\ UNCHANGED <<day, runFiles, logFiles>>

\* _process_directory: old files go. A large one is compressed over the last archive
\* and emptied, or stays as it is when its archive cannot be replaced.
RotateLog ==
    IF file > 0 /\ day - fileDay > MaxAge
    THEN file' = 0 /\ aged' = TRUE /\ UNCHANGED archive
    ELSE /\ UNCHANGED aged
         /\ \/ file > MaxLines /\ archive' = file /\ file' = 0
            \/ UNCHANGED <<file, archive>>

\* _archive_old_runs: what ended, as the base file says; its events stay.
Archived ==
    {r \in Run : base[r] # None /\ Age(base[r]) > ArchiveAge /\ base[r].status # "pending"}

RunRotation ==
    /\ phase = "rotate" /\ phase' = "reconcile"
    /\ LET old == {r \in Run : events[r] # None /\ Age(events[r]) > MaxAge}
       IN  /\ events' = [r \in Run |-> IF r \in old THEN None ELSE events[r]]
           /\ forgotten' = forgotten \cup old
    /\ base' = [r \in Run |-> IF r \in Archived THEN None ELSE base[r]]
    /\ moved' = moved \cup Archived
    /\ RotateLog
    /\ UNCHANGED <<day, begun, ended, written, fileDay>>

\* The first pass; the worker starts after it.
Reconcile ==
    /\ phase = "reconcile" /\ phase' = "work"
    /\ LET zombies == {r \in Run : base[r] # None /\ Status(r) \in {"running", "awaiting_review"}}
       IN  /\ base' = [r \in Run |-> IF r \in zombies THEN File("error") ELSE base[r]]
           /\ events' = [r \in Run |-> IF r \in zombies THEN File("error") ELSE events[r]]
           /\ ended' = ended \cup zombies
    /\ UNCHANGED <<day, moved, begun, forgotten, logFiles>>

Next ==
    \/ \E r \in Run : Create(r) \/ Begin(r) \/ Await(r) \/ Finish(r)
    \/ Cleanup \/ AppendLine \/ Stop \/ Pass \/ Start \/ RunRotation \/ Reconcile

Spec == Init /\ [][Next]_vars

----------------------------------------------------------------------------

\* A run that began is never again one that the worker takes, unless it did not end
\* and its events were deleted for their age; what is moved to the archive had ended,
\* and is not shown as a run any more. The last lines of a log are in its file or its
\* archive, whatever its size, unless they were deleted for their age.
NothingIsForgotten ==
    /\ \A r \in begun : (phase = "work" /\ base[r] # None /\ Status(r) = "pending") =>
          r \in forgotten \ ended
    /\ \A r \in moved : r \in ended /\ base[r] = None
    /\ aged \/ file + archive >= IF written > MaxLines THEN MaxLines + 1 ELSE written

=============================================================================
