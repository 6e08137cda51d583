-------------------------- MODULE MCAdministration --------------------------
(***************************************************************************)
(* The server around the runs: components that share no state.  One run    *)
(* checks each of them, from the initial state on, while the others rest.  *)
(***************************************************************************)
EXTENDS Integers, TLC

CONSTANTS
  Thread, Source, Trusted, FailuresOf, FailureLimits, ErrorLimits, Window,  \* ThreatLevel
  MaxEvents, Timers,
  Repo, Caller, MaxSets,                                               \* RepoSelection
  Signal, Blob, ExpiryOf, MachineOf, Grace, Life, Attempts, MaxDay, Skews,
                                                                       \* Access
  Client, TokenLife, AccountLife, MaxSessions, MaxToday,
  Loops, MaxEnds,                                                      \* Lifespan
  Provider, LoginClient, Pool, RunTimeout, WaitRun, WaitLogin, MaxJobs,  \* AccountLogins
  Engine, Exec, EngineOf, MaxNodes, MaxSpans,                          \* Observability
  HealthRun, Threshold, MaxClock, MaxReads,
  Agent, OllamaAgent, MaxStarts,                                       \* SubAgents
  ChatThread, MaxTurns, MaxItems, MaxDeltas, MaxQueue,                 \* Conversations
  Server, Tool, Name, FullName(_, _), MaxToolSessions,                 \* ToolRegistry
  QueuedRun, Heavy, MaxRuns,                                           \* Admission
  LogRun, Ttl, ArchiveAge, MaxAge, MaxLines, MaxDate, MaxWritten,      \* LogRotation
  Offers, Kept, NodeType, Prompted, Execution,                         \* Skills
  TaskType, Child, Given, Signals, Scope, Tries,                       \* Assessment
  None, Broken

VARIABLES
  service,                                                             \* which of them moves
  level, since, events, at, turn, calm, firm,                          \* ThreatLevel
  override, draft, expired, registry, select, sets, published, gone,   \* RepoSelection
  cold, day, skew, machine, network, rejected, software, cache, room, server, accepted, overdue,
                                                                       \* Access
  step, tasks, daemon, left, files, authority, wake, unjudged, ends,   \* Lifespan
  mode, flows, jobs, login, disturbed,                                 \* AccountLogins
  exec, steps, active, items, metrics, recorded, overlapped,           \* Observability
  today, key, sessions, revoked, loggedOut, call, late,                \* Access
  agents, doing, made, stored, worktrees, inventory, tmp, gitLate, young, astray, promised, starts,
                                                                       \* SubAgents
  threads, queue, handed, missed,                                      \* Conversations
  entries, discovered, configured, session, opened, stated, listed, deleted, begun,
                                                                       \* ToolRegistry
  load, free, sample, lastLevel, told, pending, ids, executing, dispatched, taken,
                                                                       \* Admission
  date, phase, base, journal, moved, began, ended, forgotten, written, file, fileDay, archive, aged,
                                                                       \* LogRotation
  clock, runs, progress, counters, seen,                               \* Observability
  graph, skillRuns, plans, feed, analytics, misjudged,                 \* Skills
  profile, known, child, outcomes, unsure                              \* Assessment

H == INSTANCE ThreatLevel WITH Failures <- FailureLimits, Errors <- ErrorLimits

S == INSTANCE RepoSelection WITH call <- select

B == INSTANCE Access

F == INSTANCE Lifespan WITH Loop <- Loops, at <- step

L == INSTANCE AccountLogins WITH Client <- LoginClient, call <- login

T == INSTANCE Observability WITH Run <- HealthRun

G == INSTANCE SubAgents WITH late <- gitLate

C == INSTANCE Conversations WITH Thread <- ChatThread

R == INSTANCE ToolRegistry WITH
       MaxSessions <- MaxToolSessions, registry <- entries, gone <- deleted

M == INSTANCE Admission WITH Run <- QueuedRun, starts <- dispatched

Q == INSTANCE LogRotation WITH
       Run <- LogRun, MaxDay <- MaxDate, day <- date, events <- journal, begun <- began

\* The files of skills are left to a run of their own.
K == INSTANCE Skills WITH
       Skill <- {}, Command <- {}, Raises <- FALSE,
       skills <- None, archived <- None, market <- None, lock <- None, work <- None,
       Type <- NodeType, Run <- Execution, runs <- skillRuns

E == INSTANCE Assessment WITH
       Task <- TaskType, Attempts <- Tries, recorded <- outcomes, astray <- unsure

ASSUME ThresholdAssumption == H!ThreatLevelConstants

ASSUME SelectionAssumption == S!RepoSelectionConstants

ASSUME AccessAssumption == B!AccessConstants

ASSUME LifespanAssumption == F!LifespanConstants

ASSUME LoginsAssumption == L!AccountLoginsConstants

ASSUME ObservabilityAssumption == T!ObservabilityConstants

ASSUME SubAgentsAssumption == G!SubAgentsConstants

ASSUME ConversationsAssumption == MaxTurns \in Nat

ASSUME ToolsAssumption == R!ToolRegistryConstants

ASSUME AdmissionAssumption == M!AdmissionConstants

ASSUME RotationAssumption == Q!LogRotationConstants

ASSUME SkillsAssumption == K!SkillsConstants

ASSUME AssessmentAssumption == E!AssessmentConstants

----------------------------------------------------------------------------
(* The instance. *)

\* Two failures raise the alert, three the rest.
MCLimits == 2 :> 2 @@ 3 :> 3

MCTimers == <<1, 2, 3>>

\* Blobs for a machine and for what it becomes.
MCExpiryOf == <<0, 1>>

MCMachineOf == <<{}, {"nic"}>>

\* A clock that is right, or set back.
MCSkews == {-1, 0}

MCLoops == {"snapshots", "threats", "runs", "integrity", "sampling"}

\* Two engines, one with executions that may overlap.
MCEngineOf == [x \in {"g1", "g2"} |-> "g"]

\* Two servers whose tools have one full name.
MCFullName(s, t) == "n"

\* Graphs with no orchestrator or two, with a node twice, with cycles and loops.
MCOffers ==
    [nodes : {<<>>, <<"o">>, <<"a">>, <<"o", "a", "b">>, <<"a", "o", "b">>, <<"o", "a", "a">>,
              <<"o", "p">>},
     edges : SUBSET {<<"o", "a">>, <<"a", "b">>, <<"b", "o">>, <<"o", "b">>, <<"b", "a">>,
                     <<"a", "a">>}]

\* A skill in the order of its edges or against it.
MCKept == [nodes : {<<"o", "a", "b">>, <<"b", "a", "o">>}, edges : {{<<"o", "a">>, <<"a", "b">>}}]

MCNodeType ==
    "o" :> "orchestrator" @@ "p" :> "orchestrator" @@ "a" :> "worker" @@ "b" :> "worker"

\* Three children, the first tried twice; the third may do something else.
MCChild == 1..3

MCGiven == {<<"w", "w", "w">>, <<"w", "w", "x">>}

MCSignals == <<0, 1, 1>>

MCScope == <<3, 3, 3>>

MCTries == <<2, 1, 1>>

----------------------------------------------------------------------------

varsH == <<level, since, events, at, turn, calm, firm>>
varsS == <<override, draft, expired, registry, select, sets, published, gone>>
varsB == <<cold, day, skew, machine, network, rejected, software, cache, room, server, accepted, overdue>>
varsF == <<step, tasks, daemon, left, files, authority, wake, unjudged, ends>>
varsL == <<mode, flows, jobs, login, disturbed>>
varsT == <<exec, steps, active, items, metrics, recorded, overlapped>>
varsA == <<today, key, sessions, revoked, loggedOut, call, late>>
varsG == <<agents, doing, made, stored, worktrees, inventory, tmp, gitLate, young, astray,
           promised, starts>>
varsC == <<threads, queue, handed, missed>>
varsR == <<entries, discovered, configured, session, opened, stated, listed, deleted, begun>>
varsM == <<load, free, sample, lastLevel, told, pending, ids, executing, dispatched, taken>>
varsQ == <<date, phase, base, journal, moved, began, ended, forgotten, written, file, fileDay, archive, aged>>
varsW == <<clock, runs, progress, counters, seen>>
varsK == <<graph, skillRuns, plans, feed, analytics, misjudged>>
varsE == <<profile, known, child, outcomes, unsure>>

Service == {"threats", "selection", "license", "life", "logins", "traces", "sessions", "agents",
            "conversations", "tools", "admission", "rotation", "health", "skills",
            "assessment"}

Plainest == CHOOSE types \in Given : TRUE

\* Services that rest start in one state.
MCInit ==
    /\ service \in Service
    /\ H!Init
    /\ S!Init /\ (service # "selection" => registry.repos = {})
    /\ B!LicenseInit /\ (service # "license" => cold /\ network)
    /\ F!Init /\ (service # "life" => files)
    /\ L!Init /\ (service # "logins" => mode = [p \in Provider |-> "none"])
    /\ T!TracesInit /\ B!SessionsInit /\ G!Init /\ C!Init /\ M!Init /\ Q!Init /\ T!HealthInit
    /\ E!Init /\ (service # "assessment" => \A c \in Child : child[c].task = Plainest[c])
    /\ K!RunsInit /\ (service # "skills" => graph = CHOOSE g \in Kept : TRUE)
    /\ R!Init /\ (service # "tools" => configured = [x \in Server |-> "on"])

Only(s) ==
    /\ service = s /\ UNCHANGED service
    /\ s # "threats" => UNCHANGED varsH
    /\ s # "selection" => UNCHANGED varsS
    /\ s # "license" => UNCHANGED varsB
    /\ s # "life" => UNCHANGED varsF
    /\ s # "logins" => UNCHANGED varsL
    /\ s # "traces" => UNCHANGED varsT
    /\ s # "sessions" => UNCHANGED varsA
    /\ s # "agents" => UNCHANGED varsG
    /\ s # "conversations" => UNCHANGED varsC
    /\ s # "tools" => UNCHANGED varsR
    /\ s # "admission" => UNCHANGED varsM
    /\ s # "rotation" => UNCHANGED varsQ
    /\ s # "health" => UNCHANGED varsW
    /\ s # "skills" => UNCHANGED varsK
    /\ s # "assessment" => UNCHANGED varsE

ThreatsMove == Only("threats") /\ H!Next

SelectionMoves == Only("selection") /\ S!Next

LicenseMoves == Only("license") /\ B!LicenseNext

LifeMoves == Only("life") /\ F!Next

LoginsMove == Only("logins") /\ L!Next

TracesMove == Only("traces") /\ T!TracesNext

SessionsMove == Only("sessions") /\ B!SessionsNext

AgentsMove == Only("agents") /\ G!Next

ConversationsMove == Only("conversations") /\ C!Next

ToolsMove == Only("tools") /\ R!Next

AdmissionMoves == Only("admission") /\ M!Next

RotationMoves == Only("rotation") /\ Q!Next

HealthMoves == Only("health") /\ T!HealthNext

SkillsMove == Only("skills") /\ K!RunsNext

AssessmentMoves == Only("assessment") /\ E!Next

MCNext ==
    \/ ThreatsMove \/ SelectionMoves \/ LicenseMoves \/ LifeMoves \/ LoginsMove
    \/ TracesMove \/ SessionsMove \/ AgentsMove \/ ConversationsMove \/ ToolsMove
    \/ AdmissionMoves \/ RotationMoves \/ HealthMoves \/ SkillsMove
    \/ AssessmentMoves

MCSpec ==
    /\ MCInit
    /\ [][MCNext]_<<service, varsH, varsS, varsB, varsF, varsL, varsT, varsA, varsG, varsC, varsR,
                    varsM, varsQ, varsW, varsK, varsE>>

\* The variables that move have their types.
TypesOK ==
    CASE service = "threats" -> H!TypeOK
      [] service = "selection" -> S!TypeOK
      [] service = "license" -> B!LicenseTypeOK
      [] service = "life" -> F!TypeOK
      [] service = "logins" -> L!TypeOK
      [] service = "traces" -> T!TracesTypeOK
      [] service = "sessions" -> B!SessionsTypeOK
      [] service = "agents" -> G!TypeOK
      [] service = "conversations" -> C!TypeOK
      [] service = "tools" -> R!TypeOK
      [] service = "admission" -> M!TypeOK
      [] service = "rotation" -> Q!TypeOK
      [] service = "health" -> T!HealthTypeOK
      [] service = "skills" -> K!TypeOK
      [] service = "assessment" -> E!TypeOK

\* The properties of the other modules, themes together.

\* Requests and starts are judged by what holds: ThreatEngine has the level its
\* events ask for and lowers it when they end, LicenseGuard and ColdRoomManager let
\* no server run that has no licence, SessionStore answers for sessions that hold,
\* ToolRegistryService knows tools as their servers or an administrator stated, and
\* RunWorker takes runs as ResourceGovernor admits the first.
AccessIsJudged ==
    /\ service = "threats" => H!EventsAreAnswered /\ H!CalmEndsAll
    /\ service = "license" => B!RunningIsLicensed
    /\ service = "sessions" => B!SessionsHold
    /\ service = "tools" => R!ToolsAreKnown
    /\ service = "admission" => M!RunsAreAdmitted

\* lifespan leaves no process behind when it shuts down.
ServerIsOrderly == service = "life" => F!ServerIsOrderly

\* Files that requests share say what was written last: RepoOverrideService brings no
\* override back, the flows of account providers are those of logins that showed
\* their code, SubAgentManager keeps the worktrees of its agents, what
\* ConversationService announces last of a thread is what it stored, and
\* LogRotationService takes no run back to its beginning unless its events are old.
FilesAreKept ==
    /\ service = "selection" => S!NoneReturns
    /\ service = "logins" => L!AccountsAreKept
    /\ service = "agents" => G!AgentsKeepTheirWorktrees
    /\ service = "conversations" => C!ConversationsAreAnnounced
    /\ service = "rotation" => Q!NothingIsForgotten

\* What is shown adds up: ObservabilityService's traces say what became of
\* executions, and its alerts miss no run that is silent; SkillsService lets through
\* the graphs it should and tells of an execution what became of it; and
\* CognitiveAssessmentStage refuses a child only for failures that are on record.
NumbersAreTrue ==
    /\ service = "traces" => T!TracesAreTrue
    /\ service = "health" => T!HealthIsNoticed
    /\ service = "skills" => K!SkillRunsAreReported
    /\ service = "assessment" => E!AssessmentsAreFair

=============================================================================
