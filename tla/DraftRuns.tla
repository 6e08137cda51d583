----------------------------- MODULE DraftRuns -----------------------------
(***************************************************************************)
(* From a draft to the first model call of its run: OpsService's drafts    *)
(* and approved entries (one file each), the draft and approval routers,   *)
(* and the start of EngineService.execute_run with the two gate stages.    *)
(*                                                                         *)
(* An approved entry copies the text of its draft.  A run belongs to an    *)
(* approved entry, and executes what the draft says when it starts.        *)
(*                                                                         *)
(* Three places judge a change: the policy and intent evaluation of a new  *)
(* draft, the two gate stages that evaluate again when its run executes,   *)
(* and the checks of the merge gate.  Paths are classes of paths and risks *)
(* are tenths of a point.                                                  *)
(***************************************************************************)
EXTENDS Integers, FiniteSets, RunStatus

CONSTANTS
  DocPath, TestPath, SecurityPath, CorePath,  \* classes of paths the hints know
  Absent,              \* a record, or the key of a context, that is not there
  Draft, Entry, Run,   \* ids of drafts, approved entries and runs
  Text,                \* prompts
  Request,             \* what clients of POST /drafts may ask for
  EditedContext,       \* contexts clients of PUT /drafts may put
  GeneratedContext,    \* contexts of drafts that a model wrote
  Policy               \* policies an administrator may put in force

VARIABLES
  policy,    \* policy.json, with its baseline
  draft,     \* draft files, Absent before they exist
  entry,     \* approved files, Absent before they exist
  run,       \* runs, Absent before they exist
  stale,     \* runs created more than 10 minutes ago
  crashes    \* how often the server died while it approved each draft

vars == <<policy, draft, entry, run, stale, crashes>>

----------------------------------------------------------------------------
(* Judgements, as functions of what they read. *)

LowRiskAutorun == {"DOC_UPDATE", "TEST_ADD", "SAFE_REFACTOR"}

AlwaysReview ==
    {"FEATURE_ADD_LOW_RISK", "ARCH_CHANGE", "SECURITY_CHANGE", "CORE_RUNTIME_CHANGE"}

\* evaluate_draft_policy.  A policy is sealed when its hash is the baseline's.
PolicyStatus(rules, scope, files, loc) ==
    IF ~rules.sealed THEN "BASELINE_TAMPER_DETECTED"
    ELSE IF \/ ~(scope \subseteq rules.allowed)
            \/ scope \cap rules.forbidden # {}
            \/ Cardinality(scope) > rules.maxFiles
            \/ files > rules.maxFiles
            \/ loc > rules.maxLoc
         THEN "DRAFT_REJECTED_FORBIDDEN_SCOPE"
    ELSE IF loc > rules.reviewLoc \/ scope \cap rules.review # {}
         THEN "HUMAN_APPROVAL_REQUIRED"
    ELSE "POLICY_ALLOW"

PolicyVerdict(status) ==
    CASE status = "POLICY_ALLOW" -> "allow"
      [] status = "HUMAN_APPROVAL_REQUIRED" -> "review"
      [] OTHER -> "deny"

\* _classify_effective_intent
EffectiveIntent(declared, scope) ==
    CASE CorePath \in scope -> "CORE_RUNTIME_CHANGE"
      [] CorePath \notin scope /\ SecurityPath \in scope -> "SECURITY_CHANGE"
      [] OTHER ->
           IF \/ declared = "DOC_UPDATE" /\ ~(scope \subseteq {DocPath})
              \/ declared = "TEST_ADD" /\ ~(scope \subseteq {TestPath})
           THEN "SAFE_REFACTOR" ELSE declared

\* IntentClassificationService.evaluate.  A policy that only asks for a review
\* does not change the decision, and 30 < risk < 31 falls through to the intent.
Intent(declared, scope, risk, verdict) ==
    LET effective == EffectiveIntent(declared, scope)
        judged(e, decision) == [effective |-> e, decision |-> decision]
    IN  IF verdict = "deny" THEN judged(declared, "DRAFT_REJECTED_FORBIDDEN_SCOPE")
        ELSE IF risk > 600 THEN judged(effective, "RISK_SCORE_TOO_HIGH")
        ELSE IF risk >= 310 \/ effective \notin LowRiskAutorun
             THEN judged(effective, "HUMAN_APPROVAL_REQUIRED")
        ELSE judged(effective, "AUTO_RUN_ELIGIBLE")

\* Mutant: the policy stage fails what its own audit calls too risky, and the
\* risk stage is trusted to have nothing left to do.
NoRiskGate(risk) == "continue"

\* RiskGate.execute with the uncalibrated thresholds, which are the only ones in
\* use: EngineService builds its stages without a trust provider.
RiskGate(risk) ==
    CASE risk > 600 -> "fail"
      [] risk > 300 /\ risk <= 600 -> "halt"
      [] OTHER -> "continue"

\* PolicyGate.execute.  It reads path_scope from the top of the context.
PolicyGate(rules, context) ==
    LET declared == IF context.declared = Absent THEN "SAFE_REFACTOR" ELSE context.declared
        verdict == PolicyVerdict(PolicyStatus(rules, context.pathScope,
                                              context.files, context.loc))
        intent == Intent(declared, context.pathScope, context.risk, verdict)
    IN  CASE intent.decision = "DRAFT_REJECTED_FORBIDDEN_SCOPE" -> "fail"
          [] \/ verdict = "review"
             \/ intent.decision = "HUMAN_APPROVAL_REQUIRED" -> "halt"
          [] OTHER -> "continue"

\* The first two stages of every composition.
Gates(rules, context) ==
    LET first == PolicyGate(rules, context)
    IN  IF first = "continue" THEN RiskGate(context.risk) ELSE first

\* The branch of execute_run for root runs without children.
Composition(context) ==
    CASE context.plan -> "custom_plan"
      [] ~context.plan /\ context.effective \in {"MERGE_REQUEST", "CORE_RUNTIME_CHANGE",
                                                "SECURITY_CHANGE"} -> "merge_gate"
      [] OTHER -> "generate"

\* MergeGateService._validate_policy and _validate_risk go by what the context
\* recorded; a run remembers that its draft had a policy decision.  The result
\* is the status a refused run gets.
MergeVerdict(context, recorded) ==
    CASE \/ context.policy = Absent /\ ~recorded /\ context.effective # Absent
         \/ context.policy = "deny" -> "WORKER_CRASHED_RECOVERABLE"
      [] context.policy = "review" -> "HUMAN_APPROVAL_REQUIRED"
      [] OTHER ->
           IF context.risk >= 600 THEN "RISK_SCORE_TOO_HIGH"
           ELSE IF \/ context.risk >= 310
                   \/ context.effective \in {"SECURITY_CHANGE", "CORE_RUNTIME_CHANGE"}
           THEN "HUMAN_APPROVAL_REQUIRED" ELSE "merge"

----------------------------------------------------------------------------

\* The context of a draft that the router judged: what it asks for and the judgement.
JudgedContext(rules, request) ==
    LET status == PolicyStatus(rules, request.repoScope, request.files, request.loc)
        declared == IF request.declared = Absent THEN "" ELSE request.declared
        intent == Intent(declared, request.repoScope, request.risk, PolicyVerdict(status))
    IN  [declared |-> declared, effective |-> intent.effective,
         decision |-> intent.decision, policy |-> PolicyVerdict(status),
         risk |-> request.risk, pathScope |-> request.pathScope,
         files |-> request.files, loc |-> request.loc,
         base |-> request.base, plan |-> FALSE]

\* What get_draft returns to a run's readers: a draft that was cleaned up counts as
\* one without context.
NoContext ==
    [declared |-> Absent, effective |-> Absent, decision |-> Absent, policy |-> Absent,
     risk |-> 0, pathScope |-> {}, files |-> 0, loc |-> 0, base |-> "HEAD", plan |-> FALSE]

Context ==
    GeneratedContext \cup EditedContext \cup {NoContext}
      \cup {JudgedContext(rules, request) : rules \in Policy, request \in Request}

DraftFile ==
    [text : Text, context : Context, status : {"draft", "rejected", "approved", "error"}]

EntryFile == [draft : Draft, text : Text]

RunRecord ==
    [entry : Entry, key : Draft \X {c.base : c \in Context}, status : Status,
     recorded : BOOLEAN, sent : Text \cup {Absent}, context : Context \cup {Absent},
     merging : BOOLEAN]

\* Absent is no file, record or context, and risks are numbers.
DraftRunsConstants ==
    /\ Absent \notin DraftFile \cup EntryFile \cup RunRecord \cup Context
    /\ \A c \in Context : c.risk \in Int

ContextOf(d) == IF draft[d] = Absent THEN NoContext ELSE draft[d].context

Existing(f) == {x \in DOMAIN f : f[x] # Absent}

EntriesOf(d) == {a \in Existing(entry) : entry[a].draft = d}

\* Runs refer to entries that exist; the draft of an entry may be gone.
TypeOK ==
    /\ policy \in Policy
    /\ draft \in [Draft -> DraftFile \cup {Absent}]
    /\ entry \in [Entry -> EntryFile \cup {Absent}]
    /\ run \in [Run -> RunRecord \cup {Absent}]
    /\ \A r \in Existing(run) : run[r].entry \in Existing(entry)
    /\ stale \subseteq Existing(run)
    /\ crashes \in [Draft -> Nat]

Init ==
    /\ policy \in Policy
    /\ draft = [d \in Draft |-> Absent]
    /\ entry = [a \in Entry |-> Absent]
    /\ run = [r \in Run |-> Absent]
    /\ stale = {}
    /\ crashes = [d \in Draft |-> 0]

----------------------------------------------------------------------------
(* Drafts. *)

WriteDraft(d, record) == draft' = [draft EXCEPT ![d] = record]

\* A draft's id is new: it is not reused while an entry names it.
IsNew(d) == draft[d] = Absent /\ EntriesOf(d) = {}

\* plan_router.create_draft judges the scope it finds in repo_context, and
\* records the judgement in the context.
CreateDraft(d, text, request) ==
    LET context == JudgedContext(policy, request)
        rejected == context.decision \in {"DRAFT_REJECTED_FORBIDDEN_SCOPE",
                                          "RISK_SCORE_TOO_HIGH"}
    IN  /\ IsNew(d)
        /\ WriteDraft(d, [text |-> text, context |-> context,
                          status |-> IF rejected THEN "rejected" ELSE "draft"])
        /\ UNCHANGED <<policy, entry, run, stale, crashes>>

\* /generate, /generate-plan and /slice0-pipeline write drafts nobody judges;
\* when the model or the parser fails the draft has status error and no context.
GenerateDraft(d, text, context, status) ==
    /\ IsNew(d)
    /\ WriteDraft(d, [text |-> text, context |-> context, status |-> status])
    /\ UNCHANGED <<policy, entry, run, stale, crashes>>

\* update_draft replaces the whole context, whatever the draft's status.
UpdateDraft(d, text, context) ==
    /\ draft[d] # Absent
    /\ WriteDraft(d, [draft[d] EXCEPT !.text = text, !.context = context])
    /\ UNCHANGED <<policy, entry, run, stale, crashes>>

RejectDraft(d) ==
    /\ draft[d] # Absent
    /\ WriteDraft(d, [draft[d] EXCEPT !.status = "rejected"])
    /\ UNCHANGED <<policy, entry, run, stale, crashes>>

\* cleanup_old_drafts, every five minutes.  An old draft goes by its status alone:
\* also one that was approved first and rejected later.
CleanupOldDraft(d) ==
    /\ draft[d] # Absent
    /\ draft[d].status \in {"rejected", "error"}
    /\ WriteDraft(d, Absent)
    /\ UNCHANGED <<policy, entry, run, stale, crashes>>

----------------------------------------------------------------------------
(* Runs. *)

\* create_run's key: the draft and the commit base its context names now.
RunKey(d) == <<d, ContextOf(d).base>>

CanCreateRun(r, a) ==
    /\ run[r] = Absent
    /\ entry[a] # Absent
    /\ \A q \in Existing(run) \ stale :
          run[q].key = RunKey(entry[a].draft) => run[q].status \notin ActiveStatus

NewRun(a, status) ==
    LET d == entry[a].draft
    IN  [entry |-> a, key |-> RunKey(d), status |-> status,
         recorded |-> ContextOf(d).policy # Absent, sent |-> Absent, context |-> Absent,
         merging |-> FALSE]

\* POST /runs: the run is created, set running and started.
CreateRun(r, a) ==
    /\ CanCreateRun(r, a)
    /\ run' = [run EXCEPT ![r] = NewRun(a, "running")]
    /\ UNCHANGED <<policy, draft, entry, stale, crashes>>

----------------------------------------------------------------------------
(* Approval. *)

NewEntry(d) == [draft |-> d, text |-> draft[d].text]

\* Mutant: every approval writes an entry.
MayAddEntryAlways(d, a) == draft[d].status # "rejected" /\ entry[a] = Absent

\* approve_draft writes an entry unless the draft is approved and has one.
MayAddEntry(d, a) ==
    /\ draft[d].status # "rejected"
    /\ entry[a] = Absent
    /\ draft[d].status = "approved" => EntriesOf(d) = {}

\* The draft's old decision counts, and reaching for a risky draft rejects it.
RefuseRisky(d) ==
    /\ draft[d] # Absent
    /\ draft[d].context.decision = "RISK_SCORE_TOO_HIGH"
    /\ RejectDraft(d)

\* run_router.approve_draft.  auto_run, or the default of the configuration,
\* only counts for a draft that was judged eligible.
ApproveDraft(d, a) ==
    /\ draft[d] # Absent
    /\ draft[d].context.decision # "RISK_SCORE_TOO_HIGH"
    /\ MayAddEntry(d, a)
    /\ entry' = [entry EXCEPT ![a] = NewEntry(d)]
    /\ WriteDraft(d, [draft[d] EXCEPT !.status = "approved"])
    /\ UNCHANGED <<policy, run, stale, crashes>>

\* The same call goes on to create a run, which stays pending; so does a second
\* approval of an approved draft, which adds no entry.
AutoRun(r, d, a) ==
    /\ draft[d] # Absent
    /\ draft[d].status = "approved"
    /\ a \in EntriesOf(d)
    /\ draft[d].context.decision = "AUTO_RUN_ELIGIBLE"
    /\ CanCreateRun(r, a)
    /\ run' = [run EXCEPT ![r] = NewRun(a, "pending")]
    /\ UNCHANGED <<policy, draft, entry, stale, crashes>>

\* Death between the two files of an approval.
CrashInApprove(d, a) ==
    /\ draft[d] # Absent
    /\ draft[d].context.decision # "RISK_SCORE_TOO_HIGH"
    /\ MayAddEntry(d, a)
    /\ entry' = [entry EXCEPT ![a] = NewEntry(d)]
    /\ crashes' = [crashes EXCEPT ![d] = @ + 1]
    /\ UNCHANGED <<policy, draft, run, stale>>

----------------------------------------------------------------------------
(* Execution. *)

\* execute_run up to its first suspension.  Context and prompt come from the
\* draft, and without a prompt the model stage fails; a run whose gates halt keeps
\* its status.  A run the merge gate refuses keeps the status it is given, because
\* done is refused after it; the worker then asks for error.
Execute(r) ==
    /\ run[r] # Absent
    /\ run[r].status \in {"pending", "running"}
    /\ run[r].context = Absent
    /\ LET d == entry[run[r].entry].draft
           context == ContextOf(d)
           read == [run[r] EXCEPT !.context = context]
           refusal == MergeVerdict(context, run[r].recorded)
           step == IF Gates(policy, context) # "continue" THEN Gates(policy, context)
                   ELSE IF Composition(context) # "merge_gate"
                   THEN IF draft[d] = Absent THEN "fail" ELSE "model"
                   ELSE IF refusal # "merge" THEN "refuse" ELSE "merge"
       IN  \/ /\ step = "fail"
              /\ run' = [run EXCEPT ![r] = [read EXCEPT !.status = "error"]]
           \/ /\ step = "halt"
              /\ run' = [run EXCEPT ![r] = [read EXCEPT !.status = "running"]]
           \/ /\ step = "model"
              /\ run' = [run EXCEPT ![r] = [read EXCEPT !.status = "running",
                                                      !.sent = draft[d].text]]
           \/ /\ step = "merge"
              /\ run' = [run EXCEPT ![r] = [read EXCEPT !.status = "running", !.merging = TRUE]]
           \/ /\ step = "refuse"
              /\ \E s \in {refusal} \cup IF run[r].status = "pending"
                                         THEN {"error"} \cap ValidTransitions[refusal] ELSE {} :
                    run' = [run EXCEPT ![r] = [read EXCEPT !.status = s]]
    /\ UNCHANGED <<policy, draft, entry, stale, crashes>>

\* What the model, the plan or the merge comes to.
End(r, status) ==
    /\ run[r] # Absent
    /\ run[r].status = "running"
    /\ run[r].sent # Absent \/ run[r].merging
    /\ run' = [run EXCEPT ![r].status = status, ![r].merging = FALSE]
    /\ UNCHANGED <<policy, draft, entry, stale, crashes>>

Cancel(r) ==
    /\ run[r] # Absent
    /\ run[r].status \in ActiveStatus
    /\ run' = [run EXCEPT ![r].status = "cancelled"]
    /\ UNCHANGED <<policy, draft, entry, stale, crashes>>

----------------------------------------------------------------------------
(* Time and administration. *)

GrowStale(r) ==
    /\ r \in Existing(run) \ stale
    /\ stale' = stale \cup {r}
    /\ UNCHANGED <<policy, draft, entry, run, crashes>>

ChangePolicy ==
    /\ policy' \in Policy \ {policy}
    /\ UNCHANGED <<draft, entry, run, stale, crashes>>

----------------------------------------------------------------------------

Next ==
    \/ \E d \in Draft, t \in Text :
          \/ \E q \in Request : CreateDraft(d, t, q)
          \/ \E c \in GeneratedContext, s \in {"draft", "error"} : GenerateDraft(d, t, c, s)
          \/ \E c \in EditedContext : UpdateDraft(d, t, c)
    \/ \E d \in Draft : RejectDraft(d) \/ RefuseRisky(d) \/ CleanupOldDraft(d)
    \/ \E d \in Draft, a \in Entry :
          \/ ApproveDraft(d, a)
          \/ CrashInApprove(d, a)
          \/ \E r \in Run : AutoRun(r, d, a)
    \/ \E r \in Run :
          \/ \E a \in Entry : CreateRun(r, a)
          \/ Execute(r)
          \/ \E s \in {"done", "error"} : End(r, s)
          \/ Cancel(r)
          \/ GrowStale(r)
    \/ ChangePolicy

Spec == Init /\ [][Next]_vars

----------------------------------------------------------------------------
(* Properties. *)

\* approve_draft is idempotent: however often a draft is approved, edited and
\* approved again, it has one approved entry, and one more for each time the
\* server died between the two files.
ApprovalsAreCounted ==
    \A d \in Draft : Cardinality(EntriesOf(d)) <= 1 + crashes[d]

\* A change that needs a human, by its intent or its risk, is never sent to a
\* model or to the merge: the gates of the run judge it again, and whatever was
\* approved, edited or decided before, only what would be eligible for an
\* automatic run passes both stages.
OnlyEligibleChangesRun ==
    \A r \in Existing(run) :
       run[r].sent # Absent \/ run[r].merging =>
          LET c == run[r].context
              declared == IF c.declared = Absent THEN "SAFE_REFACTOR" ELSE c.declared
          IN  /\ Intent(declared, c.pathScope, c.risk, "allow").decision = "AUTO_RUN_ELIGIBLE"
              /\ c.risk <= 300

=============================================================================
