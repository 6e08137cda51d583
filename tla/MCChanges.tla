----------------------------- MODULE MCChanges -----------------------------
(***************************************************************************)
(* Changes that are asked for, judged and approved, and changes that are   *)
(* merged.  One run checks each, from the initial state on, while the      *)
(* other rests.                                                            *)
(***************************************************************************)
EXTENDS MergeGate, TLC

CONSTANTS
  DocPath, TestPath, SecurityPath, CorePath,   \* DraftRuns
  Draft, Entry, DraftRun, Text, Request, EditedContext, GeneratedContext, Policy,
  r1, r2, main, dev, fix1, fix2, c0, c1, c2, p1

\* A router's run and a worker's run that merge different branches into main, and a
\* root directory that stays on a branch of its own.
MCRepoOf == [r \in Run |-> p1]

MCSource == [r \in Run |-> IF r = r1 THEN fix1 ELSE fix2]

MCTarget == [r \in Run |-> main]

MCTip0 == (main :> {c0}) @@ (dev :> {}) @@ (fix1 :> {c1}) @@ (fix2 :> {c2})

\* A policy in force, and a stricter one that is not sealed yet.
Usual == [sealed |-> TRUE, allowed |-> {"code", "docs", "core"}, forbidden |-> {},
          maxFiles |-> 2, maxLoc |-> 9, reviewLoc |-> 5, review |-> {"core"}]

MCPolicies == {Usual, [Usual EXCEPT !.sealed = FALSE, !.forbidden = {"code"}]}

Asked == [declared |-> "SAFE_REFACTOR", repoScope |-> {"code"}, pathScope |-> {},
          risk |-> 0, files |-> 1, loc |-> 1, base |-> "HEAD"]

\* One request for each branch of the judgement, and for the gap of 30 to 31.
MCRequests ==
    {Asked,
     [Asked EXCEPT !.declared = Absent],
     [Asked EXCEPT !.repoScope = {"core"}],
     [Asked EXCEPT !.declared = "DOC_UPDATE", !.pathScope = {"docs"}, !.loc = 6],
     [Asked EXCEPT !.repoScope = {"security"}],
     [Asked EXCEPT !.risk = 305],
     [Asked EXCEPT !.risk = 310],
     [Asked EXCEPT !.risk = 601]}

MCPlain == [declared |-> Absent, effective |-> Absent, decision |-> Absent, policy |-> Absent,
          risk |-> 0, pathScope |-> {}, files |-> 0, loc |-> 0, base |-> "HEAD", plan |-> FALSE]

MCEdits ==
    {[MCPlain EXCEPT !.base = "main"],
     [MCPlain EXCEPT !.effective = "MERGE_REQUEST"],
     [MCPlain EXCEPT !.effective = "MERGE_REQUEST", !.policy = "allow"],
     [MCPlain EXCEPT !.risk = 601, !.decision = "AUTO_RUN_ELIGIBLE"]}

MCGenerated == {MCPlain, [MCPlain EXCEPT !.plan = TRUE]}

VARIABLES
  step,                                        \* which of them moves
  policy, draft, entry, run, stale, crashes    \* DraftRuns

\* The instance has a draft with two approved entries and a run, and two prompts.
D == INSTANCE DraftRuns WITH Run <- DraftRun

ASSUME RecordsAssumption == D!DraftRunsConstants

varsD == <<policy, draft, entry, run, stale, crashes>>

MCInit == step \in {"draft", "merge"} /\ Init /\ D!Init /\ (step = "merge" => policy.sealed)

DraftsMove == step = "draft" /\ D!Next /\ UNCHANGED <<step, vars>>

MergesMove == step = "merge" /\ Next /\ UNCHANGED <<step, varsD>>

MCNext == DraftsMove \/ MergesMove

ProceedOf(r) == step = "merge" /\ Proceed(r) /\ UNCHANGED <<step, varsD>>

\* The fairness of MergeGate.
MCSpec ==
    MCInit /\ [][MCNext]_<<step, vars, varsD>> /\ \A r \in Run : WF_vars(ProceedOf(r))

\* approve_draft is idempotent: a draft has one approved entry, and one more for
\* each death between its two files.  The variables have their types.
ApprovalsAreCounted == step = "draft" => D!TypeOK /\ D!ApprovalsAreCounted

\* Only what would be eligible for an automatic run passes the gates of a run.
OnlyEligibleChangesRun == step = "draft" => D!OnlyEligibleChangesRun

=============================================================================
