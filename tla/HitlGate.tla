------------------------------ MODULE HitlGate ------------------------------
(***************************************************************************)
(* HitlGateService: a call of a critical tool waits until an operator      *)
(* resolves its action draft, or until its time is over.                   *)
(*                                                                         *)
(* Drafts are kept in a file, waiters and futures in memory.  Coroutines   *)
(* share one event loop and gate_tool_call suspends twice only: in         *)
(* wait_for, and for one turn of the loop when wait_for has cancelled the  *)
(* future and waits for it to take note (wait_for of Python 3.11, which    *)
(* the repository's image and its CI run).                                 *)
(***************************************************************************)

CONSTANTS
  Draft,     \* calls of a critical tool, each with the draft it creates
  ByNode,    \* those of a graph node, which its own timeout may cancel
  Failures,  \* "write": the drafts file cannot be written; "read": nor read
  Restarts   \* whether the server may stop and start again

ASSUME HitlAssumption ==
    /\ ByNode \subseteq Draft
    /\ Failures \subseteq {"write", "read"}
    /\ Restarts \in BOOLEAN

VARIABLES
  record,   \* status of each draft in action_drafts.json
  waiters,  \* drafts with an entry in _waiters
  future,   \* the future of each call
  caller,   \* what became of each call
  first     \* history: the first decision an operator was told is recorded

vars == <<record, waiters, future, caller, first>>

Init ==
    /\ record = [d \in Draft |-> "none"]
    /\ waiters = {}
    /\ future = [d \in Draft |-> "none"]
    /\ caller = [d \in Draft |-> "none"]
    /\ first = [d \in Draft |-> "none"]

-----------------------------------------------------------------------------
(* The drafts file.                                                        *)

Verdict(s) == IF s = "approved" THEN "allow" ELSE "reject"

\* _save_draft after a read that failed: _load_all has returned no drafts, and
\* the file is rewritten with the new one alone.
Saved(d) == [record EXCEPT ![d] = "pending"]
SavedAlone(d) == [e \in Draft |-> IF e = d THEN "pending" ELSE "none"]

\* Mutants: the waiter stays; its future is set whether it is done or not.
ResolveKeepsWaiter(d, s) ==
    /\ record[d] # "none"
    /\ record' = [record EXCEPT ![d] = s]
    /\ UNCHANGED waiters
    /\ future' = IF d \in waiters /\ future[d] = "undone"
                 THEN [future EXCEPT ![d] = Verdict(s)]
                 ELSE future

ResolveAgain(d, s) ==
    /\ record[d] # "none"
    /\ record' = [record EXCEPT ![d] = s]
    /\ waiters' = waiters \ {d}
    /\ future' = IF future[d] = "none" THEN future ELSE [future EXCEPT ![d] = Verdict(s)]

\* _resolve_draft: whatever the draft's status was it becomes s; its waiter is
\* dropped and told, unless its future is done already.
Resolve(d, s) ==
    /\ record[d] # "none"
    /\ record' = [record EXCEPT ![d] = s]
    /\ waiters' = waiters \ {d}
    /\ future' = IF d \in waiters /\ future[d] = "undone"
                 THEN [future EXCEPT ![d] = Verdict(s)]
                 ELSE future

\* Mutant: the waiter is dropped before the file is written.
ResolveFailsLate(d) ==
    /\ record[d] = "none" \/ Failures # {}
    /\ waiters' = waiters \ {d}
    /\ UNCHANGED <<record, future>>

\* _resolve_draft raises before it has changed anything: the draft is not in
\* the file, or the file cannot be read or written.
ResolveFails(d) ==
    /\ record[d] = "none" \/ Failures # {}
    /\ UNCHANGED <<record, waiters, future>>

-----------------------------------------------------------------------------
(* The calls.                                                              *)

\* gate_tool_call up to its wait: the waiter is registered before the draft is
\* saved, and stays registered when saving fails and the call raises.
ToolCall(d) ==
    /\ caller[d] = "none"
    /\ waiters' = waiters \cup {d}
    /\ future' = [future EXCEPT ![d] = "undone"]
    /\ \/ record' = Saved(d) /\ caller' = [caller EXCEPT ![d] = "waiting"]
       \/ /\ "read" \in Failures
          /\ record' = SavedAlone(d) /\ caller' = [caller EXCEPT ![d] = "waiting"]
       \/ /\ "write" \in Failures
          /\ record' = record /\ caller' = [caller EXCEPT ![d] = "gone"]
    /\ UNCHANGED first

\* wait_for returns the answer.  Nothing stops it once the future is done:
\* neither the timer nor the cancellation of the call.
Answer(d) ==
    /\ caller[d] = "waiting"
    /\ future[d] \in {"allow", "reject"}
    /\ caller' = [caller EXCEPT ![d] = IF future[d] = "allow" THEN "allowed" ELSE "denied"]
    /\ UNCHANGED <<record, waiters, future, first>>

\* Mutant: only what the file lists as pending times out.
GiveUpPending(d) ==
    /\ caller[d] = "waiting"
    /\ future[d] = "undone"
    /\ record[d] = "pending"
    /\ future' = [future EXCEPT ![d] = "cancelled"]
    /\ caller' = [caller EXCEPT ![d] = "timing_out"]
    /\ UNCHANGED <<record, waiters, first>>

\* The timer of wait_for fires: the future is cancelled, the waiter stays.
GiveUp(d) ==
    /\ caller[d] = "waiting"
    /\ future[d] = "undone"
    /\ future' = [future EXCEPT ![d] = "cancelled"]
    /\ caller' = [caller EXCEPT ![d] = "timing_out"]
    /\ UNCHANGED <<record, waiters, first>>

\* The next turn of the loop: the draft becomes "timeout", also one that was
\* resolved meanwhile, and the call is refused even when that fails.
TimeOut(d) ==
    /\ caller[d] = "timing_out"
    /\ Resolve(d, "timeout") \/ ResolveFails(d)
    /\ caller' = [caller EXCEPT ![d] = "denied"]
    /\ UNCHANGED first

\* The node's timeout cancels the call: its draft stays pending and its waiter
\* registered.
CancelCall(d) ==
    /\ d \in ByNode
    /\ \/ caller[d] = "waiting" /\ future[d] = "undone"
       \/ caller[d] = "timing_out"
    /\ future' = [future EXCEPT ![d] = "cancelled"]
    /\ caller' = [caller EXCEPT ![d] = "gone"]
    /\ UNCHANGED <<record, waiters, first>>

-----------------------------------------------------------------------------
(* Operators, and the server.                                              *)

\* approve, reject and batch-approve: nothing requires that the draft be
\* pending.
Decide(d, s) ==
    /\ \/ /\ Resolve(d, s)
          /\ first' = IF first[d] = "none" THEN [first EXCEPT ![d] = s] ELSE first
       \/ ResolveFails(d) /\ UNCHANGED first
    /\ UNCHANGED caller

Restart ==
    /\ Restarts
    /\ waiters' = {}
    /\ future' = [d \in Draft |-> "none"]
    /\ caller' = [d \in Draft |->
                    IF caller[d] \in {"waiting", "timing_out"} THEN "gone" ELSE caller[d]]
    /\ UNCHANGED <<record, first>>

Wakes(d) == Answer(d) \/ GiveUp(d) \/ TimeOut(d)

Next ==
    \/ \E d \in Draft : ToolCall(d)
    \/ \E d \in Draft : Answer(d)
    \/ \E d \in Draft : GiveUp(d)
    \/ \E d \in Draft : TimeOut(d)
    \/ \E d \in Draft : CancelCall(d)
    \/ \E d \in Draft, s \in {"approved", "rejected"} : Decide(d, s)
    \/ Restart

Spec == Init /\ [][Next]_vars

\* The event loop resumes every coroutine that can go on and fires every timer
\* that is due.  Operators need never answer.
FairSpec == Spec /\ \A d \in Draft : WF_vars(Wakes(d))

-----------------------------------------------------------------------------
(* Properties.                                                             *)

\* The values the variables take.  A waiter whose future was answered is gone:
\* _resolve_draft drops it before it sets the result.
TypeOK ==
    /\ record \in [Draft -> {"none", "pending", "approved", "rejected", "timeout"}]
    /\ waiters \subseteq Draft
    /\ future \in [Draft -> {"none", "undone", "cancelled", "allow", "reject"}]
    /\ caller \in [Draft -> {"none", "waiting", "timing_out", "allowed", "denied", "gone"}]
    /\ first \in [Draft -> {"none", "approved", "rejected"}]
    /\ \A d \in waiters : future[d] \in {"undone", "cancelled"}

\* A critical tool runs only if an operator's first decision on its draft was
\* to approve it: neither a rejection followed by an approval, nor a timeout,
\* a lost drafts file or a restart lets it run.
AllowedOnlyByApproval ==
    \A d \in Draft : caller[d] = "allowed" => first[d] = "approved"

\* No decision is recorded and withheld: a call that still waits for a draft
\* somebody has resolved, has its answer.
RecordedDecisionsArrive ==
    \A d \in Draft :
       caller[d] = "waiting" /\ record[d] \in {"approved", "rejected"}
          => future[d] \in {"allow", "reject"}

\* Every call that waits ends, although no operator may answer and its draft
\* may be lost or its timeout may fail to be recorded.
EveryCallEnds ==
    \A d \in Draft : caller[d] = "waiting" ~> caller[d] \in {"allowed", "denied", "gone"}

=============================================================================
