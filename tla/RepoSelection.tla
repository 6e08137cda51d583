--------------------------- MODULE RepoSelection ---------------------------
(***************************************************************************)
(* The active repository: RepoOverrideService's file, the registry, and    *)
(* the handlers that read and write both in threads, without a lock.       *)
(*                                                                         *)
(* An override is named by its etag.  (The etag is a hash of the override  *)
(* with its time in seconds: that no user selects one repository twice in  *)
(* a second is assumed.)                                                   *)
(***************************************************************************)
EXTENDS Integers, FiniteSets

CONSTANTS
  Repo,      \* repositories
  Caller,    \* threads with a request
  MaxSets,   \* overrides that are set
  None

VARIABLES
  override,   \* active_repo.json, or None
  draft,      \* its temporary file, or None
  expired,    \* etags of overrides past their time
  registry,   \* repo_registry.json
  call,       \* the requests at work
  sets,       \* overrides made so far
  published,  \* etags that were in the file
  gone        \* etags that were in the file and are no longer

vars == <<override, draft, expired, registry, call, sets, published, gone>>

Etag == 1 .. MaxSets

Override == [etag : Etag, repo : Repo]

RepoSelectionConstants == MaxSets \in Nat /\ None \notin Override

Quiet == [pc |-> "none"]

TypeOK ==
    /\ override \in Override \cup {None} /\ draft \in Override \cup {None}
    /\ expired \subseteq published
    /\ registry \in [active : Repo \cup {None}, repos : SUBSET Repo]
    /\ \A c \in Caller :
          call[c].pc \in {"none", "guard", "check", "write", "replace", "load", "save",
                          "expire", "delete"}
    /\ sets \in 0 .. MaxSets
    /\ gone \subseteq published

Init ==
    /\ override = None /\ draft = None /\ expired = {} /\ sets = 0 /\ published = {} /\ gone = {}
    /\ registry \in [active : {None}, repos : {{}, Repo}]
    /\ call = [c \in Caller |-> Quiet]

Goto(c, pc) == call' = [call EXCEPT ![c].pc = pc]

Return(c) == call' = [call EXCEPT ![c] = Quiet]

\* What the file says changes to o.
Publish(o) ==
    /\ override' = o
    /\ published' = published \cup IF o = None THEN {} ELSE {o.etag}
    /\ gone' = gone \cup IF override \in {None, o} THEN {} ELSE {override.etag}

File == <<override, draft, expired, sets, published, gone>>

----------------------------------------------------------------------------
(* Requests.  A client that knows the etag sends it. *)

\* select needs a repository that is registered, or inside the root.
Select(c) ==
    /\ call[c] = Quiet
    /\ \E r \in Repo, m \in published \cup {None}, actions \in BOOLEAN :
          call' = [call EXCEPT ![c] = [op |-> "select", pc |-> "guard", repo |-> r, match |-> m,
                                       actions |-> actions]]
    /\ UNCHANGED <<File, registry>>

Revoke(c) ==
    /\ call[c] = Quiet
    /\ \E m \in published \cup {None} :
          call' = [call EXCEPT ![c] = [op |-> "revoke", pc |-> "check", match |-> m]]
    /\ UNCHANGED <<File, registry>>

\* The handlers that only ask for the active repository.
Ask(c) ==
    /\ call[c] = Quiet
    /\ call' = [call EXCEPT ![c] = [op |-> "ask", pc |-> "check"]]
    /\ UNCHANGED <<File, registry>>

\* vitaminize, register and the list of repositories write the registry alone.
Register(c) ==
    /\ call[c] = Quiet
    /\ \E r \in Repo, active \in BOOLEAN :
          call' = [call EXCEPT ![c] = [op |-> IF active THEN "vitaminize" ELSE "register",
                                       pc |-> "load", repo |-> r]]
    /\ UNCHANGED <<File, registry>>

----------------------------------------------------------------------------
(* get_active_override, and what its callers make of the answer. *)

\* The request goes on with override o, or None.
With(c, o) ==
    LET q == call[c]
        refused == o # None /\ q.match # o.etag
    IN  CASE q.op = "ask" -> Return(c)
          [] q.op = "revoke" -> IF o = None \/ refused THEN Return(c) ELSE Goto(c, "delete")
          [] q.op = "select" /\ q.pc = "guard" ->
               IF q.actions /\ o # None THEN Return(c) ELSE Goto(c, "check")
          [] OTHER -> IF refused THEN Return(c) ELSE Goto(c, "write")

Read(c) ==
    /\ call[c].pc \in {"guard", "check"}
    /\ IF override # None /\ override.etag \in expired
       THEN call' = [call EXCEPT ![c] = [pc |-> "expire", then |-> call[c]]]
       ELSE With(c, override)
    /\ UNCHANGED <<File, registry>>

\* Whatever is in the file by now is deleted.
Expire(c) ==
    /\ call[c].pc = "expire"
    /\ Publish(None)
    /\ LET q == call[c].then
       IN  call' = [call EXCEPT ![c] =
              CASE q.op \in {"ask", "revoke"} -> Quiet
                [] q.pc = "guard" -> [q EXCEPT !.pc = "check"]
                [] OTHER -> [q EXCEPT !.pc = "write"]]
    /\ UNCHANGED <<draft, expired, sets, registry>>

----------------------------------------------------------------------------
(* Writing. *)

WriteDraft(c) ==
    /\ call[c].pc = "write" /\ sets < MaxSets
    /\ sets' = sets + 1
    /\ draft' = [etag |-> sets + 1, repo |-> call[c].repo]
    /\ Goto(c, "replace")
    /\ UNCHANGED <<override, expired, registry, published, gone>>

\* Were the temporary file copied and left there.
ReplaceByCopy(c) ==
    /\ call[c].pc = "replace"
    /\ IF draft = None
       THEN Return(c) /\ UNCHANGED <<override, published, gone>>
       ELSE Publish(draft) /\ Goto(c, "load")
    /\ UNCHANGED <<draft, expired, sets, registry>>

\* The temporary file becomes the file, whoever wrote it last; the second of two
\* replacements finds none, and its request fails.
Replace(c) ==
    /\ call[c].pc = "replace"
    /\ IF draft = None
       THEN Return(c) /\ UNCHANGED <<override, published, gone>>
       ELSE Publish(draft) /\ Goto(c, "load")
    /\ draft' = None
    /\ UNCHANGED <<expired, sets, registry>>

Delete(c) ==
    /\ call[c].pc = "delete"
    /\ Publish(None) /\ Return(c)
    /\ UNCHANGED <<draft, expired, sets, registry>>

Load(c) ==
    /\ call[c].pc = "load"
    /\ call' = [call EXCEPT ![c] = [op |-> call[c].op, pc |-> "save", repo |-> call[c].repo,
                                    was |-> registry]]
    /\ UNCHANGED <<File, registry>>

\* The registry is written as it was read, with the change.
Save(c) ==
    /\ call[c].pc = "save"
    /\ registry' = IF call[c].op = "register"
                   THEN [call[c].was EXCEPT !.repos = @ \cup {call[c].repo}]
                   ELSE [call[c].was EXCEPT !.active = call[c].repo]
    /\ Return(c)
    /\ UNCHANGED File

\* Expiry.
Elapse ==
    /\ \E o \in {override} \ {None} : o.etag \notin expired /\ expired' = expired \cup {o.etag}
    /\ UNCHANGED <<override, draft, registry, call, sets, published, gone>>

Next ==
    \/ \E c \in Caller :
          \/ Select(c) \/ Revoke(c) \/ Ask(c) \/ Register(c)
          \/ Read(c) \/ Expire(c) \/ WriteDraft(c) \/ Replace(c) \/ Delete(c)
          \/ Load(c) \/ Save(c)
    \/ Elapse

Spec == Init /\ [][Next]_vars

\* An override that was replaced, revoked or deleted does not come back, whatever
\* requests are at work.
NoneReturns == override # None => override.etag \notin gone

=============================================================================
