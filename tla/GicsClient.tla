----------------------------- MODULE GicsClient -----------------------------
(***************************************************************************)
(* GicsService, the server's client of the GICS daemon, and what the       *)
(* server keeps there of every model: how many calls it made, how many     *)
(* failed, and how many in a row.                                          *)
(*                                                                         *)
(* A command is a line written to a socket and a line read from it.  The   *)
(* client blocks the event loop from the first attempt of a command to its *)
(* last, so that one operation runs at a time.  The daemon is external: it *)
(* answers the lines of a connection in their order, it may be too slow,   *)
(* it may break a connection, and it may die; nothing starts it again      *)
(* before the server itself is restarted.  Lines of a closed connection    *)
(* are handled before those of the next one, or never.                     *)
(***************************************************************************)
EXTENDS Integers, Sequences

CONSTANTS
  Model,        \* models whose outcomes are recorded
  MaxSamples,   \* bound on the outcomes of each model
  None

VARIABLES
  store,     \* what the daemon keeps of each model, None before the first put
  alive,     \* whether the daemon runs
  unread,    \* answers sent on the connection and not read; None without one
  call,      \* the operation under way
  sent,      \* identifier of the last command, uuid4
  recorded,  \* outcomes the server recorded of each model
  astray     \* models of which an answer or a record was lost

vars == <<store, alive, unread, call, sent, recorded, astray>>

MaxSends == 3

\* Identifiers never repeat; two tell apart the answers of commands in a row.
NextId(i) == 1 - i

Fields == [samples : Nat, successes : Nat, failures : Nat, streak : Nat]

Line == [id : 0..1, fields : Fields \union {None}]

TypeOK ==
    /\ store \in [Model -> Fields \union {None}]
    /\ alive \in BOOLEAN
    /\ unread = None \/ unread \in Seq(Line)
    /\ sent \in 0..1
    /\ recorded \in [Model -> 0..MaxSamples] /\ astray \subseteq Model

NoFields == [samples |-> 0, successes |-> 0, failures |-> 0, streak |-> 0]

Idle == [op |-> "idle"]

Operation(op, m, success) ==
    [op |-> op, model |-> m, success |-> success, command |-> "get", attempt |-> 1,
     fields |-> None]

Init ==
    /\ store = [m \in Model |-> None]
    /\ alive \in BOOLEAN
    /\ unread = None /\ call = Idle /\ sent = 0
    /\ recorded = [m \in Model |-> 0] /\ astray = {}

\* What record_model_outcome makes of the fields it has read.
WithOutcome(fields, success) ==
    [samples |-> fields.samples + 1,
     successes |-> fields.successes + IF success THEN 1 ELSE 0,
     failures |-> fields.failures + IF success THEN 0 ELSE 1,
     streak |-> IF success THEN 0 ELSE fields.streak + 1]

\* seed_model_prior writes back the counters it has read.
Merged(fields, c) == IF c.op = "outcome" THEN WithOutcome(fields, c.success) ELSE fields

\* The daemon's state and its answer after a command.
Applied == IF call.command = "put" THEN [store EXCEPT ![call.model] = call.fields] ELSE store

Answer ==
    [id |-> NextId(sent),
     fields |-> IF call.command = "get" THEN store[call.model] ELSE None]

-----------------------------------------------------------------------------
(* What the operations make of the answer of a command, or of its absence. *)

\* A get whose answer has no fields is taken for a model without a record.
FieldsOf(answer) ==
    IF answer # None /\ answer.fields # None THEN answer.fields ELSE NoFields

\* The operation goes on with its put, or is over.
Continue(answer) ==
    IF call.command = "get" /\ call.op \in {"outcome", "seed"}
    THEN call' = [call EXCEPT !.command = "put", !.attempt = 1,
                              !.fields = Merged(FieldsOf(answer), call)]
    ELSE call' = Idle

\* The record goes astray when the answer is missing or is that of another
\* command, and when the put may not have reached the daemon.
Lost(answer, delivered) ==
    IF call.command = "put" THEN ~delivered
    ELSE answer = None \/ answer.id # NextId(sent)

Return(answer, delivered) ==
    /\ sent' = NextId(sent)
    /\ astray' = IF call.op \in {"outcome", "seed"} /\ Lost(answer, delivered)
                 THEN astray \union {call.model} ELSE astray
    /\ Continue(answer)

-----------------------------------------------------------------------------
(* send_command, once for each attempt of _send_with_retry *)

\* The connection works.  The first line is taken for the answer; a second line
\* that arrives with it in one chunk is dropped.
Answered ==
    /\ alive /\ call # Idle
    /\ store' = Applied
    /\ LET lines == (IF unread = None THEN <<>> ELSE unread) \o <<Answer>> IN
       /\ Return(Head(lines), TRUE)
       /\ unread' \in {Tail(lines), <<>>}
    /\ UNCHANGED <<alive, recorded>>

\* The connection breaks before or after the daemon has read the line.  The line
\* is sent again on a new connection, and nobody waits for its answer.
Broken ==
    /\ alive /\ call # Idle
    /\ store' = Applied
    /\ unread' = <<Answer>>
    /\ Return(None, TRUE)
    /\ UNCHANGED <<alive, recorded>>

\* Were the operation repeated instead of the command.
RaisedOperation ==
    /\ call # Idle
    /\ unread' = None
    /\ store' \in {store} \union (IF alive THEN {Applied} ELSE {})
    /\ IF call.attempt < MaxSends /\ call.op # "health"
       THEN /\ call' = [call EXCEPT !.command = "get", !.attempt = call.attempt + 1]
            /\ sent' = NextId(sent)
            /\ UNCHANGED astray
       ELSE Return(None, FALSE)
    /\ UNCHANGED <<alive, recorded>>

\* The answer does not come in time, is an error, or there is no daemon: the
\* connection is closed, and the command is sent again if attempts are left.
Raised ==
    /\ call # Idle
    /\ unread' = None
    /\ store' \in {store} \union (IF alive THEN {Applied} ELSE {})
    /\ IF call.attempt < MaxSends /\ call.op # "health"
       THEN /\ call' = [call EXCEPT !.attempt = call.attempt + 1]
            /\ sent' = NextId(sent)
            /\ UNCHANGED astray
       ELSE Return(None, FALSE)
    /\ UNCHANGED <<alive, recorded>>

-----------------------------------------------------------------------------
(* The operations of the server *)

\* record_model_outcome
RecordOutcome(m, success) ==
    /\ call = Idle
    /\ recorded[m] < MaxSamples
    /\ recorded' = [recorded EXCEPT ![m] = recorded[m] + 1]
    /\ call' = Operation("outcome", m, success)
    /\ UNCHANGED <<store, alive, unread, sent, astray>>

\* seed_model_prior, get_model_reliability, and the scan of the health loop
Ask(op, m) ==
    /\ call = Idle
    /\ call' = Operation(op, m, TRUE)
    /\ UNCHANGED <<store, alive, unread, sent, recorded, astray>>

\* The daemon dies; what it keeps is on its disk.
Die ==
    /\ alive
    /\ alive' = FALSE
    /\ UNCHANGED <<store, unread, call, sent, recorded, astray>>

\* stop_daemon and start_daemon: the server restarts, between two operations.
Restart ==
    /\ call = Idle
    /\ alive' = TRUE /\ unread' = None
    /\ UNCHANGED <<store, call, sent, recorded, astray>>

Next ==
    \/ Answered \/ Broken \/ Raised
    \/ \E m \in Model : \/ \E success \in BOOLEAN : RecordOutcome(m, success)
                        \/ \E op \in {"seed", "reliability", "health"} : Ask(op, m)
    \/ Die \/ Restart

Spec == Init /\ [][Next]_vars

-----------------------------------------------------------------------------

\* However often connections break, at most one answer is ever left unread: the
\* client is never further behind, and a closed socket puts it in step again.
AtMostOneBehind == unread # None => Len(unread) <= 1

\* Unless an answer or a record was lost, a model's record counts every outcome
\* exactly once, although its commands are repeated and puts arrive twice.
CountedOnce ==
    \A m \in Model \ astray :
        call = Idle \/ call.model # m \/ call.op # "outcome" =>
            recorded[m] = IF store[m] = None THEN 0 ELSE store[m].samples

\* What is kept of a model adds up, even when it was read for another one.
RecordsAddUp ==
    \A m \in Model :
        store[m] # None =>
            /\ store[m].samples = store[m].successes + store[m].failures
            /\ store[m].streak <= store[m].failures

\* Retries and broken connections neither count an outcome twice nor put the
\* client out of step for good.
OutcomesAreCounted == CountedOnce /\ RecordsAddUp /\ AtMostOneBehind

=============================================================================
