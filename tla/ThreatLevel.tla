---------------------------- MODULE ThreatLevel ----------------------------
(***************************************************************************)
(* ThreatEngine: failed logins and exceptions of the last minute raise the *)
(* level, the decay loop and operators lower it.  Handlers that are no     *)
(* coroutines run in threads, beside the event loop and without a lock.    *)
(*                                                                         *)
(* Time passes in turns of the decay loop; no request lasts a whole turn.  *)
(***************************************************************************)
EXTENDS Integers, Sequences, FiniteSets

CONSTANTS
  Thread,       \* threads at work on requests
  Source,       \* clients
  Trusted,      \* whitelisted ones
  FailuresOf,   \* failures of one client that raise the alert
  Failures,     \* failures that raise each of the two highest levels
  Errors,       \* exceptions that do
  Window,       \* age up to which events count
  MaxEvents,    \* how many events are kept
  Timers        \* age at which each level is lowered

ThreatLevelConstants ==
    /\ FailuresOf \in Nat \ {0} /\ Window \in Nat /\ MaxEvents \in Nat \ {0}
    /\ Failures \in [{2, 3} -> Nat \ {0}] /\ Errors \in [{2, 3} -> Nat \ {0}]
    /\ Timers \in [1 .. 3 -> Nat \ {0}]

VARIABLES
  level,    \* 0 NOMINAL, 1 ALERT, 2 GUARDED, 3 LOCKDOWN
  since,    \* the level's age
  events,   \* those that are neither resolved nor older than Window
  at,       \* what each thread, and the event loop, is about to do
  turn,     \* whether the decay loop's turn has come
  calm,     \* for how long no event was recorded
  firm      \* nothing met the last event's evaluation, or lowered the level since

vars == <<level, since, events, at, turn, calm, firm>>

Loop == "loop"

Actor == Thread \cup {Loop}

Idle == [step |-> "idle"]

\* Who is between two steps of the engine.
Busy == {a \in Actor : at[a] # Idle}

Longest == Timers[1] + Timers[2] + Timers[3]

TypeOK ==
    /\ level \in 0 .. 3 /\ since \in 0 .. Longest
    /\ \A i \in DOMAIN events : events[i].source \in Source /\ events[i].age \in 0 .. Window
    /\ \A a \in Actor : at[a].step \in {"idle", "check", "set", "resolve"}
    /\ turn \in BOOLEAN /\ firm \in BOOLEAN

Init ==
    /\ level = 0 /\ since = 0 /\ events = <<>> /\ at = [a \in Actor |-> Idle]
    /\ turn = FALSE /\ calm = Longest /\ firm = TRUE

Go(a, next) == at' = [at EXCEPT ![a] = next]

SetLevel(l) == level' = l /\ since' = 0

Recent(kind, seq) == {i \in DOMAIN seq : seq[i].kind = kind}

\* Whether events ask for a level.
Asked(l, seq) ==
    LET auth == Recent("auth_failure", seq)
    IN  \/ l = 0
        \/ l = 1 /\ \E s \in Source : Cardinality({i \in auth : seq[i].source = s}) >= FailuresOf
        \/ /\ l \in {2, 3}
           /\ \/ Cardinality(auth) >= Failures[l]
              \/ Cardinality(Recent("exception", seq)) >= Errors[l]

\* The level the events of the window ask for.
Target(seq) ==
    CHOOSE l \in 0 .. 3 : Asked(l, seq) /\ \A m \in 0 .. 3 : Asked(m, seq) => m <= l

----------------------------------------------------------------------------
(* Requests.  In a lockdown only some paths admit clients that are not   *)
(* authenticated, as by another header than the one that is refused.      *)

Admitted(path, authenticated) == path \in {"login", "resolve"} \/ authenticated \/ level < 3

\* The ring buffer.
LastN(seq) == IF Len(seq) <= MaxEvents THEN seq ELSE Tail(seq)

\* The event is in the list, and the list is counted.
Record(a, kind, s) ==
    /\ events' = LastN(Append(events, [kind |-> kind, source |-> s, age |-> 0]))
    /\ Go(a, [step |-> "check", target |-> Target(events')])
    /\ calm' = 0 /\ firm' = (Busy \subseteq {a})
    /\ UNCHANGED <<level, since, turn>>

\* verify_token, in a thread, or login, in the event loop, refuses a token.
FailLogin(a, s) ==
    /\ at[a] = Idle /\ s \notin Trusted
    /\ \E path \in {"login", "resolve", "other"}, authenticated \in BOOLEAN :
          Admitted(path, authenticated) /\ (path = "login" <=> a = Loop)
    /\ Record(a, "auth_failure", s)

\* The catcher of exceptions runs in the event loop, and trusts nobody.
RaiseError(s) ==
    /\ at[Loop] = Idle
    /\ \E path \in {"login", "other"}, authenticated \in BOOLEAN : Admitted(path, authenticated)
    /\ Record(Loop, "exception", s)

\* _evaluate compares with the level and sets it, in two steps.
Compare(a) ==
    /\ at[a].step = "check"
    /\ Go(a, IF at[a].target > level THEN [step |-> "set", to |-> at[a].target] ELSE Idle)
    /\ UNCHANGED <<level, since, events, turn, calm, firm>>

Set(a) ==
    /\ at[a].step = "set"
    /\ SetLevel(at[a].to) /\ Go(a, Idle)
    /\ firm' = (firm /\ Busy = {a})
    /\ UNCHANGED <<events, turn, calm>>

----------------------------------------------------------------------------
(* Operators, through /ui/security/resolve, and the decay loop. *)

Downgrade(a) ==
    /\ at[a] = Idle /\ Admitted("resolve", TRUE) /\ level > 0
    /\ Go(a, [step |-> "set", to |-> level - 1])
    /\ firm' = FALSE
    /\ UNCHANGED <<level, since, events, turn, calm>>

\* clear_all saves the new level before it resolves the events.
ClearLevel(a) ==
    /\ at[a] = Idle /\ Admitted("resolve", TRUE)
    /\ SetLevel(0) /\ Go(a, [step |-> "resolve"])
    /\ firm' = FALSE
    /\ UNCHANGED <<events, turn, calm>>

ResolveEvents(a) ==
    /\ at[a].step = "resolve"
    /\ events' = <<>> /\ Go(a, Idle)
    /\ UNCHANGED <<level, since, turn, calm, firm>>

\* NOMINAL has no timer.
Due == level > 0 /\ since >= Timers[level]

TickDecay ==
    /\ turn /\ at[Loop] = Idle
    /\ turn' = FALSE
    /\ IF Due
       THEN Go(Loop, [step |-> "set", to |-> level - 1]) /\ firm' = FALSE
       ELSE UNCHANGED <<at, firm>>
    /\ UNCHANGED <<level, since, events, calm>>

Least(m, n) == IF m < n THEN m ELSE n

\* The oldest events come first; these leave the window.
Old == {i \in DOMAIN events : events[i].age >= Window}

Young == SubSeq(events, Cardinality(Old) + 1, Len(events))

Wait ==
    /\ ~turn /\ Busy = {}
    /\ turn' = TRUE
    /\ since' = Least(since + 1, Longest) /\ calm' = Least(calm + 1, Longest)
    /\ events' = [i \in DOMAIN Young |-> [Young[i] EXCEPT !.age = @ + 1]]
    /\ UNCHANGED <<level, at, firm>>

\* Nothing of the engine is restored.
Restart ==
    /\ SetLevel(0) /\ events' = <<>> /\ at' = [a \in Actor |-> Idle]
    /\ turn' = FALSE /\ firm' = TRUE
    /\ UNCHANGED calm

Next ==
    \/ \E a \in Actor :
          \/ Compare(a) \/ Set(a)
          \/ \E s \in Source : FailLogin(a, s)
    \/ \E s \in Source : RaiseError(s)
    \/ \E a \in Thread : Downgrade(a) \/ ClearLevel(a) \/ ResolveEvents(a)
    \/ TickDecay \/ Wait \/ Restart

Spec == Init /\ [][Next]_vars

\* The events of the window have the level they ask for, unless it was lowered
\* since the last of them or other requests met its evaluation: then the next
\* event raises it.
EventsAreAnswered == firm /\ Busy = {} => level >= Target(events)

\* "Auto-decays if no new threats arrive": after as much calm as the timers take
\* together the level is NOMINAL, whatever crossed the decay.
CalmEndsAll == calm >= Longest /\ ~turn /\ Busy = {} => level = 0

=============================================================================
