----------------------------- MODULE MCHitlGate -----------------------------
(***************************************************************************)
(* Calls of two graph nodes and of an adapter that wait for an operator,   *)
(* and the notifications operators listen to.  They share no state; one    *)
(* run checks each, from the initial state on, while the other rests.      *)
(***************************************************************************)
EXTENDS HitlGate

CONSTANTS
  Subscriber, Plain, Critical, Unserialisable, QueueMax, Threshold, MaxPublished
                                                        \* Notifications

VARIABLES
  service,                                              \* which of them moves
  subscribers, sub, newest, pending, flush, published   \* Notifications

\* The instance has two clients, two coalescing events, one of them unserialisable,
\* and one that is never dropped.  Queues, circuits and numbers of events overflow at
\* 2 and 4.
N == INSTANCE Notifications

ASSUME QueuesAssumption == N!NotificationsConstants

varsN == <<subscribers, sub, newest, pending, flush, published>>

MCInit == service \in {"gate", "notifications"} /\ Init /\ N!Init

GateMoves == service = "gate" /\ Next /\ UNCHANGED <<service, varsN>>

NotificationsMove == service = "notifications" /\ N!Next /\ UNCHANGED <<service, vars>>

MCNext == GateMoves \/ NotificationsMove

Flushes ==
    service = "notifications" /\ (N!StartFlush \/ N!Flush) /\ UNCHANGED <<service, vars>>

WakesOf(d) == service = "gate" /\ Wakes(d) /\ UNCHANGED <<service, varsN>>

\* The fairness of HitlGate and of Notifications.
MCSpec ==
    /\ MCInit /\ [][MCNext]_<<service, vars, varsN>>
    /\ \A d \in Draft : WF_vars(WakesOf(d))
    /\ WF_varsN(Flushes)

\* NotificationService shows no client an older event of a key after a newer one,
\* and its variables have their types.
EventsInOrder == N!TypeOK /\ N!EventsInOrder

\* Its flush loop broadcasts what waits while somebody listens.
PendingIsFlushed == N!PendingIsFlushed

=============================================================================
