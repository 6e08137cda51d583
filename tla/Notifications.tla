--------------------------- MODULE Notifications ---------------------------
(***************************************************************************)
(* NotificationService: events for the clients of /ws and /ops/stream.     *)
(* Critical events are broadcast at once; of the others the newest of each *)
(* key waits for the flush loop.  Each subscriber has a bounded queue and  *)
(* a circuit breaker.  Neither a broadcast nor a flush suspends.           *)
(***************************************************************************)
EXTENDS Integers, Sequences

CONSTANTS
  Subscriber,
  Plain, Critical,  \* coalescing keys, run_id:event_type, of ordinary and critical events
  Unserialisable,   \* those whose payload json.dumps refuses
  QueueMax,         \* _queue_maxsize (200)
  Threshold,        \* CIRCUIT_BREAKER_THRESHOLD (5)
  MaxPublished      \* bound of the model on the events published

NotificationsConstants ==
    /\ QueueMax \in Nat \ {0} /\ Threshold \in Nat \ {0} /\ MaxPublished \in Nat
    /\ Unserialisable \subseteq Plain \cup Critical

VARIABLES
  subscribers,  \* in the order in which they are served, which does not matter
  sub,          \* SubscriberState, and whether the cooldown has passed
  newest,       \* the newest event a client took from its queue, by key
  pending,      \* _pending, in the order of its keys
  flush,        \* _flush_task: none, started, sleeping, or died of an exception
  published     \* how many events were published; the number of the newest

vars == <<subscribers, sub, newest, pending, flush, published>>

Key == Plain \cup Critical

Event == [key : Key, number : 1..MaxPublished]

Fresh == [queue |-> <<>>, failures |-> 0, open |-> FALSE, cooled |-> FALSE]

\* A circuit is open exactly after Threshold failures in a row, queues are
\* bounded, and no key is pending twice.
TypeOK ==
    /\ subscribers \subseteq Subscriber
    /\ \A s \in Subscriber :
          /\ sub[s].queue \in Seq(Event) /\ Len(sub[s].queue) <= QueueMax
          /\ sub[s].failures \in 0..Threshold + 1
          /\ sub[s].open = (sub[s].failures >= Threshold)
    /\ newest \in [Subscriber -> [Key -> 0..MaxPublished]]
    /\ pending \in Seq([key : Plain, number : 1..MaxPublished])
    /\ \A i, j \in 1..Len(pending) : pending[i].key = pending[j].key => i = j
    /\ flush \in {"none", "started", "sleeping", "died"}
    /\ published \in 0..MaxPublished

Init ==
    /\ subscribers = {}
    /\ sub = [s \in Subscriber |-> Fresh]
    /\ newest = [s \in Subscriber |-> [k \in Key |-> 0]]
    /\ pending = <<>>
    /\ flush = "none"
    /\ published = 0

----------------------------------------------------------------------------
(* _broadcast_now, for one subscriber. *)

Least(n) == IF n > Threshold THEN Threshold + 1 ELSE n

\* A circuit whose cooldown is over lets one message try.  Failures are counted
\* up to Threshold + 1.
Deliver(state, event) ==
    LET failures == Least(state.failures + 1)
    IN  IF state.open /\ ~state.cooled THEN state
        ELSE IF Len(state.queue) < QueueMax
        THEN [Fresh EXCEPT !.queue = Append(state.queue, event)]
        ELSE IF failures >= Threshold
        THEN [state EXCEPT !.failures = failures, !.open = TRUE, !.cooled = FALSE]
        ELSE [state EXCEPT !.failures = failures, !.queue = Append(Tail(@), event)]

\* And one event after the other.
Delivered(state, events) ==
    LET after[n \in 0..Len(events)] ==
           IF n = 0 THEN state ELSE Deliver(after[n - 1], events[n])
    IN  after[Len(events)]

Broadcast(events) ==
    sub' = [s \in Subscriber |-> IF s \in subscribers
                                 THEN Delivered(sub[s], events) ELSE sub[s]]

----------------------------------------------------------------------------

\* Mutant: _ensure_flush_task only looks for a task that is done.
NeedsFlushTaskDone == flush = "died"

NeedsFlushTask == flush \in {"none", "died"}

Subscribe(s) ==
    /\ s \notin subscribers
    /\ subscribers' = subscribers \cup {s}
    /\ sub' = [sub EXCEPT ![s] = Fresh]
    /\ newest' = [newest EXCEPT ![s] = [k \in Key |-> 0]]
    /\ flush' = IF NeedsFlushTask THEN "started" ELSE flush
    /\ UNCHANGED <<pending, published>>

Unsubscribe(s) ==
    /\ s \in subscribers
    /\ subscribers' = subscribers \ {s}
    /\ sub' = [sub EXCEPT ![s] = Fresh]
    /\ newest' = [newest EXCEPT ![s] = [k \in Key |-> 0]]
    /\ UNCHANGED <<pending, flush, published>>

\* A client takes the oldest message from its queue.
Read(s) ==
    /\ s \in subscribers
    /\ sub[s].queue # <<>>
    /\ newest' = [newest EXCEPT ![s][Head(sub[s].queue).key] = Head(sub[s].queue).number]
    /\ sub' = [sub EXCEPT ![s].queue = Tail(@)]
    /\ UNCHANGED <<subscribers, pending, flush, published>>

\* CIRCUIT_BREAKER_COOLDOWN has passed since the circuit opened.
CoolDown(s) ==
    /\ sub[s].open /\ ~sub[s].cooled
    /\ sub' = [sub EXCEPT ![s].cooled = TRUE]
    /\ UNCHANGED <<subscribers, newest, pending, flush, published>>

\* Mutant: an event is critical when its sender says so, whatever was sent before.
IsCriticalNow(key) == key \in Critical \/ published % 2 = 1

\* No event type of the code is sent both with and without the flag.
IsCritical(key) == key \in Critical

\* A key that waits keeps its place and takes the new payload.
Coalesce(event) ==
    IF \E i \in 1..Len(pending) : pending[i].key = event.key
    THEN [i \in 1..Len(pending) |-> IF pending[i].key = event.key THEN event ELSE pending[i]]
    ELSE Append(pending, event)

\* publish.  Without a subscriber the event is gone; a critical payload that
\* cannot be serialised raises to its sender.
Publish(key) ==
    LET event == [key |-> key, number |-> published + 1]
    IN  /\ published < MaxPublished
        /\ subscribers # {}
        /\ published' = published + 1
        /\ \/ /\ IsCritical(key)
              /\ IF key \in Unserialisable THEN UNCHANGED sub ELSE Broadcast(<<event>>)
              /\ UNCHANGED pending
           \/ /\ ~IsCritical(key)
              /\ pending' = Coalesce(event)
              /\ UNCHANGED sub
        /\ UNCHANGED <<subscribers, newest, flush>>

\* The task's first turn: nobody may be left to serve.
StartFlush ==
    /\ flush = "started"
    /\ flush' = IF subscribers = {} THEN "none" ELSE "sleeping"
    /\ UNCHANGED <<subscribers, sub, newest, pending, published>>

\* The loop wakes: what is pending is cleared, then broadcast up to the first
\* payload that raises, of which the loop dies.
Flush ==
    /\ flush = "sleeping"
    /\ pending' = <<>>
    /\ \/ \E n \in 1..Len(pending) :
             /\ pending[n].key \in Unserialisable
             /\ \A m \in 1..(n - 1) : pending[m].key \notin Unserialisable
             /\ Broadcast(SubSeq(pending, 1, n - 1))
             /\ flush' = "died"
       \/ /\ \A n \in 1..Len(pending) : pending[n].key \notin Unserialisable
          /\ Broadcast(pending)
          /\ flush' = IF subscribers = {} THEN "none" ELSE "sleeping"
    /\ UNCHANGED <<subscribers, newest, published>>

Next ==
    \/ \E s \in Subscriber : Subscribe(s) \/ Unsubscribe(s) \/ Read(s) \/ CoolDown(s)
    \/ \E key \in Key : Publish(key)
    \/ StartFlush
    \/ Flush

\* The event loop runs the task, and its timer of 0.1 s ends.  Clients need not
\* read, and events need not come.
Spec == Init /\ [][Next]_vars /\ WF_vars(StartFlush \/ Flush)

----------------------------------------------------------------------------
(* Properties. *)

\* Dropping, coalescing, half-open circuits and the two ways events take never
\* show a client an older event of a key after a newer one.
EventsInOrder ==
    \A s \in subscribers :
       LET queue == sub[s].queue
       IN  \A j \in 1..Len(queue) :
              /\ newest[s][queue[j].key] < queue[j].number
              /\ \A i \in 1..(j - 1) :
                    queue[i].key = queue[j].key => queue[i].number < queue[j].number

\* While somebody listens, the loop sleeps or has died: events do not pile up.
PendingIsFlushed == []<>(pending = <<>> \/ subscribers = {} \/ flush = "died")

=============================================================================
