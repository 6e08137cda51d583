--------------------------- MODULE HitlGate_proofs ---------------------------
(***************************************************************************)
(* Proofs about HitlGate, for any number of calls; and, after them, about  *)
(* the events that clients hear of: Notifications, which MCHitlGate puts    *)
(* beside the gate.                                                        *)
(***************************************************************************)
EXTENDS MCHitlGate, Integers, Sequences, FiniteSets, WellFoundedInduction, TLAPS

Types ==
    /\ record \in [Draft -> {"none", "pending", "approved", "rejected", "timeout"}]
    /\ waiters \subseteq Draft
    /\ future \in [Draft -> {"none", "undone", "cancelled", "allow", "reject"}]
    /\ caller \in [Draft -> {"none", "waiting", "timing_out", "allowed", "denied", "gone"}]
    /\ first \in [Draft -> {"none", "approved", "rejected"}]

\* What one call and its draft have in common with each other.  A call that
\* waits has a waiter until it is told; a draft nobody ever decided was neither
\* approved nor rejected.
Linked(d) ==
    /\ d \in waiters => future[d] \in {"undone", "cancelled"}
    /\ caller[d] = "none" => record[d] = "none" /\ future[d] = "none" /\ first[d] = "none"
    /\ caller[d] = "waiting" =>
         \/ future[d] = "undone" /\ d \in waiters /\ record[d] \in {"none", "pending"}
         \/ future[d] \in {"allow", "reject"}
    /\ caller[d] = "timing_out" => future[d] = "cancelled"
    /\ d \in waiters /\ future[d] = "undone" => first[d] = "none"
    /\ first[d] = "none" => record[d] \notin {"approved", "rejected"}
    /\ future[d] = "allow" => first[d] = "approved"
    /\ caller[d] = "allowed" => first[d] = "approved"

IInv == Types /\ \A d \in Draft : Linked(d)

-----------------------------------------------------------------------------
LEMMA InitIInv == Init => IInv
BY DEF Init, IInv, Types, Linked

\* A step of one call, or of an operator about one draft, keeps every link.
LEMMA ToolCallKeeps ==
  ASSUME IInv, NEW d \in Draft, ToolCall(d)
  PROVE  IInv'
<1>1. Types'
  BY DEF IInv, Types, ToolCall, Saved, SavedAlone
<1>2. ASSUME NEW e \in Draft PROVE Linked(e)'
  <2>1. Linked(e) /\ Types
    BY DEF IInv
  <2>2. CASE e = d
    BY <2>1, <2>2 DEF Types, Linked, ToolCall, Saved, SavedAlone
  <2>3. CASE e # d
    BY <2>1, <2>3 DEF Types, Linked, ToolCall, Saved, SavedAlone
  <2>. QED BY <2>2, <2>3
<1>. QED BY <1>1, <1>2 DEF IInv

LEMMA AnswerKeeps ==
  ASSUME IInv, NEW d \in Draft, Answer(d)
  PROVE  IInv'
<1>1. Types'
  BY DEF IInv, Types, Answer
<1>2. ASSUME NEW e \in Draft PROVE Linked(e)'
  <2>1. Linked(e) /\ Types
    BY DEF IInv
  <2>2. CASE e = d
    BY <2>1, <2>2 DEF Types, Linked, Answer
  <2>3. CASE e # d
    BY <2>1, <2>3 DEF Types, Linked, Answer
  <2>. QED BY <2>2, <2>3
<1>. QED BY <1>1, <1>2 DEF IInv

LEMMA GiveUpKeeps ==
  ASSUME IInv, NEW d \in Draft, GiveUp(d)
  PROVE  IInv'
<1>1. Types'
  BY DEF IInv, Types, GiveUp
<1>2. ASSUME NEW e \in Draft PROVE Linked(e)'
  <2>1. Linked(e) /\ Types
    BY DEF IInv
  <2>2. CASE e = d
    BY <2>1, <2>2 DEF Types, Linked, GiveUp
  <2>3. CASE e # d
    BY <2>1, <2>3 DEF Types, Linked, GiveUp
  <2>. QED BY <2>2, <2>3
<1>. QED BY <1>1, <1>2 DEF IInv

LEMMA TimeOutKeeps ==
  ASSUME IInv, NEW d \in Draft, TimeOut(d)
  PROVE  IInv'
<1>1. Types'
  BY DEF IInv, Types, TimeOut, Resolve, ResolveFails, Verdict
<1>2. ASSUME NEW e \in Draft PROVE Linked(e)'
  <2>1. Linked(e) /\ Types
    BY DEF IInv
  <2>2. CASE e = d
    BY <2>1, <2>2 DEF Types, Linked, TimeOut, Resolve, ResolveFails, Verdict
  <2>3. CASE e # d
    BY <2>1, <2>3 DEF Types, Linked, TimeOut, Resolve, ResolveFails, Verdict
  <2>. QED BY <2>2, <2>3
<1>. QED BY <1>1, <1>2 DEF IInv

LEMMA CancelCallKeeps ==
  ASSUME IInv, NEW d \in Draft, CancelCall(d)
  PROVE  IInv'
<1>1. Types'
  BY DEF IInv, Types, CancelCall
<1>2. ASSUME NEW e \in Draft PROVE Linked(e)'
  <2>1. Linked(e) /\ Types
    BY DEF IInv
  <2>2. CASE e = d
    BY <2>1, <2>2 DEF Types, Linked, CancelCall
  <2>3. CASE e # d
    BY <2>1, <2>3 DEF Types, Linked, CancelCall
  <2>. QED BY <2>2, <2>3
<1>. QED BY <1>1, <1>2 DEF IInv

LEMMA DecideKeeps ==
  ASSUME IInv, NEW d \in Draft,
         NEW s \in {"approved", "rejected"}, Decide(d, s)
  PROVE  IInv'
<1>1. Types'
  BY DEF IInv, Types, Decide, Resolve, ResolveFails, Verdict
<1>2. ASSUME NEW e \in Draft PROVE Linked(e)'
  <2>1. Linked(e) /\ Types
    BY DEF IInv
  <2>2. CASE e = d
    BY <2>1, <2>2 DEF Types, Linked, Decide, Resolve, ResolveFails, Verdict
  <2>3. CASE e # d
    BY <2>1, <2>3 DEF Types, Linked, Decide, Resolve, ResolveFails, Verdict
  <2>. QED BY <2>2, <2>3
<1>. QED BY <1>1, <1>2 DEF IInv

LEMMA RestartKeeps == IInv /\ Restart => IInv'
BY DEF IInv, Types, Linked, Restart

LEMMA NextIInv == IInv /\ [Next]_vars => IInv'
<1>. SUFFICES ASSUME IInv, [Next]_vars PROVE IInv'
  OBVIOUS
<1>1. ASSUME NEW d \in Draft, ToolCall(d) PROVE IInv'
  BY <1>1, ToolCallKeeps
<1>2. ASSUME NEW d \in Draft, Answer(d) PROVE IInv'
  BY <1>2, AnswerKeeps
<1>3. ASSUME NEW d \in Draft, GiveUp(d) PROVE IInv'
  BY <1>3, GiveUpKeeps
<1>4. ASSUME NEW d \in Draft, TimeOut(d) PROVE IInv'
  BY <1>4, TimeOutKeeps
<1>5. ASSUME NEW d \in Draft, CancelCall(d) PROVE IInv'
  BY <1>5, CancelCallKeeps
<1>6. ASSUME NEW d \in Draft, NEW s \in {"approved", "rejected"}, Decide(d, s) PROVE IInv'
  BY <1>6, DecideKeeps
<1>7. CASE Restart
  BY <1>7, RestartKeeps
<1>8. CASE UNCHANGED vars
  BY <1>8 DEF vars, IInv, Types, Linked
<1>. QED BY <1>1, <1>2, <1>3, <1>4, <1>5, <1>6, <1>7, <1>8 DEF Next

LEMMA Invariance == Spec => []IInv
<1>. QED BY InitIInv, NextIInv, PTL DEF Spec

-----------------------------------------------------------------------------
\* Every variable keeps to its type, and a waiter that was told is gone.
THEOREM TypeCorrect == Spec => []TypeOK
<1>1. IInv => TypeOK
  BY DEF IInv, Types, Linked, TypeOK
<1>. QED BY <1>1, Invariance, PTL

\* A critical tool runs only if the first decision on its draft approved it.
THEOREM OnlyByApproval == Spec => []AllowedOnlyByApproval
<1>1. IInv => AllowedOnlyByApproval
  BY DEF IInv, Linked, AllowedOnlyByApproval
<1>. QED BY <1>1, Invariance, PTL

\* A call that waits for a draft somebody has resolved has its answer.
THEOREM DecisionsArrive == Spec => []RecordedDecisionsArrive
<1>1. IInv => RecordedDecisionsArrive
  BY DEF IInv, Linked, RecordedDecisionsArrive
<1>. QED BY <1>1, Invariance, PTL

----------------------------------------------------------------------------
(* Induction over the natural numbers. *)

\* A set of numbers has a least one: the inductions below are about the least number
\* for which the fact is not so.
LEMMA LeastIs ==
  ASSUME NEW T, T \subseteq Nat, T # {}
  PROVE  \E x \in T : \A y \in T : x <= y
<1>. DEFINE less == OpToRel(<, Nat)
<1>1. IsWellFoundedOn(less, Nat)
  BY NatLessThanWellFounded
<1>2. \A x, y \in Nat : x < y => <<x, y>> \in less
  BY DEF OpToRel
<1>. HIDE DEF less
<1>3. PICK x \in T : \A y \in T : ~(<<y, x>> \in less)
  BY <1>1, WFMin
<1>4. \A y \in T : ~(y < x) /\ x \in Nat /\ y \in Nat
  BY <1>2, <1>3
<1>. QED  BY <1>4

----------------------------------------------------------------------------
(* Notifications: what a client saw, what is in its queue, what waits.      *)

Circuit ==
    [queue : Seq(N!Event), failures : 0..(Threshold + 1), open : BOOLEAN, cooled : BOOLEAN]

CircuitIsTyped(box) ==
    /\ box \in Circuit /\ Len(box.queue) <= QueueMax
    /\ box.open <=> box.failures >= Threshold

\* A queue that goes on where a client that saw the numbers of seen is.
GoesOn(queue, seen) ==
    \A n \in 1..Len(queue) :
       /\ seen[queue[n].key] < queue[n].number
       /\ \A m \in 1..(n - 1) : queue[m].key = queue[n].key => queue[m].number < queue[n].number

\* An event that is newer than what a client saw and has in its queue.
IsNews(event, queue, seen) ==
    /\ seen[event.key] < event.number
    /\ \A n \in 1..Len(queue) : queue[n].key = event.key => queue[n].number < event.number

\* Nothing is newer than the newest event, and what waits is news for every client.
NewsWaits ==
    /\ \A n \in 1..Len(pending) :
          /\ pending[n].key \in Plain \ Critical /\ pending[n].number <= published
          /\ \A s \in Subscriber : IsNews(pending[n], sub[s].queue, newest[s])
    /\ \A n, m \in 1..Len(pending) : pending[n].key = pending[m].key => n = m
    /\ \A s \in Subscriber :
          /\ \A k \in N!Key : newest[s][k] <= published
          /\ \A n \in 1..Len(sub[s].queue) : sub[s].queue[n].number <= published

NotificationsInv ==
    /\ subscribers \subseteq Subscriber /\ sub \in [Subscriber -> Circuit]
    /\ newest \in [Subscriber -> [N!Key -> 0..MaxPublished]]
    /\ pending \in Seq(N!Event) /\ published \in 0..MaxPublished
    /\ flush \in {"none", "started", "sleeping", "died"}
    /\ \A s \in Subscriber : CircuitIsTyped(sub[s]) /\ GoesOn(sub[s].queue, newest[s])
    /\ NewsWaits

\* A message that is put into a queue, dropped, or put in the place of the oldest one.
LEMMA DeliverKeeps ==
  ASSUME N!NotificationsConstants, NEW box, CircuitIsTyped(box),
         NEW event \in N!Event, NEW seen \in [N!Key -> 0..MaxPublished],
         GoesOn(box.queue, seen), IsNews(event, box.queue, seen)
  PROVE  /\ CircuitIsTyped(N!Deliver(box, event))
         /\ GoesOn(N!Deliver(box, event).queue, seen)
         /\ \A n \in 1..Len(N!Deliver(box, event).queue) :
               \/ N!Deliver(box, event).queue[n] = event
               \/ \E m \in 1..Len(box.queue) :
                     N!Deliver(box, event).queue[n] = box.queue[m]
<1>. DEFINE after == N!Deliver(box, event)
            queue == box.queue
            more == Append(queue, event)
            other == Append(Tail(queue), event)
<1>1. /\ queue \in Seq(N!Event) /\ Len(queue) <= QueueMax /\ QueueMax \in Nat \ {0}
      /\ box.failures \in 0..(Threshold + 1) /\ Threshold \in Nat \ {0}
      /\ box.open \in BOOLEAN /\ box.cooled \in BOOLEAN
      /\ box.open <=> box.failures >= Threshold
  BY DEF CircuitIsTyped, Circuit, N!NotificationsConstants
<1>2. N!Least(box.failures + 1) \in 0..(Threshold + 1)
  BY <1>1 DEF N!Least
<1>3. CASE after = box
  BY <1>3
<1>4. CASE Len(queue) < QueueMax /\ after = [N!Fresh EXCEPT !.queue = more]
  <2>1. /\ more \in Seq(N!Event) /\ Len(more) = Len(queue) + 1
        /\ more[Len(queue) + 1] = event /\ \A n \in 1..Len(queue) : more[n] = queue[n]
    BY <1>1
  <2>. HIDE DEF after, more
  <2>2. after = [queue |-> more, failures |-> 0, open |-> FALSE, cooled |-> FALSE]
    BY <1>4 DEF N!Fresh
  <2>5. 0 \in 0..(Threshold + 1) /\ ~(0 >= Threshold)
    BY <1>1
  <2>6. after \in Circuit
    BY <2>1, <2>2, <2>5 DEF Circuit
  <2>3. CircuitIsTyped(after)
    BY <1>1, <1>4, <2>1, <2>2, <2>5, <2>6 DEF CircuitIsTyped
  <2>4. GoesOn(more, seen)
    <3>1. SUFFICES ASSUME NEW n \in 1..Len(more)
                   PROVE  /\ seen[more[n].key] < more[n].number
                          /\ \A m \in 1..(n - 1) :
                                more[m].key = more[n].key => more[m].number < more[n].number
      BY DEF GoesOn
    <3>2. CASE n = Len(queue) + 1
      <4>1. more[n] = event /\ \A m \in 1..(n - 1) : m \in 1..Len(queue) /\ more[m] = queue[m]
        BY <1>1, <2>1, <3>2
      <4>. QED  BY <4>1 DEF IsNews
    <3>3. CASE n \in 1..Len(queue)
      <4>1. more[n] = queue[n] /\ \A m \in 1..(n - 1) : m \in 1..Len(queue) /\ more[m] = queue[m]
        BY <1>1, <2>1, <3>3
      <4>. QED  BY <3>3, <4>1 DEF GoesOn
    <3>. QED  BY <1>1, <2>1, <3>2, <3>3
  <2>. QED  BY <1>1, <2>1, <2>2, <2>3, <2>4 DEF after
<1>5. CASE /\ N!Least(box.failures + 1) >= Threshold
           /\ after = [box EXCEPT !.failures = N!Least(box.failures + 1), !.open = TRUE,
                                    !.cooled = FALSE]
  <2>1. /\ after.queue = queue /\ after.failures = N!Least(box.failures + 1)
        /\ after.open = TRUE /\ after \in Circuit
    BY <1>1, <1>2, <1>5 DEF CircuitIsTyped, Circuit
  <2>. HIDE DEF after
  <2>2. CircuitIsTyped(after)
    BY <1>1, <1>5, <2>1 DEF CircuitIsTyped
  <2>. QED  BY <1>1, <2>1, <2>2 DEF after
<1>6. CASE /\ Len(queue) >= QueueMax /\ N!Least(box.failures + 1) < Threshold
           /\ after = [box EXCEPT !.failures = N!Least(box.failures + 1),
                                    !.queue = Append(Tail(@), event)]
  <2>1. Len(queue) >= 1 /\ Len(queue) = QueueMax
    BY <1>1, <1>6
  <2>2. /\ Tail(queue) \in Seq(N!Event) /\ Len(Tail(queue)) = Len(queue) - 1
        /\ \A n \in 1..(Len(queue) - 1) : Tail(queue)[n] = queue[n + 1]
    BY <1>1, <2>1
  <2>3. /\ other \in Seq(N!Event) /\ Len(other) = Len(queue)
        /\ other[Len(queue)] = event
        /\ \A n \in 1..(Len(queue) - 1) : other[n] = queue[n + 1]
    BY <1>1, <2>1, <2>2
  <2>4. /\ after.queue = other /\ after.failures = N!Least(box.failures + 1)
        /\ after.open = box.open /\ after \in Circuit
    BY <1>1, <1>2, <1>6, <2>3 DEF CircuitIsTyped, Circuit
  <2>5. box.open = FALSE
    BY <1>1, <1>6 DEF N!Least
  <2>. HIDE DEF after, other
  <2>6. CircuitIsTyped(after)
    <3>1. after.open = FALSE
      BY <2>4, <2>5
    <3>2. ~(after.failures >= Threshold)
      BY <1>1, <1>2, <1>6, <2>4
    <3>. QED  BY <1>1, <2>1, <2>3, <2>4, <3>1, <3>2 DEF CircuitIsTyped
  <2>7. GoesOn(other, seen)
    <3>1. SUFFICES ASSUME NEW n \in 1..Len(other)
                   PROVE  /\ seen[other[n].key] < other[n].number
                          /\ \A m \in 1..(n - 1) :
                                other[m].key = other[n].key => other[m].number < other[n].number
      BY DEF GoesOn
    <3>2. \A m \in 1..(n - 1) : m + 1 \in 1..Len(queue) /\ other[m] = queue[m + 1]
      BY <1>1, <2>1, <2>3
    <3>3. CASE n = Len(queue)
      <4>1. other[n] = event
        BY <2>3, <3>3
      <4>. QED  BY <3>2, <4>1 DEF IsNews
    <3>4. CASE n \in 1..(Len(queue) - 1)
      <4>1. /\ other[n] = queue[n + 1] /\ n + 1 \in 1..Len(queue)
            /\ \A m \in 1..(n - 1) : m + 1 \in 1..((n + 1) - 1)
        BY <1>1, <2>1, <2>3, <3>4
      <4>. QED  BY <3>2, <4>1 DEF GoesOn
    <3>. QED  BY <1>1, <2>1, <2>3, <3>3, <3>4
  <2>. QED  BY <1>1, <2>1, <2>3, <2>4, <2>6, <2>7 DEF after
<1>. QED  BY <1>1, <1>2, <1>3, <1>4, <1>5, <1>6 DEF N!Deliver

\* The recursion of Delivered has a solution, and Delivered is its last value.
LEMMA DeliveredIs ==
  ASSUME NEW box, NEW all \in Seq(N!Event)
  PROVE  \E steps : /\ steps[0] = box /\ N!Delivered(box, all) = steps[Len(all)]
                    /\ \A n \in 1..Len(all) : steps[n] = N!Deliver(steps[n - 1], all[n])
<1>. DEFINE last == Len(all)
            Is(g, n) == g = [m \in 0..n |-> IF m = 0 THEN box
                                            ELSE N!Deliver(g[m - 1], all[m])]
            Lacking == {n \in 0..last : ~\E g : Is(g, n)}
<1>1. last \in Nat
  OBVIOUS
<1>2. \E g : Is(g, 0)
  <2>1. Is([m \in 0..0 |-> box], 0)
    OBVIOUS
  <2>. QED  BY <2>1
<1>3. ASSUME NEW n \in 0..last, n > 0, NEW g, Is(g, n - 1) PROVE \E h : Is(h, n)
  <2>. DEFINE h == [m \in 0..n |-> IF m = n THEN N!Deliver(g[n - 1], all[n]) ELSE g[m]]
  <2>1. DOMAIN h = 0..n /\ h = [m \in 0..n |-> h[m]]
    OBVIOUS
  <2>2. \A m \in 0..(n - 1) : h[m] = g[m]
    BY <1>3
  <2>3. h[0] = box
    BY <1>1, <1>3, <2>2
  <2>4. ASSUME NEW m \in 1..n PROVE h[m] = N!Deliver(h[m - 1], all[m])
    <3>1. CASE m = n
      BY <1>1, <1>3, <2>2, <3>1
    <3>2. CASE m # n
      <4>1. m \in 0..(n - 1) /\ m # 0 /\ m - 1 \in 0..(n - 1)
        BY <1>1, <3>2
      <4>2. g[m] = N!Deliver(g[m - 1], all[m])
        BY <1>3, <4>1
      <4>. QED  BY <2>2, <4>1, <4>2
    <3>. QED  BY <3>1, <3>2
  <2>. HIDE DEF h
  <2>5. \A m \in 0..n : h[m] = IF m = 0 THEN box ELSE N!Deliver(h[m - 1], all[m])
    BY <1>1, <2>3, <2>4
  <2>6. Is(h, n)
    BY <2>1, <2>5
  <2>. QED  BY <2>6
<1>4. Lacking = {}
  <2>1. SUFFICES ASSUME Lacking # {} PROVE FALSE
    OBVIOUS
  <2>2. PICK n \in Lacking : \A m \in Lacking : n <= m
    <3>1. Lacking \subseteq Nat
      BY <1>1
    <3>. HIDE DEF Lacking
    <3>. QED  BY <2>1, <3>1, LeastIs
  <2>. HIDE DEF Is
  <2>3. n \in 0..last /\ n # 0 /\ ~\E g : Is(g, n)
    BY <1>2, <2>2
  <2>4. n - 1 \in 0..last /\ n - 1 \notin Lacking
    BY <1>1, <2>2, <2>3
  <2>5. PICK g : Is(g, n - 1)
    BY <2>4
  <2>. QED  BY <1>1, <1>3, <2>3, <2>5
<1>5. PICK g : Is(g, last)
  <2>. HIDE DEF Is
  <2>. QED  BY <1>1, <1>4
<1>. DEFINE steps == CHOOSE h : Is(h, last)
<1>6. Is(steps, last)
  <2>. HIDE DEF Is
  <2>. QED  BY <1>5
<1>7. N!Delivered(box, all) = steps[last]
  BY DEF N!Delivered
<1>. HIDE DEF steps
<1>8. \A m \in 0..last : steps[m] = IF m = 0 THEN box ELSE N!Deliver(steps[m - 1], all[m])
  BY <1>6
<1>. QED  BY <1>1, <1>7, <1>8

\* A broadcast of news in which no key is twice.
LEMMA BroadcastKeeps ==
  ASSUME N!NotificationsConstants, NEW all \in Seq(N!Event), NEW box, CircuitIsTyped(box),
         NEW seen \in [N!Key -> 0..MaxPublished], GoesOn(box.queue, seen),
         \A n \in 1..Len(all) : IsNews(all[n], box.queue, seen),
         \A n, m \in 1..Len(all) : all[n].key = all[m].key => n = m
  PROVE  /\ CircuitIsTyped(N!Delivered(box, all)) /\ GoesOn(N!Delivered(box, all).queue, seen)
         /\ \A n \in 1..Len(N!Delivered(box, all).queue) :
               \/ \E m \in 1..Len(all) : N!Delivered(box, all).queue[n] = all[m]
               \/ \E m \in 1..Len(box.queue) : N!Delivered(box, all).queue[n] = box.queue[m]
<1>. DEFINE last == Len(all)
<1>1. last \in Nat /\ \A n \in 1..last : all[n] \in N!Event
  OBVIOUS
<1>2. PICK steps : /\ steps[0] = box /\ N!Delivered(box, all) = steps[last]
                   /\ \A n \in 1..last : steps[n] = N!Deliver(steps[n - 1], all[n])
  BY DeliveredIs
<1>. DEFINE From(n) == \A m \in 1..Len(steps[n].queue) :
                          \/ \E k \in 1..n : steps[n].queue[m] = all[k]
                          \/ \E k \in 1..Len(box.queue) : steps[n].queue[m] = box.queue[k]
            Right(n) == CircuitIsTyped(steps[n]) /\ GoesOn(steps[n].queue, seen) /\ From(n)
            Wrong == {n \in 0..last : ~Right(n)}
<1>3. Right(0)
  BY <1>2
<1>4. ASSUME NEW n \in 1..last, Right(n - 1) PROVE Right(n)
  <2>1. all[n] \in N!Event /\ seen[all[n].key] < all[n].number
    BY <1>1 DEF IsNews
  <2>2. ASSUME NEW m \in 1..Len(steps[n - 1].queue), steps[n - 1].queue[m].key = all[n].key
        PROVE  steps[n - 1].queue[m].number < all[n].number
    <3>1. CASE \E k \in 1..(n - 1) : steps[n - 1].queue[m] = all[k]
      BY <1>1, <2>2, <3>1
    <3>2. CASE \E k \in 1..Len(box.queue) : steps[n - 1].queue[m] = box.queue[k]
      BY <2>2, <3>2 DEF IsNews
    <3>. QED  BY <1>4, <3>1, <3>2
  <2>3. IsNews(all[n], steps[n - 1].queue, seen)
    BY <2>1, <2>2 DEF IsNews
  <2>4. steps[n] = N!Deliver(steps[n - 1], all[n])
    BY <1>2
  <2>5. /\ CircuitIsTyped(steps[n]) /\ GoesOn(steps[n].queue, seen)
        /\ \A m \in 1..Len(steps[n].queue) :
              \/ steps[n].queue[m] = all[n]
              \/ \E k \in 1..Len(steps[n - 1].queue) : steps[n].queue[m] = steps[n - 1].queue[k]
    <3>. DEFINE was == steps[n - 1]
                event == all[n]
    <3>1. CircuitIsTyped(was) /\ GoesOn(was.queue, seen) /\ IsNews(event, was.queue, seen)
      BY <1>4, <2>3
    <3>2. event \in N!Event /\ steps[n] = N!Deliver(was, event)
      BY <2>1, <2>4
    <3>. HIDE DEF was, event
    <3>3. /\ CircuitIsTyped(N!Deliver(was, event)) /\ GoesOn(N!Deliver(was, event).queue, seen)
          /\ \A m \in 1..Len(N!Deliver(was, event).queue) :
                \/ N!Deliver(was, event).queue[m] = event
                \/ \E k \in 1..Len(was.queue) : N!Deliver(was, event).queue[m] = was.queue[k]
      BY <3>1, <3>2, DeliverKeeps
    <3>. QED  BY <3>2, <3>3 DEF was, event
  <2>6. From(n)
    <3>1. SUFFICES ASSUME NEW m \in 1..Len(steps[n].queue)
                   PROVE  \/ \E k \in 1..n : steps[n].queue[m] = all[k]
                          \/ \E k \in 1..Len(box.queue) : steps[n].queue[m] = box.queue[k]
      OBVIOUS
    <3>2. CASE steps[n].queue[m] = all[n]
      BY <1>1, <3>2
    <3>3. CASE \E k \in 1..Len(steps[n - 1].queue) : steps[n].queue[m] = steps[n - 1].queue[k]
      <4>1. \A k \in 1..(n - 1) : k \in 1..n
        BY <1>1
      <4>. QED  BY <1>4, <3>3, <4>1
    <3>. QED  BY <2>5, <3>2, <3>3
  <2>. QED  BY <2>5, <2>6
<1>5. Wrong = {}
  <2>1. SUFFICES ASSUME Wrong # {} PROVE FALSE
    OBVIOUS
  <2>2. PICK n \in Wrong : \A m \in Wrong : n <= m
    <3>1. Wrong \subseteq Nat
      BY <1>1
    <3>. HIDE DEF Wrong
    <3>. QED  BY <2>1, <3>1, LeastIs
  <2>. HIDE DEF Right
  <2>3. n \in 1..last /\ ~Right(n)
    BY <1>1, <1>3, <2>2
  <2>4. n - 1 \in 0..last /\ n - 1 \notin Wrong
    BY <1>1, <2>2, <2>3
  <2>. QED  BY <1>4, <2>3, <2>4
<1>6. Right(last)
  <2>. HIDE DEF Right
  <2>. QED  BY <1>1, <1>5
<1>. QED  BY <1>2, <1>6

LEMMA EventsAre ==
  ASSUME NEW all \in Seq(N!Event), NEW n \in 1..Len(all)
  PROVE  all[n] \in N!Event /\ all[n].key \in N!Key /\ all[n].number \in 1..MaxPublished
<1>1. all[n] \in N!Event
  OBVIOUS
<1>. QED  BY <1>1 DEF N!Event

\* A broadcast to all subscribers, of events that are no newer than the newest one.
LEMMA BroadcastIs ==
  ASSUME N!NotificationsConstants, NotificationsInv, NEW all \in Seq(N!Event), N!Broadcast(all),
         NEW top \in Nat, published <= top, \A n \in 1..Len(all) : all[n].number <= top,
         \A n \in 1..Len(all) : \A s \in Subscriber : IsNews(all[n], sub[s].queue, newest[s]),
         \A n, m \in 1..Len(all) : all[n].key = all[m].key => n = m
  PROVE  /\ sub' \in [Subscriber -> Circuit]
         /\ \A s \in Subscriber :
               /\ CircuitIsTyped(sub'[s]) /\ GoesOn(sub'[s].queue, newest[s])
               /\ \A n \in 1..Len(sub'[s].queue) :
                     /\ sub'[s].queue[n].number <= top
                     /\ \/ \E m \in 1..Len(all) : sub'[s].queue[n] = all[m]
                        \/ \E m \in 1..Len(sub[s].queue) : sub'[s].queue[n] = sub[s].queue[m]
<1>1. ASSUME NEW s \in Subscriber
      PROVE  /\ CircuitIsTyped(sub'[s]) /\ GoesOn(sub'[s].queue, newest[s])
             /\ \A n \in 1..Len(sub'[s].queue) :
                   \/ \E m \in 1..Len(all) : sub'[s].queue[n] = all[m]
                   \/ \E m \in 1..Len(sub[s].queue) : sub'[s].queue[n] = sub[s].queue[m]
  <2>. DEFINE box == sub[s]
              seen == newest[s]
  <2>1. /\ CircuitIsTyped(box) /\ seen \in [N!Key -> 0..MaxPublished] /\ GoesOn(box.queue, seen)
        /\ \A n \in 1..Len(all) : IsNews(all[n], box.queue, seen)
    BY DEF NotificationsInv
  <2>2. sub'[s] = box \/ sub'[s] = N!Delivered(box, all)
    BY DEF N!Broadcast
  <2>. HIDE DEF box, seen
  <2>3. CASE sub'[s] = box
    BY <2>1, <2>3 DEF box, seen
  <2>4. CASE sub'[s] = N!Delivered(box, all)
    <3>1. /\ CircuitIsTyped(N!Delivered(box, all)) /\ GoesOn(N!Delivered(box, all).queue, seen)
          /\ \A n \in 1..Len(N!Delivered(box, all).queue) :
                \/ \E m \in 1..Len(all) : N!Delivered(box, all).queue[n] = all[m]
                \/ \E m \in 1..Len(box.queue) : N!Delivered(box, all).queue[n] = box.queue[m]
      BY <2>1, BroadcastKeeps
    <3>. QED  BY <2>4, <3>1 DEF box, seen
  <2>. QED  BY <2>2, <2>3, <2>4
<1>2. sub' \in [Subscriber -> Circuit]
  BY <1>1 DEF N!Broadcast, CircuitIsTyped
<1>3. ASSUME NEW s \in Subscriber, NEW n \in 1..Len(sub'[s].queue)
      PROVE  sub'[s].queue[n].number <= top
  <2>1. CASE \E m \in 1..Len(all) : sub'[s].queue[n] = all[m]
    BY <2>1
  <2>2. ASSUME NEW m \in 1..Len(sub[s].queue), sub'[s].queue[n] = sub[s].queue[m]
        PROVE  sub'[s].queue[n].number <= top
    <3>1. sub[s].queue[m] \in N!Event /\ sub[s].queue[m].number <= published /\ published \in Nat
      <4>1. sub[s].queue \in Seq(N!Event)
        BY DEF NotificationsInv, Circuit
      <4>. QED  BY <4>1 DEF NotificationsInv, NewsWaits
    <3>2. sub[s].queue[m].number \in Nat
      BY <3>1 DEF N!Event
    <3>. QED  BY <2>2, <3>1, <3>2
  <2>. QED  BY <1>1, <2>1, <2>2
<1>. QED  BY <1>1, <1>2, <1>3

LEMMA FreshIs ==
  ASSUME N!NotificationsConstants
  PROVE  /\ CircuitIsTyped(N!Fresh) /\ N!Fresh.queue = <<>>
         /\ \A seen : GoesOn(N!Fresh.queue, seen)
<1>1. N!Fresh \in Circuit /\ N!Fresh.queue = <<>>
  BY DEF N!Fresh, Circuit, N!NotificationsConstants
<1>2. CircuitIsTyped(N!Fresh)
  BY <1>1 DEF N!Fresh, CircuitIsTyped, N!NotificationsConstants
<1>. QED  BY <1>1, <1>2 DEF GoesOn

LEMMA ReplacesClient ==
  ASSUME N!NotificationsConstants, NotificationsInv, NEW s \in Subscriber,
         subscribers' \subseteq Subscriber, sub' = [sub EXCEPT ![s] = N!Fresh],
         newest' = [newest EXCEPT ![s] = [k \in N!Key |-> 0]],
         flush' \in {"none", "started", "sleeping", "died"}, UNCHANGED <<pending, published>>
  PROVE  NotificationsInv'
<1>1. /\ sub' \in [Subscriber -> Circuit] /\ newest' \in [Subscriber -> [N!Key -> 0..MaxPublished]]
      /\ sub'[s] = N!Fresh /\ \A c \in Subscriber : c # s => sub'[c] = sub[c] /\ newest'[c] = newest[c]
      /\ newest'[s] = [k \in N!Key |-> 0]
  BY FreshIs DEF NotificationsInv, CircuitIsTyped, N!NotificationsConstants
<1>2. \A c \in Subscriber : CircuitIsTyped(sub'[c]) /\ GoesOn(sub'[c].queue, newest'[c])
  BY <1>1, FreshIs DEF NotificationsInv
<1>3. pending \in Seq(N!Event) /\ published \in 0..MaxPublished /\ MaxPublished \in Nat
  BY DEF NotificationsInv, N!NotificationsConstants
<1>4. \A n \in 1..Len(pending) :
         pending[n].key \in N!Key /\ pending[n].number \in 1..MaxPublished
  BY <1>3, EventsAre
<1>5. \A n \in 1..Len(pending) : IsNews(pending[n], <<>>, [k \in N!Key |-> 0])
  BY <1>3, <1>4 DEF IsNews
<1>6. \A n \in 1..Len(pending) : \A c \in Subscriber :
         IsNews(pending[n], sub'[c].queue, newest'[c])
  BY <1>1, <1>5, FreshIs DEF NotificationsInv, NewsWaits
<1>7. \A c \in Subscriber :
         /\ \A k \in N!Key : newest'[c][k] <= published
         /\ \A n \in 1..Len(sub'[c].queue) : sub'[c].queue[n].number <= published
  BY <1>1, <1>3, FreshIs DEF NotificationsInv, NewsWaits
<1>8. NewsWaits'
  BY <1>6, <1>7 DEF NotificationsInv, NewsWaits
<1>. QED  BY <1>1, <1>2, <1>3, <1>8 DEF NotificationsInv

LEMMA ReadsEvent ==
  ASSUME N!NotificationsConstants, NotificationsInv, NEW s \in Subscriber, N!Read(s)
  PROVE  NotificationsInv'
<1>. DEFINE queue == sub[s].queue
            next == Head(queue)
<1>1. /\ queue \in Seq(N!Event) /\ queue # <<>> /\ sub[s] \in Circuit /\ Len(queue) <= QueueMax
      /\ QueueMax \in Nat
  BY DEF NotificationsInv, Circuit, CircuitIsTyped, N!Read, N!NotificationsConstants
<1>2. /\ Len(queue) \in Nat \ {0} /\ next = queue[1] /\ next \in N!Event
      /\ Tail(queue) \in Seq(N!Event) /\ Len(Tail(queue)) = Len(queue) - 1
      /\ \A n \in 1..(Len(queue) - 1) : Tail(queue)[n] = queue[n + 1]
  BY <1>1
<1>3. /\ sub'[s].queue = Tail(queue) /\ sub'[s].failures = sub[s].failures
      /\ sub'[s].open = sub[s].open /\ sub'[s] \in Circuit /\ sub' \in [Subscriber -> Circuit]
      /\ \A c \in Subscriber : c # s => sub'[c] = sub[c]
  BY <1>2 DEF N!Read, NotificationsInv, Circuit
<1>4. next.key \in N!Key /\ next.number \in 1..MaxPublished
  BY <1>2 DEF N!Event
<1>5. /\ newest'[s] = [newest[s] EXCEPT ![next.key] = next.number]
      /\ newest' \in [Subscriber -> [N!Key -> 0..MaxPublished]]
      /\ \A c \in Subscriber : c # s => newest'[c] = newest[c]
  BY <1>4 DEF N!Read, NotificationsInv, N!NotificationsConstants
<1>6. /\ UNCHANGED <<subscribers, pending, flush, published>>
      /\ CircuitIsTyped(sub[s]) /\ GoesOn(queue, newest[s])
  BY DEF N!Read, NotificationsInv
<1>. HIDE DEF queue, next
<1>7. CircuitIsTyped(sub'[s])
  <2>1. sub[s].open <=> sub[s].failures >= Threshold
    BY <1>6 DEF CircuitIsTyped
  <2>2. sub'[s].open <=> sub'[s].failures >= Threshold
    BY <1>3, <2>1
  <2>3. Len(sub'[s].queue) <= QueueMax
    BY <1>1, <1>2, <1>3
  <2>. QED  BY <1>3, <2>2, <2>3 DEF CircuitIsTyped
<1>8. newest[s] \in [N!Key -> 0..MaxPublished]
  BY DEF NotificationsInv
<1>9. GoesOn(Tail(queue), newest'[s])
  <2>1. SUFFICES ASSUME NEW n \in 1..(Len(queue) - 1)
                 PROVE  /\ newest'[s][queue[n + 1].key] < queue[n + 1].number
                        /\ \A m \in 1..(n - 1) :
                              queue[m + 1].key = queue[n + 1].key
                              => queue[m + 1].number < queue[n + 1].number
    <3>1. \A n \in 1..(Len(queue) - 1) : \A m \in 1..(n - 1) : m \in 1..(Len(queue) - 1)
      BY <1>2
    <3>. QED  BY <1>2, <3>1 DEF GoesOn
  <2>2. n + 1 \in 1..Len(queue) /\ 1 \in 1..((n + 1) - 1)
        /\ \A m \in 1..(n - 1) : m + 1 \in 1..((n + 1) - 1)
    BY <1>2
  <2>3. \A m \in 1..(n - 1) : queue[m + 1].key = queue[n + 1].key
                              => queue[m + 1].number < queue[n + 1].number
    BY <1>6, <2>2 DEF GoesOn
  <2>4. queue[n + 1].key \in N!Key
    BY <1>1, <2>2, EventsAre
  <2>5. CASE queue[n + 1].key = next.key
    <3>1. queue[1].number < queue[n + 1].number
      BY <1>2, <1>6, <2>2, <2>5 DEF GoesOn
    <3>. QED  BY <1>2, <1>5, <1>8, <2>3, <2>4, <2>5, <3>1
  <2>6. CASE queue[n + 1].key # next.key
    <3>1. newest[s][queue[n + 1].key] < queue[n + 1].number
      BY <1>6, <2>2 DEF GoesOn
    <3>. QED  BY <1>5, <1>8, <2>3, <2>4, <2>6, <3>1
  <2>. QED  BY <2>5, <2>6
<1>10. \A c \in Subscriber : CircuitIsTyped(sub'[c]) /\ GoesOn(sub'[c].queue, newest'[c])
  BY <1>3, <1>5, <1>7, <1>9 DEF NotificationsInv
<1>11. ASSUME NEW n \in 1..Len(pending), NEW c \in Subscriber
       PROVE  IsNews(pending[n], sub'[c].queue, newest'[c])
  <2>1. IsNews(pending[n], sub[c].queue, newest[c])
    BY DEF NotificationsInv, NewsWaits
  <2>2. CASE c # s
    <3>1. sub'[c] = sub[c] /\ newest'[c] = newest[c]
      BY <1>3, <1>5, <2>2
    <3>. QED  BY <2>1, <3>1 DEF IsNews
  <2>3. CASE c = s
    <3>1. pending[n].key \in N!Key
      BY EventsAre DEF NotificationsInv
    <3>2. newest'[s][pending[n].key] < pending[n].number
      <4>1. CASE pending[n].key = next.key
        <5>1. queue[1].number < pending[n].number
          BY <1>2, <2>1, <2>3, <4>1 DEF IsNews, queue
        <5>. QED  BY <1>2, <1>5, <1>8, <3>1, <4>1, <5>1
      <4>2. CASE pending[n].key # next.key
        BY <1>5, <1>8, <2>1, <2>3, <3>1, <4>2 DEF IsNews
      <4>. QED  BY <4>1, <4>2
    <3>3. \A m \in 1..(Len(queue) - 1) : m + 1 \in 1..Len(queue)
      BY <1>2
    <3>4. \A m \in 1..(Len(queue) - 1) :
             queue[m + 1].key = pending[n].key => queue[m + 1].number < pending[n].number
      BY <2>1, <2>3, <3>3 DEF IsNews, queue
    <3>5. \A m \in 1..Len(sub'[s].queue) :
             sub'[s].queue[m].key = pending[n].key => sub'[s].queue[m].number < pending[n].number
      BY <1>2, <1>3, <3>4
    <3>. QED  BY <2>3, <3>2, <3>5 DEF IsNews
  <2>. QED  BY <2>2, <2>3
<1>12. ASSUME NEW c \in Subscriber
       PROVE  /\ \A k \in N!Key : newest'[c][k] <= published
              /\ \A n \in 1..Len(sub'[c].queue) : sub'[c].queue[n].number <= published
  <2>1. /\ \A k \in N!Key : newest[c][k] <= published
        /\ \A n \in 1..Len(sub[c].queue) : sub[c].queue[n].number <= published
    BY DEF NotificationsInv, NewsWaits
  <2>2. CASE c # s
    BY <1>3, <1>5, <2>1, <2>2
  <2>3. CASE c = s
    <3>1. next.number <= published
      BY <1>2, <2>1, <2>3 DEF queue
    <3>2. \A k \in N!Key : newest'[s][k] <= published
      BY <1>5, <1>8, <2>1, <2>3, <3>1
    <3>3. \A m \in 1..(Len(queue) - 1) : m + 1 \in 1..Len(queue)
      BY <1>2
    <3>4. \A m \in 1..(Len(queue) - 1) : queue[m + 1].number <= published
      BY <2>1, <2>3, <3>3 DEF queue
    <3>. QED  BY <1>2, <1>3, <2>3, <3>2, <3>4
  <2>. QED  BY <2>2, <2>3
<1>13. NewsWaits'
  BY <1>6, <1>11, <1>12 DEF NotificationsInv, NewsWaits
<1>. QED  BY <1>3, <1>5, <1>6, <1>10, <1>13 DEF NotificationsInv

\* An event that is the newest one.
LEMMA NewestIsNews ==
  ASSUME NotificationsInv, NEW k \in N!Key, NEW event, event.key = k,
         event.number = published + 1
  PROVE  \A s \in Subscriber : IsNews(event, sub[s].queue, newest[s])
<1>1. published \in Nat /\ \A s \in Subscriber :
         newest[s][k] \in Nat /\ newest[s][k] <= published
  BY DEF NotificationsInv, NewsWaits
<1>2. ASSUME NEW s \in Subscriber, NEW n \in 1..Len(sub[s].queue)
      PROVE  sub[s].queue[n].number < published + 1
  <2>1. sub[s].queue \in Seq(N!Event)
    BY DEF NotificationsInv, Circuit
  <2>2. sub[s].queue[n].number \in 1..MaxPublished
    BY <2>1, EventsAre
  <2>. QED  BY <1>1, <2>2 DEF NotificationsInv, NewsWaits
<1>. QED  BY <1>1, <1>2 DEF IsNews

\* What a broadcast leaves of what waits.
LEMMA BroadcastLeaves ==
  ASSUME N!NotificationsConstants, NotificationsInv, NEW all \in Seq(N!Event), N!Broadcast(all),
         NEW top \in 0..MaxPublished, published <= top, published' = top,
         \A n \in 1..Len(all) : all[n].number <= top,
         \A n \in 1..Len(all) : \A s \in Subscriber : IsNews(all[n], sub[s].queue, newest[s]),
         \A n, m \in 1..Len(all) : all[n].key = all[m].key => n = m,
         UNCHANGED <<subscribers, newest>>,
         flush' \in {"none", "started", "sleeping", "died"},
         \/ pending' = <<>>
         \/ /\ pending' = pending
            /\ \A n \in 1..Len(all) : all[n].key \in Critical
  PROVE  NotificationsInv'
<1>1. /\ sub' \in [Subscriber -> Circuit]
      /\ \A s \in Subscriber :
            /\ CircuitIsTyped(sub'[s]) /\ GoesOn(sub'[s].queue, newest[s])
            /\ \A n \in 1..Len(sub'[s].queue) :
                  /\ sub'[s].queue[n].number <= top
                  /\ \/ \E m \in 1..Len(all) : sub'[s].queue[n] = all[m]
                     \/ \E m \in 1..Len(sub[s].queue) : sub'[s].queue[n] = sub[s].queue[m]
  <2>1. top \in Nat
    OBVIOUS
  <2>. QED  BY <2>1, BroadcastIs
<1>2. pending' \in Seq(N!Event)
  <2>1. <<>> \in Seq(N!Event) /\ pending \in Seq(N!Event)
    BY DEF NotificationsInv
  <2>. QED  BY <2>1
<1>3. \A s \in Subscriber : \A k \in N!Key : newest'[s][k] <= published'
  <2>1. \A s \in Subscriber : \A k \in N!Key : newest[s][k] \in Nat /\ newest[s][k] <= published
    BY DEF NotificationsInv, NewsWaits
  <2>2. published \in Nat /\ top \in Nat
    BY DEF NotificationsInv, N!NotificationsConstants
  <2>. QED  BY <2>1, <2>2
<1>4. ASSUME pending' = pending, \A n \in 1..Len(all) : all[n].key \in Critical,
             NEW n \in 1..Len(pending)
      PROVE  /\ pending[n].key \in Plain \ Critical /\ pending[n].number <= published'
             /\ \A s \in Subscriber : IsNews(pending[n], sub'[s].queue, newest'[s])
  <2>1. /\ pending[n].key \in Plain \ Critical /\ pending[n].number <= published
        /\ \A s \in Subscriber : IsNews(pending[n], sub[s].queue, newest[s])
    BY DEF NotificationsInv, NewsWaits
  <2>2. pending[n].number \in 1..MaxPublished /\ published \in Nat /\ top \in Nat
    BY EventsAre DEF NotificationsInv, N!NotificationsConstants
  <2>3. pending[n].number <= published'
    BY <2>1, <2>2
  <2>4. ASSUME NEW s \in Subscriber PROVE IsNews(pending[n], sub'[s].queue, newest'[s])
    <3>1. newest'[s][pending[n].key] < pending[n].number
      BY <2>1 DEF IsNews
    <3>2. ASSUME NEW m \in 1..Len(sub'[s].queue), sub'[s].queue[m].key = pending[n].key
          PROVE  sub'[s].queue[m].number < pending[n].number
      <4>1. ~\E l \in 1..Len(all) : sub'[s].queue[m] = all[l]
        BY <1>4, <2>1, <3>2
      <4>2. PICK l \in 1..Len(sub[s].queue) : sub'[s].queue[m] = sub[s].queue[l]
        BY <1>1, <4>1
      <4>. QED  BY <2>1, <3>2, <4>2 DEF IsNews
    <3>. QED  BY <3>1, <3>2 DEF IsNews
  <2>. QED  BY <2>1, <2>3, <2>4
<1>5. /\ \A n \in 1..Len(pending') :
            /\ pending'[n].key \in Plain \ Critical /\ pending'[n].number <= published'
            /\ \A s \in Subscriber : IsNews(pending'[n], sub'[s].queue, newest'[s])
      /\ \A n, m \in 1..Len(pending') : pending'[n].key = pending'[m].key => n = m
  <2>1. CASE pending' = <<>>
    BY <2>1
  <2>2. CASE pending' = pending /\ \A n \in 1..Len(all) : all[n].key \in Critical
    BY <1>4, <2>2 DEF NotificationsInv, NewsWaits
  <2>. QED  BY <2>1, <2>2
<1>6. NewsWaits'
  BY <1>1, <1>3, <1>5 DEF NewsWaits
<1>7. \A s \in Subscriber : CircuitIsTyped(sub'[s]) /\ GoesOn(sub'[s].queue, newest'[s])
  BY <1>1
<1>. QED  BY <1>1, <1>2, <1>6, <1>7 DEF NotificationsInv

LEMMA CoalesceKeeps ==
  ASSUME NotificationsInv, N!NotificationsConstants, NEW k \in Plain \ Critical,
         published < MaxPublished, published' = published + 1,
         pending' = N!Coalesce([key |-> k, number |-> published + 1]),
         UNCHANGED <<subscribers, sub, newest, flush>>
  PROVE  NotificationsInv'
<1>. DEFINE event == [key |-> k, number |-> published + 1]
<1>1. /\ published \in Nat /\ published + 1 \in 1..MaxPublished /\ k \in N!Key
      /\ pending \in Seq(N!Event) /\ event \in N!Event /\ event.key = k
      /\ event.number = published + 1
  BY DEF NotificationsInv, N!NotificationsConstants, N!Event, N!Key
<1>2. \A s \in Subscriber : IsNews(event, sub[s].queue, newest[s])
  BY <1>1, NewestIsNews
<1>3. \A n \in 1..Len(pending) :
         /\ pending[n].key \in Plain \ Critical /\ pending[n].number <= published
         /\ pending[n].number \in Nat
         /\ \A s \in Subscriber : IsNews(pending[n], sub[s].queue, newest[s])
  BY <1>1, EventsAre DEF NotificationsInv, NewsWaits
<1>. HIDE DEF event
<1>4. /\ pending' \in Seq(N!Event)
      /\ \A n \in 1..Len(pending') :
            \/ pending'[n] = event
            \/ n \in 1..Len(pending) /\ pending'[n] = pending[n]
      /\ \A n, m \in 1..Len(pending') : pending'[n].key = pending'[m].key => n = m
  <2>1. CASE \E n \in 1..Len(pending) : pending[n].key = k
    <3>1. pending' = [n \in 1..Len(pending) |-> IF pending[n].key = k THEN event
                                                     ELSE pending[n]]
      BY <1>1, <2>1 DEF N!Coalesce, event
    <3>2. \A n \in 1..Len(pending) : pending[n] \in N!Event
      BY <1>1
    <3>3. pending' \in Seq(N!Event) /\ Len(pending') = Len(pending)
      BY <1>1, <3>1, <3>2
    <3>4. \A n \in 1..Len(pending) : pending'[n].key = pending[n].key
      BY <1>1, <3>1
    <3>5. \A n, m \in 1..Len(pending) : pending[n].key = pending[m].key => n = m
      BY DEF NotificationsInv, NewsWaits
    <3>. QED  BY <3>1, <3>3, <3>4, <3>5
  <2>2. CASE ~\E n \in 1..Len(pending) : pending[n].key = k
    <3>1. pending' = Append(pending, event)
      BY <1>1, <2>2 DEF N!Coalesce, event
    <3>2. /\ pending' \in Seq(N!Event) /\ Len(pending') = Len(pending) + 1
          /\ pending'[Len(pending) + 1] = event
          /\ \A n \in 1..Len(pending) : pending'[n] = pending[n]
      BY <1>1, <3>1
    <3>3. \A n \in 1..Len(pending') : n \in 1..Len(pending) \/ n = Len(pending) + 1
      BY <1>1, <3>2
    <3>4. \A n, m \in 1..Len(pending) : pending[n].key = pending[m].key => n = m
      BY DEF NotificationsInv, NewsWaits
    <3>. QED  BY <1>1, <2>2, <3>2, <3>3, <3>4
  <2>. QED  BY <2>1, <2>2
<1>5. \A n \in 1..Len(pending') :
         /\ pending'[n].key \in Plain \ Critical /\ pending'[n].number <= published + 1
         /\ \A s \in Subscriber : IsNews(pending'[n], sub[s].queue, newest[s])
  BY <1>1, <1>2, <1>3, <1>4
<1>6. \A s \in Subscriber :
         /\ \A j \in N!Key : newest[s][j] <= published + 1
         /\ \A n \in 1..Len(sub[s].queue) : sub[s].queue[n].number <= published + 1
  <2>1. ASSUME NEW s \in Subscriber, NEW j \in N!Key PROVE newest[s][j] <= published + 1
    <3>1. newest[s][j] \in Nat /\ newest[s][j] <= published
      BY DEF NotificationsInv, NewsWaits
    <3>. QED  BY <1>1, <3>1
  <2>2. ASSUME NEW s \in Subscriber, NEW n \in 1..Len(sub[s].queue)
        PROVE  sub[s].queue[n].number <= published + 1
    <3>1. sub[s].queue \in Seq(N!Event)
      BY DEF NotificationsInv, Circuit
    <3>2. sub[s].queue[n].number \in 1..MaxPublished /\ sub[s].queue[n].number <= published
      BY <3>1, EventsAre DEF NotificationsInv, NewsWaits
    <3>. QED  BY <1>1, <3>2
  <2>. QED  BY <2>1, <2>2
<1>7. NewsWaits'
  BY <1>4, <1>5, <1>6 DEF NewsWaits
<1>. QED  BY <1>1, <1>4, <1>7 DEF NotificationsInv

LEMMA PublishesEvent ==
  ASSUME N!NotificationsConstants, NotificationsInv, NEW k \in N!Key, N!Publish(k)
  PROVE  NotificationsInv'
<1>. DEFINE event == [key |-> k, number |-> published + 1]
<1>1. /\ published < MaxPublished /\ published' = published + 1
      /\ UNCHANGED <<subscribers, newest, flush>>
      /\ published \in Nat /\ published + 1 \in 1..MaxPublished /\ published + 1 \in 0..MaxPublished
  BY DEF N!Publish, NotificationsInv, N!NotificationsConstants
<1>2. event \in N!Event /\ event.key = k /\ event.number = published + 1
  BY <1>1 DEF N!Event
<1>3. \/ N!IsCritical(k) /\ k \notin Unserialisable /\ N!Broadcast(<<event>>) /\ pending' = pending
      \/ N!IsCritical(k) /\ UNCHANGED <<sub, pending>>
      \/ ~N!IsCritical(k) /\ pending' = N!Coalesce(event) /\ sub' = sub
  BY DEF N!Publish
<1>4. flush \in {"none", "started", "sleeping", "died"}
  BY DEF NotificationsInv
<1>5. CASE N!IsCritical(k) /\ k \notin Unserialisable /\ N!Broadcast(<<event>>)
           /\ pending' = pending
  <2>1. \A s \in Subscriber : IsNews(event, sub[s].queue, newest[s])
    BY <1>2, NewestIsNews
  <2>. HIDE DEF event
  <2>2. <<event>> \in Seq(N!Event) /\ \A n \in 1..Len(<<event>>) : n = 1 /\ <<event>>[n] = event
    BY <1>2
  <2>3. k \in Critical
    BY <1>5 DEF N!IsCritical
  <2>4. published <= published + 1 /\ \A n \in 1..Len(<<event>>) : <<event>>[n].number <= published + 1
    BY <1>1, <1>2, <2>2
  <2>5. \A n \in 1..Len(<<event>>) :
           /\ <<event>>[n].key \in Critical
           /\ \A s \in Subscriber : IsNews(<<event>>[n], sub[s].queue, newest[s])
    BY <1>2, <2>1, <2>2, <2>3
  <2>6. \A n, m \in 1..Len(<<event>>) : <<event>>[n].key = <<event>>[m].key => n = m
    BY <2>2
  <2>. DEFINE all == <<event>>
              top == published + 1
  <2>7. /\ all \in Seq(N!Event) /\ N!Broadcast(all) /\ top \in 0..MaxPublished /\ published <= top
        /\ published' = top /\ \A n \in 1..Len(all) : all[n].number <= top
        /\ \A n \in 1..Len(all) : \A s \in Subscriber : IsNews(all[n], sub[s].queue, newest[s])
        /\ \A n, m \in 1..Len(all) : all[n].key = all[m].key => n = m
        /\ \A n \in 1..Len(all) : all[n].key \in Critical
        /\ pending' = pending /\ flush' \in {"none", "started", "sleeping", "died"}
        /\ UNCHANGED <<subscribers, newest>>
    BY <1>1, <1>4, <1>5, <2>2, <2>4, <2>5, <2>6
  <2>. HIDE DEF all, top
  <2>. QED  BY <2>7, BroadcastLeaves
<1>6. CASE N!IsCritical(k) /\ UNCHANGED <<sub, pending>>
  <2>1. \A s \in Subscriber :
           /\ \A j \in N!Key : newest[s][j] \in Nat /\ newest[s][j] <= published
           /\ sub[s].queue \in Seq(N!Event)
    BY DEF NotificationsInv, NewsWaits, Circuit
  <2>2. \A s \in Subscriber : \A n \in 1..Len(sub[s].queue) :
           sub[s].queue[n].number \in Nat /\ sub[s].queue[n].number <= published
    BY <2>1, EventsAre DEF NotificationsInv, NewsWaits
  <2>3. \A n \in 1..Len(pending) : pending[n].number \in Nat /\ pending[n].number <= published
    BY EventsAre DEF NotificationsInv, NewsWaits
  <2>4. /\ \A s \in Subscriber :
              /\ \A j \in N!Key : newest[s][j] <= published + 1
              /\ \A n \in 1..Len(sub[s].queue) : sub[s].queue[n].number <= published + 1
        /\ \A n \in 1..Len(pending) : pending[n].number <= published + 1
    BY <1>1, <2>1, <2>2, <2>3
  <2>5. NewsWaits'
    BY <1>1, <1>6, <2>4 DEF NotificationsInv, NewsWaits
  <2>. QED  BY <1>1, <1>6, <2>5 DEF NotificationsInv
<1>7. CASE ~N!IsCritical(k) /\ pending' = N!Coalesce(event) /\ sub' = sub
  <2>1. k \in Plain \ Critical
    BY <1>7 DEF N!IsCritical, N!Key
  <2>. QED  BY <1>1, <1>7, <2>1, CoalesceKeeps
<1>. QED  BY <1>3, <1>5, <1>6, <1>7

LEMMA FlushKeeps ==
  ASSUME N!NotificationsConstants, NotificationsInv, N!Flush
  PROVE  NotificationsInv'
<1>1. /\ pending' = <<>> /\ UNCHANGED <<subscribers, newest, published>>
      /\ pending \in Seq(N!Event) /\ published \in 0..MaxPublished /\ published \in Nat
      /\ flush' \in {"none", "started", "sleeping", "died"}
  BY DEF N!Flush, NotificationsInv
<1>2. /\ \A n \in 1..Len(pending) :
            /\ pending[n].number <= published
            /\ \A s \in Subscriber : IsNews(pending[n], sub[s].queue, newest[s])
      /\ \A n, m \in 1..Len(pending) : pending[n].key = pending[m].key => n = m
  BY DEF NotificationsInv, NewsWaits
<1>3. CASE N!Broadcast(pending)
  <2>. DEFINE top == published
  <2>1. top \in 0..MaxPublished /\ published <= top /\ published' = top
        /\ \A n \in 1..Len(pending) : pending[n].number <= top
    BY <1>1, <1>2
  <2>. HIDE DEF top
  <2>. QED  BY <1>1, <1>2, <1>3, <2>1, BroadcastLeaves
<1>4. ASSUME NEW n \in 1..Len(pending), N!Broadcast(SubSeq(pending, 1, n - 1))
      PROVE  NotificationsInv'
  <2>. DEFINE all == SubSeq(pending, 1, n - 1)
              top == published
  <2>1. /\ all \in Seq(N!Event) /\ Len(all) = n - 1
        /\ \A m \in 1..(n - 1) : m \in 1..Len(pending) /\ all[m] = pending[m]
    BY <1>1
  <2>2. top \in 0..MaxPublished /\ published <= top /\ published' = top /\ N!Broadcast(all)
    BY <1>1, <1>4
  <2>. HIDE DEF all
  <2>3. \A m \in 1..Len(all) : all[m].number <= top
    BY <1>2, <2>1
  <2>4. /\ \A m \in 1..Len(all) : \A s \in Subscriber : IsNews(all[m], sub[s].queue, newest[s])
        /\ \A m, l \in 1..Len(all) : all[m].key = all[l].key => m = l
    BY <1>2, <2>1
  <2>. HIDE DEF top
  <2>. QED  BY <1>1, <2>1, <2>2, <2>3, <2>4, BroadcastLeaves
<1>. QED  BY <1>3, <1>4 DEF N!Flush

\* What clients saw and will see, over the notifications' own steps.
LEMMA EventsFlowInOrder ==
  ASSUME N!NotificationsConstants
  PROVE  N!Init /\ [][N!Next]_(N!vars) => [](N!TypeOK /\ N!EventsInOrder)
<1>1. ASSUME N!Init PROVE NotificationsInv
  <2>1. /\ subscribers = {} /\ sub = [s \in Subscriber |-> N!Fresh] /\ pending = <<>>
        /\ newest = [s \in Subscriber |-> [j \in N!Key |-> 0]] /\ flush = "none" /\ published = 0
    BY <1>1 DEF N!Init
  <2>2. MaxPublished \in Nat
    BY DEF N!NotificationsConstants
  <2>3. /\ sub \in [Subscriber -> Circuit]
        /\ \A s \in Subscriber : CircuitIsTyped(sub[s]) /\ GoesOn(sub[s].queue, newest[s])
        /\ \A s \in Subscriber : sub[s].queue = <<>>
    BY <2>1, FreshIs DEF CircuitIsTyped
  <2>4. NewsWaits
    BY <2>1, <2>3 DEF NewsWaits
  <2>5. pending \in Seq(N!Event) /\ newest \in [Subscriber -> [N!Key -> 0..MaxPublished]]
    BY <2>1, <2>2
  <2>. QED  BY <2>1, <2>2, <2>3, <2>4, <2>5 DEF NotificationsInv
<1>2. ASSUME NotificationsInv, [N!Next]_(N!vars) PROVE NotificationsInv'
  <2>1. CASE UNCHANGED N!vars
    BY <1>2, <2>1 DEF N!vars, NotificationsInv, NewsWaits
  <2>2. ASSUME NEW s \in Subscriber, N!Subscribe(s) \/ N!Unsubscribe(s) PROVE NotificationsInv'
    <3>1. /\ sub' = [sub EXCEPT ![s] = N!Fresh]
          /\ newest' = [newest EXCEPT ![s] = [j \in N!Key |-> 0]]
          /\ UNCHANGED <<pending, published>>
      BY <2>2 DEF N!Subscribe, N!Unsubscribe
    <3>2. /\ subscribers' \subseteq Subscriber
          /\ flush' \in {"none", "started", "sleeping", "died"}
      BY <1>2, <2>2 DEF N!Subscribe, N!Unsubscribe, NotificationsInv
    <3>. QED  BY <1>2, <3>1, <3>2, ReplacesClient
  <2>3. ASSUME NEW s \in Subscriber, N!Read(s) PROVE NotificationsInv'
    BY <1>2, <2>3, ReadsEvent
  <2>4. ASSUME NEW s \in Subscriber, N!CoolDown(s) PROVE NotificationsInv'
    <3>1. /\ sub' = [sub EXCEPT ![s].cooled = TRUE]
          /\ UNCHANGED <<subscribers, newest, pending, flush, published>>
      BY <2>4 DEF N!CoolDown
    <3>2. /\ sub' \in [Subscriber -> Circuit]
          /\ \A c \in Subscriber : /\ sub'[c].queue = sub[c].queue /\ sub'[c].open = sub[c].open
                                   /\ sub'[c].failures = sub[c].failures
      BY <1>2, <3>1 DEF NotificationsInv, Circuit
    <3>3. \A c \in Subscriber : CircuitIsTyped(sub'[c])
      BY <1>2, <3>2 DEF NotificationsInv, CircuitIsTyped
    <3>4. NewsWaits'
      BY <1>2, <3>1, <3>2 DEF NotificationsInv, NewsWaits
    <3>. QED  BY <1>2, <3>1, <3>2, <3>3, <3>4 DEF NotificationsInv
  <2>5. ASSUME NEW k \in N!Key, N!Publish(k) PROVE NotificationsInv'
    BY <1>2, <2>5, PublishesEvent
  <2>6. ASSUME N!StartFlush PROVE NotificationsInv'
    BY <1>2, <2>6 DEF N!StartFlush, NotificationsInv, NewsWaits
  <2>7. ASSUME N!Flush PROVE NotificationsInv'
    BY <1>2, <2>7, FlushKeeps
  <2>. QED  BY <1>2, <2>1, <2>2, <2>3, <2>4, <2>5, <2>6, <2>7 DEF N!Next
<1>3. ASSUME NotificationsInv PROVE N!TypeOK /\ N!EventsInOrder
  <2>1. \A s \in Subscriber :
           /\ sub[s].queue \in Seq(N!Event) /\ Len(sub[s].queue) <= QueueMax
           /\ sub[s].failures \in 0..Threshold + 1
           /\ sub[s].open = (sub[s].failures >= Threshold)
    BY <1>3 DEF NotificationsInv, CircuitIsTyped, Circuit
  <2>2. pending \in Seq([key : Plain, number : 1..MaxPublished])
    <3>1. pending \in Seq(N!Event)
      BY <1>3 DEF NotificationsInv
    <3>2. \A n \in 1..Len(pending) : pending[n] \in [key : Plain, number : 1..MaxPublished]
      <4>1. \A n \in 1..Len(pending) : pending[n] \in N!Event /\ pending[n].key \in Plain
        BY <1>3, <3>1 DEF NotificationsInv, NewsWaits
      <4>. QED  BY <4>1 DEF N!Event
    <3>. DEFINE Wait == [key : Plain, number : 1..MaxPublished]
    <3>. HIDE DEF Wait
    <3>3. \A n \in 1..Len(pending) : pending[n] \in Wait
      BY <3>2 DEF Wait
    <3>4. pending \in Seq(Wait)
      BY <3>1, <3>3
    <3>. QED  BY <3>4 DEF Wait
  <2>3. \A i, j \in 1..Len(pending) : pending[i].key = pending[j].key => i = j
    BY <1>3 DEF NotificationsInv, NewsWaits
  <2>4. N!TypeOK
    BY <1>3, <2>1, <2>2, <2>3 DEF N!TypeOK, NotificationsInv
  <2>5. N!EventsInOrder
    BY <1>3 DEF N!EventsInOrder, NotificationsInv, GoesOn
  <2>. QED  BY <2>4, <2>5
<1>. QED  BY <1>1, <1>2, <1>3, PTL

\* The gate's steps leave the notifications alone.
LEMMA EventsAreBeside == MCSpec => N!Init /\ [][N!Next]_(N!vars)
<1>1. MCInit => N!Init
  BY DEF MCInit
<1>2. [MCNext]_<<service, vars, varsN>> => [N!Next]_(N!vars)
  <2>1. UNCHANGED varsN => UNCHANGED N!vars
    BY DEF varsN, N!vars
  <2>2. UNCHANGED <<service, vars, varsN>> => UNCHANGED varsN
    OBVIOUS
  <2>. QED  BY <2>1, <2>2, Zenon DEF MCNext, GateMoves, NotificationsMove
<1>. QED  BY <1>1, <1>2, PTL DEF MCSpec

\* NotificationService, for any clients, keys, sizes of queues and thresholds: dropping,
\* coalescing, half-open circuits and a flush loop that dies show no client an older event
\* of a key after a newer one.
THEOREM EventsStayInOrder ==
  ASSUME N!NotificationsConstants
  PROVE  MCSpec => []EventsInOrder
<1>1. N!TypeOK /\ N!EventsInOrder => EventsInOrder
  BY DEF EventsInOrder
<1>. QED  BY <1>1, EventsFlowInOrder, EventsAreBeside, PTL

=============================================================================
