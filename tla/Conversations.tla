--------------------------- MODULE Conversations ---------------------------
(***************************************************************************)
(* ConversationService: threads of turns of items, one file each, and the  *)
(* versions of them that it hands to NotificationService.publish.          *)
(*                                                                         *)
(* No handler waits within, so that each is one step; the tasks that       *)
(* publish start after it, in order.  A file is written in place: a write  *)
(* that fails, and a death within one, leave a file that nothing can read. *)
(* What becomes of a version that was handed over is in Notifications.     *)
(***************************************************************************)
EXTENDS Integers, Sequences

CONSTANTS
  Thread,    \* ids
  MaxTurns,  \* bounds of the model: turns of a thread,
  MaxItems,  \* items of a turn,
  MaxDeltas, \* changes of an item,
  MaxQueue,  \* and versions that tasks have yet to publish
  Broken,    \* what nothing can read
  None

VARIABLES
  threads,  \* [Thread -> its file: None, Broken or its turns]
  queue,    \* the versions that tasks will publish
  handed,   \* [Thread -> the version handed over last, or None]
  missed    \* threads with a version that no task will publish

vars == <<threads, queue, handed, missed>>

\* An item is the number of its changes.  A history variable: whether the request
\* that made the turn was cut short.
Turn == [user : BOOLEAN, items : Seq(Nat), cut : BOOLEAN]

Stored(t) == threads[t] \notin {None, Broken}

TypeOK ==
    /\ \A t \in Thread : Stored(t) =>
          Len(threads[t]) <= MaxTurns /\ \A i \in DOMAIN threads[t] : threads[t][i] \in Turn
    /\ \A i \in DOMAIN queue : queue[i].thread \in Thread
    /\ DOMAIN handed = Thread /\ missed \subseteq Thread

Init ==
    /\ threads = [t \in Thread |-> None]
    /\ queue = <<>> /\ handed = [t \in Thread |-> None] /\ missed = {}

\* save_thread, for versions one after the other.
Save(t, versions) ==
    /\ Len(queue) + Len(versions) <= MaxQueue
    /\ threads' = [threads EXCEPT ![t] = versions[Len(versions)]]
    /\ queue' = queue \o [i \in DOMAIN versions |-> [thread |-> t, turns |-> versions[i]]]
    /\ missed' = missed \ {t}
    /\ UNCHANGED handed

\* The last write fails: the one before was published.
SaveFails(t, before) ==
    /\ Len(queue) + Len(before) <= MaxQueue
    /\ threads' = [threads EXCEPT ![t] = Broken]
    /\ queue' = queue \o [i \in DOMAIN before |-> [thread |-> t, turns |-> before[i]]]
    /\ UNCHANGED <<handed, missed>>

Write(t, turns) == Save(t, <<turns>>) \/ SaveFails(t, <<>>)

CreateThread(t) == threads[t] = None /\ Write(t, <<>>)

NewTurn(user) == [user |-> user, items |-> <<>>, cut |-> FALSE]

MayGrow(t) == Stored(t) /\ Len(threads[t]) < MaxTurns

AddTurn(t) == MayGrow(t) /\ Write(t, Append(threads[t], NewTurn(FALSE)))

WithItem(turns, i) == [turns EXCEPT ![i].items = Append(@, 0)]

AppendItem(t) ==
    /\ Stored(t)
    /\ \E i \in DOMAIN threads[t] :
          Len(threads[t][i].items) < MaxItems /\ Write(t, WithItem(threads[t], i))

\* A change of its text, of its status, or of both.
UpdateItem(t) ==
    /\ Stored(t)
    /\ \E i \in DOMAIN threads[t] : \E j \in DOMAIN threads[t][i].items :
          threads[t][i].items[j] < MaxDeltas /\ Write(t, [threads[t] EXCEPT ![i].items[j] = @ + 1])

\* The turns of the fork keep their ids.
ForkThread(t, u) ==
    /\ Stored(t) /\ threads[u] = None
    /\ \E i \in DOMAIN threads[t] : Write(u, SubSeq(threads[t], 1, i))

\* add_turn and append_item, each of which reads the file and writes it.
PostMessage(t) ==
    /\ MayGrow(t)
    /\ LET asked == Append(threads[t], NewTurn(TRUE))
       IN  \/ Save(t, <<asked, WithItem(asked, Len(asked))>>)
           \/ SaveFails(t, <<>>)
           \/ SaveFails(t, <<asked>>)

Publish ==
    /\ queue # <<>>
    /\ handed' = [handed EXCEPT ![Head(queue).thread] = Head(queue).turns]
    /\ queue' = Tail(queue)
    /\ UNCHANGED <<threads, missed>>

\* The server dies, between requests or within one, and starts again.
Die ==
    /\ queue' = <<>>
    /\ \/ /\ UNCHANGED threads
          /\ missed' = missed \cup {queue[i].thread : i \in DOMAIN queue}
       \/ \E t \in Thread :
             /\ MayGrow(t)
             /\ threads' = [threads EXCEPT ![t] = Append(@, [NewTurn(TRUE) EXCEPT !.cut = TRUE])]
             /\ missed' = missed \cup {queue[i].thread : i \in DOMAIN queue} \cup {t}
       \/ \E t \in Thread :
             /\ Stored(t)
             /\ threads' = [threads EXCEPT ![t] = Broken]
             /\ missed' = missed \cup {queue[i].thread : i \in DOMAIN queue}
    /\ UNCHANGED handed

Next ==
    \/ \E t \in Thread :
          \/ CreateThread(t) \/ AddTurn(t) \/ AppendItem(t) \/ UpdateItem(t)
          \/ PostMessage(t)
          \/ \E u \in Thread \ {t} : ForkThread(t, u)
    \/ Publish \/ Die

Spec == Init /\ [][Next]_vars

----------------------------------------------------------------------------

\* What is stored is what is handed over last, once the tasks that are due have run.
Told(t) ==
    \/ \E i \in DOMAIN queue :
          /\ queue[i] = [thread |-> t, turns |-> threads[t]]
          /\ \A j \in DOMAIN queue : j > i => queue[j].thread # t
    \/ handed[t] = threads[t] /\ \A i \in DOMAIN queue : queue[i].thread # t

\* The version of a thread that is handed over last is the one that is stored, unless
\* a death lost its publication; and a message of the user has its text unless a death
\* cut the request between its two writes.
ConversationsAreAnnounced ==
    \A t \in Thread : Stored(t) =>
       /\ t \in missed \/ Told(t)
       /\ \A i \in DOMAIN threads[t] :
             LET turn == threads[t][i] IN turn.user => turn.items # <<>> \/ turn.cut

=============================================================================
