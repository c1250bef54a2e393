--------------------------------- MODULE Stream ---------------------------------
(***************************************************************************)
(* The live stream of the monitoring page: _notify and subscribe of the    *)
(* MonitoringEngine (app/core/monitoring_engine), GET /api/monitoring/     *)
(* stream (app/api/monitoring) and the page that follows it                *)
(* (app/static/js/app.js).                                                 *)
(*                                                                         *)
(* Worker threads append events and then call the subscribers one by one.  *)
(* A subscriber hands the event to the event loop, which puts it into the  *)
(* queue of its connection, or drops it if the queue is full.  A message   *)
(* tells the page no more than that there is something new: the page asks  *)
(* for the events again and shows the answer, the first Limit of the feed  *)
(* by their own timestamps, which need not be the events appended last.    *)
(* Requests of the page are answered in any order.                         *)
(*                                                                         *)
(* Events are counted as they are appended, and named by their number.  An *)
(* answer is named by the last event appended before it was given: events  *)
(* do not change, so that this says which of them are in it.  One page is  *)
(* modelled; each of its connections is used once.  Filters and the        *)
(* periodic refresh, which is off while the page streams, are left out.    *)
(***************************************************************************)
EXTENDS Integers, Sequences, FiniteSets, SequencesExt

CONSTANTS
  Threads,    \* worker threads that publish events
  LastStream, \* bound: connections 1 .. LastStream of the page
  QueueSize,  \* capacity of the queue of a connection, 100 in the code
  MaxBurst,   \* largest burst, 10 in the code
  Clocks,     \* timestamps that the events of a behaviour may have, by event;
              \* numbers in the order of their strings
  Limit,      \* events the page asks for, 50 in the code
  FeedSize,   \* MAX_EVENTS the feed keeps, 500 in the code
  MaxEvents   \* bound: events in one behaviour

ASSUME SizeAssumption ==
  /\ LastStream \in Nat \ {0} /\ QueueSize \in Nat \ {0}
  /\ MaxBurst \in Nat \ {0} /\ MaxEvents \in Nat
ASSUME AnswerAssumption ==
  /\ Clocks \subseteq [1 .. MaxEvents -> Int]
  /\ Limit \in Nat \ {0} /\ FeedSize \in Nat /\ Limit <= FeedSize

VARIABLES
  stamp,       \* the timestamps of the events: an agent gives one with each
               \* event it sends, other events have the time of their append
  feed,        \* events appended
  todo,        \* events a thread has still to publish
  targets,     \* subscribers a thread has still to call for the first of them
  copied,      \* the thread has copied the subscribers for it
  subscribers, \* _subscribers, by connection
  loop,        \* callbacks the event loop has still to run
  queue,       \* the queue of a connection
  server,      \* the generator of a connection
  current,     \* the page's connection, LastStream + 1 once the page is closed
  wire,        \* messages on their way to the page
  asked,       \* requests for the events not yet served
  answers,     \* answers on their way, by the last event appended before them
  caught,      \* events the page has shown, or that had no place in an answer
               \* it has shown
  due,         \* the newest event the current connection was a subscriber for
  erred        \* an answer was lost

engine  == <<stamp, feed, todo, targets, copied, subscribers>>
streams == <<loop, queue, server>>
page    == <<current, wire, asked, answers, caught>>
history == <<due, erred>>
vars    == <<engine, streams, page, history>>

Streams == 1 .. LastStream

-----------------------------------------------------------------------------
(***************************************************************************)
(* The engine                                                              *)
(***************************************************************************)

\* The page asks for the events, then opens its first connection.
Init ==
  /\ stamp \in Clocks
  /\ feed = 0
  /\ todo = [t \in Threads |-> <<>>]
  /\ targets = [t \in Threads |-> <<>>]
  /\ copied = [t \in Threads |-> FALSE]
  /\ subscribers = <<>>
  /\ loop = <<>>
  /\ queue = [c \in Streams |-> <<>>]
  /\ server = [c \in Streams |-> "new"]
  /\ current = 1
  /\ wire = 0
  /\ asked = 1
  /\ answers = [n \in 0 .. MaxEvents |-> 0]
  /\ caught = {} /\ due = 0 /\ erred = FALSE

\* Events are in the feed before any of them is published.
AppendBurst(t) ==
  /\ todo[t] = <<>>
  /\ \E n \in 1 .. MaxBurst :
       /\ feed + n <= MaxEvents
       /\ feed' = feed + n
       /\ todo' = [todo EXCEPT ![t] = [i \in 1 .. n |-> feed + i]]
  /\ UNCHANGED <<stamp, targets, copied, subscribers, streams, page, history>>

\* _notify copies the list of subscribers under the lock ...
CopySubscribers(t) ==
  /\ todo[t] # <<>> /\ ~ copied[t]
  /\ targets' = [targets EXCEPT ![t] = subscribers]
  /\ copied' = [copied EXCEPT ![t] = TRUE]
  /\ due' = IF current \in ToSet(subscribers) /\ Head(todo[t]) > due
            THEN Head(todo[t]) ELSE due
  /\ UNCHANGED <<stamp, feed, todo, subscribers, streams, page, erred>>

\* ... and calls them without it; call_soon_threadsafe queues the callback.
CallSubscriber(t) ==
  /\ copied[t] /\ targets[t] # <<>>
  /\ loop' = Append(loop, <<Head(targets[t]), Head(todo[t])>>)
  /\ targets' = [targets EXCEPT ![t] = Tail(@)]
  /\ UNCHANGED <<stamp, feed, todo, copied, subscribers, queue, server, page, history>>

Published(t) ==
  /\ copied[t] /\ targets[t] = <<>>
  /\ todo' = [todo EXCEPT ![t] = Tail(@)]
  /\ copied' = [copied EXCEPT ![t] = FALSE]
  /\ UNCHANGED <<stamp, feed, targets, subscribers, streams, page, history>>

-----------------------------------------------------------------------------
(***************************************************************************)
(* The event loop and the generator of a connection                        *)
(***************************************************************************)

\* Mutant: the queue has no limit.
BadPut(q, e) == Append(q, e)

\* Mutant: a full queue is emptied to make room, and the event dropped.
ClearingPut(q, e) == IF Len(q) < QueueSize THEN Append(q, e) ELSE <<>>

\* put_nowait: QueueFull is raised in the event loop, and the event is gone.
Put(q, e) == IF Len(q) < QueueSize THEN Append(q, e) ELSE q

\* Nobody reads the queue of a connection that has ended.
RunCallback ==
  LET c == loop[1][1] IN
  /\ loop # <<>>
  /\ queue' = IF server[c] = "over" THEN queue
              ELSE [queue EXCEPT ![c] = Put(@, loop[1][2])]
  /\ loop' = Tail(loop)
  /\ UNCHANGED <<engine, server, page, history>>

\* monitoring_stream subscribes and sends `ready'.  The page is not waited for:
\* it may have given the connection up by now.
Subscribe(c) ==
  /\ server[c] = "new" /\ c <= current
  /\ subscribers' = Append(subscribers, c)
  /\ server' = [server EXCEPT ![c] = "check"]
  /\ UNCHANGED <<stamp, feed, todo, targets, copied, loop, queue, page, history>>

\* Mutant: an event that was queued before the wait does not end the wait.
BadStillConnected(c) ==
  /\ server[c] = "check" /\ current = c /\ queue[c] = <<>>
  /\ server' = [server EXCEPT ![c] = "wait"]
  /\ UNCHANGED <<engine, loop, queue, page, history>>

\* is_disconnected, before every wait: the page is still there ...
StillConnected(c) ==
  /\ server[c] = "check" /\ current = c
  /\ server' = [server EXCEPT ![c] = "wait"]
  /\ UNCHANGED <<engine, loop, queue, page, history>>

\* Mutant: the generator ends without the finally clause.
BadUnsubscribed(c) == subscribers

\* _unsubscribe: list.remove
Unsubscribed(c) == RemoveFirst(subscribers, c)

\* ... or it is not: the generator ends, and unsubscribes.
EndStream(c) ==
  /\ server[c] = "check" /\ current # c
  /\ server' = [server EXCEPT ![c] = "over"]
  /\ subscribers' = Unsubscribed(c)
  /\ queue' = [queue EXCEPT ![c] = <<>>]
  /\ UNCHANGED <<stamp, feed, todo, targets, copied, loop, page, history>>

\* An event from the queue becomes a message.
Send(c) ==
  /\ server[c] = "wait" /\ queue[c] # <<>>
  /\ queue' = [queue EXCEPT ![c] = Tail(@)]
  /\ wire' = IF current = c THEN wire + 1 ELSE wire
  /\ server' = [server EXCEPT ![c] = "check"]
  /\ UNCHANGED <<engine, loop, current, asked, answers, caught, history>>

\* Nothing came for 15 seconds.
KeepAlive(c) ==
  /\ server[c] = "wait" /\ queue[c] = <<>>
  /\ server' = [server EXCEPT ![c] = "check"]
  /\ UNCHANGED <<engine, loop, queue, page, history>>

-----------------------------------------------------------------------------
(***************************************************************************)
(* The page                                                                *)
(***************************************************************************)

\* Every message makes the page ask for the events.
Receive ==
  /\ wire > 0
  /\ wire' = wire - 1
  /\ asked' = asked + 1
  /\ UNCHANGED <<engine, streams, current, answers, caught, history>>

\* Mutant: the feed is sorted with the oldest timestamp first.
BadRows(n) ==
  LET kept == {e \in 1 .. n : n - e < FeedSize}
      first(e) == {x \in kept : stamp[x] < stamp[e] \/ (stamp[x] = stamp[e] /\ x < e)}
  IN  {e \in kept : Cardinality(first(e)) < Limit}

\* list_events, after n events: of those the feed keeps, the first Limit by
\* timestamp, the latest first; equal ones stay in the order of the feed.
Rows(n) ==
  LET kept == {e \in 1 .. n : n - e < FeedSize}
      first(e) == {x \in kept : stamp[x] > stamp[e] \/ (stamp[x] = stamp[e] /\ x < e)}
  IN  {e \in kept : Cardinality(first(e)) < Limit}

\* GET /api/monitoring/events reads the feed under the lock.
ServeEvents ==
  /\ asked > 0
  /\ asked' = asked - 1
  /\ answers' = [answers EXCEPT ![feed] = @ + 1]
  /\ UNCHANGED <<engine, streams, current, wire, caught, history>>

\* After n events e has no place on the page: the feed has dropped it, or there
\* are Limit others whose timestamps are no older.
Displaced(e, n) ==
  \/ n - e >= FeedSize
  \/ Cardinality({x \in (1 .. n) \ {e} : stamp[x] >= stamp[e]}) >= Limit

\* An answer arrives: renderEvents replaces the table by its rows.
Show(n) ==
  /\ answers[n] > 0
  /\ answers' = [answers EXCEPT ![n] = @ - 1]
  /\ caught' = caught \cup Rows(n) \cup {e \in 1 .. n : Displaced(e, n)}
  /\ UNCHANGED <<engine, streams, current, wire, asked, history>>

\* An answer does not arrive: the page shows an error.
LoseAnswer(n) ==
  /\ answers[n] > 0
  /\ answers' = [answers EXCEPT ![n] = @ - 1]
  /\ erred' = TRUE
  /\ UNCHANGED <<engine, streams, current, wire, asked, caught, due>>

\* The connection breaks and the browser opens another, the operator changes
\* a filter (startStream), or the page is closed.  Nothing is asked for anew.
Reconnect ==
  /\ current <= LastStream
  /\ current' = current + 1
  /\ wire' = 0
  /\ due' = 0
  /\ UNCHANGED <<engine, streams, asked, answers, caught, erred>>

-----------------------------------------------------------------------------
Publish(t) == CopySubscribers(t) \/ CallSubscriber(t) \/ Published(t)

Generator(c) ==
  Subscribe(c) \/ StillConnected(c) \/ EndStream(c) \/ Send(c) \/ KeepAlive(c)

Next ==
  \/ \E t \in Threads : AppendBurst(t) \/ Publish(t)
  \/ RunCallback
  \/ \E c \in Streams : Generator(c)
  \/ Receive \/ ServeEvents \/ Reconnect
  \/ \E n \in 0 .. MaxEvents : Show(n) \/ LoseAnswer(n)

Spec == Init /\ [][Next]_vars

\* Threads, the event loop, the generators, the server and the network go on;
\* an answer that is not lost arrives.
Fairness ==
  /\ \A t \in Threads : WF_vars(Publish(t))
  /\ WF_vars(RunCallback)
  /\ \A c \in Streams : WF_vars(Generator(c))
  /\ WF_vars(Receive) /\ WF_vars(ServeEvents)
  /\ WF_vars(\E n \in 0 .. MaxEvents : Show(n) \/ LoseAnswer(n))

FairSpec == Spec /\ Fairness

-----------------------------------------------------------------------------
(***************************************************************************)
(* Properties                                                              *)
(***************************************************************************)

\* Type invariant; a queue never exceeds its size, and a connection is a
\* subscriber at most once.
TypeOK ==
  /\ stamp \in Clocks /\ feed \in 0 .. MaxEvents
  /\ todo \in [Threads -> Seq(1 .. MaxEvents)]
  /\ targets \in [Threads -> Seq(Streams)]
  /\ copied \in [Threads -> BOOLEAN]
  /\ subscribers \in Seq(Streams) /\ IsInjective(subscribers)
  /\ loop \in Seq(Streams \X (1 .. MaxEvents))
  /\ queue \in [Streams -> Seq(1 .. MaxEvents)]
  /\ \A c \in Streams : Len(queue[c]) <= QueueSize
  /\ server \in [Streams -> {"new", "check", "wait", "over"}]
  /\ current \in 1 .. LastStream + 1
  /\ wire \in Nat /\ asked \in Nat
  /\ answers \in [0 .. MaxEvents -> Nat]
  /\ caught \subseteq 1 .. MaxEvents
  /\ due \in 0 .. MaxEvents
  /\ erred \in BOOLEAN

\* Something that will make the page look is on its way to the connection.
Signalled ==
  \/ \E t \in Threads : current \in ToSet(targets[t])
  \/ \E i \in DOMAIN loop : loop[i][1] = current
  \/ current \in Streams /\ queue[current] # <<>>
  \/ wire > 0 \/ asked > 0

\* An event published to the page's connection is shown at some time, although
\* full queues drop events: whatever is left in the queue makes the page ask
\* later than the event was appended (AppendBurst before CopySubscribers; the
\* page asks again for each message, never only for the first).  Only an event
\* that is displaced by then is not: the page shows no more than Limit.
NoAlertIsMissed ==
  \/ 1 .. due \subseteq caught
  \/ erred \/ Signalled \/ \E n \in due .. MaxEvents : answers[n] > 0

\* ... and it is shown in the end, if the connection lasts and no answer is lost.
AlertsAreShown ==
  \A e \in 1 .. MaxEvents, c \in Streams :
    (due = e /\ current = c) ~> (e \in caught \/ erred \/ current # c)

\* A connection the page has given up does not stay a subscriber, even one that
\* subscribes after the page has gone (event_generator, finally: unsubscribe).
StreamsAreReleased ==
  \A c \in Streams : (current # c) ~> (current < c \/ c \notin ToSet(subscribers))
=============================================================================
