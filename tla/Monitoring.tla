------------------------------ MODULE Monitoring ------------------------------
(***************************************************************************)
(* The console's event feed: MonitoringEngine (app/core/monitoring_engine) *)
(* and the JSON file behind it, MonitoringStore (app/core/                 *)
(* monitoring_store).  Request handlers run on worker threads.  The engine *)
(* lock protects short sections, each of them one action here; between two *)
(* sections of a call any other thread may run, and the process may stop.  *)
(*                                                                         *)
(* An event object is shared: the feed, the copies that _persist takes and *)
(* the bursts waiting to be published all refer to the same object, whose  *)
(* only mutable field is the acknowledged flag.  An event is a record of   *)
(* its immutable fields and `acked' is the set of events whose flag is     *)
(* set.  The field boot (which start of the process created the event) is  *)
(* not in the code: it tells apart two events that carry the same uid.     *)
(***************************************************************************)
EXTENDS Integers, Sequences, FiniteSets, FiniteSetsExt, Functions

CONSTANTS
  Threads,       \* worker threads that serve requests
  Decoys,        \* names of decoy objects an operator can deploy
  NoDecoy,       \* the empty honey_object of an event that matched nothing
  Deployments,   \* the object lists that register_deployment is called with
  MaxEvents,     \* MonitoringEngine.MAX_EVENTS, 500 in the code
  MaxBurst,      \* largest burst of simulate_honey_interaction, 10 in the code
  SeedCount,     \* number of BASELINE_TEMPLATES, 6 in the code
  SimulateCounts,\* counts an operator asks simulate for (any integer)
  MaxBatch,      \* bound: largest ingest batch explored
  MaxOffered,    \* bound: events offered to the feed in one behaviour
  MaxBoots       \* bound: starts of the process in one behaviour

ASSUME DecoyAssumption ==
  /\ NoDecoy \notin Decoys
  /\ Deployments \subseteq SUBSET Decoys
ASSUME SizeAssumption ==
  /\ MaxEvents \in Nat \ {0} /\ MaxBurst \in Nat \ {0}
  /\ SeedCount \in 0 .. MaxEvents
  /\ SimulateCounts \subseteq Int
ASSUME BoundAssumption ==
  MaxBatch \in Nat /\ MaxOffered \in Nat /\ MaxBoots \in Nat \ {0}

VARIABLES
  up,        \* the process is running
  boot,      \* number of starts of the process
  honey,     \* _honey_objects: the decoys events are correlated with
  feed,      \* _events, oldest first
  acked,     \* the events of this process whose acknowledged flag is set
  counter,   \* _uid_counter
  disk,      \* data/monitoring_events.json
  pc,        \* the next section of the call a thread serves
  then,      \* where the call goes on once its _persist is done
  left,      \* ingest: items still to record; simulate: the count asked for
  tag,       \* the decoy _correlate found for the item at hand
  pending,   \* events appended by the call and not yet published
  copy,      \* the state _persist copied, later the payload it serialised
  acks,      \* the events an acknowledge call has flagged
  offered,   \* events offered so far (bounds the behaviour)
  published, \* events handed to the live stream
  answered   \* events whose acknowledgement was confirmed to an operator

shared  == <<up, boot, honey, feed, acked, counter, disk>>
locals  == <<pc, then, left, tag, pending, copy, acks>>
history == <<offered, published, answered>>
vars    == <<shared, locals, history>>

Event == [boot : 1 .. MaxBoots, uid : Nat \ {0}, decoy : Decoys \cup {NoDecoy}]
Snapshot == [counter : Nat, honey : SUBSET Decoys, events : Seq(Event),
             acked : SUBSET Event]
Blank == [counter |-> 0, honey |-> {}, events |-> <<>>, acked |-> {}]

-----------------------------------------------------------------------------
(***************************************************************************)
(* Helpers of the engine                                                   *)
(***************************************************************************)

\* Mutant: a full feed turns new events away instead of dropping old ones.
BadNewest(s) == IF Len(s) > MaxEvents THEN SubSeq(s, 1, MaxEvents) ELSE s

\* _append drops the oldest events beyond MAX_EVENTS.
Newest(s) ==
  IF Len(s) > MaxEvents THEN SubSeq(s, Len(s) - MaxEvents + 1, Len(s)) ELSE s

\* count consecutive uids from _next_uid, carrying the decoys of choice.
Issued(first, choice) ==
  [i \in DOMAIN choice |->
     [boot |-> boot, uid |-> first + i, decoy |-> choice[i]]]

\* max(1, min(count, 10))
Clamp(n) == IF n < 1 THEN 1 ELSE IF n > MaxBurst THEN MaxBurst ELSE n

\* _correlate: an item aimed at a registered decoy is tagged with it.
Correlated(target) == IF target \in honey THEN target ELSE NoDecoy

Unacknowledged == {e \in Range(feed) : e.decoy # NoDecoy /\ e \notin acked}

AllIdle == \A t \in Threads : pc[t] = "idle"

Idle == [t \in Threads |-> "idle"]

ResetLocals ==
  /\ pc' = Idle
  /\ then' = Idle
  /\ left' = [t \in Threads |-> 0]
  /\ tag' = [t \in Threads |-> NoDecoy]
  /\ pending' = [t \in Threads |-> <<>>]
  /\ copy' = [t \in Threads |-> Blank]
  /\ acks' = [t \in Threads |-> {}]

-----------------------------------------------------------------------------
(***************************************************************************)
(* The process starts and stops                                            *)
(***************************************************************************)

Init ==
  /\ up = FALSE
  /\ boot = 0
  /\ honey = {} /\ feed = <<>> /\ acked = {} /\ counter = 0
  /\ disk = Blank
  /\ pc = Idle
  /\ then = Idle
  /\ left = [t \in Threads |-> 0]
  /\ tag = [t \in Threads |-> NoDecoy]
  /\ pending = [t \in Threads |-> <<>>]
  /\ copy = [t \in Threads |-> Blank]
  /\ acks = [t \in Threads |-> {}]
  /\ offered = 0 /\ published = {} /\ answered = {}

\* Mutant: only a file that holds decoys is restored.
BadRestorable == disk.honey # {}

\* _restore: there is something to restore when the file holds events or decoys.
Restorable == disk.events # <<>> \/ disk.honey # {}

\* Mutant: the uids of the restored window are given out again.
BadRestoredCounter(n, events) == n - MaxEvents

\* max(uid_counter, the largest uid restored)
RestoredCounter(n, events) == Max({n} \cup {e.uid : e \in Range(events)})

\* Mutant: the counter is taken from the number of restored events.
BadBootRestore ==
  /\ ~up
  /\ Restorable
  /\ up' = TRUE
  /\ boot' = boot + 1
  /\ honey' = disk.honey
  /\ feed' = Newest(disk.events)
  /\ acked' = disk.acked
  /\ counter' = Len(disk.events)
  /\ UNCHANGED <<disk, locals, history>>

BootRestore ==
  /\ ~up
  /\ Restorable
  /\ up' = TRUE
  /\ boot' = boot + 1
  /\ honey' = disk.honey
  /\ feed' = Newest(disk.events)
  /\ acked' = disk.acked
  /\ counter' = RestoredCounter(disk.counter, Newest(disk.events))
  /\ UNCHANGED <<disk, locals, history>>

\* _seed_baseline: the feed of a first start, persisted before requests arrive.
BootSeed ==
  /\ ~up
  /\ ~Restorable
  /\ up' = TRUE
  /\ boot' = boot + 1
  /\ honey' = {}
  /\ feed' = [i \in 1 .. SeedCount |->
                [boot |-> boot + 1, uid |-> i, decoy |-> NoDecoy]]
  /\ acked' = {}
  /\ counter' = SeedCount
  /\ disk' = [Blank EXCEPT !.counter = SeedCount, !.events = feed']
  /\ UNCHANGED <<locals, history>>

\* The process stops between two sections: memory and calls are gone.
Crash ==
  /\ up /\ boot < MaxBoots
  /\ up' = FALSE
  /\ honey' = {} /\ feed' = <<>> /\ acked' = {} /\ counter' = 0
  /\ ResetLocals
  /\ UNCHANGED <<boot, disk, history>>

-----------------------------------------------------------------------------
(***************************************************************************)
(* Calls arrive                                                            *)
(***************************************************************************)

Offer(n) ==
  /\ offered + n <= MaxOffered
  /\ offered' = offered + n
  /\ UNCHANGED <<published, answered>>

\* POST /api/monitoring/ingest with a batch of n items.
IngestCall(t) ==
  /\ up /\ pc[t] = "idle"
  /\ \E n \in 1 .. MaxBatch :
       /\ Offer(n)
       /\ left' = [left EXCEPT ![t] = n]
  /\ pc' = [pc EXCEPT ![t] = "item"]
  /\ then' = [then EXCEPT ![t] = "item"]
  /\ UNCHANGED <<shared, tag, pending, copy, acks>>

\* POST /api/monitoring/simulate.
SimulateCall(t) ==
  /\ up /\ pc[t] = "idle"
  /\ \E n \in SimulateCounts :
       /\ Offer(Clamp(n))
       /\ left' = [left EXCEPT ![t] = n]
  /\ pc' = [pc EXCEPT ![t] = "ensure"]
  /\ then' = [then EXCEPT ![t] = "burst"]
  /\ UNCHANGED <<shared, tag, pending, copy, acks>>

\* register_deployment: the new object list replaces the registry.
RegisterDeployment(t) ==
  /\ up /\ pc[t] = "idle"
  /\ honey' \in Deployments
  /\ pc' = [pc EXCEPT ![t] = "copy"]
  /\ UNCHANGED <<up, boot, feed, acked, counter, disk, then, left, tag, pending,
                 copy, acks, history>>

Flag(t, events) ==
  /\ acked' = acked \cup events
  /\ acks' = [acks EXCEPT ![t] = events]
  /\ pc' = [pc EXCEPT ![t] = "copy"]
  /\ UNCHANGED <<up, boot, honey, feed, counter, disk, then, left, tag, pending,
                 copy, history>>

\* acknowledge(uid): flags the first event with that uid, flagged or not.
Acknowledge(t) ==
  /\ up /\ pc[t] = "idle"
  /\ \E i \in DOMAIN feed :
       /\ \A j \in 1 .. i - 1 : feed[j].uid # feed[i].uid
       /\ Flag(t, {feed[i]})

\* acknowledge_all: persists only when it flagged something.
AcknowledgeAll(t) ==
  /\ up /\ pc[t] = "idle"
  /\ Unacknowledged # {}
  /\ Flag(t, Unacknowledged)

-----------------------------------------------------------------------------
(***************************************************************************)
(* Sections of ingest_events / record_event and of simulate                *)
(***************************************************************************)

\* record_event reads the registry in a section of its own ...
Correlate(t) ==
  /\ pc[t] = "item" /\ left[t] > 0
  /\ \E target \in Decoys \cup {NoDecoy} :
       tag' = [tag EXCEPT ![t] = Correlated(target)]
  /\ left' = [left EXCEPT ![t] = @ - 1]
  /\ pc' = [pc EXCEPT ![t] = "append"]
  /\ UNCHANGED <<shared, then, pending, copy, acks, history>>

\* ... and an item without event_id, actor or target is skipped.
SkipInvalidItem(t) ==
  /\ pc[t] = "item" /\ left[t] > 0
  /\ left' = [left EXCEPT ![t] = @ - 1]
  /\ UNCHANGED <<shared, pc, then, tag, pending, copy, acks, history>>

IngestReturns(t) ==
  /\ pc[t] = "item" /\ left[t] = 0
  /\ pc' = [pc EXCEPT ![t] = "idle"]
  /\ then' = [then EXCEPT ![t] = "idle"]
  /\ UNCHANGED <<shared, left, tag, pending, copy, acks, history>>

\* Mutant: a burst draws one uid.
BadAppendEvents(t, choice) ==
  LET events == Issued(counter, choice)
  IN /\ feed' = Newest(feed \o events)
     /\ counter' = counter + 1
     /\ pending' = [pending EXCEPT ![t] = events]
     /\ pc' = [pc EXCEPT ![t] = "notify"]
     /\ UNCHANGED <<up, boot, honey, acked, disk, copy, acks, history>>

\* uids are drawn and events appended under one hold of the engine lock.
AppendEvents(t, choice) ==
  LET events == Issued(counter, choice)
  IN /\ feed' = Newest(feed \o events)
     /\ counter' = counter + Len(choice)
     /\ pending' = [pending EXCEPT ![t] = events]
     /\ pc' = [pc EXCEPT ![t] = "notify"]
     /\ UNCHANGED <<up, boot, honey, acked, disk, copy, acks, history>>

RecordEvent(t) ==
  /\ pc[t] = "append"
  /\ AppendEvents(t, <<tag[t]>>)
  /\ tag' = [tag EXCEPT ![t] = NoDecoy]
  /\ UNCHANGED <<then, left>>

\* _ensure_registered: with decoys registered, or without a deployment in the
\* operator's session, simulate goes on at once ...
EnsureRegistered(t) ==
  /\ pc[t] = "ensure"
  /\ \/ pc' = [pc EXCEPT ![t] = "burst"]
     \/ /\ honey = {}
        /\ pc' = [pc EXCEPT ![t] = "register"]
  /\ UNCHANGED <<shared, then, left, tag, pending, copy, acks, history>>

\* ... otherwise it first registers the deployment of the session.
RegisterFromSession(t) ==
  /\ pc[t] = "register"
  /\ honey' \in Deployments
  /\ pc' = [pc EXCEPT ![t] = "copy"]
  /\ UNCHANGED <<up, boot, feed, acked, counter, disk, then, left, tag, pending,
                 copy, acks, history>>

\* simulate_honey_interaction: a burst over the registered decoys ...
SimulateBurst(t) ==
  /\ pc[t] = "burst"
  /\ honey # {}
  /\ \E choice \in [1 .. Clamp(left[t]) -> honey] : AppendEvents(t, choice)
  /\ then' = [then EXCEPT ![t] = "idle"]
  /\ left' = [left EXCEPT ![t] = 0]
  /\ UNCHANGED tag

\* ... or the ValueError the route turns into a failure answer.
SimulateRefused(t) ==
  /\ pc[t] = "burst"
  /\ honey = {}
  /\ pc' = [pc EXCEPT ![t] = "idle"]
  /\ then' = [then EXCEPT ![t] = "idle"]
  /\ left' = [left EXCEPT ![t] = 0]
  /\ UNCHANGED <<shared, tag, pending, copy, acks, history>>

\* _notify hands one event to the subscribers, before anything is persisted.
Notify(t) ==
  /\ pc[t] = "notify"
  /\ published' = published \cup {Head(pending[t])}
  /\ pending' = [pending EXCEPT ![t] = Tail(@)]
  /\ pc' = [pc EXCEPT ![t] = IF pending'[t] = <<>> THEN "copy" ELSE "notify"]
  /\ UNCHANGED <<shared, then, left, tag, copy, acks, offered, answered>>

-----------------------------------------------------------------------------
(***************************************************************************)
(* _persist and save_snapshot                                              *)
(***************************************************************************)

\* _persist copies lists and counter under the engine lock.  The list holds
\* references: the flags are read later.
CopyState(t) ==
  /\ pc[t] = "copy"
  /\ copy' = [copy EXCEPT ![t] =
                [counter |-> counter, honey |-> honey, events |-> feed,
                 acked |-> {}]]
  /\ pc' = [pc EXCEPT ![t] = "save"]
  /\ UNCHANGED <<shared, then, left, tag, pending, acks, history>>

\* Mutant: no store lock.
BadStoreLockFree == TRUE

StoreLockFree == \A u \in Threads : pc[u] # "write"

\* save_snapshot takes the store lock and serialises the copied events, with
\* the flags the shared objects carry now ...
Serialise(t) ==
  /\ pc[t] = "save"
  /\ StoreLockFree
  /\ copy' = [copy EXCEPT ![t].acked = acked \cap Range(copy[t].events)]
  /\ pc' = [pc EXCEPT ![t] = "write"]
  /\ UNCHANGED <<shared, then, left, tag, pending, acks, history>>

\* Mutant: a call saves again after it has saved.
BadReplaceFile(t) ==
  /\ pc[t] = "write"
  /\ disk' = copy[t]
  /\ copy' = [copy EXCEPT ![t] = Blank]
  /\ answered' = answered \cup acks[t]
  /\ acks' = [acks EXCEPT ![t] = {}]
  /\ pc' = [pc EXCEPT ![t] = "copy"]
  /\ UNCHANGED <<up, boot, honey, feed, acked, counter, then, left, tag, pending,
                 offered, published>>

\* ... and replaces the file, releases the lock and lets the call go on.
ReplaceFile(t) ==
  /\ pc[t] = "write"
  /\ disk' = copy[t]
  /\ copy' = [copy EXCEPT ![t] = Blank]
  /\ answered' = answered \cup acks[t]
  /\ acks' = [acks EXCEPT ![t] = {}]
  /\ pc' = [pc EXCEPT ![t] = then[t]]
  /\ UNCHANGED <<up, boot, honey, feed, acked, counter, then, left, tag, pending,
                 offered, published>>

\* The file cannot be written: the exception ends the call.  Memory keeps what
\* the call did; nothing more of it is done, and it is not confirmed.
SaveFails(t) ==
  /\ pc[t] = "write"
  /\ pc' = [pc EXCEPT ![t] = "idle"]
  /\ then' = [then EXCEPT ![t] = "idle"]
  /\ left' = [left EXCEPT ![t] = 0]
  /\ copy' = [copy EXCEPT ![t] = Blank]
  /\ acks' = [acks EXCEPT ![t] = {}]
  /\ UNCHANGED <<shared, tag, pending, history>>

-----------------------------------------------------------------------------
Call(t) ==
  \/ IngestCall(t) \/ SimulateCall(t) \/ RegisterDeployment(t)
  \/ Acknowledge(t) \/ AcknowledgeAll(t)

Section(t) ==
  \/ Correlate(t) \/ SkipInvalidItem(t) \/ IngestReturns(t) \/ RecordEvent(t)
  \/ EnsureRegistered(t) \/ RegisterFromSession(t)
  \/ SimulateBurst(t) \/ SimulateRefused(t) \/ Notify(t)
  \/ CopyState(t) \/ Serialise(t) \/ ReplaceFile(t) \/ SaveFails(t)

Next ==
  \/ BootRestore \/ BootSeed \/ Crash
  \/ \E t \in Threads : Call(t) \/ Section(t)

Spec == Init /\ [][Next]_vars

\* Every request runs to its end while the process runs: the section a thread
\* is in is always taken, and a thread waiting for the store lock is not
\* passed over for ever.
Fairness == \A t \in Threads : SF_vars(Section(t))

FairSpec == Spec /\ Fairness

-----------------------------------------------------------------------------
(***************************************************************************)
(* Properties                                                              *)
(***************************************************************************)

Places == {"idle", "item", "append", "ensure", "register", "burst", "notify",
           "copy", "save", "write"}

\* The state has the types the code gives it.
TypeOK ==
  /\ up \in BOOLEAN /\ boot \in 0 .. MaxBoots
  /\ honey \subseteq Decoys
  /\ feed \in Seq(Event) /\ acked \subseteq Event /\ counter \in Nat
  /\ disk \in Snapshot
  /\ pc \in [Threads -> Places]
  /\ then \in [Threads -> {"idle", "item", "burst"}]
  /\ left \in [Threads -> Int]
  /\ tag \in [Threads -> Decoys \cup {NoDecoy}]
  /\ pending \in [Threads -> Seq(Event)]
  /\ copy \in [Threads -> Snapshot]
  /\ acks \in [Threads -> SUBSET Event]
  /\ offered \in Nat /\ published \subseteq Event /\ answered \subseteq Event

\* A list of events is the window of the newest uids up to its counter.
IsWindow(s, n) ==
  /\ Len(s) = IF n > MaxEvents THEN MaxEvents ELSE n
  /\ \A i \in DOMAIN s : s[i].uid = n - Len(s) + i

\* The feed never skips, repeats or reorders a uid and never drops an event
\* while there is room, across trimming, bursts of several threads and
\* restarts; and so does every state a restart could bring back.
FeedIsNewestWindow ==
  /\ IsWindow(feed, counter)
  /\ IsWindow(disk.events, disk.counter)

\* The feed lists the event, or MAX_EVENTS newer ones have displaced it.
InHistory(e) == e \in Range(feed) \/ e.uid <= counter - MaxEvents

\* What the file holds is part of the running history: an event of the file is
\* the very event the feed lists under that uid, or one the feed has displaced.
\* A stale copy may be old, it never comes from another history.
FileBelongsToHistory ==
  up => /\ disk.counter <= counter
        /\ \A e \in Range(disk.events) : InHistory(e)

\* A confirmed acknowledgement is never undone: while the event exists, in the
\* feed or in the file a restart reads, its flag stays set.  Stale copies of
\* the feed are written after newer ones, yet share the event objects.
AcknowledgementSticks ==
  \A e \in answered :
    /\ e \in Range(feed) => e \in acked
    /\ e \in Range(disk.events) => e \in disk.acked

\* An alert pushed to the live stream by this process is in the feed the
\* operator then opens, unless MAX_EVENTS newer events displaced it.
PublishedIsListed ==
  \A e \in published :
    (up /\ e.boot = boot) => InHistory(e)

\* Every call returns: the engine lock and the store lock never leave a
\* handler waiting for ever.
CallsReturn == \A t \in Threads : pc[t] # "idle" ~> pc[t] = "idle"

\* The feed with its file implements the durable log of module EventLog: however
\* saves of several threads cross, only the newest events are kept, a restart
\* continues a state of the history, and a saved log is never begun anew.
Log == INSTANCE EventLog WITH
  Capacity <- MaxEvents,
  running  <- up,
  log      <- Range(feed),
  counter  <- counter,
  saved    <- [counter |-> disk.counter, events |-> Range(disk.events)]

ImplementsLog == Log!Spec
=============================================================================
