------------------------------- MODULE EventLog -------------------------------
(***************************************************************************)
(* What the event feed promises, without threads, locks and copies: a log  *)
(* of events of which the Capacity newest are kept, and a durable state    *)
(* that may lag behind the log but is always a state of its history.       *)
(* A restart brings the durable state back and goes on from there; a log   *)
(* is begun only where nothing is saved.  Monitoring implements it.        *)
(***************************************************************************)
EXTENDS Integers

CONSTANT Capacity \* events kept

VARIABLES
  running, \* the process is up
  log,     \* the events kept, each with its uid
  counter, \* the newest uid
  saved    \* the durable state: [counter, events]

vars == <<running, log, counter, saved>>

\* The uids of a log are those of its newest events, each used once.
Window(events, n) ==
  /\ {e.uid : e \in events} = {i \in 1 .. n : i > n - Capacity}
  /\ \A e, f \in events : e.uid = f.uid => e = f

\* The event is in the log, or newer ones have displaced it.
Recorded(e) == e \in log \/ e.uid <= counter - Capacity

Init ==
  /\ running = FALSE
  /\ log = {} /\ counter = 0
  /\ saved = [counter |-> 0, events |-> {}]

\* A first start begins a log, and saves it.
Begin ==
  /\ ~running /\ saved.counter = 0
  /\ running' = TRUE
  /\ Window(log', counter')
  /\ saved' = [counter |-> counter', events |-> log']

\* Any later start continues the log that was saved.
Recover ==
  /\ ~running
  /\ running' = TRUE
  /\ log' = saved.events /\ counter' = saved.counter
  /\ UNCHANGED saved

\* New events get the next uids and displace the oldest ones.
Record ==
  /\ running
  /\ counter' > counter
  /\ Window(log', counter')
  /\ \A e \in log' : e.uid <= counter => e \in log
  /\ UNCHANGED <<running, saved>>

\* A state of the history of the log becomes durable, not always the last one.
Save ==
  /\ running
  /\ Window(saved'.events, saved'.counter)
  /\ saved'.counter <= counter
  /\ \A e \in saved'.events : Recorded(e)
  /\ UNCHANGED <<running, log, counter>>

\* The process stops; what is not saved is gone.
Stop ==
  /\ running
  /\ running' = FALSE
  /\ log' = {} /\ counter' = 0
  /\ UNCHANGED saved

Next == Begin \/ Recover \/ Record \/ Save \/ Stop

Spec == Init /\ [][Next]_vars
=============================================================================
