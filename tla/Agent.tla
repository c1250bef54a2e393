--------------------------------- MODULE Agent ---------------------------------
(***************************************************************************)
(* The Washu agent (washu_agent/) forwarding security events to the        *)
(* console, and the console's side of it: the ingest and heartbeat routes  *)
(* and the AgentRegistry.                                                  *)
(*                                                                         *)
(* The agent is one sequential process with two collectors, a file that    *)
(* somebody else writes and rotates, and the Windows Security log.  It     *)
(* moves its offsets when it reads and never sends a batch again.  A       *)
(* request it has given up (a timeout, or the agent was stopped) may still *)
(* be served: it is a stray.  The console may restart at any time.  What   *)
(* the feed does with an event is module Monitoring; here a batch is       *)
(* recorded in one step, wholly or, if recording fails, in part.           *)
(*                                                                         *)
(* Lines and records that are not watched events are left out: both        *)
(* collectors pass over them.  A line may reach the file in two writes.    *)
(***************************************************************************)
EXTENDS Integers, Sequences, FiniteSets, SequencesExt

CONSTANTS
  Limit,        \* largest batch the ingest route takes, 100 in the code
  WinlogMax,    \* max_events of WinlogCollector, 40 in the code
  MaxWritten,   \* bound: lines written to the file
  MaxRecorded,  \* bound: watched records in the Security log
  MaxRotations, \* bound: truncations or removals of the file
  MaxFaults,    \* bound: failures, timeouts and console restarts
  MaxStarts     \* bound: starts of the agent

ASSUME SizeAssumption == Limit \in Nat \ {0} /\ WinlogMax \in Nat \ {0}
ASSUME BoundAssumption ==
  {MaxWritten, MaxRecorded, MaxRotations, MaxFaults, MaxStarts} \subseteq Nat

VARIABLES
  log,       \* the lines of the event file, by number
  half,      \* the last line of the file is written only in part
  present,   \* the file exists
  recorded,  \* watched records in the Security log: 1 .. recorded
  written,   \* lines begun so far
  pc,        \* where the agent is; "hello", "ingest" and "beat": it waits
  offset,    \* _offset of FileEventCollector, two units to a line
  last,      \* _last_record of WinlogCollector, 0 for None
  forwarded, \* events_forwarded of AgentService
  status,    \* _last_status of AgentService
  overdue,   \* a heartbeat was due and failed
  net,       \* requests on their way or being served
  fed,       \* events recorded in the feed on behalf of the agent, in order
  registry,  \* the agent's record in AgentRegistry, status "none" if there is none
  saved,     \* the same in data/agents.json
  rotations, faults, starts,
  rotated,   \* the file was rotated and no poll has noticed
  excused    \* events known to be lost, each for a reason the action states

file == <<log, half, present, written>>
agent == <<pc, offset, last, forwarded, status, overdue>>
console == <<fed, registry, saved>>
bounds == <<rotations, faults, starts>>
ghosts == <<rotated, excused>>
vars == <<file, recorded, agent, net, console, bounds, ghosts>>

Line(n) == [source |-> "file", n |-> n]
WinRecord(n) == [source |-> "winlog", n |-> n]
Event == {Line(n) : n \in 1 .. MaxWritten} \cup {WinRecord(n) : n \in 1 .. MaxRecorded}
AgentRecord == [status : {"none", "ok", "error"}, count : Nat]

\* A request of the agent.  `awaited': the agent still waits for the answer.
Ingest(events) == [kind |-> "ingest", events |-> events, status |-> "none",
                   count |-> 0, stage |-> "sent", awaited |-> TRUE]
Heartbeat(s) == [kind |-> "heartbeat", events |-> <<>>, status |-> s,
                 count |-> forwarded, stage |-> "sent", awaited |-> TRUE]

Init ==
  /\ log = <<>> /\ half = FALSE /\ present = FALSE /\ written = 0
  /\ recorded = 0
  /\ pc = "down" /\ offset = 0 /\ last = 0 /\ forwarded = 0
  /\ status = "ok" /\ overdue = FALSE
  /\ net = <<>> /\ fed = <<>>
  /\ registry = [status |-> "none", count |-> 0] /\ saved = registry
  /\ rotations = 0 /\ faults = 0 /\ starts = 0
  /\ rotated = FALSE /\ excused = {}

Fault ==
  /\ faults < MaxFaults
  /\ faults' = faults + 1
  /\ UNCHANGED <<rotations, starts>>

-----------------------------------------------------------------------------
(***************************************************************************)
(* The sources of events                                                   *)
(***************************************************************************)

\* A line is written whole or begun; nobody begins one before the last is whole.
WriteLine ==
  /\ written < MaxWritten /\ ~half
  /\ written' = written + 1
  /\ log' = Append(log, written + 1)
  /\ present' = TRUE
  /\ half' \in BOOLEAN
  /\ UNCHANGED <<recorded, agent, net, console, bounds, ghosts>>

FinishLine ==
  /\ half /\ half' = FALSE
  /\ UNCHANGED <<log, present, written, recorded, agent, net, console, bounds, ghosts>>

LogRecord ==
  /\ recorded < MaxRecorded
  /\ recorded' = recorded + 1
  /\ UNCHANGED <<file, agent, net, console, bounds, ghosts>>

\* Bytes in the file, two units to a line.
Size == 2 * Len(log) - (IF half THEN 1 ELSE 0)

\* Lines the collector has not begun to read.  When it is not running, or has
\* not noticed that the file is another one, that is all of them.
Unread ==
  {log[i] : i \in {j \in DOMAIN log : pc = "down" \/ rotated \/ 2 * j - 1 > offset}}

\* The file is truncated, or renamed and later begun again.
Rotate ==
  /\ present /\ rotations < MaxRotations
  /\ rotations' = rotations + 1
  /\ present' \in BOOLEAN
  /\ log' = <<>> /\ half' = FALSE
  /\ rotated' = (pc # "down")
  /\ excused' = excused \cup {Line(n) : n \in Unread}
  /\ UNCHANGED <<written, recorded, agent, net, console, faults, starts>>

-----------------------------------------------------------------------------
(***************************************************************************)
(* The agent                                                               *)
(***************************************************************************)

\* FileEventCollector starts at the end of the file.  Mutant: at its beginning.
BadStartOffset == 0
StartOffset == IF present THEN Size ELSE 0

StartAgent ==
  /\ pc = "down" /\ starts < MaxStarts
  /\ starts' = starts + 1
  /\ pc' = "start"
  /\ offset' = StartOffset /\ last' = 0
  /\ forwarded' = 0 /\ status' = "ok" /\ overdue' = FALSE
  /\ rotated' = FALSE
  /\ excused' = excused \cup {Line(n) : n \in Unread}
  /\ UNCHANGED <<file, recorded, net, console, rotations, faults>>

\* Nobody waits for the requests any more.  Mutant: somebody still seems to.
BadStrays == net
Strays == [i \in DOMAIN net |-> [net[i] EXCEPT !.awaited = FALSE]]

\* Events of requests the agent waits for.
Awaited == UNION {Range(net[i].events) : i \in {j \in DOMAIN net : net[j].awaited}}

\* SIGTERM at the head of the loop, or a kill anywhere; the memory of the agent
\* is gone.
StopAgent ==
  /\ pc # "down"
  /\ pc' = "down"
  /\ offset' = 0 /\ last' = 0 /\ forwarded' = 0
  /\ status' = "ok" /\ overdue' = FALSE
  /\ net' = Strays
  /\ rotated' = FALSE
  /\ excused' = excused \cup Awaited
  /\ UNCHANGED <<file, recorded, console, bounds>>

Send(request, label) ==
  /\ net' = Append(net, request)
  /\ pc' = label

\* The heartbeat before the first cycle always says "ok".
SendHello ==
  /\ pc = "start"
  /\ Send(Heartbeat("ok"), "hello")
  /\ UNCHANGED <<file, recorded, offset, last, forwarded, status, overdue, console,
                 bounds, ghosts>>

\* Where FileEventCollector.poll begins: a file shorter than the offset is new.
\* Mutants: one of the same length counts as new; none does.
BadRewound == IF Size <= offset THEN 0 ELSE offset
DeafRewound == offset
Rewound == IF Size < offset THEN 0 ELSE offset

\* The whole lines from there to the end of the file, and the one cut short;
\* neither part of a line read in two parts is JSON.
FirstWhole == (Rewound + 1) \div 2 + 1
NewLines == SubSeq(log, FirstWhole, Size \div 2)
Torn == IF half /\ Size > Rewound THEN {Last(log)} ELSE {}

\* A file begun again that has grown past the offset is taken for the old one.
Hidden ==
  IF rotated /\ Size >= offset THEN {log[i] : i \in DOMAIN log \cap 1 .. FirstWhole - 1}
                               ELSE {}

\* WinlogCollector.poll reads from the newest record back to the oldest: what it
\* has after k of them.
ReadBack[k \in 0 .. recorded] ==
  IF k = 0 THEN [events |-> <<>>, last |-> last]
  ELSE LET read == ReadBack[k - 1]
           r == recorded + 1 - k
       IN  IF Len(read.events) = WinlogMax \/ r <= read.last THEN read
           ELSE [events |-> <<WinRecord(r)>> \o read.events, last |-> r]

ReadRecords == ReadBack[recorded]

\* A cycle: what was collected is sent at once; with nothing to send the cycle
\* is a success.
Forward(events) ==
  IF events = <<>>
  THEN pc' = "due" /\ status' = "ok" /\ UNCHANGED net
  ELSE Send(Ingest(events), "ingest") /\ UNCHANGED status

\* The file is read to its end, with lost records of the other collector.
ReadFile(lost) ==
  /\ offset' = IF present THEN Size ELSE offset
  /\ rotated' = (rotated /\ ~present)
  /\ excused' = excused \cup lost \cup
       (IF present THEN {Line(n) : n \in Torn \cup Hidden} ELSE {})

FileEvents == IF present THEN [i \in DOMAIN NewLines |-> Line(NewLines[i])] ELSE <<>>

Collect ==
  /\ pc = "poll"
  /\ ReadFile({})
  /\ last' = ReadRecords.last
  /\ Forward(FileEvents \o ReadRecords.events)
  /\ UNCHANGED <<file, recorded, forwarded, overdue, console, bounds>>

\* collect_events passes over a collector that raises.  The file's keeps its
\* offset, though not one beyond the end; the other may have moved on already.
FileRaises ==
  /\ pc = "poll" /\ present /\ Fault
  /\ offset' = Rewound
  /\ rotated' = (rotated /\ Rewound = offset)
  /\ last' = ReadRecords.last
  /\ Forward(ReadRecords.events)
  /\ UNCHANGED <<file, recorded, forwarded, overdue, console, excused>>

WinlogRaises ==
  /\ pc = "poll" /\ Fault
  /\ \/ last' = last /\ ReadFile({})
     \/ last' = ReadRecords.last /\ ReadFile(ToSet(ReadRecords.events))
  /\ Forward(FileEvents)
  /\ UNCHANGED <<file, recorded, forwarded, overdue, console>>

\* A heartbeat is due after its interval, and remains so when it fails.
SkipHeartbeat ==
  /\ pc = "due" /\ ~overdue
  /\ pc' = "poll"
  /\ UNCHANGED <<file, recorded, offset, last, forwarded, status, overdue, net, console,
                 bounds, ghosts>>

SendHeartbeat ==
  /\ pc = "due"
  /\ Send(Heartbeat(status), "beat")
  /\ UNCHANGED <<file, recorded, offset, last, forwarded, status, overdue, console,
                 bounds, ghosts>>

\* The agent gets the answer to the request it waits for.
Answer(i) ==
  /\ net[i].awaited /\ net[i].stage = "answer"
  /\ net' = RemoveAt(net, i)
  /\ pc' = IF pc = "ingest" THEN "due" ELSE "poll"
  /\ forwarded' = forwarded + Len(net[i].events)
  /\ status' = IF pc = "beat" THEN status ELSE "ok"
  /\ overdue' = (overdue /\ pc = "ingest")
  /\ UNCHANGED <<file, recorded, offset, last, console, bounds, ghosts>>

\* It gets an error instead, or none in time: the cycle goes on.
CycleFails ==
  /\ pc' = IF pc = "ingest" THEN "due" ELSE "poll"
  /\ status' = "error"
  /\ overdue' = (overdue \/ pc = "beat")
  /\ UNCHANGED <<offset, last, forwarded>>

-----------------------------------------------------------------------------
(***************************************************************************)
(* The console.  The lock of the registry makes each of its operations     *)
(* one step.                                                               *)
(***************************************************************************)

\* Request i ends in an error, which nobody gets if it is a stray.
EndInError(i) ==
  /\ net' = RemoveAt(net, i)
  /\ IF net[i].awaited THEN CycleFails ELSE UNCHANGED agent
  /\ excused' = excused \cup ToSet(net[i].events)

\* Request i has been served.
Served(i) ==
  net' = IF net[i].awaited THEN [net EXCEPT ![i].stage = "answer"] ELSE RemoveAt(net, i)

\* The console cannot be reached, or refuses the token or the form of an item.
Reject(i) ==
  /\ net[i].stage = "sent" /\ Fault
  /\ EndInError(i)
  /\ UNCHANGED <<file, recorded, console, rotated>>

\* note_ingest and heartbeat on the agent's record.
Noted(events) ==
  [status |-> IF registry.status = "none" THEN "ok" ELSE registry.status,
   count |-> registry.count + Len(events)]

\* Mutant: the count never goes down.
BadHeard(request) ==
  [status |-> request.status,
   count |-> IF request.count > registry.count THEN request.count ELSE registry.count]
Heard(request) == [status |-> request.status, count |-> request.count]

\* Mutant: a batch is counted before its size is looked at.
BadRefuse(i) ==
  /\ net[i].kind = "ingest" /\ net[i].stage = "sent" /\ Len(net[i].events) > Limit
  /\ EndInError(i)
  /\ registry' = Noted(net[i].events) /\ saved' = registry'
  /\ UNCHANGED <<file, recorded, fed, bounds, rotated>>
\* More than Limit events are refused.
Refuse(i) ==
  /\ net[i].kind = "ingest" /\ net[i].stage = "sent" /\ Len(net[i].events) > Limit
  /\ EndInError(i)
  /\ UNCHANGED <<file, recorded, console, bounds, rotated>>

RecordBatch(i) ==
  /\ net[i].kind = "ingest" /\ net[i].stage = "sent" /\ Len(net[i].events) <= Limit
  /\ fed' = fed \o net[i].events
  /\ net' = [net EXCEPT ![i].stage = "note"]
  /\ UNCHANGED <<file, recorded, agent, registry, saved, bounds, ghosts>>

\* Saving the feed fails after an event was appended: the batch ends there.
RecordFails(i) ==
  /\ net[i].kind = "ingest" /\ net[i].stage = "sent" /\ Len(net[i].events) <= Limit
  /\ Fault
  /\ \E k \in DOMAIN net[i].events : fed' = fed \o SubSeq(net[i].events, 1, k)
  /\ EndInError(i)
  /\ UNCHANGED <<file, recorded, registry, saved, rotated>>

NoteIngest(i) ==
  /\ net[i].stage = "note"
  /\ registry' = Noted(net[i].events) /\ saved' = registry'
  /\ Served(i)
  /\ UNCHANGED <<file, recorded, agent, fed, bounds, ghosts>>

ServeHeartbeat(i) ==
  /\ net[i].kind = "heartbeat" /\ net[i].stage = "sent"
  /\ registry' = Heard(net[i]) /\ saved' = registry'
  /\ Served(i)
  /\ UNCHANGED <<file, recorded, agent, fed, bounds, ghosts>>

\* agents.json cannot be written: memory has changed, the agent gets an error.
PersistFails(i) ==
  /\ Fault
  /\ \/ net[i].stage = "note" /\ registry' = Noted(net[i].events)
     \/ net[i].kind = "heartbeat" /\ net[i].stage = "sent" /\ registry' = Heard(net[i])
  /\ EndInError(i)
  /\ UNCHANGED <<file, recorded, fed, saved, rotated>>

\* The agent waits no longer: the request becomes a stray.
TimeOut(i) ==
  /\ net[i].awaited /\ Fault
  /\ net' = IF net[i].stage = "answer" THEN RemoveAt(net, i)
                                       ELSE [net EXCEPT ![i].awaited = FALSE]
  /\ CycleFails
  /\ excused' = excused \cup Awaited
  /\ UNCHANGED <<file, recorded, console, rotated>>

\* The registry comes back from its file; every request is cut off.
RestartConsole ==
  /\ Fault
  /\ net' = <<>>
  /\ registry' = saved
  /\ IF \E i \in DOMAIN net : net[i].awaited THEN CycleFails ELSE UNCHANGED agent
  /\ excused' = excused \cup Awaited
  /\ UNCHANGED <<file, recorded, fed, saved, rotated>>

-----------------------------------------------------------------------------
Sources == WriteLine \/ FinishLine \/ LogRecord \/ Rotate

Cycle == Collect \/ SkipHeartbeat \/ SendHello

Console(i) == Refuse(i) \/ RecordBatch(i) \/ NoteIngest(i) \/ ServeHeartbeat(i) \/ Answer(i)

Failure ==
  \/ FileRaises \/ WinlogRaises \/ RestartConsole
  \/ \E i \in DOMAIN net : Reject(i) \/ RecordFails(i) \/ PersistFails(i) \/ TimeOut(i)

Next ==
  \/ Sources \/ StartAgent \/ StopAgent
  \/ Cycle \/ SendHeartbeat
  \/ \E i \in DOMAIN net : Console(i)
  \/ Failure

Spec == Init /\ [][Next]_vars

\* The agent's loop and the handlers keep running.  Time passes in every cycle,
\* so a heartbeat is due again and again.
Fairness ==
  /\ WF_vars(Cycle)
  /\ SF_vars(SendHeartbeat)
  /\ WF_vars(\E i \in DOMAIN net : Console(i))

FairSpec == Spec /\ Fairness

-----------------------------------------------------------------------------
(***************************************************************************)
(* Properties                                                              *)
(***************************************************************************)

Request ==
  [kind : {"ingest", "heartbeat"}, events : Seq(Event), status : {"none", "ok", "error"},
   count : Nat, stage : {"sent", "note", "answer"}, awaited : BOOLEAN]

\* Types; and the agent waits for one request exactly when its loop says so, as
\* the sequential client of service.py must.
TypeOK ==
  /\ log \in Seq(1 .. MaxWritten) /\ half \in BOOLEAN /\ present \in BOOLEAN
  /\ written \in 0 .. MaxWritten /\ recorded \in 0 .. MaxRecorded
  /\ pc \in {"down", "start", "hello", "poll", "ingest", "due", "beat"}
  /\ offset \in 0 .. 2 * MaxWritten /\ last \in 0 .. MaxRecorded
  /\ forwarded \in Nat /\ status \in {"ok", "error"} /\ overdue \in BOOLEAN
  /\ net \in Seq(Request) /\ fed \in Seq(Event)
  /\ registry \in AgentRecord /\ saved \in AgentRecord
  /\ rotations \in 0 .. MaxRotations /\ faults \in 0 .. MaxFaults
  /\ starts \in 0 .. MaxStarts
  /\ rotated \in BOOLEAN /\ excused \subseteq Event
  /\ Cardinality({i \in DOMAIN net : net[i].awaited})
       = (IF pc \in {"hello", "ingest", "beat"} THEN 1 ELSE 0)

Times(e) == Cardinality({i \in DOMAIN fed : fed[i] = e})

\* However requests time out, are served late or fail half way, no line of the
\* file is recorded twice; a record of the Security log at most once per start
\* of the agent, which forgets _last_record.
NothingIsFedTwice ==
  /\ \A n \in 1 .. written : Times(Line(n)) <= 1
  /\ \A n \in 1 .. recorded : Times(WinRecord(n)) <= starts

\* A batch the agent waits for, not yet recorded, is newer than every line in
\* the feed and in order: only strays can bring events out of order.
AwaitedBatchIsNewest ==
  \A i \in DOMAIN net :
    LET batch == net[i].events
    IN  net[i].awaited /\ net[i].stage = "sent" =>
          \A k \in {j \in DOMAIN batch : batch[j].source = "file"} :
            /\ \A j \in 1 .. k - 1 : batch[j].source = "file" => batch[j].n < batch[k].n
            /\ \A e \in ToSet(fed) : e.source = "file" => e.n < batch[k].n

\* A line of the file is in the feed, in the batch at hand or still to be read,
\* unless it was written before the agent started, read in two parts, rotated
\* away unread, behind the offset in a new file, or in a request that failed.
LossIsExplained ==
  \A n \in 1 .. written :
    Line(n) \in ToSet(fed) \cup excused \cup Awaited \cup {Line(m) : m \in Unread}

\* Neither the agent's count nor the registry's, in memory or on disk, exceeds
\* the events recorded, whatever order heartbeats and ingests are served in.
CountsAreBacked ==
  \A count \in {forwarded, registry.count, saved.count} : count <= Len(fed)

\* Once failures cease and the agent stays up, it has read the file to its end
\* and the registry shows it well and with the agent's own count.
AgentSettles ==
  <>[](pc # "down") =>
    <>[](/\ present => offset = Size
         /\ registry = [status |-> "ok", count |-> forwarded])

\* working.md: WinlogCollector tracks the last record number to avoid sending
\* again; its docstring: it reads recent events.  So what it leaves behind was
\* sent, or its request failed.
RecordsAreNotSkipped ==
  WinlogMax >= MaxRecorded =>
    \A n \in 1 .. last : WinRecord(n) \in ToSet(fed) \cup Awaited \cup excused
=============================================================================
