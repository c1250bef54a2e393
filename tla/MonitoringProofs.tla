--------------------------- MODULE MonitoringProofs ---------------------------
(***************************************************************************)
(* Theorems of Monitoring for every number of threads, every capacity of   *)
(* the feed and every size of a burst.  Each invariant is proved on top of *)
(* the ones before it:                                                     *)
(*   Inv1  types and life cycle (calls run only while the process is up)   *)
(*   Inv2  every list of events, copies included, is a window of uids      *)
(*   Inv3  every event kept anywhere belongs to the running history        *)
(*   Inv4  flags of confirmed acknowledgements                             *)
(***************************************************************************)
EXTENDS Monitoring, TLAPS

Lifecycle ==
  /\ up => boot \in 1 .. MaxBoots
  /\ ~up => boot < MaxBoots /\ pc = Idle /\ feed = <<>> /\ counter = 0
  /\ \A t \in Threads : pc[t] = "notify" => pending[t] # <<>>

Inv1 == TypeOK /\ Lifecycle

Inv2 ==
  /\ IsWindow(feed, counter)
  /\ IsWindow(disk.events, disk.counter)
  /\ \A t \in Threads : IsWindow(copy[t].events, copy[t].counter)

Tags == Decoys \cup {NoDecoy}

USE SizeAssumption, BoundAssumption

-----------------------------------------------------------------------------
(***************************************************************************)
(* Lemmas about the helpers                                                *)
(***************************************************************************)

\* Newest returns a list of the same kind.
LEMMA NewestType ==
  ASSUME NEW S, NEW s \in Seq(S)
  PROVE  Newest(s) \in Seq(S)
BY DEF Newest

\* What Newest keeps and where.
LEMMA NewestParts ==
  ASSUME NEW S, NEW s \in Seq(S)
  PROVE  /\ Len(s) <= MaxEvents => Newest(s) = s
         /\ Len(s) > MaxEvents =>
              /\ Len(Newest(s)) = MaxEvents
              /\ \A i \in 1 .. MaxEvents :
                   Newest(s)[i] = s[i + (Len(s) - MaxEvents)]
BY DEF Newest

LEMMA ConcatParts ==
  ASSUME NEW S, NEW a \in Seq(S), NEW b \in Seq(S)
  PROVE  /\ a \o b \in Seq(S)
         /\ Len(a \o b) = Len(a) + Len(b)
         /\ \A i \in 1 .. Len(a) : (a \o b)[i] = a[i]
         /\ \A i \in 1 .. Len(b) : (a \o b)[Len(a) + i] = b[i]
OBVIOUS

\* Issued numbers its events consecutively.
LEMMA IssuedType ==
  ASSUME boot \in 1 .. MaxBoots, NEW n \in Nat, NEW choice \in Seq(Tags)
  PROVE  /\ Issued(n, choice) \in Seq(Event)
         /\ Len(Issued(n, choice)) = Len(choice)
         /\ \A i \in 1 .. Len(choice) :
              /\ Issued(n, choice)[i].uid = n + i
              /\ Issued(n, choice)[i].boot = boot
<1>1. DOMAIN choice = 1 .. Len(choice) /\ Len(choice) \in Nat
  OBVIOUS
<1>2. \A i \in 1 .. Len(choice) : Issued(n, choice)[i] \in Event
  BY <1>1 DEF Issued, Event, Tags
<1>3. Issued(n, choice) = [i \in 1 .. Len(choice) |-> Issued(n, choice)[i]]
  BY <1>1 DEF Issued
<1>4. Issued(n, choice) \in Seq(Event)
  BY <1>1, <1>2, <1>3
<1>5. QED
  BY <1>1, <1>3, <1>4 DEF Issued

\* A burst over the registered decoys is a list of tags.
LEMMA ChoiceType ==
  ASSUME honey \subseteq Decoys, NEW k \in Nat, NEW choice \in [1 .. k -> honey]
  PROVE  choice \in Seq(Tags) /\ Len(choice) = k
BY DEF Tags

\* What is deployed names decoys.
LEMMA DeploymentType == ASSUME NEW D \in Deployments PROVE D \subseteq Decoys
BY DecoyAssumption

LEMMA ClampType == ASSUME NEW n \in Int PROVE Clamp(n) \in Nat \ {0}
BY DEF Clamp

\* Restoring a window gives it back, with its own counter.
LEMMA RestoreWindow ==
  ASSUME NEW s \in Seq(Event), NEW n \in Nat, IsWindow(s, n)
  PROVE  Newest(s) = s /\ RestoredCounter(n, s) = n
<1> DEFINE S == {n} \cup {e.uid : e \in Range(s)}
<1>1. Len(s) <= MaxEvents
  BY DEF IsWindow
<1>2. Newest(s) = s
  BY <1>1, NewestParts
<1>3. \A i \in DOMAIN s : s[i].uid \in Nat /\ s[i].uid <= n
  <2>1. \A i \in DOMAIN s : s[i].uid = n - Len(s) + i /\ i \in 1 .. Len(s)
    BY DEF IsWindow
  <2>2. \A i \in DOMAIN s : s[i] \in Event
    OBVIOUS
  <2>3. QED
    BY <2>1, <2>2 DEF Event
<1>4. n \in S /\ \A x \in S : x \in Nat /\ x <= n
  BY <1>3 DEF Range
<1> HIDE DEF S
<1>5. \A m \in S : (\A x \in S : m >= x) => m = n
  BY <1>4
<1>6. n \in S /\ \A x \in S : n >= x
  BY <1>4
<1>7. (CHOOSE m \in S : \A x \in S : m >= x) = n
  BY <1>5, <1>6
<1>8. RestoredCounter(n, s) = n
  BY <1>7 DEF RestoredCounter, Max, S
<1>9. QED
  BY <1>2, <1>8

-----------------------------------------------------------------------------
(***************************************************************************)
(* Types and life cycle                                                    *)
(***************************************************************************)

LEMMA BlankType == Blank \in Snapshot
BY DEF Blank, Snapshot

\* The locals of a process with no call running.
LEMMA LocalsType ==
  /\ Idle \in [Threads -> Places]
  /\ Idle \in [Threads -> {"idle", "item", "burst"}]
  /\ [t \in Threads |-> 0] \in [Threads -> Int]
  /\ [t \in Threads |-> NoDecoy] \in [Threads -> Decoys \cup {NoDecoy}]
  /\ [t \in Threads |-> <<>>] \in [Threads -> Seq(Event)]
  /\ [t \in Threads |-> Blank] \in [Threads -> Snapshot]
  /\ [t \in Threads |-> {}] \in [Threads -> SUBSET Event]
  /\ \A t \in Threads : Idle[t] = "idle"
BY BlankType DEF Idle, Places

LEMMA InitInv1 == Init => Inv1
<1> SUFFICES ASSUME Init PROVE Inv1
  OBVIOUS
<1>1. TypeOK
  <2>1. disk \in Snapshot /\ feed \in Seq(Event) /\ boot \in 0 .. MaxBoots
    BY BlankType DEF Init
  <2>2. /\ up \in BOOLEAN /\ honey \subseteq Decoys /\ acked \subseteq Event
        /\ counter \in Nat /\ offered \in Nat
        /\ published \subseteq Event /\ answered \subseteq Event
    BY DEF Init
  <2>3. /\ pc \in [Threads -> Places]
        /\ then \in [Threads -> {"idle", "item", "burst"}]
        /\ left \in [Threads -> Int]
        /\ tag \in [Threads -> Decoys \cup {NoDecoy}]
        /\ pending \in [Threads -> Seq(Event)]
        /\ copy \in [Threads -> Snapshot]
        /\ acks \in [Threads -> SUBSET Event]
    BY LocalsType, Zenon DEF Init
  <2>4. QED
    BY <2>1, <2>2, <2>3 DEF TypeOK
<1>2. Lifecycle
  BY LocalsType DEF Init, Lifecycle
<1>3. QED
  BY <1>1, <1>2 DEF Inv1

LEMMA BootInv1 == Inv1 /\ Inv2 /\ (BootRestore \/ BootSeed \/ Crash) => Inv1'
<1> SUFFICES ASSUME Inv1, Inv2, BootRestore \/ BootSeed \/ Crash PROVE Inv1'
  OBVIOUS
<1> USE DEF Inv1, TypeOK, Lifecycle
<1>1. CASE BootRestore
  <2>1. disk.events \in Seq(Event) /\ disk.counter \in Nat
        /\ disk.honey \subseteq Decoys /\ disk.acked \subseteq Event
    BY DEF Snapshot
  <2>2. Newest(disk.events) \in Seq(Event)
    BY <2>1, NewestType
  <2>3. counter' \in Nat
    <3>1. IsWindow(disk.events, disk.counter)
      BY DEF Inv2
    <3>2. /\ Newest(disk.events) = disk.events
          /\ RestoredCounter(disk.counter, disk.events) = disk.counter
      BY <2>1, <3>1, RestoreWindow
    <3>3. QED
      BY <1>1, <2>1, <3>2 DEF BootRestore
  <2>4. QED
    BY <1>1, <2>1, <2>2, <2>3 DEF BootRestore, locals, history
<1>2. CASE BootSeed
  <2>1. boot + 1 \in 1 .. MaxBoots
    BY <1>2 DEF BootSeed
  <2>2. feed' \in Seq(Event)
    <3>1. \A i \in 1 .. SeedCount :
            [boot |-> boot + 1, uid |-> i, decoy |-> NoDecoy] \in Event
      BY <2>1 DEF Event
    <3>2. [i \in 1 .. SeedCount |->
             [boot |-> boot + 1, uid |-> i, decoy |-> NoDecoy]] \in Seq(Event)
      BY <3>1
    <3>3. QED
      BY <1>2, <3>2 DEF BootSeed
  <2>3. disk' = [counter |-> SeedCount, honey |-> {}, events |-> feed', acked |-> {}]
    BY <1>2 DEF BootSeed, Blank
  <2>4. disk' \in Snapshot
    BY <2>2, <2>3 DEF Snapshot
  <2>5. QED
    BY <1>2, <2>1, <2>2, <2>4 DEF BootSeed, locals, history
<1>3. CASE Crash
  <2>1. /\ pc' \in [Threads -> Places]
        /\ then' \in [Threads -> {"idle", "item", "burst"}]
        /\ left' \in [Threads -> Int]
        /\ tag' \in [Threads -> Decoys \cup {NoDecoy}]
        /\ pending' \in [Threads -> Seq(Event)]
        /\ copy' \in [Threads -> Snapshot]
        /\ acks' \in [Threads -> SUBSET Event]
    BY <1>3, LocalsType, Zenon DEF Crash, ResetLocals
  <2>2. pc' = Idle /\ \A t \in Threads : pc'[t] = "idle"
    BY <1>3, LocalsType, Zenon DEF Crash, ResetLocals
  <2>3. QED
    <3>1. /\ up' = FALSE /\ honey' = {} /\ feed' = <<>> /\ acked' = {}
          /\ counter' = 0 /\ boot < MaxBoots
          /\ UNCHANGED <<boot, disk, offered, published, answered>>
      BY <1>3 DEF Crash, history
    <3>2. Lifecycle'
      BY <2>2, <3>1 DEF Idle
    <3>3. feed' \in Seq(Event)
      BY <3>1
    <3>4. TypeOK'
      BY <2>1, <3>1, <3>3
    <3>5. QED
      BY <3>2, <3>4
<1>4. QED
  BY <1>1, <1>2, <1>3

LEMMA CallInv1 == ASSUME Inv1, NEW t \in Threads, Call(t) PROVE Inv1'
<1> USE DEF Inv1, TypeOK, Lifecycle, Places
<1>1. CASE IngestCall(t)
  BY <1>1 DEF IngestCall, Offer, shared
<1>2. CASE SimulateCall(t)
  <2>1. PICK n \in SimulateCounts :
          Offer(Clamp(n)) /\ left' = [left EXCEPT ![t] = n]
    BY <1>2 DEF SimulateCall
  <2>2. n \in Int /\ Clamp(n) \in Nat
    BY <2>1, ClampType
  <2>3. QED
    BY <1>2, <2>1, <2>2 DEF SimulateCall, Offer, shared
<1>3. CASE RegisterDeployment(t)
  <2>1. honey' \subseteq Decoys
    BY <1>3, DeploymentType DEF RegisterDeployment
  <2>2. QED
    BY <1>3, <2>1 DEF RegisterDeployment, history
<1>4. ASSUME NEW E \in SUBSET Event, Flag(t, E), up, pc[t] = "idle"
      PROVE  Inv1'
  BY <1>4 DEF Flag, history
<1>5. CASE Acknowledge(t)
  BY <1>4, <1>5 DEF Acknowledge
<1>6. CASE AcknowledgeAll(t)
  <2>1. Unacknowledged \subseteq Event
    BY DEF Unacknowledged, Range
  <2>2. QED
    BY <1>4, <1>6, <2>1 DEF AcknowledgeAll
<1>7. QED
  BY <1>1, <1>2, <1>3, <1>5, <1>6 DEF Call

\* A section runs only while the process is up.
LEMMA SectionUp == ASSUME Inv1, NEW t \in Threads, Section(t) PROVE up
<1>1. pc[t] # "idle"
  BY DEF Section, Correlate, SkipInvalidItem, IngestReturns, RecordEvent,
         SimulateBurst, SimulateRefused, EnsureRegistered, RegisterFromSession,
         Notify, CopyState, Serialise, ReplaceFile, SaveFails
<1>2. QED
  BY <1>1 DEF Inv1, Lifecycle, Idle

LEMMA AppendInv1 ==
  ASSUME Inv1, up, NEW t \in Threads, NEW choice \in Seq(Tags),
         choice # <<>>, AppendEvents(t, choice)
  PROVE  /\ feed' \in Seq(Event) /\ counter' \in Nat
         /\ pending' \in [Threads -> Seq(Event)]
         /\ pc' \in [Threads -> Places]
         /\ \A u \in Threads : pc'[u] = "notify" => pending'[u] # <<>>
         /\ UNCHANGED <<up, boot, honey, acked, disk, copy, acks, history>>
<1>1. Issued(counter, choice) \in Seq(Event)
  BY IssuedType DEF Inv1, TypeOK, Lifecycle
<1>2. feed \o Issued(counter, choice) \in Seq(Event)
  BY <1>1 DEF Inv1, TypeOK
<1>3. Newest(feed \o Issued(counter, choice)) \in Seq(Event)
  BY <1>2, NewestType
<1>4. Len(choice) \in Nat \ {0} /\ Issued(counter, choice) # <<>>
  BY <1>1, IssuedType DEF Inv1, TypeOK, Lifecycle
<1>5. pc' \in [Threads -> Places] /\ pending' \in [Threads -> Seq(Event)]
  BY <1>1 DEF AppendEvents, Inv1, TypeOK, Places
<1>6. \A u \in Threads : pc'[u] = "notify" => pending'[u] # <<>>
  BY <1>4 DEF AppendEvents, Inv1, TypeOK, Lifecycle
<1>7. QED
  BY <1>3, <1>4, <1>5, <1>6 DEF AppendEvents, Inv1, TypeOK

LEMMA SectionInv1 == ASSUME Inv1, NEW t \in Threads, Section(t) PROVE Inv1'
<1>0. up
  BY SectionUp
<1> USE <1>0 DEF Inv1, TypeOK, Lifecycle
<1>1. CASE Correlate(t)
  BY <1>1 DEF Correlate, Correlated, shared, history, Places
<1>2. CASE SkipInvalidItem(t)
  BY <1>2 DEF SkipInvalidItem, shared, history
<1>3. CASE IngestReturns(t)
  BY <1>3 DEF IngestReturns, shared, history, Places
<1>4. CASE RecordEvent(t)
  <2>1. <<tag[t]>> \in Seq(Tags) /\ <<tag[t]>> # <<>>
    BY DEF Tags
  <2>2. /\ feed' \in Seq(Event) /\ counter' \in Nat
        /\ pending' \in [Threads -> Seq(Event)]
        /\ pc' \in [Threads -> Places]
        /\ \A u \in Threads : pc'[u] = "notify" => pending'[u] # <<>>
        /\ UNCHANGED <<up, boot, honey, acked, disk, copy, acks, history>>
    BY <1>4, <2>1, AppendInv1 DEF RecordEvent
  <2>3. then' = then /\ left' = left /\ tag' = [tag EXCEPT ![t] = NoDecoy]
    BY <1>4 DEF RecordEvent
  <2>4. QED
    BY <2>2, <2>3 DEF history
<1>5. CASE SimulateBurst(t)
  <2>1. PICK choice \in [1 .. Clamp(left[t]) -> honey] : AppendEvents(t, choice)
    BY <1>5 DEF SimulateBurst
  <2>2. choice \in Seq(Tags) /\ choice # <<>>
    <3>1. Clamp(left[t]) \in Nat \ {0}
      BY ClampType
    <3>2. choice \in Seq(Tags) /\ Len(choice) = Clamp(left[t])
      BY <3>1, ChoiceType
    <3>3. QED
      BY <3>1, <3>2
  <2>3. /\ feed' \in Seq(Event) /\ counter' \in Nat
        /\ pending' \in [Threads -> Seq(Event)]
        /\ pc' \in [Threads -> Places]
        /\ \A u \in Threads : pc'[u] = "notify" => pending'[u] # <<>>
        /\ UNCHANGED <<up, boot, honey, acked, disk, copy, acks, history>>
    BY <2>1, <2>2, AppendInv1
  <2>4. /\ then' = [then EXCEPT ![t] = "idle"]
        /\ left' = [left EXCEPT ![t] = 0]
        /\ tag' = tag
    BY <1>5 DEF SimulateBurst
  <2>5. QED
    BY <2>3, <2>4 DEF history
<1>6. CASE SimulateRefused(t)
  BY <1>6 DEF SimulateRefused, shared, history, Places
<1>7. CASE EnsureRegistered(t)
  BY <1>7 DEF EnsureRegistered, shared, history, Places
<1>8. CASE RegisterFromSession(t)
  <2>1. honey' \subseteq Decoys
    BY <1>8, DeploymentType DEF RegisterFromSession
  <2>2. QED
    BY <1>8, <2>1 DEF RegisterFromSession, history, Places
<1>9. CASE Notify(t)
  <2>1. pending[t] \in Seq(Event) /\ pending[t] # <<>>
    BY <1>9 DEF Notify
  <2>2. \A s \in Seq(Event) :
          s # <<>> => Head(s) \in Event /\ Tail(s) \in Seq(Event)
    OBVIOUS
  <2>3. published' \subseteq Event
    BY <1>9, <2>1, <2>2 DEF Notify
  <2>4. pending' \in [Threads -> Seq(Event)] /\ pc' \in [Threads -> Places]
    BY <1>9, <2>1, <2>2 DEF Notify, Places
  <2>5. \A u \in Threads : pc'[u] = "notify" => pending'[u] # <<>>
    BY <1>9 DEF Notify
  <2>6. QED
    BY <1>9, <2>3, <2>4, <2>5 DEF Notify, shared
<1>10. CASE CopyState(t)
  BY <1>10 DEF CopyState, shared, history, Places, Snapshot
<1>11. CASE Serialise(t)
  BY <1>11 DEF Serialise, shared, history, Places, Snapshot
<1>12. CASE ReplaceFile(t)
  BY <1>12, BlankType DEF ReplaceFile, Places
<1>13. CASE SaveFails(t)
  BY <1>13, BlankType DEF SaveFails, shared, history, Places
<1>14. QED
  BY <1>1, <1>2, <1>3, <1>4, <1>5, <1>6, <1>7, <1>8, <1>9, <1>10, <1>11, <1>12,
     <1>13
     DEF Section

LEMMA StepInv1 == Inv1 /\ Inv2 /\ [Next]_vars => Inv1'
<1>1. ASSUME Inv1, UNCHANGED vars PROVE Inv1'
  BY <1>1 DEF Inv1, TypeOK, Lifecycle, Idle, vars, shared, locals, history
<1>2. QED
  BY <1>1, BootInv1, CallInv1, SectionInv1 DEF Next

-----------------------------------------------------------------------------
(***************************************************************************)
(* Windows of uids                                                         *)
(***************************************************************************)

\* A window followed by freshly issued events: the longer list is numbered
\* without a gap too.
LEMMA ExtendWindow ==
  ASSUME boot \in 1 .. MaxBoots, NEW s \in Seq(Event), NEW n \in Nat,
         IsWindow(s, n), NEW choice \in Seq(Tags)
  PROVE  /\ s \o Issued(n, choice) \in Seq(Event)
         /\ Len(s \o Issued(n, choice)) = Len(s) + Len(choice)
         /\ \A i \in 1 .. Len(s) + Len(choice) :
              (s \o Issued(n, choice))[i].uid = n - Len(s) + i
<1> DEFINE new == Issued(n, choice)
           r == s \o new
<1>1. /\ new \in Seq(Event) /\ Len(new) = Len(choice)
      /\ \A i \in 1 .. Len(choice) : new[i].uid = n + i
  BY IssuedType
<1> HIDE DEF new
<1>2. r \in Seq(Event) /\ Len(r) = Len(s) + Len(choice)
  <2>1. new \in Seq(Event) /\ Len(new) = Len(choice)
    BY <1>1
  <2>2. s \o new \in Seq(Event) /\ Len(s \o new) = Len(s) + Len(new)
    BY <2>1, ConcatParts
  <2>3. QED
    BY <2>1, <2>2
<1>3. ASSUME NEW i \in 1 .. Len(r)
      PROVE  r[i].uid = n - Len(s) + i
  <2>1. CASE i <= Len(s)
    <3>1. r[i] = s[i] /\ i \in DOMAIN s
      BY <1>1, <2>1
    <3>2. s[i].uid = n - Len(s) + i
      BY <3>1 DEF IsWindow
    <3>3. QED
      BY <1>2, <3>1, <3>2
  <2>2. CASE i > Len(s)
    <3>1. i - Len(s) \in 1 .. Len(choice)
      BY <1>2, <2>2
    <3>2. r[i] = new[i - Len(s)]
      BY <1>1, <1>2, <2>2
    <3>3. new[i - Len(s)].uid = n + (i - Len(s))
      BY <1>1, <3>1
    <3>4. QED
      BY <1>2, <3>1, <3>2, <3>3
  <2>3. QED
    BY <1>2, <2>1, <2>2
<1>4. \A i \in 1 .. Len(s) + Len(choice) : r[i].uid = n - Len(s) + i
  BY <1>2, <1>3
<1>5. QED
  BY <1>2, <1>4 DEF new

\* _append keeps the feed a window.
LEMMA AppendWindow ==
  ASSUME boot \in 1 .. MaxBoots, NEW s \in Seq(Event), NEW n \in Nat,
         IsWindow(s, n), NEW choice \in Seq(Tags)
  PROVE  IsWindow(Newest(s \o Issued(n, choice)), n + Len(choice))
<1> DEFINE r == s \o Issued(n, choice)
           m == n + Len(choice)
<1>1. /\ r \in Seq(Event) /\ Len(r) = Len(s) + Len(choice)
      /\ \A i \in 1 .. Len(r) : r[i].uid = m - Len(r) + i
  <2>1. /\ r \in Seq(Event) /\ Len(r) = Len(s) + Len(choice)
        /\ \A i \in 1 .. Len(s) + Len(choice) : r[i].uid = n - Len(s) + i
    BY ExtendWindow
  <2>2. Len(s) \in Nat /\ Len(choice) \in Nat
    OBVIOUS
  <2>3. QED
    BY <2>1, <2>2
<1>2. /\ Len(s) = IF n > MaxEvents THEN MaxEvents ELSE n
      /\ Len(s) \in Nat /\ Len(choice) \in Nat
  BY DEF IsWindow
<1> HIDE DEF r
<1>3. m \in Nat /\ Len(r) \in Nat /\ DOMAIN r = 1 .. Len(r)
  BY <1>1, <1>2
<1>4. CASE Len(r) <= MaxEvents
  <2>1. Newest(r) = r
    BY <1>1, <1>4, NewestParts
  <2>2. Len(r) = IF m > MaxEvents THEN MaxEvents ELSE m
    BY <1>1, <1>2, <1>3, <1>4
  <2>3. QED
    BY <1>1, <1>3, <2>1, <2>2 DEF IsWindow, r
<1>5. CASE Len(r) > MaxEvents
  <2>1. /\ Newest(r) \in Seq(Event) /\ Len(Newest(r)) = MaxEvents
        /\ \A i \in 1 .. MaxEvents : Newest(r)[i] = r[i + (Len(r) - MaxEvents)]
    BY <1>1, <1>5, NewestParts, NewestType
  <2>2. m > MaxEvents
    BY <1>1, <1>2, <1>3, <1>5
  <2>3. ASSUME NEW i \in 1 .. MaxEvents
        PROVE  Newest(r)[i].uid = m - MaxEvents + i
    <3>1. i + (Len(r) - MaxEvents) \in 1 .. Len(r)
      BY <1>1, <1>2, <1>3, <1>5
    <3>2. r[i + (Len(r) - MaxEvents)].uid = m - Len(r) + (i + (Len(r) - MaxEvents))
      BY <1>1, <3>1
    <3>3. Newest(r)[i].uid = m - Len(r) + (i + (Len(r) - MaxEvents))
      BY <2>1, <3>2
    <3>4. QED
      BY <1>3, <3>3
  <2>4. DOMAIN Newest(r) = 1 .. MaxEvents
    BY <2>1
  <2>5. QED
    BY <2>1, <2>2, <2>3, <2>4 DEF IsWindow, r
<1>6. QED
  BY <1>3, <1>4, <1>5

LEMMA BlankWindow == IsWindow(Blank.events, Blank.counter)
BY DEF Blank, IsWindow

LEMMA InitInv2 == Init => Inv2
<1> SUFFICES ASSUME Init PROVE Inv2
  OBVIOUS
<1>1. \A t \in Threads : copy[t] = Blank
  BY DEF Init
<1>2. IsWindow(<<>>, 0)
  BY DEF IsWindow
<1>3. disk = Blank /\ feed = <<>> /\ counter = 0
  BY DEF Init
<1>4. QED
  BY <1>1, <1>2, <1>3, BlankWindow DEF Inv2

\* What the sections and calls that append nothing leave alone.
FeedUnchanged == UNCHANGED <<feed, counter>>

LEMMA Quiet ==
  ASSUME NEW t \in Threads, Call(t) \/ Section(t),
         ~RecordEvent(t), ~SimulateBurst(t)
  PROVE  FeedUnchanged
BY DEF FeedUnchanged, Call, Section, IngestCall, SimulateCall,
       RegisterDeployment, Acknowledge, AcknowledgeAll, Flag, Correlate,
       SkipInvalidItem, IngestReturns, SimulateRefused, EnsureRegistered,
       RegisterFromSession, Notify, CopyState, Serialise, ReplaceFile,
       SaveFails, shared

\* Both ways to append are AppendEvents of a non-empty list of tags.
LEMMA Appending ==
  ASSUME Inv1, NEW t \in Threads, RecordEvent(t) \/ SimulateBurst(t)
  PROVE  /\ \E choice \in Seq(Tags) : Len(choice) > 0 /\ AppendEvents(t, choice)
         /\ acks' = acks /\ up /\ boot \in 1 .. MaxBoots
<1>1. up
  BY SectionUp DEF Section
<1>2. boot \in 1 .. MaxBoots
  BY <1>1 DEF Inv1, Lifecycle
<1>3. CASE RecordEvent(t)
  <2>1. <<tag[t]>> \in Seq(Tags) /\ Len(<<tag[t]>>) > 0
    BY DEF Inv1, TypeOK, Tags
  <2>2. AppendEvents(t, <<tag[t]>>)
    BY <1>3 DEF RecordEvent
  <2>3. acks' = acks
    BY <2>2 DEF AppendEvents
  <2>4. \E choice \in Seq(Tags) : Len(choice) > 0 /\ AppendEvents(t, choice)
    BY <2>1, <2>2, Zenon
  <2>5. QED
    BY <1>1, <1>2, <2>3, <2>4
<1>4. CASE SimulateBurst(t)
  <2>1. PICK choice \in [1 .. Clamp(left[t]) -> honey] : AppendEvents(t, choice)
    BY <1>4 DEF SimulateBurst
  <2>2. Clamp(left[t]) \in Nat \ {0} /\ honey \subseteq Decoys
    BY ClampType DEF Inv1, TypeOK
  <2>3. choice \in Seq(Tags) /\ Len(choice) > 0
    BY <2>2, ChoiceType
  <2>4. QED
    BY <1>1, <1>2, <2>1, <2>3 DEF AppendEvents
<1>5. QED
  BY <1>3, <1>4

LEMMA StepInv2 == Inv1 /\ Inv2 /\ [Next]_vars => Inv2'
<1> SUFFICES ASSUME Inv1, Inv2, [Next]_vars PROVE Inv2'
  OBVIOUS
<1> USE DEF Inv2
<1>0. /\ feed \in Seq(Event) /\ counter \in Nat
      /\ disk.events \in Seq(Event) /\ disk.counter \in Nat
  BY DEF Inv1, TypeOK, Snapshot
<1>1. CASE BootRestore
  <2>1. /\ Newest(disk.events) = disk.events
        /\ RestoredCounter(disk.counter, disk.events) = disk.counter
    BY <1>0, RestoreWindow
  <2>2. feed' = disk.events /\ counter' = disk.counter
    BY <1>1, <2>1 DEF BootRestore
  <2>3. disk' = disk /\ copy' = copy
    BY <1>1 DEF BootRestore, locals
  <2>4. IsWindow(feed', counter')
    BY <2>2
  <2>5. QED
    BY <2>3, <2>4
<1>2. CASE BootSeed
  <2>1. feed' = [i \in 1 .. SeedCount |->
                   [boot |-> boot + 1, uid |-> i, decoy |-> NoDecoy]]
    BY <1>2 DEF BootSeed
  <2>2. DOMAIN feed' = 1 .. SeedCount /\ Len(feed') = SeedCount
    BY <2>1
  <2>3. \A i \in 1 .. SeedCount : feed'[i].uid = i
    BY <2>1
  <2>4. IsWindow(feed', SeedCount)
    BY <2>2, <2>3 DEF IsWindow
  <2>5. counter' = SeedCount /\ disk'.counter = SeedCount /\ disk'.events = feed'
        /\ copy' = copy
    BY <1>2 DEF BootSeed, Blank, locals
  <2>6. QED
    BY <2>4, <2>5
<1>3. CASE Crash
  <2>1. feed' = <<>> /\ counter' = 0 /\ disk' = disk
    BY <1>3 DEF Crash
  <2>2. \A t \in Threads : copy'[t] = Blank
    BY <1>3 DEF Crash, ResetLocals
  <2>3. IsWindow(<<>>, 0)
    BY DEF IsWindow
  <2>4. QED
    BY <2>1, <2>2, <2>3, BlankWindow
<1>4. ASSUME NEW t \in Threads, Call(t) \/ Section(t) PROVE Inv2'
  <2>1. CASE RecordEvent(t) \/ SimulateBurst(t)
    <3>1. PICK choice \in Seq(Tags) : AppendEvents(t, choice)
      BY <2>1, Appending
    <3>2. boot \in 1 .. MaxBoots
      BY <2>1, Appending
    <3>3. IsWindow(Newest(feed \o Issued(counter, choice)), counter + Len(choice))
      BY <1>0, <3>2, AppendWindow
    <3>4. disk' = disk /\ copy' = copy
      BY <3>1 DEF AppendEvents
    <3>5. IsWindow(feed', counter')
      BY <3>1, <3>3 DEF AppendEvents
    <3>6. QED
      BY <3>4, <3>5
  <2>2. CASE ~RecordEvent(t) /\ ~SimulateBurst(t)
    <3>1. feed' = feed /\ counter' = counter
      BY <1>4, <2>2, Quiet DEF FeedUnchanged
    <3>2. CASE CopyState(t)
      <4>1. /\ disk' = disk
            /\ \A u \in Threads :
                 IF u = t THEN copy'[u].events = feed /\ copy'[u].counter = counter
                          ELSE copy'[u] = copy[u]
        BY <3>2 DEF CopyState, shared, Inv1, TypeOK
      <4>2. QED
        BY <3>1, <4>1
    <3>3. CASE Serialise(t)
      <4>1. /\ disk' = disk
            /\ \A u \in Threads : /\ copy'[u].events = copy[u].events
                                  /\ copy'[u].counter = copy[u].counter
        BY <3>3 DEF Serialise, shared, Inv1, TypeOK, Snapshot
      <4>2. QED
        BY <3>1, <4>1
    <3>4. CASE ReplaceFile(t)
      <4>1. /\ disk' = copy[t]
            /\ \A u \in Threads : copy'[u] = IF u = t THEN Blank ELSE copy[u]
        BY <3>4 DEF ReplaceFile, Inv1, TypeOK
      <4>2. QED
        BY <3>1, <4>1, BlankWindow
    <3>5. CASE SaveFails(t)
      <4>1. /\ disk' = disk
            /\ \A u \in Threads : copy'[u] = IF u = t THEN Blank ELSE copy[u]
        BY <3>5 DEF SaveFails, shared, Inv1, TypeOK
      <4>2. QED
        BY <3>1, <4>1, BlankWindow
    <3>6. CASE ~CopyState(t) /\ ~Serialise(t) /\ ~ReplaceFile(t) /\ ~SaveFails(t)
      <4>1. disk' = disk /\ copy' = copy
        BY <1>4, <2>2, <3>6
           DEF Call, Section, IngestCall, SimulateCall, RegisterDeployment,
               Acknowledge, AcknowledgeAll, Flag, Correlate, SkipInvalidItem,
               IngestReturns, SimulateRefused, EnsureRegistered,
               RegisterFromSession, Notify, shared
      <4>2. QED
        BY <3>1, <4>1
    <3>7. QED
      BY <3>2, <3>3, <3>4, <3>5, <3>6
  <2>3. QED
    BY <2>1, <2>2
<1>5. CASE UNCHANGED vars
  BY <1>5 DEF vars, shared, locals
<1>6. QED
  BY <1>1, <1>2, <1>3, <1>4, <1>5 DEF Next

\* Types and life cycle hold in every behaviour of the feed.
THEOREM TypeCorrect == Spec => [](TypeOK /\ Lifecycle)
<1>1. Inv1 => TypeOK /\ Lifecycle
  BY DEF Inv1
<1>2. QED
  BY <1>1, InitInv1, StepInv1, InitInv2, StepInv2, PTL DEF Spec

\* The feed and the file always are the newest events without a gap: what a
\* restart brings back is a window the console once showed.
THEOREM FeedWindow == Spec => []FeedIsNewestWindow
<1>1. Inv1 /\ Inv2 => FeedIsNewestWindow
  BY DEF Inv2, FeedIsNewestWindow
<1>2. QED
  BY <1>1, InitInv1, StepInv1, InitInv2, StepInv2, PTL DEF Spec

-----------------------------------------------------------------------------
(***************************************************************************)
(* One running history                                                     *)
(***************************************************************************)

Inv3 ==
  /\ FileBelongsToHistory
  /\ up => \A t \in Threads :
             /\ copy[t].counter <= counter
             /\ \A e \in Range(copy[t].events) : InHistory(e)
             /\ \A e \in Range(pending[t]) : InHistory(e) /\ e.boot = boot
  /\ ~up => \A t \in Threads : copy[t] = Blank /\ pending[t] = <<>>
  /\ PublishedIsListed
  /\ \A e \in published : e.boot <= boot

\* Appending displaces an event only for MaxEvents newer ones, and lists the
\* appended events or displaces them in the same way.
LEMMA AppendHistory ==
  ASSUME Inv1, Inv2, NEW t \in Threads, NEW choice \in Seq(Tags),
         boot \in 1 .. MaxBoots, AppendEvents(t, choice)
  PROVE  /\ counter <= counter'
         /\ \A e \in Event : InHistory(e) => InHistory(e)'
         /\ \A e \in Range(Issued(counter, choice)) : InHistory(e)'
<1> DEFINE r == feed \o Issued(counter, choice)
           m == counter + Len(choice)
<1>1. /\ feed \in Seq(Event) /\ counter \in Nat /\ Len(choice) \in Nat
      /\ IsWindow(feed, counter)
  BY DEF Inv1, TypeOK, Inv2
<1>2. /\ r \in Seq(Event) /\ Len(r) = Len(feed) + Len(choice)
      /\ \A i \in 1 .. Len(r) : r[i].uid = m - Len(r) + i
  <2>1. /\ r \in Seq(Event) /\ Len(r) = Len(feed) + Len(choice)
        /\ \A i \in 1 .. Len(feed) + Len(choice) :
             r[i].uid = counter - Len(feed) + i
    BY <1>1, ExtendWindow
  <2>2. Len(feed) \in Nat
    BY <1>1
  <2>3. QED
    BY <1>1, <2>1, <2>2
<1>3. /\ Issued(counter, choice) \in Seq(Event)
      /\ Len(Issued(counter, choice)) = Len(choice)
  BY <1>1, IssuedType
<1>4. /\ \A i \in 1 .. Len(feed) : r[i] = feed[i]
      /\ \A i \in 1 .. Len(choice) : r[Len(feed) + i] = Issued(counter, choice)[i]
  BY <1>1, <1>3, ConcatParts
<1>5. feed' = Newest(r) /\ counter' = m
  BY DEF AppendEvents
<1> HIDE DEF r
<1>6. ASSUME NEW i \in 1 .. Len(r)
      PROVE  r[i] \in Range(feed') \/ r[i].uid <= counter' - MaxEvents
  <2>1. CASE Len(r) <= MaxEvents
    <3>1. feed' = r
      BY <1>2, <1>5, <2>1, NewestParts
    <3>2. QED
      BY <1>2, <3>1 DEF Range
  <2>2. CASE Len(r) > MaxEvents /\ i > Len(r) - MaxEvents
    <3>1. /\ Newest(r) \in Seq(Event) /\ Len(Newest(r)) = MaxEvents
          /\ \A k \in 1 .. MaxEvents : Newest(r)[k] = r[k + (Len(r) - MaxEvents)]
      BY <1>2, <2>2, NewestParts, NewestType
    <3>2. i - (Len(r) - MaxEvents) \in 1 .. MaxEvents
      BY <1>2, <2>2
    <3>3. Newest(r)[i - (Len(r) - MaxEvents)] = r[i]
      BY <1>2, <2>2, <3>1, <3>2
    <3>4. DOMAIN Newest(r) = 1 .. MaxEvents
      BY <3>1
    <3>5. QED
      BY <1>5, <3>2, <3>3, <3>4 DEF Range
  <2>3. CASE Len(r) > MaxEvents /\ i <= Len(r) - MaxEvents
    <3>1. r[i].uid = m - Len(r) + i
      BY <1>2
    <3>2. QED
      BY <1>1, <1>2, <1>5, <2>3, <3>1
  <2>4. QED
    BY <1>2, <2>1, <2>2, <2>3
<1>7. ASSUME NEW e \in Event, InHistory(e) PROVE InHistory(e)'
  <2>1. CASE e \in Range(feed)
    <3>1. PICK i \in 1 .. Len(feed) : e = feed[i]
      BY <1>1, <2>1 DEF Range
    <3>2. i \in 1 .. Len(r) /\ r[i] = e
      BY <1>1, <1>2, <1>4, <3>1
    <3>3. QED
      BY <1>6, <3>2 DEF InHistory
  <2>2. CASE e.uid <= counter - MaxEvents
    <3>1. e.uid \in Nat
      BY DEF Event
    <3>2. e.uid <= counter' - MaxEvents
      BY <1>1, <1>5, <2>2, <3>1
    <3>3. QED
      BY <3>2 DEF InHistory
  <2>3. QED
    BY <1>7, <2>1, <2>2 DEF InHistory
<1>8. ASSUME NEW e \in Range(Issued(counter, choice)) PROVE InHistory(e)'
  <2>1. PICK i \in 1 .. Len(choice) : e = Issued(counter, choice)[i]
    BY <1>3 DEF Range
  <2>2. Len(feed) + i \in 1 .. Len(r) /\ r[Len(feed) + i] = e
    BY <1>1, <1>2, <1>4, <2>1
  <2>3. QED
    BY <1>6, <2>2 DEF InHistory
<1>9. QED
  BY <1>1, <1>5, <1>7, <1>8

\* The elements of typed lists.
LEMMA ListedTypes ==
  ASSUME Inv1
  PROVE  /\ Range(disk.events) \subseteq Event
         /\ Range(feed) \subseteq Event
         /\ \A t \in Threads : /\ Range(copy[t].events) \subseteq Event
                              /\ Range(pending[t]) \subseteq Event
BY DEF Inv1, TypeOK, Snapshot, Range

LEMMA InitInv3 == Init => Inv3
<1> SUFFICES ASSUME Init PROVE Inv3
  OBVIOUS
<1>1. ~up /\ published = {}
  BY DEF Init
<1>2. \A t \in Threads : copy[t] = Blank /\ pending[t] = <<>>
  BY DEF Init
<1>3. QED
  BY <1>1, <1>2 DEF Inv3, FileBelongsToHistory, PublishedIsListed

LEMMA BootInv3 ==
  Inv1 /\ Inv2 /\ Inv3 /\ (BootRestore \/ BootSeed \/ Crash) => Inv3'
<1> SUFFICES ASSUME Inv1, Inv2, Inv3, BootRestore \/ BootSeed \/ Crash PROVE Inv3'
  OBVIOUS
<1>0. /\ disk.events \in Seq(Event) /\ disk.counter \in Nat /\ boot \in Nat
      /\ IsWindow(disk.events, disk.counter)
  BY DEF Inv1, TypeOK, Snapshot, Inv2
<1>1. Range(<<>>) = {}
  BY DEF Range
<1>2. ASSUME up', ~up, boot' = boot + 1, disk'.counter = counter', counter' \in Nat,
             disk'.events = feed', UNCHANGED <<copy, pending, published>>
      PROVE  Inv3'
  <2>1. FileBelongsToHistory'
    BY <1>2 DEF FileBelongsToHistory, InHistory
  <2>2. \A t \in Threads :
          /\ copy'[t].counter <= counter'
          /\ Range(copy'[t].events) = {} /\ Range(pending'[t]) = {}
    BY <1>1, <1>2 DEF Inv3, Blank
  <2>3. \A e \in published' : e.boot <= boot /\ e.boot \in Nat
    BY <1>2 DEF Inv3, Inv1, TypeOK, Event
  <2>4. \A e \in published' : e.boot <= boot' /\ e.boot # boot'
    BY <1>0, <1>2, <2>3
  <2>5. PublishedIsListed'
    BY <2>4 DEF PublishedIsListed
  <2>6. QED
    BY <1>2, <2>1, <2>2, <2>4, <2>5 DEF Inv3
<1>3. CASE BootRestore
  <2>1. /\ Newest(disk.events) = disk.events
        /\ RestoredCounter(disk.counter, disk.events) = disk.counter
    BY <1>0, RestoreWindow
  <2>2. QED
    BY <1>0, <1>2, <1>3, <2>1 DEF BootRestore, locals, history
<1>4. CASE BootSeed
  <2>1. counter' = SeedCount /\ disk'.counter = SeedCount /\ disk'.events = feed'
    BY <1>4 DEF BootSeed, Blank
  <2>2. QED
    BY <1>2, <1>4, <2>1 DEF BootSeed, locals, history
<1>5. CASE Crash
  <2>1. ~up' /\ boot' = boot /\ published' = published
    BY <1>5 DEF Crash, history
  <2>2. \A t \in Threads : copy'[t] = Blank /\ pending'[t] = <<>>
    BY <1>5 DEF Crash, ResetLocals
  <2>3. QED
    BY <2>1, <2>2 DEF Inv3, FileBelongsToHistory, PublishedIsListed
<1>6. QED
  BY <1>3, <1>4, <1>5

LEMMA StepInv3 == Inv1 /\ Inv2 /\ Inv3 /\ [Next]_vars => Inv3'
<1> SUFFICES ASSUME Inv1, Inv2, Inv3, [Next]_vars PROVE Inv3'
  OBVIOUS
<1>1. ASSUME NEW t \in Threads, RecordEvent(t) \/ SimulateBurst(t) PROVE Inv3'
  <2>1. PICK choice \in Seq(Tags) : AppendEvents(t, choice)
    BY <1>1, Appending
  <2>2. up /\ boot \in 1 .. MaxBoots
    BY <1>1, Appending
  <2>3. /\ counter <= counter'
        /\ \A e \in Event : InHistory(e) => InHistory(e)'
        /\ \A e \in Range(Issued(counter, choice)) : InHistory(e)'
    BY <2>1, <2>2, AppendHistory
  <2>4. /\ UNCHANGED <<up, boot, disk, copy, published>>
        /\ \A u \in Threads :
             pending'[u] = IF u = t THEN Issued(counter, choice) ELSE pending[u]
    BY <2>1 DEF AppendEvents, history, Inv1, TypeOK
  <2>5. /\ counter \in Nat /\ counter' \in Nat /\ disk.counter \in Nat
        /\ \A u \in Threads : copy[u].counter \in Nat
        /\ published \subseteq Event
    <3>1. Len(choice) \in Nat /\ counter' = counter + Len(choice)
      BY <2>1 DEF AppendEvents
    <3>2. QED
      BY <3>1 DEF Inv1, TypeOK, Snapshot
  <2>6. FileBelongsToHistory'
    BY <2>2, <2>3, <2>4, <2>5, ListedTypes DEF Inv3, FileBelongsToHistory
  <2>7. PublishedIsListed'
    BY <2>2, <2>3, <2>4, <2>5 DEF Inv3, PublishedIsListed
  <2>8. \A u \in Threads :
          /\ copy'[u].counter <= counter'
          /\ \A e \in Range(copy'[u].events) : InHistory(e)'
    BY <2>2, <2>3, <2>4, <2>5, ListedTypes DEF Inv3
  <2>9. \A u \in Threads : \A e \in Range(pending'[u]) :
          InHistory(e)' /\ e.boot = boot'
    <3>1. \A e \in Range(Issued(counter, choice)) : e.boot = boot
      <4>1. counter \in Nat
        BY DEF Inv1, TypeOK
      <4>2. /\ Issued(counter, choice) \in Seq(Event)
            /\ Len(Issued(counter, choice)) = Len(choice)
            /\ \A i \in 1 .. Len(choice) : Issued(counter, choice)[i].boot = boot
        BY <2>2, <4>1, IssuedType
      <4>3. DOMAIN Issued(counter, choice) = 1 .. Len(choice)
        BY <4>2
      <4>4. QED
        BY <4>2, <4>3 DEF Range
    <3>2. QED
      BY <2>2, <2>3, <2>4, <3>1, ListedTypes DEF Inv3
  <2>10. QED
    BY <2>2, <2>4, <2>6, <2>7, <2>8, <2>9 DEF Inv3
<1>2. ASSUME NEW t \in Threads, Call(t) \/ Section(t),
             ~RecordEvent(t), ~SimulateBurst(t)
      PROVE  Inv3'
  <2>1. /\ feed' = feed /\ counter' = counter
        /\ \A e : InHistory(e)' <=> InHistory(e)
    BY <1>2, Quiet DEF FeedUnchanged, InHistory
  <2>2. up /\ up' = up /\ boot' = boot
    <3>1. up
      BY <1>2, SectionUp DEF Call, IngestCall, SimulateCall, RegisterDeployment,
                             Acknowledge, AcknowledgeAll
    <3>2. QED
      BY <1>2, <3>1
         DEF Call, Section, IngestCall, SimulateCall, RegisterDeployment,
             Acknowledge, AcknowledgeAll, Flag, Correlate, SkipInvalidItem,
             IngestReturns, SimulateRefused, EnsureRegistered,
             RegisterFromSession, Notify, CopyState, Serialise, ReplaceFile,
             SaveFails, shared
  <2>3. CASE Notify(t)
    <3>1. pending[t] \in Seq(Event) /\ pending[t] # <<>>
      BY <2>3 DEF Notify, Inv1, TypeOK, Lifecycle
    <3>2. \A s \in Seq(Event) : s # <<>> =>
            /\ Head(s) \in Range(s) /\ Head(s) \in Event
            /\ Range(Tail(s)) \subseteq Range(s)
      <4>1. ASSUME NEW s \in Seq(Event), s # <<>>
            PROVE  /\ Head(s) \in Range(s) /\ Head(s) \in Event
                   /\ Range(Tail(s)) \subseteq Range(s)
        <5>1. 1 \in DOMAIN s /\ Head(s) = s[1] /\ DOMAIN s = 1 .. Len(s)
          BY <4>1
        <5>2. \A i \in DOMAIN Tail(s) : i + 1 \in DOMAIN s /\ Tail(s)[i] = s[i + 1]
          BY <4>1, <5>1
        <5>3. QED
          BY <5>1, <5>2 DEF Range
      <4>2. QED
        BY <4>1
    <3>3. InHistory(Head(pending[t]))
      BY <2>2, <3>1, <3>2 DEF Inv3
    <3>4. published' = published \cup {Head(pending[t])} /\ UNCHANGED <<disk, copy>>
      BY <2>3 DEF Notify, shared
    <3>5. \A u \in Threads : Range(pending'[u]) \subseteq Range(pending[u])
      <4>1. \A u \in Threads :
              pending'[u] = IF u = t THEN Tail(pending[t]) ELSE pending[u]
        BY <2>3 DEF Notify, Inv1, TypeOK
      <4>2. QED
        BY <3>1, <3>2, <4>1
    <3>6. Head(pending[t]).boot <= boot
      BY <2>2, <3>1, <3>2 DEF Inv3, Inv1, TypeOK
    <3>7. FileBelongsToHistory' /\ PublishedIsListed'
      BY <2>1, <2>2, <3>3, <3>4 DEF Inv3, FileBelongsToHistory, PublishedIsListed
    <3>8. QED
      BY <2>1, <2>2, <3>4, <3>5, <3>6, <3>7 DEF Inv3
  <2>4. CASE CopyState(t)
    <3>1. /\ UNCHANGED <<disk, pending, published>>
          /\ \A u \in Threads :
               IF u = t THEN copy'[u].events = feed /\ copy'[u].counter = counter
                        ELSE copy'[u] = copy[u]
      BY <2>4 DEF CopyState, shared, history, Inv1, TypeOK
    <3>2. /\ \A e \in Range(feed) : InHistory(e)
          /\ counter <= counter
      BY DEF InHistory, Inv1, TypeOK
    <3>3. FileBelongsToHistory' /\ PublishedIsListed'
      BY <2>1, <2>2, <3>1 DEF Inv3, FileBelongsToHistory, PublishedIsListed
    <3>4. QED
      BY <2>1, <2>2, <3>1, <3>2, <3>3 DEF Inv3
  <2>5. CASE Serialise(t)
    <3>1. /\ UNCHANGED <<disk, pending, published>>
          /\ \A u \in Threads : /\ copy'[u].events = copy[u].events
                                /\ copy'[u].counter = copy[u].counter
      BY <2>5 DEF Serialise, shared, history, Inv1, TypeOK, Snapshot
    <3>2. FileBelongsToHistory' /\ PublishedIsListed'
      BY <2>1, <2>2, <3>1 DEF Inv3, FileBelongsToHistory, PublishedIsListed
    <3>3. QED
      BY <2>1, <2>2, <3>1, <3>2 DEF Inv3
  <2>6. CASE ReplaceFile(t)
    <3>1. /\ UNCHANGED <<pending, published>>
          /\ disk' = copy[t]
          /\ \A u \in Threads : copy'[u] = IF u = t THEN Blank ELSE copy[u]
      BY <2>6 DEF ReplaceFile, Inv1, TypeOK
    <3>2. Blank.counter <= counter /\ Range(Blank.events) = {}
      BY DEF Blank, Range, Inv1, TypeOK
    <3>3. FileBelongsToHistory' /\ PublishedIsListed'
      BY <2>1, <2>2, <3>1 DEF Inv3, FileBelongsToHistory, PublishedIsListed
    <3>4. QED
      BY <2>1, <2>2, <3>1, <3>2, <3>3 DEF Inv3
  <2>7. CASE SaveFails(t)
    <3>1. /\ UNCHANGED <<disk, pending, published>>
          /\ \A u \in Threads : copy'[u] = IF u = t THEN Blank ELSE copy[u]
      BY <2>7 DEF SaveFails, shared, history, Inv1, TypeOK
    <3>2. Blank.counter <= counter /\ Range(Blank.events) = {}
      BY DEF Blank, Range, Inv1, TypeOK
    <3>3. FileBelongsToHistory' /\ PublishedIsListed'
      BY <2>1, <2>2, <3>1 DEF Inv3, FileBelongsToHistory, PublishedIsListed
    <3>4. QED
      BY <2>1, <2>2, <3>1, <3>2, <3>3 DEF Inv3
  <2>8. CASE /\ ~Notify(t) /\ ~CopyState(t) /\ ~Serialise(t) /\ ~ReplaceFile(t)
             /\ ~SaveFails(t)
    <3>1. UNCHANGED <<disk, copy, pending, published>>
      BY <1>2, <2>8
         DEF Call, Section, IngestCall, SimulateCall, Offer, RegisterDeployment,
             Acknowledge, AcknowledgeAll, Flag, Correlate, SkipInvalidItem,
             IngestReturns, SimulateRefused, EnsureRegistered,
             RegisterFromSession, shared, history
    <3>2. FileBelongsToHistory' /\ PublishedIsListed'
      BY <2>1, <2>2, <3>1 DEF Inv3, FileBelongsToHistory, PublishedIsListed
    <3>3. QED
      BY <2>1, <2>2, <3>1, <3>2 DEF Inv3
  <2>9. QED
    BY <2>3, <2>4, <2>5, <2>6, <2>7, <2>8
<1>3. CASE UNCHANGED vars
  BY <1>3 DEF vars, shared, locals, history, Inv3, FileBelongsToHistory,
              PublishedIsListed, InHistory
<1>4. QED
  BY <1>1, <1>2, <1>3, BootInv3 DEF Next

\* The file never comes from another history than the feed's.
THEOREM FileHistory == Spec => []FileBelongsToHistory
<1>1. Inv3 => FileBelongsToHistory
  BY DEF Inv3
<1>2. QED
  BY <1>1, InitInv1, StepInv1, InitInv2, StepInv2, InitInv3, StepInv3, PTL DEF Spec

\* What the live stream announced is in the feed, or displaced by newer events.
THEOREM StreamHistory == Spec => []PublishedIsListed
<1>1. Inv3 => PublishedIsListed
  BY DEF Inv3
<1>2. QED
  BY <1>1, InitInv1, StepInv1, InitInv2, StepInv2, InitInv3, StepInv3, PTL DEF Spec

-----------------------------------------------------------------------------
(***************************************************************************)
(* Confirmed acknowledgements                                              *)
(***************************************************************************)

\* The event was created before now.
Known(e) == e.boot <= boot /\ (up /\ e.boot = boot => e.uid <= counter)

\* The flags a thread is about to write cover what was or will be confirmed.
Covered(t) ==
  \A e \in Range(copy[t].events) : e \in answered \cup acks[t] => e \in copy[t].acked

StoreLock == \A t, u \in Threads : pc[t] = "write" /\ pc[u] = "write" => t = u

OldEvents ==
  /\ \A e \in Range(feed) : e.boot <= boot
  /\ \A e \in Range(disk.events) : e.boot <= boot
  /\ \A t \in Threads : \A e \in Range(copy[t].events) : e.boot <= boot

AcksFlagged ==
  /\ \A t \in Threads : \A e \in acks[t] : Known(e) /\ e \in acked
  /\ ~up => \A t \in Threads : acks[t] = {}

AnsweredFlagged ==
  /\ \A e \in answered : Known(e)
  /\ \A t \in Threads : \A e \in Range(copy[t].events) : e \in answered => e \in acked

Inv4 ==
  /\ AcknowledgementSticks
  /\ OldEvents
  /\ AcksFlagged
  /\ AnsweredFlagged
  /\ \A t \in Threads : pc[t] = "write" => Covered(t)
  /\ StoreLock

\* What the feed lists after an append.
LEMMA AppendRange ==
  ASSUME Inv1, NEW choice \in Seq(Tags), boot \in 1 .. MaxBoots
  PROVE  \A e \in Range(Newest(feed \o Issued(counter, choice))) :
           \/ e \in Range(feed)
           \/ e \in Event /\ e.boot = boot /\ e.uid > counter
<1> DEFINE new == Issued(counter, choice)
           r == feed \o new
<1>1. feed \in Seq(Event) /\ counter \in Nat
  BY DEF Inv1, TypeOK
<1>2. /\ new \in Seq(Event) /\ Len(new) = Len(choice)
      /\ \A i \in 1 .. Len(choice) : new[i].uid = counter + i /\ new[i].boot = boot
  BY <1>1, IssuedType
<1> HIDE DEF new
<1>3. \A i \in 1 .. Len(new) : new[i].boot = boot /\ new[i].uid > counter
  BY <1>1, <1>2
<1>4. /\ r \in Seq(Event) /\ Len(r) = Len(feed) + Len(new)
      /\ \A i \in 1 .. Len(feed) : r[i] = feed[i]
      /\ \A i \in 1 .. Len(new) : r[Len(feed) + i] = new[i]
  <2>1. new \in Seq(Event)
    BY <1>2
  <2>2. QED
    BY <1>1, <2>1, ConcatParts
<1> HIDE DEF r
<1>5. ASSUME NEW i \in 1 .. Len(r)
      PROVE  \/ r[i] \in Range(feed)
             \/ r[i] \in Event /\ r[i].boot = boot /\ r[i].uid > counter
  <2>1. CASE i <= Len(feed)
    BY <1>1, <1>4, <2>1 DEF Range
  <2>2. CASE i > Len(feed)
    <3>1. i - Len(feed) \in 1 .. Len(new) /\ i = Len(feed) + (i - Len(feed))
      BY <1>1, <1>2, <1>4, <2>2
    <3>2. r[i] = new[i - Len(feed)]
      BY <1>4, <3>1
    <3>3. r[i] \in Event
      BY <1>4
    <3>4. QED
      BY <1>3, <3>1, <3>2, <3>3
  <2>3. QED
    BY <1>1, <1>4, <2>1, <2>2
<1>6. \A e \in Range(Newest(r)) : \E i \in 1 .. Len(r) : e = r[i]
  <2>1. CASE Len(r) <= MaxEvents
    <3>1. Newest(r) = r /\ DOMAIN r = 1 .. Len(r)
      BY <1>4, <2>1, NewestParts
    <3>2. QED
      BY <3>1 DEF Range
  <2>2. CASE Len(r) > MaxEvents
    <3>1. /\ Newest(r) \in Seq(Event) /\ Len(Newest(r)) = MaxEvents
          /\ \A k \in 1 .. MaxEvents : Newest(r)[k] = r[k + (Len(r) - MaxEvents)]
      BY <1>4, <2>2, NewestParts, NewestType
    <3>2. DOMAIN Newest(r) = 1 .. MaxEvents
      BY <3>1
    <3>3. \A k \in 1 .. MaxEvents : k + (Len(r) - MaxEvents) \in 1 .. Len(r)
      BY <1>4, <2>2
    <3>4. ASSUME NEW e \in Range(Newest(r)) PROVE \E i \in 1 .. Len(r) : e = r[i]
      <4>1. PICK k \in 1 .. MaxEvents : e = Newest(r)[k]
        BY <3>2 DEF Range
      <4>2. e = r[k + (Len(r) - MaxEvents)]
        BY <3>1, <4>1
      <4>3. QED
        BY <3>3, <4>2
    <3>5. QED
      BY <3>4
  <2>3. QED
    BY <1>4, <2>1, <2>2
<1>7. QED
  BY <1>5, <1>6 DEF r, new

LEMMA InitInv4 == Init => Inv4
<1> SUFFICES ASSUME Init PROVE Inv4
  OBVIOUS
<1>1. /\ answered = {} /\ feed = <<>> /\ disk = Blank
      /\ \A t \in Threads : copy[t] = Blank /\ acks[t] = {} /\ pc[t] = "idle"
  BY DEF Init, Idle
<1>2. Range(<<>>) = {} /\ Range(Blank.events) = {}
  BY DEF Range, Blank
<1>3. QED
  BY <1>1, <1>2 DEF Inv4, AcknowledgementSticks, OldEvents, AcksFlagged,
                    AnsweredFlagged, StoreLock

LEMMA BootInv4 ==
  Inv1 /\ Inv2 /\ Inv3 /\ Inv4 /\ (BootRestore \/ BootSeed \/ Crash) => Inv4'
<1> SUFFICES ASSUME Inv1, Inv2, Inv3, Inv4, BootRestore \/ BootSeed \/ Crash
             PROVE  Inv4'
  OBVIOUS
<1>0. /\ disk.events \in Seq(Event) /\ disk.counter \in Nat /\ boot \in Nat
      /\ IsWindow(disk.events, disk.counter)
      /\ answered \subseteq Event
      /\ \A e \in Event : e.boot \in Nat
  BY DEF Inv1, TypeOK, Snapshot, Inv2, Event
<1>1. Range(<<>>) = {} /\ Range(Blank.events) = {}
  BY DEF Range, Blank
\* At a start no call runs and everything known belongs to earlier starts.
<1>2. ASSUME ~up, up', boot' = boot + 1, UNCHANGED <<answered, pc, copy, acks>>
      PROVE  /\ \A t \in Threads : copy'[t] = Blank /\ acks'[t] = {} /\ pc'[t] = "idle"
             /\ \A e \in answered' : Known(e)' /\ e.boot # boot'
  <2>1. \A t \in Threads : copy[t] = Blank /\ acks[t] = {} /\ pc[t] = "idle"
    BY <1>2, LocalsType DEF Inv1, Lifecycle, Inv3, Inv4, AcksFlagged
  <2>2. \A e \in answered : e.boot <= boot /\ e.boot \in Nat
    BY <1>0 DEF Inv4, AnsweredFlagged, Known
  <2>3. \A e \in answered : e.boot <= boot + 1 /\ e.boot # boot + 1
    BY <1>0, <2>2
  <2>4. QED
    BY <1>2, <2>1, <2>3 DEF Known
<1>3. CASE BootRestore
  <2>1. Newest(disk.events) = disk.events
    BY <1>0, RestoreWindow
  <2>2. /\ ~up /\ up' /\ boot' = boot + 1
        /\ UNCHANGED <<answered, pc, copy, acks, disk>>
        /\ feed' = disk.events /\ acked' = disk.acked
    BY <1>3, <2>1 DEF BootRestore, locals, history
  <2>3. /\ \A t \in Threads : copy'[t] = Blank /\ acks'[t] = {} /\ pc'[t] = "idle"
        /\ \A e \in answered' : Known(e)' /\ e.boot # boot'
    BY <1>2, <2>2
  <2>4. AcknowledgementSticks'
    BY <2>2 DEF Inv4, AcknowledgementSticks
  <2>5. OldEvents'
    <3>1. \A e \in Range(disk.events) : e.boot <= boot /\ e \in Event
      BY ListedTypes DEF Inv4, OldEvents
    <3>2. \A e \in Range(disk.events) : e.boot <= boot'
      BY <1>0, <2>2, <3>1
    <3>3. QED
      BY <1>1, <2>2, <2>3, <3>2 DEF OldEvents
  <2>6. QED
    BY <1>1, <2>2, <2>3, <2>4, <2>5
       DEF Inv4, AcksFlagged, AnsweredFlagged, StoreLock
<1>4. CASE BootSeed
  <2>1. /\ ~up /\ up' /\ boot' = boot + 1
        /\ UNCHANGED <<answered, pc, copy, acks>>
        /\ disk'.events = feed'
    BY <1>4 DEF BootSeed, locals, history, Blank
  <2>2. /\ \A t \in Threads : copy'[t] = Blank /\ acks'[t] = {} /\ pc'[t] = "idle"
        /\ \A e \in answered' : Known(e)' /\ e.boot # boot'
    BY <1>2, <2>1
  <2>3. \A e \in Range(feed') : e.boot = boot'
    BY <1>4 DEF BootSeed, Range
  <2>4. boot' <= boot'
    BY <1>0, <2>1
  <2>5. OldEvents'
    BY <1>1, <2>1, <2>2, <2>3, <2>4 DEF OldEvents
  <2>6. AcknowledgementSticks'
    BY <2>1, <2>2, <2>3 DEF AcknowledgementSticks
  <2>7. QED
    BY <1>1, <2>1, <2>2, <2>5, <2>6
       DEF Inv4, AcksFlagged, AnsweredFlagged, StoreLock
<1>5. CASE Crash
  <2>1. ~up' /\ feed' = <<>> /\ UNCHANGED <<boot, disk, answered>>
    BY <1>5 DEF Crash, history
  <2>2. \A t \in Threads : copy'[t] = Blank /\ acks'[t] = {} /\ pc'[t] = "idle"
    BY <1>5 DEF Crash, ResetLocals, Idle
  <2>3. AcknowledgementSticks' /\ OldEvents'
    BY <1>1, <2>1, <2>2 DEF Inv4, AcknowledgementSticks, OldEvents
  <2>4. \A e \in answered' : Known(e)'
    BY <2>1 DEF Inv4, AnsweredFlagged, Known
  <2>5. QED
    BY <1>1, <2>1, <2>2, <2>3, <2>4
       DEF Inv4, AcksFlagged, AnsweredFlagged, StoreLock
<1>6. QED
  BY <1>3, <1>4, <1>5

LEMMA AppendInv4 ==
  ASSUME Inv1, Inv2, Inv4, NEW t \in Threads, RecordEvent(t) \/ SimulateBurst(t)
  PROVE  Inv4'
<1>1. PICK choice \in Seq(Tags) : AppendEvents(t, choice)
  BY Appending
<1>2. up /\ boot \in 1 .. MaxBoots
  BY Appending
<1>3. /\ feed' = Newest(feed \o Issued(counter, choice))
      /\ counter' = counter + Len(choice)
      /\ UNCHANGED <<up, boot, acked, disk, copy, acks, answered>>
      /\ \A u \in Threads : pc'[u] = "write" => pc[u] = "write"
  BY <1>1 DEF AppendEvents, history, Inv1, TypeOK
<1>4. \A e \in Range(feed') :
        \/ e \in Range(feed)
        \/ e \in Event /\ e.boot = boot /\ e.uid > counter
  BY <1>2, <1>3, AppendRange
<1>5. /\ counter \in Nat /\ Len(choice) \in Nat /\ boot \in Nat
      /\ \A e \in Event : e.uid \in Nat
      /\ answered \subseteq Event /\ \A u \in Threads : acks[u] \subseteq Event
  BY DEF Inv1, TypeOK, Event
<1>6. \A e \in Event : Known(e) => Known(e)'
  BY <1>3, <1>5 DEF Known
<1>7. \A e \in answered : ~(e.boot = boot /\ e.uid > counter)
  BY <1>2, <1>5 DEF Inv4, AnsweredFlagged, Known
<1>8. AcknowledgementSticks'
  BY <1>3, <1>4, <1>7 DEF Inv4, AcknowledgementSticks
<1>9. OldEvents'
  BY <1>3, <1>4, <1>5 DEF Inv4, OldEvents
<1>10. AcksFlagged' /\ AnsweredFlagged'
  BY <1>2, <1>3, <1>5, <1>6 DEF Inv4, AcksFlagged, AnsweredFlagged
<1>11. /\ \A u \in Threads : pc'[u] = "write" => Covered(u)'
       /\ StoreLock'
  BY <1>3 DEF Inv4, Covered, StoreLock
<1>12. QED
  BY <1>8, <1>9, <1>10, <1>11 DEF Inv4

\* An acknowledge call flags events the feed lists.
LEMMA FlagInv4 ==
  ASSUME Inv1, Inv2, Inv4, NEW t \in Threads, NEW E \in SUBSET Range(feed),
         Flag(t, E), up, pc[t] = "idle"
  PROVE  Inv4'
<1>1. /\ acked' = acked \cup E
      /\ UNCHANGED <<up, boot, feed, counter, disk, copy, answered>>
      /\ \A u \in Threads : acks'[u] = IF u = t THEN E ELSE acks[u]
      /\ \A u \in Threads : pc'[u] = "write" => pc[u] = "write" /\ u # t
  BY DEF Flag, history, Inv1, TypeOK
<1>2. \A e : Known(e)' <=> Known(e)
  BY <1>1 DEF Known
<1>3. \A e \in Range(feed) : Known(e)
  <2>1. /\ \A i \in DOMAIN feed : feed[i].uid = counter - Len(feed) + i
        /\ feed \in Seq(Event) /\ counter \in Nat
    BY DEF Inv2, IsWindow, Inv1, TypeOK
  <2>2. \A i \in DOMAIN feed : feed[i].uid <= counter
    BY <2>1
  <2>3. \A e \in Range(feed) : e.uid <= counter /\ e.boot <= boot
    BY <2>2 DEF Range, Inv4, OldEvents
  <2>4. QED
    BY <2>3 DEF Known
<1>4. AcksFlagged'
  BY <1>1, <1>2, <1>3 DEF Inv4, AcksFlagged
<1>5. AcknowledgementSticks' /\ OldEvents' /\ AnsweredFlagged' /\ StoreLock'
  BY <1>1, <1>2 DEF Inv4, AcknowledgementSticks, OldEvents, AnsweredFlagged, StoreLock
<1>6. \A u \in Threads : pc'[u] = "write" => Covered(u)'
  BY <1>1 DEF Inv4, Covered
<1>7. QED
  BY <1>4, <1>5, <1>6 DEF Inv4

LEMMA SaveInv4 ==
  ASSUME Inv1, Inv4, NEW t \in Threads,
         CopyState(t) \/ Serialise(t) \/ ReplaceFile(t) \/ SaveFails(t)
  PROVE  Inv4'
<1>1. CASE CopyState(t)
  <2>1. /\ UNCHANGED <<up, boot, feed, acked, counter, disk, acks, answered>>
        /\ \A u \in Threads : IF u = t THEN copy'[u].events = feed
                                       ELSE copy'[u] = copy[u]
        /\ \A u \in Threads : pc'[u] = "write" => pc[u] = "write" /\ u # t
    BY <1>1 DEF CopyState, shared, history, Inv1, TypeOK
  <2>2. AcknowledgementSticks' /\ OldEvents' /\ StoreLock'
    BY <2>1 DEF Inv4, AcknowledgementSticks, OldEvents, StoreLock
  <2>3. AcksFlagged' /\ AnsweredFlagged'
    BY <2>1 DEF Inv4, AcknowledgementSticks, AcksFlagged, AnsweredFlagged, Known
  <2>4. \A u \in Threads : pc'[u] = "write" => Covered(u)'
    BY <2>1 DEF Inv4, Covered
  <2>5. QED
    BY <2>2, <2>3, <2>4 DEF Inv4
<1>2. CASE Serialise(t)
  <2>1. /\ UNCHANGED <<up, boot, feed, acked, counter, disk, acks, answered>>
        /\ \A u \in Threads :
             /\ copy'[u].events = copy[u].events
             /\ u # t => copy'[u] = copy[u]
        /\ copy'[t].acked = acked \cap Range(copy[t].events)
        /\ \A u \in Threads : pc'[u] = "write" => u = t
    BY <1>2 DEF Serialise, StoreLockFree, shared, history, Inv1, TypeOK, Snapshot
  <2>2. AcknowledgementSticks' /\ OldEvents' /\ StoreLock'
    BY <2>1 DEF Inv4, AcknowledgementSticks, OldEvents, StoreLock
  <2>3. AcksFlagged' /\ AnsweredFlagged'
    BY <2>1 DEF Inv4, AcksFlagged, AnsweredFlagged, Known
  <2>4. Covered(t)'
    BY <2>1 DEF Inv4, Covered, AcksFlagged, AnsweredFlagged
  <2>5. QED
    BY <2>1, <2>2, <2>3, <2>4 DEF Inv4
<1>3. CASE ReplaceFile(t)
  <2>1. /\ UNCHANGED <<up, boot, feed, acked, counter>>
        /\ disk' = copy[t] /\ answered' = answered \cup acks[t]
        /\ pc[t] = "write"
        /\ \A u \in Threads : copy'[u] = IF u = t THEN Blank ELSE copy[u]
        /\ \A u \in Threads : acks'[u] = IF u = t THEN {} ELSE acks[u]
        /\ \A u \in Threads : pc'[u] = "write" => pc[u] = "write" /\ u # t
    BY <1>3 DEF ReplaceFile, Inv1, TypeOK
  <2>2. Range(Blank.events) = {}
    BY DEF Range, Blank
  <2>3. \A u \in Threads : pc'[u] # "write"
    BY <2>1 DEF Inv4, StoreLock
  <2>4. AcknowledgementSticks'
    <3>1. \A e \in Range(disk'.events) : e \in answered' => e \in disk'.acked
      BY <2>1 DEF Inv4, Covered
    <3>2. \A e \in Range(feed') : e \in answered' => e \in acked'
      BY <2>1 DEF Inv4, AcknowledgementSticks, AcksFlagged
    <3>3. QED
      BY <3>1, <3>2 DEF AcknowledgementSticks
  <2>5. OldEvents'
    BY <2>1, <2>2 DEF Inv4, OldEvents
  <2>6. AcksFlagged'
    BY <2>1 DEF Inv4, AcksFlagged, Known
  <2>7. AnsweredFlagged'
    BY <2>1, <2>2 DEF Inv4, AcksFlagged, AnsweredFlagged, Known
  <2>8. QED
    BY <2>3, <2>4, <2>5, <2>6, <2>7 DEF Inv4, StoreLock
<1>4. CASE SaveFails(t)
  <2>1. /\ UNCHANGED <<up, boot, feed, acked, counter, disk, answered>>
        /\ \A u \in Threads : copy'[u] = IF u = t THEN Blank ELSE copy[u]
        /\ \A u \in Threads : acks'[u] = IF u = t THEN {} ELSE acks[u]
        /\ \A u \in Threads : pc'[u] = "write" => pc[u] = "write" /\ u # t
    BY <1>4 DEF SaveFails, shared, history, Inv1, TypeOK
  <2>2. Range(Blank.events) = {}
    BY DEF Range, Blank
  <2>3. AcknowledgementSticks' /\ OldEvents' /\ StoreLock'
    BY <2>1, <2>2 DEF Inv4, AcknowledgementSticks, OldEvents, StoreLock
  <2>4. AcksFlagged' /\ AnsweredFlagged'
    BY <2>1, <2>2 DEF Inv4, AcksFlagged, AnsweredFlagged, Known
  <2>5. \A u \in Threads : pc'[u] = "write" => Covered(u)'
    BY <2>1 DEF Inv4, Covered
  <2>6. QED
    BY <2>3, <2>4, <2>5 DEF Inv4
<1>5. QED
  BY <1>1, <1>2, <1>3, <1>4

LEMMA StepInv4 == Inv1 /\ Inv2 /\ Inv3 /\ Inv4 /\ [Next]_vars => Inv4'
<1> SUFFICES ASSUME Inv1, Inv2, Inv3, Inv4, [Next]_vars PROVE Inv4'
  OBVIOUS
<1>1. ASSUME NEW t \in Threads, Acknowledge(t) \/ AcknowledgeAll(t) PROVE Inv4'
  <2>1. \A i \in DOMAIN feed : {feed[i]} \in SUBSET Range(feed)
    BY DEF Range
  <2>2. Unacknowledged \in SUBSET Range(feed)
    BY DEF Unacknowledged
  <2>3. QED
    BY <1>1, <2>1, <2>2, FlagInv4 DEF Acknowledge, AcknowledgeAll
<1>2. ASSUME UNCHANGED <<up, boot, feed, acked, counter, disk, copy, acks, answered>>,
             \A u \in Threads : pc'[u] = "write" => pc[u] = "write"
      PROVE  Inv4'
  BY <1>2 DEF Inv4, AcknowledgementSticks, OldEvents, AcksFlagged, AnsweredFlagged,
              Covered, StoreLock, Known
<1>3. ASSUME NEW t \in Threads, Call(t) \/ Section(t),
             ~Acknowledge(t), ~AcknowledgeAll(t), ~RecordEvent(t), ~SimulateBurst(t),
             ~CopyState(t), ~Serialise(t), ~ReplaceFile(t), ~SaveFails(t)
      PROVE  Inv4'
  <2>1. UNCHANGED <<up, boot, feed, acked, counter, disk, copy, acks, answered>>
    BY <1>3
       DEF Call, Section, IngestCall, SimulateCall, Offer, RegisterDeployment,
           Correlate, SkipInvalidItem, IngestReturns, SimulateRefused,
           EnsureRegistered, RegisterFromSession, Notify, shared, history
  <2>2. \A u \in Threads : pc'[u] = "write" => pc[u] = "write"
    BY <1>3
       DEF Call, Section, IngestCall, SimulateCall, RegisterDeployment,
           Correlate, SkipInvalidItem, IngestReturns, SimulateRefused,
           EnsureRegistered, RegisterFromSession, Notify, Inv1, TypeOK
  <2>3. QED
    BY <1>2, <2>1, <2>2
<1>4. CASE UNCHANGED vars
  BY <1>2, <1>4 DEF vars, shared, locals, history
<1>5. QED
  BY <1>1, <1>3, <1>4, BootInv4, AppendInv4, SaveInv4 DEF Next

\* A confirmed acknowledgement survives concurrent saves and restarts.
THEOREM AcknowledgementsStick == Spec => []AcknowledgementSticks
<1>1. Inv4 => AcknowledgementSticks
  BY DEF Inv4
<1>2. QED
  BY <1>1, InitInv1, StepInv1, InitInv2, StepInv2, InitInv3, StepInv3,
     InitInv4, StepInv4, PTL DEF Spec

-----------------------------------------------------------------------------
(***************************************************************************)
(* The feed implements EventLog                                            *)
(***************************************************************************)

\* The events of a window of uids are a window of the log.
LEMMA WindowOfLog ==
  ASSUME NEW s \in Seq(Event), NEW n \in Nat, IsWindow(s, n)
  PROVE  Log!Window(Range(s), n)
<1>1. /\ Len(s) = IF n > MaxEvents THEN MaxEvents ELSE n
      /\ DOMAIN s = 1 .. Len(s)
      /\ \A i \in 1 .. Len(s) : s[i].uid = n - Len(s) + i
  BY DEF IsWindow
<1>2. ASSUME NEW e \in Range(s)
      PROVE  e.uid \in 1 .. n /\ e.uid > n - MaxEvents
             /\ e.uid - n + Len(s) \in 1 .. Len(s) /\ e = s[e.uid - n + Len(s)]
  <2>1. PICK i \in 1 .. Len(s) : e = s[i]
    BY <1>1 DEF Range
  <2>2. e.uid = n - Len(s) + i
    BY <1>1, <2>1
  <2>3. QED
    BY <1>1, <2>1, <2>2
<1>3. ASSUME NEW u \in 1 .. n, u > n - MaxEvents PROVE \E e \in Range(s) : e.uid = u
  <2>1. u - n + Len(s) \in 1 .. Len(s)
    BY <1>1, <1>3
  <2>2. s[u - n + Len(s)].uid = u
    BY <1>1, <2>1
  <2>3. s[u - n + Len(s)] \in Range(s)
    BY <1>1, <2>1 DEF Range
  <2>4. QED
    BY <2>2, <2>3
<1>4. {e.uid : e \in Range(s)} = {u \in 1 .. n : u > n - MaxEvents}
  BY <1>2, <1>3
<1>5. \A e, f \in Range(s) : e.uid = f.uid => e = f
  BY <1>2
<1>6. QED
  BY <1>4, <1>5 DEF Log!Window

LEMMA InitLog == Init => Log!Init
<1> SUFFICES ASSUME Init PROVE Log!Init
  OBVIOUS
<1>1. Range(<<>>) = {}
  BY DEF Range
<1>2. QED
  BY <1>1 DEF Init, Blank, Log!Init

LEMMA BootLog ==
  ASSUME Inv1, Inv2, Inv1', Inv2', BootRestore \/ BootSeed \/ Crash
  PROVE  Log!Next
<1>0. /\ disk.events \in Seq(Event) /\ disk.counter \in Nat
      /\ IsWindow(disk.events, disk.counter)
      /\ feed' \in Seq(Event) /\ counter' \in Nat /\ IsWindow(feed', counter')
  BY DEF Inv1, TypeOK, Snapshot, Inv2
<1>1. CASE BootRestore
  <2>1. /\ Newest(disk.events) = disk.events
        /\ RestoredCounter(disk.counter, disk.events) = disk.counter
    BY <1>0, RestoreWindow
  <2>2. Log!Recover
    BY <1>1, <2>1 DEF BootRestore, Log!Recover
  <2>3. QED
    BY <2>2 DEF Log!Next
<1>2. CASE BootSeed
  <2>1. Len(disk.events) = 0
    BY <1>2 DEF BootSeed, Restorable
  <2>2. disk.counter = 0
    BY <1>0, <2>1 DEF IsWindow
  <2>3. disk'.counter = counter' /\ disk'.events = feed' /\ ~up /\ up'
    BY <1>2 DEF BootSeed, Blank
  <2>4. Log!Window(Range(feed'), counter')
    BY <1>0, WindowOfLog
  <2>5. Log!Begin
    BY <2>2, <2>3, <2>4 DEF Log!Begin, Log!Window
  <2>6. QED
    BY <2>5 DEF Log!Next
<1>3. CASE Crash
  <2>1. Range(<<>>) = {}
    BY DEF Range
  <2>2. Log!Stop
    BY <1>3, <2>1 DEF Crash, Log!Stop
  <2>3. QED
    BY <2>2 DEF Log!Next
<1>4. QED
  BY <1>1, <1>2, <1>3

\* Both ways to append record events.
LEMMA AppendLog ==
  ASSUME Inv1, Inv2, Inv1', Inv2', NEW t \in Threads,
         RecordEvent(t) \/ SimulateBurst(t)
  PROVE  Log!Record
<1>1. PICK choice \in Seq(Tags) : Len(choice) > 0 /\ AppendEvents(t, choice)
  BY Appending
<1>2. up /\ boot \in 1 .. MaxBoots
  BY Appending
<1>3. /\ feed' = Newest(feed \o Issued(counter, choice))
      /\ counter' = counter + Len(choice)
      /\ UNCHANGED <<up, disk>>
  BY <1>1 DEF AppendEvents
<1>4. counter \in Nat /\ Len(choice) \in Nat /\ counter' \in Nat
      /\ feed' \in Seq(Event) /\ IsWindow(feed', counter')
  BY DEF Inv1, TypeOK, Inv2
<1>5. Log!Window(Range(feed'), counter')
  BY <1>4, WindowOfLog
<1>6. counter' > counter
  BY <1>1, <1>3, <1>4
<1>7. \A e \in Range(feed') : e.uid <= counter => e \in Range(feed)
  <2>1. \A e \in Event : e.uid \in Nat
    BY DEF Event
  <2>2. QED
    BY <1>2, <1>3, <1>4, <2>1, AppendRange
<1>8. QED
  BY <1>2, <1>3, <1>5, <1>6, <1>7 DEF Log!Record, Log!Window

\* Whatever copy a thread writes is a state of the history.
LEMMA SaveLog ==
  ASSUME Inv1, Inv2, Inv3, NEW t \in Threads, ReplaceFile(t)
  PROVE  Log!Save
<1>1. up
  BY SectionUp DEF Section
<1>2. disk' = copy[t] /\ UNCHANGED <<up, feed, counter>>
  BY DEF ReplaceFile
<1>3. /\ copy[t].events \in Seq(Event) /\ copy[t].counter \in Nat
      /\ IsWindow(copy[t].events, copy[t].counter)
  BY DEF Inv1, TypeOK, Snapshot, Inv2
<1>4. Log!Window(Range(copy[t].events), copy[t].counter)
  BY <1>3, WindowOfLog
<1>5. /\ copy[t].counter <= counter
      /\ \A e \in Range(copy[t].events) : InHistory(e)
  BY <1>1 DEF Inv3
<1>6. \A e : InHistory(e) => Log!Recorded(e)
  BY DEF InHistory, Log!Recorded
<1>7. QED
  BY <1>1, <1>2, <1>4, <1>5, <1>6 DEF Log!Save, Log!Window, Log!Recorded

LEMMA StepLog ==
  Inv1 /\ Inv2 /\ Inv3 /\ Inv1' /\ Inv2' /\ [Next]_vars => [Log!Next]_(Log!vars)
<1> SUFFICES ASSUME Inv1, Inv2, Inv3, Inv1', Inv2', [Next]_vars
             PROVE  Log!Next \/ UNCHANGED <<up, feed, counter, disk>>
  BY DEF Log!vars
<1>1. CASE BootRestore \/ BootSeed \/ Crash
  BY <1>1, BootLog
<1>2. ASSUME NEW t \in Threads, Call(t) \/ Section(t)
      PROVE  Log!Next \/ UNCHANGED <<up, feed, counter, disk>>
  <2>1. CASE RecordEvent(t) \/ SimulateBurst(t)
    BY <2>1, AppendLog DEF Log!Next
  <2>2. CASE ReplaceFile(t)
    BY <2>2, SaveLog DEF Log!Next
  <2>3. CASE ~RecordEvent(t) /\ ~SimulateBurst(t) /\ ~ReplaceFile(t)
    BY <1>2, <2>3
       DEF Call, Section, IngestCall, SimulateCall, RegisterDeployment,
           Acknowledge, AcknowledgeAll, Flag, Correlate, SkipInvalidItem,
           IngestReturns, SimulateRefused, EnsureRegistered,
           RegisterFromSession, Notify, CopyState, Serialise, SaveFails, shared
  <2>4. QED
    BY <2>1, <2>2, <2>3
<1>3. CASE UNCHANGED vars
  BY <1>3 DEF vars, shared
<1>4. QED
  BY <1>1, <1>2, <1>3 DEF Next

\* The feed, its file and its threads implement the durable log: every step of
\* the code is a step of EventLog or changes nothing of it.
THEOREM FeedImplementsLog == Spec => ImplementsLog
<1>1. Spec => [](Inv1 /\ Inv2 /\ Inv3)
  BY InitInv1, StepInv1, InitInv2, StepInv2, InitInv3, StepInv3, PTL DEF Spec
<1>2. QED
  BY <1>1, InitLog, StepLog, PTL DEF Spec, ImplementsLog, Log!Spec
=============================================================================
