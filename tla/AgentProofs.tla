------------------------------ MODULE AgentProofs ------------------------------
(***************************************************************************)
(* Theorems of Agent for any limits and any number of lines, records,      *)
(* rotations, failures and starts.  Every event has a budget (Budgeted):   *)
(* how often it may be in the feed or on its way there.  The lines still   *)
(* to be read are newer than all those that left the file (Ordered), and   *)
(* the counts leave room for the batches not counted yet (Backed).         *)
(***************************************************************************)
EXTENDS Agent, FiniteSetTheorems, SequenceTheorems, WellFoundedInduction, TLAPS

IsLine(e) == e.source = "file"

\* The file holds the newest lines written.
FileShape ==
  /\ Len(log) <= written
  /\ \A i \in DOMAIN log : log[i] = written - Len(log) + i
  /\ half => log # <<>>
  /\ ~ present => log = <<>>

\* Where the collectors are in their sources.
Position ==
  /\ rotated => pc # "down"
  /\ pc # "down" /\ ~ rotated => offset <= Size
  /\ last <= recorded
  /\ pc # "down" => starts > 0

\* The agent waits for at most one request, of the kind its loop sent, and a
\* batch is in the feed once it was recorded.
Waits ==
  /\ \A i \in DOMAIN net : net[i].awaited =>
       /\ pc \in {"hello", "ingest", "beat"}
       /\ net[i].kind = IF pc = "ingest" THEN "ingest" ELSE "heartbeat"
  /\ pc \in {"hello", "ingest", "beat"} => \E i \in DOMAIN net : net[i].awaited
  /\ \A i, j \in DOMAIN net : net[i].awaited /\ net[j].awaited => i = j

Forms ==
  \A i \in DOMAIN net :
    /\ net[i].kind = "heartbeat" => net[i].events = <<>> /\ net[i].stage # "note"
    /\ net[i].stage # "sent" => Len(net[i].events) <= Limit
                                /\ ToSet(net[i].events) \subseteq ToSet(fed)

\* Batches are in order; what left the file is older than what is still to be
\* read, and in an awaited batch everything is newer than what left before it.
Ordered ==
  /\ \A e \in ToSet(fed) : IsLine(e) =>
       e.n <= written /\ (pc # "down" => \A m \in Unread : e.n < m)
  /\ \A i \in DOMAIN net : \A e \in ToSet(net[i].events) : IsLine(e) =>
       e.n <= written /\ (pc # "down" => \A m \in Unread : e.n < m)
  /\ \A i \in DOMAIN net : \A j, k \in DOMAIN net[i].events :
       j < k /\ IsLine(net[i].events[j]) /\ IsLine(net[i].events[k]) =>
         net[i].events[j].n < net[i].events[k].n
  /\ \A i \in DOMAIN net : net[i].awaited /\ net[i].stage = "sent" =>
       \A e \in ToSet(net[i].events) : IsLine(e) =>
         /\ \A f \in ToSet(fed) : IsLine(f) => f.n < e.n
         /\ \A j \in DOMAIN net \ {i} : \A f \in ToSet(net[j].events) :
              IsLine(f) => f.n < e.n

\* Requests that may still bring e to the feed.
Carriers(e) == {i \in DOMAIN net : net[i].stage = "sent" /\ e \in ToSet(net[i].events)}

\* The collectors may still read e.
ToCome(e) ==
  IF IsLine(e) THEN e.n > written \/ (pc # "down" /\ e.n \in Unread)
               ELSE pc # "down" /\ e.n > last

Quota(e) == IF IsLine(e) THEN 1 ELSE starts

AnyEvent == {Line(n) : n \in Nat \ {0}} \cup {WinRecord(n) : n \in Nat \ {0}}

Budgeted ==
  /\ \A e \in AnyEvent :
       Times(e) + Cardinality(Carriers(e)) + (IF ToCome(e) THEN 1 ELSE 0) <= Quota(e)
  /\ \A i \in DOMAIN net : \A j, k \in DOMAIN net[i].events :
       net[i].events[j] = net[i].events[k] => j = k

\* The events of the requests S of n, one by one; no request recorded has more
\* than Limit of them.
Items(n, S) ==
  {p \in (DOMAIN n) \X (1 .. Limit) : p[1] \in S /\ p[2] \in DOMAIN n[p[1]].events}

\* Batches recorded and not counted in the registry, and those and the ones the
\* agent has yet to count.
Unnoted(n) == {i \in DOMAIN n : n[i].stage = "note"}
Unclaimed(n) ==
  {i \in DOMAIN n : n[i].stage = "note" \/ (n[i].stage = "answer" /\ n[i].awaited)}

Uncounted == Cardinality(Items(net, Unnoted(net)))
Unforwarded == Cardinality(Items(net, Unclaimed(net)))

Backed ==
  /\ registry.count + Uncounted <= Len(fed)
  /\ saved.count + Uncounted <= Len(fed)
  /\ \A i \in DOMAIN net : net[i].kind = "heartbeat" => net[i].count + Uncounted <= Len(fed)
  /\ forwarded + Unforwarded <= Len(fed)

IInv == TypeOK /\ FileShape /\ Position /\ Waits /\ Forms /\ Ordered /\ Budgeted /\ Backed

USE SizeAssumption, BoundAssumption

-----------------------------------------------------------------------------
(***************************************************************************)
(* Numbers and sequences                                                   *)
(***************************************************************************)

LEMMA SmallestOf ==
  ASSUME NEW S, S \subseteq Nat, S # {}
  PROVE  \E x \in S : \A y \in S : x <= y
<1> DEFINE R == OpToRel(<, Nat)
<1>1. \A x, y \in Nat : <<y, x>> \in R <=> y < x
  BY DEF OpToRel
<1> HIDE DEF R
<1>2. PICK x \in S : \A y \in S : ~ (<<y, x>> \in R)
  BY NatLessThanWellFounded, WFMin DEF R
<1>3. \A y \in S : ~ (y < x)
  BY <1>1, <1>2, Zenon
<1>4. QED
  BY <1>2, <1>3

LEMMA CutOut ==
  ASSUME NEW S, NEW s \in Seq(S), NEW k \in 1 .. Len(s)
  PROVE  /\ RemoveAt(s, k) \in Seq(S) /\ Len(RemoveAt(s, k)) = Len(s) - 1
         /\ \A i \in 1 .. Len(s) - 1 : RemoveAt(s, k)[i] = IF i < k THEN s[i] ELSE s[i + 1]
<1> DEFINE a == SubSeq(s, 1, k - 1)
           b == SubSeq(s, k + 1, Len(s))
           r == a \o b
<1>1. /\ Len(s) \in Nat /\ k \in Nat /\ 1 <= k /\ k <= Len(s)
      /\ \A i \in 1 .. Len(s) : s[i] \in S
  OBVIOUS
<1>2. /\ a \in Seq(S) /\ Len(a) = k - 1
      /\ \A i \in 1 .. k - 1 : a[i] = s[i]
  BY <1>1
<1>3. /\ b \in Seq(S) /\ Len(b) = Len(s) - k
      /\ \A i \in 1 .. Len(s) - k : b[i] = s[k + i]
  <2>1. k + 1 \in Int /\ Len(s) \in Int /\ \A i \in k + 1 .. Len(s) : s[i] \in S
    BY <1>1
  <2>2. /\ b \in Seq(S)
        /\ Len(b) = IF k + 1 <= Len(s) THEN Len(s) - (k + 1) + 1 ELSE 0
        /\ \A i \in 1 .. Len(s) - (k + 1) + 1 : b[i] = s[(k + 1) + i - 1]
    BY <2>1, SubSeqProperties
  <2>3. Len(s) - (k + 1) + 1 = Len(s) - k
    BY <1>1
  <2>4. \A i \in Int : (k + 1) + i - 1 = k + i
    BY <1>1
  <2>5. ~ (k + 1 <= Len(s)) => Len(s) - k = 0
    BY <1>1
  <2> HIDE DEF b
  <2>6. Len(b) = Len(s) - k
    BY <1>1, <2>2, <2>3, <2>5
  <2>7. ASSUME NEW i \in 1 .. Len(s) - k PROVE b[i] = s[k + i]
    <3>1. b[i] = s[(k + 1) + i - 1]
      BY <2>2, <2>3
    <3>2. (k + 1) + i - 1 = k + i
      BY <2>4
    <3>3. QED
      BY <3>1, <3>2
  <2>8. QED
    BY <2>2, <2>6, <2>7
<1> HIDE DEF a, b
<1>4. /\ r \in Seq(S) /\ Len(r) = Len(a) + Len(b)
      /\ \A i \in 1 .. Len(a) + Len(b) : r[i] = IF i <= Len(a) THEN a[i] ELSE b[i - Len(a)]
  BY <1>2, <1>3, ConcatProperties
<1>5. RemoveAt(s, k) = r
  BY DEF RemoveAt, a, b
<1> HIDE DEF r
<1>6. ASSUME NEW i \in 1 .. Len(s) - 1
      PROVE  r[i] = IF i < k THEN s[i] ELSE s[i + 1]
  <2>1. Len(a) + Len(b) = Len(s) - 1
    BY <1>1, <1>2, <1>3
  <2>2. CASE i < k
    <3>1. i \in 1 .. k - 1 /\ i <= Len(a)
      BY <1>1, <1>2, <2>2
    <3>2. r[i] = a[i]
      BY <1>4, <2>1, <3>1
    <3>3. QED
      BY <1>2, <2>2, <3>1, <3>2
  <2>3. CASE ~ (i < k)
    <3>1. i - (k - 1) \in 1 .. Len(s) - k /\ k + (i - (k - 1)) = i + 1 /\ ~ (i <= Len(a))
      BY <1>1, <1>2, <2>3
    <3>2. r[i] = b[i - (k - 1)]
      BY <1>2, <1>4, <2>1, <3>1
    <3>3. QED
      BY <1>3, <2>3, <3>1, <3>2
  <2>4. QED
    BY <2>2, <2>3
<1>7. Len(r) = Len(s) - 1
  BY <1>1, <1>2, <1>3, <1>4
<1>8. QED
  BY <1>4, <1>5, <1>6, <1>7

\* WinlogCollector.poll returns the newest record alone, or nothing: once it has
\* taken that one, all the others are older than _last_record.
LEMMA NewestRecordOnly ==
  ASSUME recorded \in Nat, last \in Nat
  PROVE  ReadRecords = IF recorded > last
                       THEN [events |-> <<WinRecord(recorded)>>, last |-> recorded]
                       ELSE [events |-> <<>>, last |-> last]
<1> DEFINE none == [events |-> <<>>, last |-> last]
           one == [events |-> <<WinRecord(recorded)>>, last |-> recorded]
           More(read, r) ==
             IF Len(read.events) = WinlogMax \/ r <= read.last THEN read
             ELSE [events |-> <<WinRecord(r)>> \o read.events, last |-> r]
           B(f) == [k \in 0 .. recorded |->
                      IF k = 0 THEN none ELSE More(f[k - 1], recorded + 1 - k)]
           g == [k \in 0 .. recorded |-> IF k = 0 \/ recorded <= last THEN none ELSE one]
<1>1. Len(<<>>) = 0 /\ <<WinRecord(recorded)>> \o <<>> = <<WinRecord(recorded)>>
  OBVIOUS
<1>2. ASSUME NEW k \in 1 .. recorded
      PROVE  More(g[k - 1], recorded + 1 - k) = g[k]
  <2>1. /\ k \in Nat /\ k >= 1 /\ k - 1 \in 0 .. recorded /\ k \in 0 .. recorded
        /\ recorded + 1 - k <= recorded /\ (k = 1 <=> k - 1 = 0)
        /\ (k = 1 => recorded + 1 - k = recorded)
    BY <1>2
  <2>2. g[k] = IF recorded <= last THEN none ELSE one
    BY <2>1
  <2>3. g[k - 1] = IF k = 1 \/ recorded <= last THEN none ELSE one
    BY <2>1
  <2>4. CASE recorded <= last
    <3>1. g[k - 1] = none /\ g[k] = none
      BY <2>2, <2>3, <2>4
    <3>2. recorded + 1 - k <= none.last
      BY <2>1, <2>4
    <3>3. QED
      BY <3>1, <3>2
  <2>5. CASE ~ (recorded <= last) /\ k = 1
    <3>1. g[k - 1] = none /\ g[k] = one
      BY <2>2, <2>3, <2>5
    <3>2. ~ (Len(none.events) = WinlogMax) /\ ~ (recorded <= none.last)
      BY <1>1, <2>5
    <3>3. QED
      BY <1>1, <2>1, <2>5, <3>1, <3>2
  <2>6. CASE ~ (recorded <= last) /\ k # 1
    <3>1. g[k - 1] = one /\ g[k] = one
      BY <2>2, <2>3, <2>6
    <3>2. recorded + 1 - k <= one.last
      BY <2>1
    <3>3. QED
      BY <3>1, <3>2
  <2>7. QED
    BY <2>4, <2>5, <2>6
<1> HIDE DEF none, one, More
<1>3. g = B(g)
  <2>1. g = [k \in 0 .. recorded |-> g[k]] /\ g[0] = none
    OBVIOUS
  <2> HIDE DEF g
  <2>2. \A k \in 0 .. recorded :
          g[k] = IF k = 0 THEN none ELSE More(g[k - 1], recorded + 1 - k)
    <3>1. \A k \in 0 .. recorded : k = 0 \/ k \in 1 .. recorded
      OBVIOUS
    <3>2. ~ (0 \in 1 .. recorded)
      OBVIOUS
    <3>3. QED
      BY <1>2, <2>1, <3>1, <3>2, Zenon
  <2>3. QED
    BY <2>1, <2>2, Zenon
<1>4. ReadBack = CHOOSE f : f = B(f)
  BY DEF ReadBack, B, More, none
<1> HIDE DEF g, B
<1>5. ReadBack = B(ReadBack)
  BY <1>3, <1>4
<1>6. DOMAIN ReadBack = 0 .. recorded /\ ReadBack[0] = none
      /\ \A k \in 1 .. recorded : ReadBack[k] = More(ReadBack[k - 1], recorded + 1 - k)
  BY <1>5 DEF B
<1>7. \A k \in 0 .. recorded : ReadBack[k] = g[k]
  <2> DEFINE Bad == {k \in 0 .. recorded : ReadBack[k] # g[k]}
  <2>1. SUFFICES ASSUME Bad # {} PROVE FALSE
    OBVIOUS
  <2>2. PICK k \in Bad : \A j \in Bad : k <= j
    <3>1. Bad \subseteq Nat
      OBVIOUS
    <3> HIDE DEF Bad
    <3>2. QED
      BY <2>1, <3>1, SmallestOf
  <2>3. ReadBack[0] = g[0]
    BY <1>6 DEF g
  <2>4. k \in 1 .. recorded /\ k - 1 \in 0 .. recorded /\ ~ (k <= k - 1)
    BY <2>2, <2>3
  <2>5. ReadBack[k - 1] = g[k - 1]
    BY <2>2, <2>4
  <2>6. QED
    BY <1>2, <1>6, <2>2, <2>4, <2>5
<1>8. ReadRecords = g[recorded]
  BY <1>7 DEF ReadRecords
<1>9. QED
  BY <1>8 DEF g, none, one

-----------------------------------------------------------------------------
(***************************************************************************)
(* Reading the file                                                        *)
(***************************************************************************)

LEMMA EventFacts ==
  /\ \A n \in 1 .. MaxWritten : Line(n) \in Event /\ Line(n).n = n /\ IsLine(Line(n))
  /\ \A n \in 1 .. MaxRecorded : WinRecord(n) \in Event
  /\ \A n : WinRecord(n).n = n /\ ~ IsLine(WinRecord(n)) /\ Line(n).n = n /\ IsLine(Line(n))
  /\ \A e \in Event : \/ IsLine(e) /\ e.n \in 1 .. MaxWritten /\ e = Line(e.n)
                      \/ ~ IsLine(e) /\ e.n \in 1 .. MaxRecorded /\ e = WinRecord(e.n)
<1>1. \A n : WinRecord(n).n = n /\ ~ IsLine(WinRecord(n)) /\ Line(n).n = n /\ IsLine(Line(n))
  BY DEF Line, WinRecord, IsLine
<1>2. \A n \in 1 .. MaxWritten : Line(n) \in Event
  BY DEF Event
<1>3. \A n \in 1 .. MaxRecorded : WinRecord(n) \in Event
  BY DEF Event
<1>4. ASSUME NEW e \in Event
      PROVE  \/ IsLine(e) /\ e.n \in 1 .. MaxWritten /\ e = Line(e.n)
             \/ ~ IsLine(e) /\ e.n \in 1 .. MaxRecorded /\ e = WinRecord(e.n)
  <2>1. CASE \E n \in 1 .. MaxWritten : e = Line(n)
    BY <1>1, <2>1
  <2>2. CASE \E n \in 1 .. MaxRecorded : e = WinRecord(n)
    BY <1>1, <2>2
  <2>3. QED
    BY <2>1, <2>2 DEF Event
<1>5. QED
  BY <1>1, <1>2, <1>3, <1>4

LEMMA LogFacts ==
  ASSUME TypeOK
  PROVE  /\ Len(log) \in Nat /\ DOMAIN log = 1 .. Len(log)
         /\ \A i \in DOMAIN log : log[i] \in 1 .. MaxWritten
         /\ Unread \subseteq 1 .. MaxWritten
         /\ FileShape => Size \in Nat /\ Size <= 2 * Len(log)
<1>1. log \in Seq(1 .. MaxWritten) /\ half \in BOOLEAN
  BY DEF TypeOK
<1>2. /\ Len(log) \in Nat /\ DOMAIN log = 1 .. Len(log)
      /\ \A i \in DOMAIN log : log[i] \in 1 .. MaxWritten
  BY <1>1
<1>3. Unread \subseteq 1 .. MaxWritten
  BY <1>2 DEF Unread
<1>4. ASSUME FileShape PROVE Size \in Nat /\ Size <= 2 * Len(log)
  <2>1. half => Len(log) # 0
    BY <1>1, <1>4 DEF FileShape
  <2>2. QED
    BY <1>1, <1>2, <2>1 DEF Size
<1>5. QED
  BY <1>2, <1>3, <1>4

\* From where a poll reads on, and to where.
LEMMA ReadPositions ==
  ASSUME TypeOK, FileShape, Position, pc = "poll"
  PROVE  /\ Rewound \in Nat /\ FirstWhole \in Nat /\ FirstWhole >= 1
         /\ Size \div 2 \in Nat /\ Size \div 2 <= Len(log)
         /\ \A j \in Nat : j >= FirstWhole <=> 2 * j - 1 > Rewound
         /\ \A j \in 1 .. Len(log) : j > Size \div 2 => half /\ j = Len(log)
         /\ ~ rotated => Rewound = offset
         /\ rotated /\ Size < offset => FirstWhole = 1
<1>1. /\ Size \in Nat /\ Len(log) \in Nat /\ offset \in Nat /\ half \in BOOLEAN
      /\ ~ rotated => offset <= Size
  BY LogFacts DEF TypeOK, Position
<1>2. Size = 2 * Len(log) - (IF half THEN 1 ELSE 0)
  BY DEF Size
<1>3. Rewound \in Nat
  BY <1>1 DEF Rewound
<1>4. /\ Size \div 2 \in Nat /\ Size \div 2 <= Len(log)
      /\ \A j \in 1 .. Len(log) : j > Size \div 2 => half /\ j = Len(log)
  BY <1>1, <1>2
<1>5. FirstWhole \in Nat /\ FirstWhole >= 1
      /\ \A j \in Nat : j >= FirstWhole <=> 2 * j - 1 > Rewound
  BY <1>3 DEF FirstWhole
<1>6. ~ rotated => Rewound = offset
  BY <1>1 DEF Rewound
<1>7. Size < offset => FirstWhole = 1
  BY DEF FirstWhole, Rewound
<1>8. QED
  BY <1>3, <1>4, <1>5, <1>6, <1>7

\* A poll of the file returns lines still unread, in order; the others are torn
\* or hidden.
LEMMA FileIsRead ==
  ASSUME TypeOK, FileShape, Position, pc = "poll", present
  PROVE  /\ FileEvents \in Seq(Event)
         /\ \A k \in DOMAIN FileEvents : IsLine(FileEvents[k]) /\ FileEvents[k].n \in Unread
         /\ \A j, k \in DOMAIN FileEvents : j < k => FileEvents[j].n < FileEvents[k].n
         /\ \A n \in Unread : Line(n) \in ToSet(FileEvents) \/ n \in Torn \cup Hidden
         /\ Torn \cup Hidden \subseteq 1 .. MaxWritten
<1> DEFINE f == FirstWhole
           h == Size \div 2
           L == Len(log)
           m == IF f <= h THEN h - f + 1 ELSE 0
<1>1. /\ L \in Nat /\ DOMAIN log = 1 .. L
      /\ \A i \in DOMAIN log : log[i] \in 1 .. MaxWritten
  BY LogFacts
<1>2. /\ f \in Nat /\ f >= 1 /\ h \in Nat /\ h <= L
      /\ \A j \in Nat : j >= f <=> 2 * j - 1 > Rewound
      /\ \A j \in 1 .. L : j > h => half /\ j = L
      /\ ~ rotated => Rewound = offset
      /\ rotated /\ Size < offset => f = 1
  BY ReadPositions
<1> HIDE DEF f, h, L
<1>3. /\ NewLines \in Seq(1 .. MaxWritten) /\ Len(NewLines) = m
      /\ \A i \in 1 .. m : NewLines[i] = log[f + i - 1]
  <2>1. \A i \in f .. h : log[i] \in 1 .. MaxWritten
    BY <1>1, <1>2
  <2>2. /\ NewLines \in Seq(1 .. MaxWritten)
        /\ Len(NewLines) = IF f <= h THEN h - f + 1 ELSE 0
        /\ \A i \in 1 .. h - f + 1 : NewLines[i] = log[f + i - 1]
    BY <1>2, <2>1, SubSeqProperties DEF NewLines, f, h
  <2>3. 1 .. m \subseteq 1 .. h - f + 1
    BY <1>2
  <2>4. QED
    BY <2>2, <2>3
<1>4. m \in Nat /\ \A i \in 1 .. m : f + i - 1 \in 1 .. L /\ f + i - 1 >= f /\ f + i - 1 <= h
  BY <1>1, <1>2
<1>5. FileEvents = [i \in 1 .. m |-> Line(NewLines[i])]
  <2>1. DOMAIN NewLines = 1 .. m
    BY <1>3, <1>4
  <2>2. QED
    BY <2>1 DEF FileEvents
<1>6. DOMAIN FileEvents = 1 .. m /\ \A i \in 1 .. m : FileEvents[i] = Line(log[f + i - 1])
  BY <1>3, <1>5
<1> HIDE DEF m
<1>7. FileEvents \in Seq(Event)
  <2>1. \A i \in 1 .. m : Line(NewLines[i]) \in Event
    BY <1>1, <1>3, <1>4, EventFacts
  <2>2. QED
    BY <1>4, <1>5, <2>1
<1>8. \A i \in DOMAIN log : i >= f => log[i] \in Unread
  <2>1. ASSUME NEW i \in DOMAIN log, i >= f PROVE rotated \/ 2 * i - 1 > offset
    BY <1>1, <1>2, <2>1
  <2>2. QED
    BY <2>1 DEF Unread
<1>9. \A k \in 1 .. m : IsLine(FileEvents[k]) /\ FileEvents[k].n \in Unread
                        /\ FileEvents[k].n = log[f + k - 1]
  BY <1>1, <1>4, <1>6, <1>8, EventFacts
<1>10. \A j, k \in 1 .. m : j < k => FileEvents[j].n < FileEvents[k].n
  <2>1. \A i \in 1 .. L : log[i] = written - L + i
    BY <1>1 DEF FileShape, L
  <2>2. written \in Nat
    BY DEF TypeOK
  <2>3. ASSUME NEW j \in 1 .. m, NEW k \in 1 .. m, j < k
        PROVE  log[f + j - 1] < log[f + k - 1]
    <3>1. log[f + j - 1] = written - L + (f + j - 1) /\ log[f + k - 1] = written - L + (f + k - 1)
      BY <1>4, <2>1
    <3>2. QED
      BY <1>1, <1>2, <1>4, <2>2, <2>3, <3>1
  <2>4. QED
    BY <1>9, <2>3
<1>11. \A n \in Unread : Line(n) \in ToSet(FileEvents) \/ n \in Torn \cup Hidden
  <2>1. SUFFICES ASSUME NEW i \in 1 .. L, rotated \/ 2 * i - 1 > offset
                 PROVE  Line(log[i]) \in ToSet(FileEvents) \/ log[i] \in Torn \cup Hidden
    BY <1>1 DEF Unread
  <2>2. CASE i < f
    <3>1. rotated /\ ~ (Size < offset)
      BY <1>2, <2>1, <2>2
    <3>2. i \in DOMAIN log \cap 1 .. f - 1 /\ Size >= offset
      <4>1. Size \in Nat /\ offset \in Nat
        BY LogFacts DEF TypeOK
      <4>2. QED
        BY <1>1, <1>2, <2>2, <3>1, <4>1
    <3>3. log[i] \in Hidden
      BY <3>1, <3>2 DEF Hidden, f
    <3>4. QED
      BY <3>3
  <2>3. CASE i >= f /\ i <= h
    <3>1. i - f + 1 \in 1 .. m /\ f + (i - f + 1) - 1 = i
      BY <1>2, <2>3 DEF m
    <3>2. FileEvents[i - f + 1] = Line(log[i])
      BY <1>6, <3>1
    <3>3. QED
      BY <1>6, <3>1, <3>2 DEF ToSet
  <2>4. CASE i >= f /\ i > h
    <3>1. half /\ i = L
      BY <1>2, <2>4
    <3>2. Size > Rewound
      <4>1. 2 * L - 1 > Rewound
        BY <1>1, <1>2, <2>4, <3>1
      <4>2. Size = 2 * L - 1
        BY <3>1 DEF Size, L
      <4>3. QED
        BY <4>1, <4>2
    <3>3. QED
      BY <3>1, <3>2 DEF Torn, Last, L
  <2>5. QED
    BY <1>1, <1>2, <2>2, <2>3, <2>4
<1>12. Torn \cup Hidden \subseteq 1 .. MaxWritten
  <2>1. Hidden \subseteq 1 .. MaxWritten
    BY <1>1 DEF Hidden
  <2>2. Torn \subseteq 1 .. MaxWritten
    <3>1. half => L # 0
      BY <1>1 DEF FileShape, L
    <3>2. half => log[L] \in 1 .. MaxWritten
      BY <1>1, <3>1
    <3>3. QED
      BY <3>2 DEF Torn, Last, L
  <2>3. QED
    BY <2>1, <2>2
<1>13. QED
  BY <1>6, <1>7, <1>9, <1>10, <1>11, <1>12

\* The file collector's side of a poll that reads it to its end ...
LEMMA FileSide ==
  ASSUME TypeOK, FileShape, Position, pc = "poll", pc' # "down", UNCHANGED file,
         NEW lost \in SUBSET Event, ReadFile(lost)
  PROVE  /\ FileEvents \in Seq(Event)
         /\ \A k \in DOMAIN FileEvents : IsLine(FileEvents[k]) /\ FileEvents[k].n \in Unread
         /\ \A j, k \in DOMAIN FileEvents : j < k => FileEvents[j].n < FileEvents[k].n
         /\ Unread' = {}
         /\ rotated' \in BOOLEAN /\ offset' \in 0 .. 2 * MaxWritten
         /\ ~ rotated' => offset' <= Size
         /\ \A n \in Unread : Line(n) \in ToSet(FileEvents) \cup excused'
         /\ excused \cup lost \subseteq excused' /\ excused' \in SUBSET Event
<1>1. /\ log' = log /\ half' = half /\ present' = present /\ Size' = Size
      /\ Len(log) \in Nat /\ DOMAIN log = 1 .. Len(log) /\ Unread \subseteq 1 .. MaxWritten
      /\ Size \in Nat /\ Size <= 2 * Len(log)
      /\ present \in BOOLEAN /\ rotated \in BOOLEAN /\ excused \subseteq Event
      /\ offset \in 0 .. 2 * MaxWritten /\ Len(log) <= written /\ written \in 0 .. MaxWritten
      /\ ~ rotated => offset <= Size
  BY LogFacts DEF file, Size, TypeOK, FileShape, Position
<1>2. MaxWritten \in Nat
  OBVIOUS
<1>3. CASE present
  <2>1. offset' = Size /\ rotated' = FALSE
        /\ excused' = excused \cup lost \cup {Line(n) : n \in Torn \cup Hidden}
    BY <1>3 DEF ReadFile
  <2>2. /\ FileEvents \in Seq(Event)
        /\ \A k \in DOMAIN FileEvents : IsLine(FileEvents[k]) /\ FileEvents[k].n \in Unread
        /\ \A j, k \in DOMAIN FileEvents : j < k => FileEvents[j].n < FileEvents[k].n
        /\ \A n \in Unread : Line(n) \in ToSet(FileEvents) \/ n \in Torn \cup Hidden
        /\ Torn \cup Hidden \subseteq 1 .. MaxWritten
    BY <1>3, FileIsRead
  <2>3. Unread' = {}
    <3>1. \A j \in 1 .. Len(log) : ~ (2 * j - 1 > Size)
      <4>1. ASSUME NEW j \in 1 .. Len(log), 2 * j - 1 > Size PROVE FALSE
        <5>1. j <= Len(log) /\ j \in Nat /\ Size \in Nat /\ Len(log) \in Nat
          BY <1>1
        <5>2. 2 * j - 1 > 2 * Len(log) - 1
          <6>1. half => Size = 2 * Len(log) - 1
            BY DEF Size
          <6>2. ~ half => Size = 2 * Len(log)
            BY DEF Size
          <6>3. QED
            BY <4>1, <5>1, <6>1, <6>2
        <5>3. QED
          BY <5>1, <5>2
      <4>2. QED
        BY <4>1
    <3>2. ASSUME NEW m \in Unread' PROVE FALSE
      <4>1. PICK j \in 1 .. Len(log) : pc' = "down" \/ rotated' \/ 2 * j - 1 > offset'
        BY <1>1, <3>2 DEF Unread
      <4>2. QED
        BY <2>1, <3>1, <4>1
    <3>3. QED
      BY <3>2
  <2>4. offset' \in 0 .. 2 * MaxWritten
    BY <1>1, <1>2, <2>1
  <2>5. {Line(n) : n \in Torn \cup Hidden} \subseteq Event
    BY <2>2, EventFacts
  <2>6. \A n \in Unread : Line(n) \in ToSet(FileEvents) \cup excused'
    BY <2>1, <2>2
  <2>7. excused \cup lost \subseteq excused' /\ excused' \in SUBSET Event
    BY <1>1, <2>1, <2>5
  <2>8. rotated' \in BOOLEAN /\ (~ rotated' => offset' <= Size)
    <3>1. \A x \in Nat : x <= x
      OBVIOUS
    <3>2. QED
      BY <1>1, <2>1, <3>1, Zenon
  <2>9. QED
    BY <2>2, <2>3, <2>4, <2>6, <2>7, <2>8, Zenon
<1>4. CASE ~ present
  <2>1. offset' = offset /\ rotated' = rotated /\ excused' = excused \cup lost
    BY <1>1, <1>4 DEF ReadFile
  <2>2. FileEvents = <<>> /\ log = <<>>
    BY <1>4 DEF FileEvents, FileShape
  <2>3. DOMAIN log = {}
    BY <2>2
  <2>4. Unread = {} /\ Unread' = {}
    BY <1>1, <2>3 DEF Unread
  <2>5. FileEvents \in Seq(Event) /\ DOMAIN FileEvents = {}
    BY <2>2
  <2>6. excused \cup lost \subseteq excused' /\ excused' \in SUBSET Event
    BY <1>1, <2>1
  <2>7. rotated' \in BOOLEAN /\ offset' \in 0 .. 2 * MaxWritten /\ (~ rotated' => offset' <= Size)
    BY <1>1, <2>1
  <2>8. /\ \A k \in DOMAIN FileEvents : IsLine(FileEvents[k]) /\ FileEvents[k].n \in Unread
        /\ \A j, k \in DOMAIN FileEvents : j < k => FileEvents[j].n < FileEvents[k].n
    BY <2>5, Zenon
  <2>9. \A n \in Unread : Line(n) \in ToSet(FileEvents) \cup excused'
    BY <2>4, Zenon
  <2>10. QED
    BY <2>4, <2>5, <2>6, <2>7, <2>8, <2>9, Zenon
<1>5. QED
  BY <1>3, <1>4

\* ... and of a poll in which it raises: all that was unread still is.
LEMMA FileSideRaises ==
  ASSUME TypeOK, FileShape, Position, pc = "poll", pc' # "down", UNCHANGED file,
         offset' = Rewound, rotated' = (rotated /\ Rewound = offset)
  PROVE  /\ Unread' = Unread
         /\ rotated' \in BOOLEAN /\ offset' \in 0 .. 2 * MaxWritten
         /\ ~ rotated' => offset' <= Size
<1>1. /\ log' = log /\ Size \in Nat /\ offset \in 0 .. 2 * MaxWritten
      /\ rotated \in BOOLEAN /\ DOMAIN log = 1 .. Len(log)
      /\ ~ rotated => offset <= Size
  BY LogFacts DEF file, TypeOK, Position
<1>2. MaxWritten \in Nat
  OBVIOUS
<1>3. CASE Size < offset
  <2>1. Rewound = 0 /\ rotated /\ rotated' = FALSE /\ offset' = 0
    <3>1. Rewound = 0 /\ offset # 0
      BY <1>1, <1>3 DEF Rewound
    <3>2. offset \in Nat /\ rotated
      BY <1>1, <1>3
    <3>3. QED
      BY <3>1, <3>2
  <2>2. \A j \in DOMAIN log : 2 * j - 1 > offset'
    BY <1>1, <2>1
  <2>3. Unread' = Unread
    BY <1>1, <2>1, <2>2 DEF Unread
  <2>4. QED
    BY <1>1, <1>2, <2>1, <2>3
<1>4. CASE ~ (Size < offset)
  <2>1. offset' = offset /\ rotated' = rotated
    BY <1>1, <1>4 DEF Rewound
  <2>2. Unread' = Unread
    BY <1>1, <2>1 DEF Unread
  <2>3. offset <= Size
    BY <1>1, <1>4
  <2>4. QED
    BY <1>1, <2>1, <2>2, <2>3
<1>5. QED
  BY <1>3, <1>4

LEMMA RecordSide ==
  ASSUME TypeOK, Position
  PROVE  /\ ReadRecords.events \in Seq(Event) /\ Len(ReadRecords.events) <= 1
         /\ \A k \in DOMAIN ReadRecords.events :
              /\ ReadRecords.events[k] = WinRecord(recorded)
              /\ recorded > last /\ ReadRecords.last = recorded
         /\ ReadRecords.last \in {last, recorded} /\ ReadRecords.last >= last
<1>1. recorded \in 0 .. MaxRecorded /\ last \in 0 .. MaxRecorded /\ MaxRecorded \in Nat
      /\ last <= recorded
  BY DEF TypeOK, Position
<1>2. CASE recorded > last
  <2>1. ReadRecords.events = <<WinRecord(recorded)>> /\ ReadRecords.last = recorded
    BY <1>1, <1>2, NewestRecordOnly
  <2>2. WinRecord(recorded) \in Event
    BY <1>1, <1>2, EventFacts
  <2>3. QED
    BY <1>1, <1>2, <2>1, <2>2
<1>3. CASE ~ (recorded > last)
  <2>1. ReadRecords.events = <<>> /\ ReadRecords.last = last
    BY <1>1, <1>3, NewestRecordOnly
  <2>2. QED
    BY <1>1, <2>1
<1>4. QED
  BY <1>2, <1>3

\* A batch is what one collector returned after what the other returned.
LEMMA Joined ==
  ASSUME NEW F \in Seq(Event), NEW R \in Seq(Event), Len(R) <= 1, NEW r,
         \A k \in DOMAIN F : IsLine(F[k]),
         \A j, k \in DOMAIN F : j < k => F[j].n < F[k].n,
         \A k \in DOMAIN R : R[k] = WinRecord(r)
  PROVE  /\ F \o R \in Seq(Event) /\ ToSet(F) \subseteq ToSet(F \o R)
         /\ \A k \in DOMAIN (F \o R) :
              IF IsLine((F \o R)[k]) THEN \E i \in DOMAIN F : (F \o R)[k] = F[i]
              ELSE \E i \in DOMAIN R : (F \o R)[k] = R[i]
         /\ \A j, k \in DOMAIN (F \o R) : j < k =>
              IsLine((F \o R)[j]) /\ (IsLine((F \o R)[k]) => (F \o R)[j].n < (F \o R)[k].n)
<1> DEFINE ev == F \o R
           f == Len(F)
           n == Len(R)
<1>1. /\ f \in Nat /\ n \in Nat /\ n <= 1 /\ DOMAIN F = 1 .. f /\ DOMAIN R = 1 .. n
      /\ ev \in Seq(Event) /\ DOMAIN ev = 1 .. f + n
      /\ \A i \in 1 .. f + n : ev[i] = IF i <= f THEN F[i] ELSE R[i - f]
  <2>1. /\ ev \in Seq(Event) /\ Len(ev) = f + n
        /\ \A i \in 1 .. f + n : ev[i] = IF i <= f THEN F[i] ELSE R[i - f]
    BY ConcatProperties
  <2>2. f \in Nat /\ n \in Nat /\ DOMAIN F = 1 .. f /\ DOMAIN R = 1 .. n /\ DOMAIN ev = 1 .. Len(ev)
    BY <2>1
  <2>3. QED
    BY <2>1, <2>2
<1> HIDE DEF ev, f, n
<1>2. \A k \in 1 .. f : k \in 1 .. f + n /\ k <= f /\ ev[k] = F[k] /\ IsLine(ev[k])
  <2>1. \A k \in 1 .. f : k \in 1 .. f + n /\ k <= f
    BY <1>1
  <2>2. QED
    BY <1>1, <2>1, Zenon
<1>3. \A k \in 1 .. f + n : ~ (k <= f) =>
        k = f + 1 /\ 1 \in 1 .. n /\ ev[k] = R[1] /\ ~ IsLine(ev[k])
  <2>1. ASSUME NEW k \in 1 .. f + n, ~ (k <= f)
        PROVE  k = f + 1 /\ 1 \in 1 .. n /\ k - f = 1
    BY <1>1, <2>1
  <2>2. QED
    BY <1>1, <2>1, EventFacts
<1>4. \A k \in 1 .. f + n : k \in 1 .. f \/ ~ (k <= f)
  BY <1>1
<1>5. ToSet(F) \subseteq ToSet(ev)
  BY <1>1, <1>2 DEF ToSet
<1>6. \A k \in 1 .. f + n : IF IsLine(ev[k]) THEN \E i \in 1 .. f : ev[k] = F[i]
                            ELSE \E i \in 1 .. n : ev[k] = R[i]
  BY <1>2, <1>3, <1>4
<1>7. ASSUME NEW j \in 1 .. f + n, NEW k \in 1 .. f + n, j < k
      PROVE  IsLine(ev[j]) /\ (IsLine(ev[k]) => ev[j].n < ev[k].n)
  <2>1. j \in 1 .. f
    BY <1>1, <1>3, <1>4, <1>7
  <2>2. IsLine(ev[k]) => k \in 1 .. f
    BY <1>3, <1>4
  <2>3. QED
    BY <1>1, <1>2, <1>7, <2>1, <2>2
<1>8. QED
  BY <1>1, <1>5, <1>6, <1>7 DEF ev

\* A poll that collects the events ev.
Polled(ev) ==
  /\ pc = "poll" /\ pc' # "down" /\ Forward(ev) /\ ev \in Seq(Event)
  /\ UNCHANGED <<file, recorded, forwarded, overdue, console, rotations, starts>>
  /\ faults' \in 0 .. MaxFaults
  /\ rotated' \in BOOLEAN /\ offset' \in 0 .. 2 * MaxWritten
  /\ ~ rotated' => offset' <= Size
  /\ last' \in {last, recorded} /\ last' >= last
  /\ excused \subseteq excused' /\ excused' \in SUBSET Event
  /\ \A k \in DOMAIN ev : IF IsLine(ev[k]) THEN ev[k].n \in Unread /\ Unread' = {}
                          ELSE ev[k].n = recorded /\ recorded > last /\ last' = recorded
  /\ \A j, k \in DOMAIN ev : j < k =>
       IsLine(ev[j]) /\ (IsLine(ev[k]) => ev[j].n < ev[k].n)
  /\ Unread' \subseteq Unread
  /\ \A n \in Unread : n \in Unread' \/ Line(n) \in ToSet(ev) \cup excused'

LEMMA Polls ==
  ASSUME TypeOK, FileShape, Position, Collect \/ FileRaises \/ WinlogRaises
  PROVE  \E ev : Polled(ev)
<1> DEFINE R == ReadRecords.events
<1>1. /\ R \in Seq(Event) /\ Len(R) <= 1 /\ \A k \in DOMAIN R : R[k] = WinRecord(recorded)
      /\ \A k \in DOMAIN R : recorded > last /\ ReadRecords.last = recorded
      /\ ReadRecords.last \in {last, recorded} /\ ReadRecords.last >= last
      /\ ToSet(R) \subseteq Event
  BY RecordSide DEF ToSet
<1>2. /\ recorded \in Nat /\ last \in Nat /\ faults \in 0 .. MaxFaults /\ MaxFaults \in Nat
      /\ <<>> \in Seq(Event) /\ DOMAIN <<>> = {} /\ Len(<<>>) <= 1 /\ excused \in SUBSET Event
  BY DEF TypeOK
<1>3. Fault => faults' \in 0 .. MaxFaults /\ UNCHANGED <<rotations, starts>>
  BY <1>2 DEF Fault
<1>4. \A ev : Forward(ev) => pc' # "down"
  BY DEF Forward, Send
<1> HIDE DEF R
<1>5. \A k \in DOMAIN R : R[k].n = recorded /\ ~ IsLine(R[k])
  BY <1>1, EventFacts
<1>6. CASE Collect
  <2>1. /\ pc = "poll" /\ ReadFile({}) /\ last' = ReadRecords.last /\ Forward(FileEvents \o R)
        /\ UNCHANGED <<file, recorded, forwarded, overdue, console, bounds>>
    BY <1>6 DEF Collect, R
  <2>2. pc' # "down" /\ {} \in SUBSET Event
    BY <1>4, <2>1
  <2>3. /\ FileEvents \in Seq(Event)
        /\ \A k \in DOMAIN FileEvents : IsLine(FileEvents[k]) /\ FileEvents[k].n \in Unread
        /\ \A j, k \in DOMAIN FileEvents : j < k => FileEvents[j].n < FileEvents[k].n
        /\ Unread' = {}
        /\ rotated' \in BOOLEAN /\ offset' \in 0 .. 2 * MaxWritten
        /\ ~ rotated' => offset' <= Size
        /\ \A n \in Unread : Line(n) \in ToSet(FileEvents) \cup excused'
        /\ excused \subseteq excused' /\ excused' \in SUBSET Event
    BY <2>1, <2>2, FileSide
  <2> DEFINE ev == FileEvents \o R
  <2>4. /\ ev \in Seq(Event) /\ ToSet(FileEvents) \subseteq ToSet(ev)
        /\ \A k \in DOMAIN ev : IF IsLine(ev[k]) THEN \E i \in DOMAIN FileEvents : ev[k] = FileEvents[i]
                                ELSE \E i \in DOMAIN R : ev[k] = R[i]
        /\ \A j, k \in DOMAIN ev : j < k =>
             IsLine(ev[j]) /\ (IsLine(ev[k]) => ev[j].n < ev[k].n)
    <3>1. \A k \in DOMAIN FileEvents : IsLine(FileEvents[k])
      BY <2>3
    <3>2. R \in Seq(Event) /\ Len(R) <= 1 /\ \A k \in DOMAIN R : R[k] = WinRecord(recorded)
      BY <1>1
    <3> HIDE DEF ev
    <3>3. QED
      <4>1. /\ FileEvents \in Seq(Event)
            /\ \A j, k \in DOMAIN FileEvents : j < k => FileEvents[j].n < FileEvents[k].n
        BY <2>3
      <4> HIDE DEF IsLine
      <4>2. QED
        BY <3>1, <3>2, <4>1, Joined, SMTT(60) DEF ev
  <2> HIDE DEF ev
  <2>5. \A k \in DOMAIN ev : IF IsLine(ev[k]) THEN ev[k].n \in Unread /\ Unread' = {}
                             ELSE ev[k].n = recorded /\ recorded > last /\ last' = recorded
    BY <1>1, <1>5, <2>1, <2>3, <2>4
  <2>6. \A n \in Unread : n \in Unread' \/ Line(n) \in ToSet(ev) \cup excused'
    BY <2>3, <2>4
  <2>7. Polled(ev)
    BY <1>1, <1>2, <2>1, <2>2, <2>3, <2>4, <2>5, <2>6 DEF Polled, bounds, ev
  <2>8. QED
    BY <2>7
<1>7. CASE FileRaises
  <2>1. /\ pc = "poll" /\ offset' = Rewound /\ rotated' = (rotated /\ Rewound = offset)
        /\ last' = ReadRecords.last /\ Forward(R) /\ Fault
        /\ UNCHANGED <<file, recorded, forwarded, overdue, console, excused>>
    BY <1>7 DEF FileRaises, R
  <2>2. /\ Unread' = Unread
        /\ rotated' \in BOOLEAN /\ offset' \in 0 .. 2 * MaxWritten
        /\ ~ rotated' => offset' <= Size
    BY <1>4, <2>1, FileSideRaises
  <2>3. \A j, k \in DOMAIN R : ~ (j < k)
    <3>1. DOMAIN R = 1 .. Len(R) /\ Len(R) \in Nat
      BY <1>1
    <3>2. QED
      BY <1>1, <3>1
  <2>4. \A k \in DOMAIN R : IF IsLine(R[k]) THEN R[k].n \in Unread /\ Unread' = {}
                            ELSE R[k].n = recorded /\ recorded > last /\ last' = recorded
    BY <1>1, <1>5, <2>1
  <2>5. Polled(R)
    BY <1>1, <1>2, <1>3, <1>4, <2>1, <2>2, <2>3, <2>4 DEF Polled
  <2>6. QED
    BY <2>5
<1>8. CASE WinlogRaises
  <2>1. PICK lost \in {{}, ToSet(R)} :
          /\ ReadFile(lost) /\ last' \in {last, ReadRecords.last}
    BY <1>8 DEF WinlogRaises, R
  <2>2. /\ pc = "poll" /\ Forward(FileEvents) /\ Fault
        /\ UNCHANGED <<file, recorded, forwarded, overdue, console>>
    BY <1>8 DEF WinlogRaises
  <2>3. /\ FileEvents \in Seq(Event)
        /\ \A k \in DOMAIN FileEvents : IsLine(FileEvents[k]) /\ FileEvents[k].n \in Unread
        /\ \A j, k \in DOMAIN FileEvents : j < k => FileEvents[j].n < FileEvents[k].n
        /\ Unread' = {}
        /\ rotated' \in BOOLEAN /\ offset' \in 0 .. 2 * MaxWritten
        /\ ~ rotated' => offset' <= Size
        /\ \A n \in Unread : Line(n) \in ToSet(FileEvents) \cup excused'
        /\ excused \cup lost \subseteq excused' /\ excused' \in SUBSET Event
    <3>1. lost \in SUBSET Event
      BY <1>1, <2>1
    <3>2. QED
      BY <1>4, <2>1, <2>2, <3>1, FileSide
  <2>4. last' \in {last, recorded} /\ last' >= last
    BY <1>1, <1>2, <2>1
  <2>5. Polled(FileEvents)
    BY <1>3, <1>4, <2>2, <2>3, <2>4 DEF Polled
  <2>6. QED
    BY <2>5
<1>9. QED
  BY <1>6, <1>7, <1>8

-----------------------------------------------------------------------------
(***************************************************************************)
(* Requests on their way                                                   *)
(***************************************************************************)

LEMMA NetFacts ==
  ASSUME TypeOK
  PROVE  /\ net \in Seq(Request) /\ Len(net) \in Nat /\ DOMAIN net = 1 .. Len(net)
         /\ \A i \in DOMAIN net :
              /\ net[i] \in Request /\ net[i].events \in Seq(Event)
              /\ Len(net[i].events) \in Nat
              /\ DOMAIN net[i].events = 1 .. Len(net[i].events)
              /\ ToSet(net[i].events) \subseteq Event
              /\ net[i].kind \in {"ingest", "heartbeat"} /\ net[i].count \in Nat
              /\ net[i].stage \in {"sent", "note", "answer"} /\ net[i].awaited \in BOOLEAN
<1>1. net \in Seq(Request)
  BY DEF TypeOK
<1>2. Len(net) \in Nat /\ DOMAIN net = 1 .. Len(net) /\ \A i \in DOMAIN net : net[i] \in Request
  BY <1>1
<1>3. \A r \in Request :
        /\ r.events \in Seq(Event)
        /\ r.kind \in {"ingest", "heartbeat"} /\ r.count \in Nat
        /\ r.stage \in {"sent", "note", "answer"} /\ r.awaited \in BOOLEAN
  BY DEF Request
<1>4. \A s \in Seq(Event) : Len(s) \in Nat /\ DOMAIN s = 1 .. Len(s) /\ ToSet(s) \subseteq Event
  BY DEF ToSet
<1>5. QED
  BY <1>1, <1>2, <1>3, <1>4

\* Every request comes from one that was there, and is at most a step further.
Descends(f) ==
  /\ f \in [DOMAIN net' -> DOMAIN net]
  /\ \A j, k \in DOMAIN net' : f[j] = f[k] => j = k
  /\ \A j \in DOMAIN net' :
       /\ net'[j].kind = net[f[j]].kind
       /\ net'[j].events = net[f[j]].events
       /\ net'[j].count = net[f[j]].count
       /\ net'[j].awaited => net[f[j]].awaited
       /\ \/ net'[j].stage = net[f[j]].stage
          \/ /\ net'[j].stage = "answer"
             /\ net[f[j]].stage = "note" \/ net[f[j]].kind = "heartbeat"

LEMMA SameDescends ==
  ASSUME TypeOK, net' = net
  PROVE  net' \in Seq(Request) /\ \E f : Descends(f)
<1> DEFINE f == [i \in DOMAIN net |-> i]
<1>1. Descends(f)
  BY DEF Descends
<1>2. QED
  BY <1>1, NetFacts

LEMMA NoneDescends ==
  ASSUME net' = <<>>
  PROVE  net' \in Seq(Request) /\ \E f : Descends(f)
<1>1. DOMAIN net' = {}
  OBVIOUS
<1>2. Descends([i \in {} |-> i])
  BY <1>1 DEF Descends
<1>3. QED
  BY <1>2

LEMMA StraysDescend ==
  ASSUME TypeOK, net' = Strays
  PROVE  /\ net' \in Seq(Request) /\ \E f : Descends(f)
         /\ \A i \in DOMAIN net' : ~ net'[i].awaited
<1> DEFINE f == [i \in DOMAIN net |-> i]
<1>1. DOMAIN net' = DOMAIN net /\ \A i \in DOMAIN net : net'[i] = [net[i] EXCEPT !.awaited = FALSE]
  BY DEF Strays
<1>2. \A r \in Request : /\ [r EXCEPT !.awaited = FALSE] \in Request
                         /\ [r EXCEPT !.awaited = FALSE].kind = r.kind
                         /\ [r EXCEPT !.awaited = FALSE].events = r.events
                         /\ [r EXCEPT !.awaited = FALSE].count = r.count
                         /\ [r EXCEPT !.awaited = FALSE].stage = r.stage
                         /\ [r EXCEPT !.awaited = FALSE].awaited = FALSE
  BY DEF Request
<1>3. \A i \in DOMAIN net : net[i] \in Request
  BY NetFacts
<1>4. \A i \in DOMAIN net :
        /\ net'[i] \in Request /\ net'[i].kind = net[i].kind
        /\ net'[i].events = net[i].events /\ net'[i].count = net[i].count
        /\ net'[i].stage = net[i].stage /\ net'[i].awaited = FALSE
  <2>1. ASSUME NEW i \in DOMAIN net, NEW r, r = net[i], r \in Request
        PROVE  /\ net'[i] \in Request /\ net'[i].kind = r.kind
               /\ net'[i].events = r.events /\ net'[i].count = r.count
               /\ net'[i].stage = r.stage /\ net'[i].awaited = FALSE
    <3>1. net'[i] = [r EXCEPT !.awaited = FALSE]
      BY <1>1, <2>1
    <3>2. QED
      BY <1>2, <2>1, <3>1
  <2>2. QED
    BY <1>3, <2>1
<1>5. Descends(f)
  BY <1>1, <1>4 DEF Descends
<1>6. net' \in Seq(Request)
  <2>1. net' = [i \in 1 .. Len(net) |-> net'[i]] /\ Len(net) \in Nat
    BY <1>1, NetFacts DEF Strays
  <2>2. \A i \in 1 .. Len(net) : net'[i] \in Request
    BY <1>4, NetFacts
  <2>3. QED
    BY <2>1, <2>2
<1>7. QED
  BY <1>1, <1>4, <1>5, <1>6

\* Request i alone moves on to the answer, or is given up.
LEMMA EditDescends ==
  ASSUME TypeOK, NEW i \in DOMAIN net,
         \/ /\ net' = [net EXCEPT ![i].stage = "answer"]
            /\ net[i].stage = "note" \/ net[i].kind = "heartbeat"
         \/ net' = [net EXCEPT ![i].awaited = FALSE]
  PROVE  /\ net' \in Seq(Request) /\ DOMAIN net' = DOMAIN net
         /\ Descends([j \in DOMAIN net |-> j])
         /\ \A j \in DOMAIN net : j # i => net'[j] = net[j]
         /\ \/ net'[i].awaited = net[i].awaited /\ net'[i].stage = "answer"
            \/ net'[i].awaited = FALSE /\ net'[i].stage = net[i].stage
<1> DEFINE a == [net[i] EXCEPT !.stage = "answer"]
           b == [net[i] EXCEPT !.awaited = FALSE]
<1>1. net[i] \in Request
  BY NetFacts
<1>2. /\ a \in Request /\ a.kind = net[i].kind /\ a.events = net[i].events
      /\ a.count = net[i].count /\ a.awaited = net[i].awaited /\ a.stage = "answer"
  BY <1>1 DEF Request
<1>3. /\ b \in Request /\ b.kind = net[i].kind /\ b.events = net[i].events
      /\ b.count = net[i].count /\ b.awaited = FALSE /\ b.stage = net[i].stage
  BY <1>1 DEF Request
<1>4. PICK c \in {a, b} : /\ net' = [net EXCEPT ![i] = c]
                          /\ c = a => net[i].stage = "note" \/ net[i].kind = "heartbeat" \/ a = b
  OBVIOUS
<1> HIDE DEF a, b
<1>5. /\ DOMAIN net' = DOMAIN net /\ net'[i] = c
      /\ \A j \in DOMAIN net : j # i => net'[j] = net[j]
  BY <1>4
<1>6. net' \in Seq(Request)
  BY <1>2, <1>3, <1>4, NetFacts
<1>7. Descends([j \in DOMAIN net |-> j])
  BY <1>2, <1>3, <1>4, <1>5 DEF Descends
<1>8. QED
  BY <1>2, <1>3, <1>4, <1>5, <1>6, <1>7

\* Request i leaves.
LEMMA DropDescends ==
  ASSUME TypeOK, NEW i \in DOMAIN net, net' = RemoveAt(net, i)
  PROVE  /\ net' \in Seq(Request)
         /\ \E f : /\ Descends(f)
                   /\ \A j \in DOMAIN net' : f[j] # i /\ net'[j] = net[f[j]]
                   /\ \A k \in DOMAIN net : k # i => \E j \in DOMAIN net' : f[j] = k
<1> DEFINE f == [j \in DOMAIN net' |-> IF j < i THEN j ELSE j + 1]
<1>1. Len(net) \in Nat /\ DOMAIN net = 1 .. Len(net) /\ i \in 1 .. Len(net)
  BY NetFacts
<1>2. /\ net' \in Seq(Request) /\ Len(net') = Len(net) - 1
      /\ \A j \in 1 .. Len(net) - 1 : net'[j] = IF j < i THEN net[j] ELSE net[j + 1]
  BY <1>1, NetFacts, CutOut
<1>3. DOMAIN net' = 1 .. Len(net) - 1
  BY <1>2
<1>4. \A j \in DOMAIN net' : f[j] \in DOMAIN net /\ f[j] # i /\ net'[j] = net[f[j]]
  BY <1>1, <1>2, <1>3
<1>5. \A j, k \in DOMAIN net' : f[j] = f[k] => j = k
  BY <1>1, <1>3
<1>6. ASSUME NEW k \in DOMAIN net, k # i
      PROVE  \E j \in DOMAIN net' : f[j] = k
  <2>1. CASE k < i
    BY <1>1, <1>3, <1>6, <2>1
  <2>2. CASE k > i
    <3>1. k - 1 \in DOMAIN net' /\ ~ (k - 1 < i) /\ (k - 1) + 1 = k
      BY <1>1, <1>3, <1>6, <2>2
    <3>2. QED
      BY <3>1
  <2>3. QED
    BY <1>1, <1>6, <2>1, <2>2
<1> HIDE DEF f
<1>7. f \in [DOMAIN net' -> DOMAIN net]
  BY <1>4 DEF f
<1>8. Descends(f)
  BY <1>4, <1>5, <1>7 DEF Descends
<1>9. QED
  BY <1>2, <1>4, <1>6, <1>8

\* The agent sends r, either what a poll collected or a heartbeat.
Sends(r) ==
  /\ net' = Append(net, r) /\ r \in Request /\ r.stage = "sent" /\ r.awaited
  /\ pc \in {"start", "poll", "due"}
  /\ \/ /\ pc' = "ingest" /\ r.kind = "ingest" /\ Polled(r.events)
     \/ /\ pc' \in {"hello", "beat"} /\ r.kind = "heartbeat" /\ r.events = <<>>
        /\ r.count = forwarded
        /\ UNCHANGED <<file, recorded, offset, last, forwarded, status, overdue, console,
                       bounds, ghosts>>

LEMMA SendsAppends ==
  ASSUME TypeOK, NEW r, Sends(r)
  PROVE  /\ net' \in Seq(Request) /\ DOMAIN net' = (DOMAIN net) \cup {Len(net) + 1}
         /\ Len(net) + 1 \notin DOMAIN net /\ net'[Len(net) + 1] = r
         /\ \A i \in DOMAIN net : net'[i] = net[i]
<1>1. net \in Seq(Request) /\ Len(net) \in Nat /\ DOMAIN net = 1 .. Len(net)
  BY NetFacts
<1>2. net' = Append(net, r) /\ r \in Request
  BY DEF Sends
<1>3. /\ net' \in Seq(Request) /\ Len(net') = Len(net) + 1
      /\ \A i \in 1 .. Len(net) : net'[i] = net[i]
      /\ net'[Len(net) + 1] = r
  BY <1>1, <1>2, AppendProperties
<1>4. QED
  BY <1>1, <1>3

LEMMA PollSends ==
  ASSUME TypeOK, NEW ev, Polled(ev)
  PROVE  \/ pc' = "due" /\ net' = net /\ ev = <<>>
         \/ pc' = "ingest" /\ ev # <<>> /\ Sends(Ingest(ev)) /\ Ingest(ev).events = ev
<1>1. pc = "poll" /\ ev \in Seq(Event) /\ Forward(ev)
  BY DEF Polled
<1>2. CASE ev = <<>>
  BY <1>1, <1>2 DEF Forward
<1>3. CASE ev # <<>>
  <2>1. pc' = "ingest" /\ net' = Append(net, Ingest(ev))
    BY <1>1, <1>3 DEF Forward, Send
  <2>2. /\ Ingest(ev) \in Request /\ Ingest(ev).stage = "sent" /\ Ingest(ev).awaited
        /\ Ingest(ev).kind = "ingest" /\ Ingest(ev).events = ev
    BY <1>1 DEF Ingest, Request
  <2>3. Sends(Ingest(ev))
    BY <1>1, <2>1, <2>2 DEF Sends
  <2>4. QED
    BY <1>3, <2>1, <2>2, <2>3
<1>4. QED
  BY <1>2, <1>3

LEMMA HeartbeatSends ==
  ASSUME TypeOK, SendHello \/ SendHeartbeat
  PROVE  \E r : Sends(r) /\ r.kind = "heartbeat"
<1>1. status \in {"ok", "error"} /\ forwarded \in Nat
  BY DEF TypeOK
<1>2. ASSUME NEW s \in {"ok", "error"}
      PROVE  /\ Heartbeat(s) \in Request /\ Heartbeat(s).stage = "sent" /\ Heartbeat(s).awaited
             /\ Heartbeat(s).kind = "heartbeat" /\ Heartbeat(s).events = <<>>
             /\ Heartbeat(s).count = forwarded
  BY <1>1 DEF Heartbeat, Request
<1>3. CASE SendHello
  <2>1. Sends(Heartbeat("ok"))
    BY <1>2, <1>3 DEF SendHello, Send, Sends
  <2>2. QED
    BY <1>2, <2>1
<1>4. CASE SendHeartbeat
  <2>1. Sends(Heartbeat(status))
    BY <1>1, <1>2, <1>4 DEF SendHeartbeat, Send, Sends
  <2>2. QED
    BY <1>1, <1>2, <2>1
<1>5. QED
  BY <1>3, <1>4

\* What a step of the console or of a timer does to request i, when nothing is
\* recorded.
Handled(i) ==
  Reject(i) \/ Refuse(i) \/ NoteIngest(i) \/ ServeHeartbeat(i) \/ PersistFails(i)
    \/ Answer(i) \/ TimeOut(i)

LEMMA HandledDescends ==
  ASSUME TypeOK, Waits, Forms, NEW i \in DOMAIN net, Handled(i)
  PROVE  fed' = fed /\ net' \in Seq(Request) /\ \E f : Descends(f)
<1>1. CASE net' = RemoveAt(net, i) /\ fed' = fed
  BY <1>1, DropDescends
<1>2. CASE /\ fed' = fed
           /\ \/ /\ net' = [net EXCEPT ![i].stage = "answer"]
                 /\ net[i].stage = "note" \/ net[i].kind = "heartbeat"
              \/ net' = [net EXCEPT ![i].awaited = FALSE]
  BY <1>2, EditDescends
<1>3. CASE Reject(i) \/ Refuse(i) \/ PersistFails(i) \/ Answer(i)
  BY <1>1, <1>3 DEF Reject, Refuse, PersistFails, Answer, EndInError, console
<1>4. CASE NoteIngest(i) \/ ServeHeartbeat(i)
  BY <1>1, <1>2, <1>4 DEF NoteIngest, ServeHeartbeat, Served
<1>5. CASE TimeOut(i)
  BY <1>1, <1>2, <1>5 DEF TimeOut, console
<1>6. QED
  BY <1>3, <1>4, <1>5 DEF Handled

\* The steps, by what they do to the requests and the feed.
LEMMA Moves ==
  ASSUME IInv, [Next]_vars
  PROVE  \/ UNCHANGED <<net, fed>> /\ (Sources \/ StartAgent \/ SkipHeartbeat \/ UNCHANGED vars)
         \/ StopAgent
         \/ RestartConsole
         \/ \E ev : Polled(ev)
         \/ SendHello \/ SendHeartbeat
         \/ \E i \in DOMAIN net : Handled(i) \/ RecordBatch(i) \/ RecordFails(i)
<1>1. CASE Sources \/ StartAgent \/ SkipHeartbeat \/ UNCHANGED vars
  BY <1>1 DEF Sources, WriteLine, FinishLine, LogRecord, Rotate, StartAgent, SkipHeartbeat,
              console, vars
<1>2. CASE Collect \/ FileRaises \/ WinlogRaises
  BY <1>2, Polls DEF IInv
<1>3. CASE \E i \in DOMAIN net : Console(i)
  BY <1>3 DEF Console, Handled
<1>4. CASE Failure
  BY <1>2, <1>4 DEF Failure, Handled
<1>5. QED
  BY <1>1, <1>2, <1>3, <1>4 DEF Next, Cycle

\* What recording a batch does to the feed and the requests.
LEMMA BatchRecorded ==
  ASSUME TypeOK, NEW i \in DOMAIN net, RecordBatch(i)
  PROVE  /\ fed' \in Seq(Event) /\ Len(fed') = Len(fed) + Len(net[i].events)
         /\ \A k \in 1 .. Len(fed') : fed'[k] = IF k <= Len(fed) THEN fed[k]
                                                ELSE net[i].events[k - Len(fed)]
         /\ ToSet(fed') = ToSet(fed) \cup ToSet(net[i].events)
         /\ net' \in Seq(Request) /\ DOMAIN net' = DOMAIN net
         /\ \A j \in DOMAIN net : j # i => net'[j] = net[j]
         /\ net'[i].stage = "note" /\ net'[i].kind = net[i].kind
         /\ net'[i].events = net[i].events /\ net'[i].count = net[i].count
         /\ net'[i].awaited = net[i].awaited
<1> DEFINE a == [net[i] EXCEPT !.stage = "note"]
           b == net[i].events
<1>1. net[i] \in Request /\ b \in Seq(Event) /\ Len(b) \in Nat /\ DOMAIN b = 1 .. Len(b)
  BY NetFacts
<1>2. /\ a \in Request /\ a.kind = net[i].kind /\ a.events = net[i].events
      /\ a.count = net[i].count /\ a.awaited = net[i].awaited /\ a.stage = "note"
  BY <1>1 DEF Request
<1>3. net' = [net EXCEPT ![i] = a] /\ fed' = fed \o b
  BY DEF RecordBatch
<1> HIDE DEF a
<1>4. net' \in Seq(Request) /\ DOMAIN net' = DOMAIN net /\ net'[i] = a
      /\ \A j \in DOMAIN net : j # i => net'[j] = net[j]
  BY <1>2, <1>3, NetFacts
<1>5. fed \in Seq(Event) /\ Len(fed) \in Nat /\ DOMAIN fed = 1 .. Len(fed)
  BY DEF TypeOK
<1> HIDE DEF b
<1>6. /\ fed' \in Seq(Event) /\ Len(fed') = Len(fed) + Len(b)
      /\ \A k \in 1 .. Len(fed) + Len(b) :
           fed'[k] = IF k <= Len(fed) THEN fed[k] ELSE b[k - Len(fed)]
  BY <1>1, <1>3, <1>5, ConcatProperties
<1>7. DOMAIN fed' = 1 .. Len(fed) + Len(b)
  BY <1>6
<1>8. ToSet(fed') = ToSet(fed) \cup ToSet(b)
  <2>1. ASSUME NEW k \in DOMAIN fed' PROVE fed'[k] \in ToSet(fed) \cup ToSet(b)
    <3>1. CASE k <= Len(fed)
      <4>1. k \in DOMAIN fed /\ fed'[k] = fed[k]
        BY <1>1, <1>5, <1>6, <1>7, <3>1
      <4>2. QED
        BY <4>1 DEF ToSet
    <3>2. CASE ~ (k <= Len(fed))
      <4>1. k - Len(fed) \in DOMAIN b /\ fed'[k] = b[k - Len(fed)]
        BY <1>1, <1>5, <1>6, <1>7, <3>2
      <4>2. QED
        BY <4>1 DEF ToSet
    <3>3. QED
      BY <3>1, <3>2
  <2>2. ASSUME NEW k \in DOMAIN fed PROVE fed[k] \in ToSet(fed')
    <3>1. k \in DOMAIN fed' /\ fed'[k] = fed[k]
      BY <1>1, <1>5, <1>6, <1>7
    <3>2. QED
      BY <3>1 DEF ToSet
  <2>3. ASSUME NEW k \in DOMAIN b PROVE b[k] \in ToSet(fed')
    <3>1. k + Len(fed) \in DOMAIN fed' /\ ~ (k + Len(fed) <= Len(fed)) /\ k + Len(fed) - Len(fed) = k
      BY <1>1, <1>5, <1>7
    <3>2. fed'[k + Len(fed)] = b[k]
      BY <1>6, <1>7, <3>1
    <3>3. QED
      BY <3>1, <3>2 DEF ToSet
  <2>4. QED
    BY <2>1, <2>2, <2>3 DEF ToSet
<1>9. QED
  BY <1>2, <1>4, <1>6, <1>8 DEF b

\* Recording fails: a part of the batch is in the feed.
LEMMA BatchBroken ==
  ASSUME TypeOK, NEW i \in DOMAIN net, RecordFails(i)
  PROVE  \E m \in 1 .. Len(net[i].events) :
           /\ fed' \in Seq(Event) /\ Len(fed') = Len(fed) + m
           /\ \A k \in 1 .. Len(fed') : fed'[k] = IF k <= Len(fed) THEN fed[k]
                                                  ELSE net[i].events[k - Len(fed)]
           /\ ToSet(fed) \subseteq ToSet(fed')
           /\ ToSet(fed') \subseteq ToSet(fed) \cup ToSet(net[i].events)
<1> DEFINE b == net[i].events
<1>1. b \in Seq(Event) /\ Len(b) \in Nat /\ DOMAIN b = 1 .. Len(b)
  BY NetFacts
<1>2. fed \in Seq(Event) /\ Len(fed) \in Nat /\ DOMAIN fed = 1 .. Len(fed)
  BY DEF TypeOK
<1>3. PICK m \in DOMAIN b : fed' = fed \o SubSeq(b, 1, m)
  BY DEF RecordFails
<1> HIDE DEF b
<1> DEFINE s == SubSeq(b, 1, m)
<1>4. /\ m \in 1 .. Len(b) /\ s \in Seq(Event) /\ Len(s) = m
      /\ \A k \in 1 .. m : s[k] = b[k]
  BY <1>1
<1> HIDE DEF s
<1>5. /\ fed' \in Seq(Event) /\ Len(fed') = Len(fed) + m
      /\ \A k \in 1 .. Len(fed) + m : fed'[k] = IF k <= Len(fed) THEN fed[k] ELSE s[k - Len(fed)]
  BY <1>2, <1>3, <1>4, ConcatProperties DEF s
<1>6. m \in Nat /\ DOMAIN fed' = 1 .. Len(fed) + m
  BY <1>1, <1>4, <1>5
<1>7. \A k \in 1 .. Len(fed) + m : /\ k <= Len(fed) => k \in DOMAIN fed
                                   /\ ~ (k <= Len(fed)) => k - Len(fed) \in 1 .. m
  BY <1>2, <1>6
<1>8. \A k \in 1 .. Len(fed) + m : fed'[k] = IF k <= Len(fed) THEN fed[k] ELSE b[k - Len(fed)]
  BY <1>4, <1>5, <1>7
<1>9. ToSet(fed) \subseteq ToSet(fed')
  <2>1. ASSUME NEW k \in DOMAIN fed PROVE fed[k] \in ToSet(fed')
    <3>1. k \in DOMAIN fed' /\ k <= Len(fed)
      BY <1>2, <1>6
    <3>2. fed'[k] = fed[k]
      BY <1>6, <1>8, <3>1
    <3>3. QED
      BY <3>1, <3>2 DEF ToSet
  <2>2. QED
    BY <2>1 DEF ToSet
<1>10. ToSet(fed') \subseteq ToSet(fed) \cup ToSet(b)
  <2>1. ASSUME NEW k \in DOMAIN fed' PROVE fed'[k] \in ToSet(fed) \cup ToSet(b)
    <3>1. CASE k <= Len(fed)
      BY <1>6, <1>7, <1>8, <3>1 DEF ToSet
    <3>2. CASE ~ (k <= Len(fed))
      <4>1. k - Len(fed) \in DOMAIN b
        BY <1>1, <1>4, <1>6, <1>7, <3>2
      <4>2. fed'[k] = b[k - Len(fed)]
        BY <1>6, <1>8, <3>2
      <4>3. QED
        BY <4>1, <4>2 DEF ToSet
    <3>3. QED
      BY <3>1, <3>2
  <2>2. QED
    BY <2>1 DEF ToSet
<1>11. QED
  BY <1>4, <1>5, <1>8, <1>9, <1>10 DEF b

-----------------------------------------------------------------------------
(***************************************************************************)
(* What is still to be read                                                *)
(***************************************************************************)

\* The collectors' view of their sources changes in these steps only.
LEMMA Views ==
  ASSUME IInv, [Next]_vars
  PROVE  \/ /\ UNCHANGED <<log, written, offset, last, rotated, starts>>
            /\ Unread' = Unread /\ (pc' = "down" <=> pc = "down")
         \/ WriteLine \/ Rotate \/ StartAgent \/ StopAgent \/ \E ev : Polled(ev)
<1> DEFINE Same == /\ UNCHANGED <<log, written, offset, last, rotated, starts>>
                   /\ pc' = "down" <=> pc = "down"
<1>1. Same => Unread' = Unread
  BY DEF Unread
<1>2. /\ pc \in {"down", "start", "hello", "poll", "ingest", "due", "beat"}
      /\ \A i \in DOMAIN net : net[i].awaited => pc # "down"
  BY DEF IInv, TypeOK, Waits
<1>3. ASSUME CycleFails, pc # "down" PROVE UNCHANGED <<offset, last>> /\ pc' # "down"
  BY <1>3 DEF CycleFails
<1>4. ASSUME NEW i \in DOMAIN net, EndInError(i)
      PROVE  UNCHANGED <<offset, last>> /\ (pc' = "down" <=> pc = "down")
  BY <1>2, <1>3, <1>4 DEF EndInError, agent
<1>5. Fault => UNCHANGED starts
  BY DEF Fault
<1>6. CASE FinishLine \/ LogRecord \/ SkipHeartbeat \/ SendHello \/ SendHeartbeat \/ UNCHANGED vars
  <2>1. Same
    BY <1>6 DEF FinishLine, LogRecord, SkipHeartbeat, SendHello, SendHeartbeat, Send, vars, file,
                agent, bounds, ghosts
  <2>2. QED
    BY <1>1, <2>1
<1>7. CASE \E i \in DOMAIN net : Handled(i) \/ RecordBatch(i) \/ RecordFails(i)
  <2>1. PICK i \in DOMAIN net : Handled(i) \/ RecordBatch(i) \/ RecordFails(i)
    BY <1>7
  <2>2. CASE Reject(i) \/ RecordFails(i) \/ PersistFails(i)
    BY <1>1, <1>4, <1>5, <2>2 DEF Reject, RecordFails, PersistFails, file
  <2>3. CASE Refuse(i)
    BY <1>1, <1>4, <2>3 DEF Refuse, file, bounds
  <2>4. CASE NoteIngest(i) \/ ServeHeartbeat(i) \/ RecordBatch(i)
    BY <1>1, <2>4 DEF NoteIngest, ServeHeartbeat, RecordBatch, file, agent, bounds, ghosts
  <2>5. CASE Answer(i)
    BY <1>1, <1>2, <2>5 DEF Answer, file, bounds, ghosts
  <2>6. CASE TimeOut(i)
    BY <1>1, <1>2, <1>3, <1>5, <2>6 DEF TimeOut, file
  <2>7. QED
    BY <2>1, <2>2, <2>3, <2>4, <2>5, <2>6 DEF Handled
<1>8. CASE RestartConsole
  <2>1. UNCHANGED <<offset, last>> /\ (pc' = "down" <=> pc = "down")
    BY <1>2, <1>3, <1>8 DEF RestartConsole, agent
  <2>2. QED
    BY <1>1, <1>5, <1>8, <2>1 DEF RestartConsole, file
<1>9. QED
  BY Moves, <1>6, <1>7, <1>8 DEF Sources

\* No step brings back a line that was read or passed over: what is to be read
\* after a step is new or was to be read before.
LEMMA Coming ==
  ASSUME IInv, [Next]_vars
  PROVE  /\ written' \in Nat /\ written <= written' /\ starts' \in Nat
         /\ pc' # "down" => \A m \in Unread' : m > written \/ (pc # "down" /\ m \in Unread)
         /\ StartAgent \/ (pc' # "down" => pc # "down" /\ last' >= last)
         /\ starts' = IF StartAgent THEN starts + 1 ELSE starts
<1>1. /\ written \in Nat /\ starts \in Nat /\ last \in Nat
      /\ Len(log) \in Nat /\ DOMAIN log = 1 .. Len(log) /\ log \in Seq(1 .. MaxWritten)
      /\ half \in BOOLEAN /\ present \in BOOLEAN /\ FileShape
  BY LogFacts DEF IInv, TypeOK
<1>2. StartAgent => pc = "down" /\ pc' = "start"
  BY DEF StartAgent
<1>3. CASE /\ UNCHANGED <<log, written, offset, last, rotated, starts>>
           /\ Unread' = Unread /\ (pc' = "down" <=> pc = "down")
  BY <1>1, <1>2, <1>3
<1>4. CASE WriteLine
  <2>1. /\ written' = written + 1 /\ log' = Append(log, written + 1)
        /\ UNCHANGED <<pc, offset, last, rotated, starts>>
    BY <1>4 DEF WriteLine, agent, bounds, ghosts
  <2>2. /\ DOMAIN log' = 1 .. Len(log) + 1 /\ log'[Len(log) + 1] = written + 1
        /\ \A i \in 1 .. Len(log) : log'[i] = log[i]
    BY <1>1, <2>1
  <2>3. ASSUME NEW m \in Unread' PROVE m > written \/ m \in Unread
    <3>1. PICK i \in DOMAIN log' : m = log'[i] /\ (pc = "down" \/ rotated \/ 2 * i - 1 > offset)
      BY <2>1 DEF Unread
    <3>2. CASE i = Len(log) + 1
      BY <1>1, <2>2, <3>1, <3>2
    <3>3. CASE i \in 1 .. Len(log)
      <4>1. m = log[i] /\ i \in DOMAIN log
        BY <1>1, <2>2, <3>1, <3>3
      <4>2. QED
        BY <3>1, <4>1 DEF Unread
    <3>4. QED
      BY <1>1, <2>2, <3>2, <3>3
  <2>4. ~ StartAgent
    BY <1>2, <2>1
  <2>5. QED
    BY <1>1, <2>1, <2>3, <2>4
<1>5. CASE Rotate
  <2>1. /\ UNCHANGED <<written, pc, last, starts>> /\ DOMAIN log' = {}
    BY <1>5 DEF Rotate, agent
  <2>2. Unread' = {}
    BY <2>1 DEF Unread
  <2>3. QED
    BY <1>1, <1>2, <2>1, <2>2
<1>6. CASE StartAgent
  <2>1. /\ UNCHANGED <<written, log>> /\ starts' = starts + 1 /\ pc' = "start"
        /\ rotated' = FALSE /\ offset' = StartOffset
    BY <1>6 DEF StartAgent, file
  <2>2. \A i \in DOMAIN log : ~ (2 * i - 1 > StartOffset)
    <3>1. ~ present => DOMAIN log = {}
      BY <1>1 DEF FileShape
    <3>2. present => StartOffset = 2 * Len(log) - (IF half THEN 1 ELSE 0)
      BY DEF StartOffset, Size
    <3>3. QED
      BY <1>1, <3>1, <3>2
  <2>3. Unread' = {}
    BY <2>1, <2>2 DEF Unread
  <2>4. QED
    BY <1>1, <1>6, <2>1, <2>3
<1>7. CASE StopAgent
  BY <1>1, <1>2, <1>7 DEF StopAgent, file, bounds
<1>8. CASE \E ev : Polled(ev)
  BY <1>1, <1>2, <1>8 DEF Polled, file
<1>9. QED
  BY Views, <1>3, <1>4, <1>5, <1>6, <1>7, <1>8

-----------------------------------------------------------------------------
(***************************************************************************)
(* The invariant holds at first and is kept, one conjunct at a time        *)
(***************************************************************************)

LEMMA FileShapeKept ==
  ASSUME IInv, [Next]_vars
  PROVE  /\ FileShape' /\ (Rotate \/ Size' >= Size)
         /\ log' \in Seq(1 .. MaxWritten) /\ half' \in BOOLEAN /\ present' \in BOOLEAN
         /\ written' \in 0 .. MaxWritten
         /\ recorded' \in 0 .. MaxRecorded /\ recorded <= recorded'
<1>1. /\ written \in 0 .. MaxWritten /\ MaxWritten \in Nat
      /\ recorded \in 0 .. MaxRecorded /\ MaxRecorded \in Nat
      /\ Len(log) \in Nat /\ DOMAIN log = 1 .. Len(log) /\ log \in Seq(1 .. MaxWritten)
      /\ half \in BOOLEAN /\ present \in BOOLEAN /\ FileShape
      /\ \A r : r \in 0 .. MaxRecorded => r <= r
  BY LogFacts DEF IInv, TypeOK
<1>2. Size \in Nat
  BY LogFacts DEF IInv
<1>3. CASE UNCHANGED <<file, recorded>>
  <2>1. UNCHANGED <<log, half, present, written, recorded>>
    BY <1>3 DEF file
  <2>2. FileShape' /\ Size' = Size
    BY <1>1, <2>1 DEF FileShape, Size
  <2>3. QED
    BY <1>1, <1>2, <2>1, <2>2
<1>4. CASE WriteLine
  <2>1. /\ written < MaxWritten /\ ~ half /\ written' = written + 1
        /\ log' = Append(log, written + 1) /\ present' = TRUE /\ half' \in BOOLEAN
        /\ recorded' = recorded
    BY <1>4 DEF WriteLine
  <2>2. /\ log' \in Seq(1 .. MaxWritten) /\ Len(log') = Len(log) + 1
        /\ DOMAIN log' = 1 .. Len(log) + 1 /\ log'[Len(log) + 1] = written + 1
        /\ \A i \in 1 .. Len(log) : log'[i] = log[i]
    <3>1. written + 1 \in 1 .. MaxWritten
      BY <1>1, <2>1
    <3>2. QED
      BY <1>1, <2>1, <3>1
  <2>3. \A i \in DOMAIN log' : log'[i] = written' - Len(log') + i
    <3>1. \A i \in 1 .. Len(log) : log[i] = written - Len(log) + i
      BY <1>1 DEF FileShape
    <3>2. \A i \in 1 .. Len(log) + 1 : i \in 1 .. Len(log) \/ i = Len(log) + 1
      BY <1>1
    <3>3. \A i \in 1 .. Len(log) : log'[i] = written' - Len(log') + i
      BY <1>1, <2>1, <2>2, <3>1
    <3>4. log'[Len(log) + 1] = written' - Len(log') + (Len(log) + 1)
      BY <1>1, <2>1, <2>2
    <3>5. QED
      BY <2>2, <3>2, <3>3, <3>4
  <2>4. Len(log') <= written' /\ log' # <<>>
    BY <1>1, <2>1, <2>2 DEF FileShape
  <2>5. FileShape'
    BY <2>1, <2>3, <2>4 DEF FileShape
  <2>6. Size' >= Size
    BY <1>1, <2>1, <2>2 DEF Size
  <2>7. QED
    BY <1>1, <2>1, <2>2, <2>5, <2>6
<1>5. CASE FinishLine
  <2>1. half' = FALSE /\ UNCHANGED <<log, present, written, recorded>>
    BY <1>5 DEF FinishLine
  <2>2. FileShape' /\ Size' >= Size
    BY <1>1, <2>1 DEF FileShape, Size
  <2>3. QED
    BY <1>1, <2>1, <2>2
<1>6. CASE LogRecord
  <2>1. recorded < MaxRecorded /\ recorded' = recorded + 1
        /\ UNCHANGED <<log, half, present, written>>
    BY <1>6 DEF LogRecord, file
  <2>2. FileShape' /\ Size' = Size
    BY <1>1, <2>1 DEF FileShape, Size
  <2>3. QED
    BY <1>1, <1>2, <2>1, <2>2
<1>7. CASE Rotate
  <2>1. /\ log' = <<>> /\ half' = FALSE /\ present' \in BOOLEAN
        /\ UNCHANGED <<written, recorded>>
    BY <1>7 DEF Rotate
  <2>2. Len(log') = 0 /\ DOMAIN log' = {} /\ log' \in Seq(1 .. MaxWritten)
    BY <2>1
  <2>3. FileShape'
    BY <1>1, <2>1, <2>2 DEF FileShape
  <2>4. QED
    BY <1>1, <1>7, <2>1, <2>2, <2>3
<1>8. CASE \/ StartAgent \/ StopAgent \/ SkipHeartbeat \/ SendHello \/ SendHeartbeat
           \/ RestartConsole \/ UNCHANGED vars
  BY <1>3, <1>8 DEF StartAgent, StopAgent, SkipHeartbeat, SendHello, SendHeartbeat,
                    RestartConsole, vars
<1>9. CASE \E ev : Polled(ev)
  BY <1>3, <1>9 DEF Polled
<1>10. CASE \E i \in DOMAIN net : Handled(i) \/ RecordBatch(i) \/ RecordFails(i)
  BY <1>3, <1>10 DEF Handled, RecordBatch, RecordFails, Reject, Refuse, NoteIngest,
                     ServeHeartbeat, PersistFails, Answer, TimeOut
<1>11. QED
  BY Moves, <1>4, <1>5, <1>6, <1>7, <1>8, <1>9, <1>10 DEF Sources

LEMMA PositionKept ==
  ASSUME IInv, [Next]_vars
  PROVE  Position'
<1>1. /\ Position /\ TypeOK /\ FileShape /\ Size \in Nat
      /\ recorded \in Nat /\ last \in Nat /\ starts \in Nat /\ offset \in Nat
      /\ Len(log) \in Nat /\ half \in BOOLEAN /\ present \in BOOLEAN
  BY LogFacts DEF IInv, TypeOK
<1>2. FileShape' /\ (Rotate \/ Size' >= Size) /\ recorded' \in Nat /\ recorded <= recorded'
  BY FileShapeKept
<1>3. Size' \in Nat
  <2>1. log' \in Seq(1 .. MaxWritten) /\ half' \in BOOLEAN
    BY FileShapeKept
  <2>2. Len(log') \in Nat /\ (half' => Len(log') # 0)
    BY <1>2, <2>1 DEF FileShape
  <2>3. QED
    BY <2>1, <2>2 DEF Size
<1>4. pc' # "down" => starts' > 0
  BY <1>1, Coming DEF Position
<1>5. CASE /\ UNCHANGED <<log, written, offset, last, rotated, starts>>
           /\ Unread' = Unread /\ (pc' = "down" <=> pc = "down")
  <2>1. CASE Rotate
    <3>1. rotated' = (pc # "down")
      BY <2>1 DEF Rotate
    <3>2. (rotated' => pc' # "down") /\ (pc' # "down" /\ ~ rotated' => offset' <= Size')
      BY <1>5, <3>1
    <3>3. QED
      BY <1>1, <1>2, <1>4, <1>5, <3>2 DEF Position
  <2>2. CASE Size' >= Size
    BY <1>1, <1>2, <1>3, <1>4, <1>5, <2>2 DEF Position
  <2>3. QED
    BY <1>2, <2>1, <2>2
<1>6. CASE WriteLine
  <2>1. UNCHANGED <<pc, offset, last, rotated>> /\ ~ Rotate
    BY <1>6 DEF WriteLine, Rotate, agent, bounds, ghosts
  <2>2. QED
    BY <1>1, <1>2, <1>3, <1>4, <2>1 DEF Position
<1>7. CASE Rotate
  <2>1. UNCHANGED <<pc, last>> /\ rotated' = (pc # "down")
    BY <1>7 DEF Rotate, agent
  <2>2. (rotated' => pc' # "down") /\ (pc' # "down" => rotated')
    BY <2>1
  <2>3. last' <= recorded'
    BY <1>1, <1>2, <2>1 DEF Position
  <2>4. QED
    BY <1>4, <2>2, <2>3 DEF Position
<1>8. CASE StartAgent
  <2>1. /\ pc' = "start" /\ last' = 0 /\ rotated' = FALSE /\ offset' = StartOffset
        /\ UNCHANGED <<log, half, present>>
    BY <1>8 DEF StartAgent, file
  <2>2. StartOffset <= Size
    BY <1>1 DEF StartOffset
  <2>3. Size' = Size
    BY <2>1 DEF Size
  <2>4. offset' <= Size' /\ last' <= recorded'
    BY <1>2, <2>1, <2>2, <2>3
  <2>5. QED
    BY <1>4, <2>1, <2>4 DEF Position
<1>9. CASE StopAgent
  <2>1. pc' = "down" /\ last' = 0 /\ rotated' = FALSE
    BY <1>9 DEF StopAgent
  <2>2. last' <= recorded'
    BY <1>2, <2>1
  <2>3. QED
    BY <2>1, <2>2 DEF Position
<1>10. CASE \E ev : Polled(ev)
  <2>1. /\ pc' # "down" /\ (~ rotated' => offset' <= Size) /\ last' \in {last, recorded}
        /\ UNCHANGED <<log, half, recorded>>
    BY <1>10 DEF Polled, file
  <2>2. Size' = Size
    BY <2>1 DEF Size
  <2>3. QED
    BY <1>1, <1>4, <2>1, <2>2 DEF Position
<1>11. QED
  BY Views, <1>5, <1>6, <1>7, <1>8, <1>9, <1>10

\* Every request comes from one that was there, and none is sent again.
From(f) ==
  /\ f \in [DOMAIN net' -> DOMAIN net]
  /\ \A j, k \in DOMAIN net' : f[j] = f[k] => j = k
  /\ \A j \in DOMAIN net' :
       /\ net'[j].kind = net[f[j]].kind
       /\ net'[j].events = net[f[j]].events
       /\ net'[j].count = net[f[j]].count
       /\ net'[j].awaited => net[f[j]].awaited
       /\ net'[j].stage = "sent" => net[f[j]].stage = "sent"

\* The first m events of request i are recorded.
Feeds(i, m) ==
  /\ m \in 0 .. Len(net[i].events) /\ net[i].stage = "sent"
  /\ fed' \in Seq(Event) /\ Len(fed') = Len(fed) + m
  /\ \A k \in 1 .. Len(fed') : fed'[k] = IF k <= Len(fed) THEN fed[k]
                                         ELSE net[i].events[k - Len(fed)]
  /\ ToSet(fed) \subseteq ToSet(fed')
  /\ ToSet(fed') \subseteq ToSet(fed) \cup ToSet(net[i].events)

LEMMA FromOld ==
  ASSUME NEW f, Descends(f)
  PROVE  From(f)
BY DEF Descends, From

\* A batch is recorded, wholly or in part.
Records(i, m, f) ==
  /\ \/ RecordBatch(i) /\ m = Len(net[i].events)
     \/ RecordFails(i) /\ Descends(f)
  /\ Feeds(i, m) /\ From(f)
  /\ \A j \in DOMAIN net' : f[j] = i => net'[j].stage # "sent"

LEMMA Flow ==
  ASSUME IInv, [Next]_vars
  PROVE  /\ net' \in Seq(Request)
         /\ \/ fed' = fed /\ \E f : Descends(f)
            \/ fed' = fed /\ \E r : Sends(r)
            \/ \E i \in DOMAIN net : \E m, f : Records(i, m, f)
<1>1. TypeOK /\ Waits /\ Forms /\ fed \in Seq(Event)
  BY DEF IInv, TypeOK
<1>2. CASE UNCHANGED <<net, fed>>
  BY <1>1, <1>2, SameDescends
<1>3. CASE StopAgent
  BY <1>1, <1>3, StraysDescend DEF StopAgent, console
<1>4. CASE RestartConsole
  BY <1>4, NoneDescends DEF RestartConsole
<1>5. ASSUME NEW ev, Polled(ev)
      PROVE  /\ fed' = fed /\ net' \in Seq(Request)
             /\ (\E f : Descends(f)) \/ (\E r : Sends(r))
  <2>1. fed' = fed
    BY <1>5 DEF Polled, console
  <2>2. CASE net' = net
    BY <1>1, <2>1, <2>2, SameDescends
  <2>3. CASE Sends(Ingest(ev))
    BY <1>1, <2>1, <2>3, SendsAppends
  <2>4. QED
    BY <1>1, <1>5, <2>2, <2>3, PollSends
<1>6. CASE SendHello \/ SendHeartbeat
  <2>1. fed' = fed
    BY <1>6 DEF SendHello, SendHeartbeat, console
  <2>2. QED
    BY <1>1, <1>6, <2>1, HeartbeatSends, SendsAppends
<1>7. ASSUME NEW i \in DOMAIN net, Handled(i)
      PROVE  fed' = fed /\ net' \in Seq(Request) /\ \E f : Descends(f)
  BY <1>1, <1>7, HandledDescends
<1>8. ASSUME NEW i \in DOMAIN net, RecordBatch(i)
      PROVE  /\ net' \in Seq(Request)
             /\ \E m, f : Records(i, m, f)
  <2> DEFINE f == [j \in DOMAIN net |-> j]
             m == Len(net[i].events)
  <2>1. /\ fed' \in Seq(Event) /\ Len(fed') = Len(fed) + m
        /\ \A k \in 1 .. Len(fed') : fed'[k] = IF k <= Len(fed) THEN fed[k]
                                               ELSE net[i].events[k - Len(fed)]
        /\ ToSet(fed') = ToSet(fed) \cup ToSet(net[i].events)
        /\ net' \in Seq(Request) /\ DOMAIN net' = DOMAIN net
        /\ \A j \in DOMAIN net : j # i => net'[j] = net[j]
        /\ net'[i].stage = "note" /\ net'[i].kind = net[i].kind
        /\ net'[i].events = net[i].events /\ net'[i].count = net[i].count
        /\ net'[i].awaited = net[i].awaited
    BY <1>1, <1>8, BatchRecorded
  <2>2. net[i].stage = "sent" /\ m \in 0 .. Len(net[i].events)
    BY <1>1, <1>8, NetFacts DEF RecordBatch
  <2>3. Feeds(i, m)
    BY <2>1, <2>2 DEF Feeds
  <2>4. From(f)
    BY <2>1 DEF From
  <2>5. \A j \in DOMAIN net' : f[j] = i => net'[j].stage # "sent"
    BY <2>1
  <2> HIDE DEF f
  <2>6. Records(i, m, f)
    BY <1>8, <2>3, <2>4, <2>5 DEF Records
  <2>7. QED
    BY <2>1, <2>6
<1>9. ASSUME NEW i \in DOMAIN net, RecordFails(i)
      PROVE  /\ net' \in Seq(Request)
             /\ \E m, f : Records(i, m, f)
  <2>1. PICK m \in 1 .. Len(net[i].events) :
           /\ fed' \in Seq(Event) /\ Len(fed') = Len(fed) + m
           /\ \A k \in 1 .. Len(fed') : fed'[k] = IF k <= Len(fed) THEN fed[k]
                                                  ELSE net[i].events[k - Len(fed)]
           /\ ToSet(fed) \subseteq ToSet(fed')
           /\ ToSet(fed') \subseteq ToSet(fed) \cup ToSet(net[i].events)
    BY <1>1, <1>9, BatchBroken
  <2>2. net' = RemoveAt(net, i) /\ net[i].stage = "sent"
    BY <1>9 DEF RecordFails, EndInError
  <2>3. m \in 0 .. Len(net[i].events)
    BY <1>1, NetFacts
  <2>4. Feeds(i, m)
    BY <2>1, <2>2, <2>3 DEF Feeds
  <2>5. PICK f : Descends(f) /\ \A j \in DOMAIN net' : f[j] # i
    BY <1>1, <2>2, DropDescends
  <2>6. net' \in Seq(Request)
    BY <1>1, <2>2, DropDescends
  <2>7. Records(i, m, f)
    BY <1>9, <2>4, <2>5, FromOld DEF Records
  <2>8. QED
    BY <2>6, <2>7
<1>10. QED
  BY Moves, <1>2, <1>3, <1>4, <1>5, <1>6, <1>7, <1>8, <1>9

LEMMA FormsKept ==
  ASSUME IInv, [Next]_vars
  PROVE  Forms'
<1>1. TypeOK /\ Forms
  BY DEF IInv
<1>2. \A i \in DOMAIN net :
        /\ net[i].kind = "heartbeat" => net[i].events = <<>> /\ net[i].stage # "note"
        /\ net[i].stage # "sent" => Len(net[i].events) <= Limit
                                    /\ ToSet(net[i].events) \subseteq ToSet(fed)
  BY <1>1 DEF Forms
<1>3. Len(<<>>) <= Limit /\ ToSet(<<>>) = {}
  BY DEF ToSet
<1>4. ASSUME NEW f, Descends(f), ToSet(fed) \subseteq ToSet(fed')
      PROVE  Forms'
  <2>1. SUFFICES ASSUME NEW j \in DOMAIN net'
        PROVE  /\ net'[j].kind = "heartbeat" => net'[j].events = <<>> /\ net'[j].stage # "note"
               /\ net'[j].stage # "sent" => Len(net'[j].events) <= Limit
                                            /\ ToSet(net'[j].events) \subseteq ToSet(fed')
    BY DEF Forms
  <2>2. PICK i \in DOMAIN net :
          /\ net'[j].kind = net[i].kind /\ net'[j].events = net[i].events
          /\ \/ net'[j].stage = net[i].stage
             \/ net'[j].stage = "answer" /\ (net[i].stage = "note" \/ net[i].kind = "heartbeat")
    BY <1>4 DEF Descends
  <2>3. CASE net'[j].stage = net[i].stage
    BY <1>2, <1>4, <2>2, <2>3
  <2>4. CASE net'[j].stage = "answer" /\ net[i].stage = "note"
    BY <1>2, <1>4, <2>2, <2>4
  <2>5. CASE net'[j].stage = "answer" /\ net[i].kind = "heartbeat"
    BY <1>2, <1>3, <1>4, <2>2, <2>5
  <2>6. QED
    BY <2>2, <2>3, <2>4, <2>5
<1>5. ASSUME NEW r, Sends(r), fed' = fed
      PROVE  Forms'
  <2>1. /\ DOMAIN net' = (DOMAIN net) \cup {Len(net) + 1} /\ net'[Len(net) + 1] = r
        /\ \A i \in DOMAIN net : net'[i] = net[i]
    BY <1>1, <1>5, SendsAppends
  <2>2. r.stage = "sent" /\ (r.kind = "heartbeat" => r.events = <<>>)
    BY <1>5 DEF Sends
  <2>3. QED
    BY <1>2, <1>5, <2>1, <2>2 DEF Forms
<1>6. ASSUME NEW i \in DOMAIN net, RecordBatch(i)
      PROVE  Forms'
  <2>1. /\ ToSet(fed') = ToSet(fed) \cup ToSet(net[i].events) /\ DOMAIN net' = DOMAIN net
        /\ \A j \in DOMAIN net : j # i => net'[j] = net[j]
        /\ net'[i].kind = net[i].kind /\ net'[i].events = net[i].events
    BY <1>1, <1>6, BatchRecorded
  <2>2. net[i].kind = "ingest" /\ Len(net[i].events) <= Limit
    BY <1>6 DEF RecordBatch
  <2>3. QED
    BY <1>2, <2>1, <2>2 DEF Forms
<1>7. ASSUME NEW i \in DOMAIN net, NEW m, NEW f, Records(i, m, f)
      PROVE  Forms'
  <2>1. ToSet(fed) \subseteq ToSet(fed') /\ (RecordBatch(i) \/ Descends(f))
    BY <1>7 DEF Feeds, Records
  <2>2. QED
    BY <1>4, <1>6, <2>1
<1>8. QED
  BY Flow, <1>4, <1>5, <1>7

LEMMA OrderedKept ==
  ASSUME IInv, [Next]_vars
  PROVE  Ordered'
<1>1. /\ TypeOK /\ FileShape /\ Waits /\ written \in Nat /\ MaxWritten \in Nat
      /\ fed \in Seq(Event)
  BY DEF IInv, TypeOK
<1> DEFINE Old(e) == IsLine(e) => e.n <= written /\ (pc # "down" => \A m \in Unread : e.n < m)
           Older(e) == IsLine(e) => e.n <= written' /\ (pc' # "down" => \A m \in Unread' : e.n < m)
<1>2. /\ \A e \in ToSet(fed) : Old(e)
      /\ \A i \in DOMAIN net : \A e \in ToSet(net[i].events) : Old(e)
      /\ \A i \in DOMAIN net : \A j, k \in DOMAIN net[i].events :
           j < k /\ IsLine(net[i].events[j]) /\ IsLine(net[i].events[k]) =>
             net[i].events[j].n < net[i].events[k].n
      /\ \A i \in DOMAIN net : net[i].awaited /\ net[i].stage = "sent" =>
           \A e \in ToSet(net[i].events) : IsLine(e) =>
             /\ \A f \in ToSet(fed) : IsLine(f) => f.n < e.n
             /\ \A j \in DOMAIN net \ {i} : \A f \in ToSet(net[j].events) :
                  IsLine(f) => f.n < e.n
  BY DEF IInv, Ordered
<1>3. /\ \A e \in ToSet(fed) : e \in Event
      /\ \A i \in DOMAIN net : \A e \in ToSet(net[i].events) : e \in Event
  BY <1>1, NetFacts DEF ToSet
<1>4. Unread \subseteq Nat /\ \A m \in Unread : m <= written
  <2>1. Len(log) \in Nat /\ DOMAIN log = 1 .. Len(log) /\ Unread \subseteq Nat
    BY <1>1, LogFacts
  <2>2. \A i \in DOMAIN log : log[i] <= written
    BY <1>1, <2>1 DEF FileShape
  <2>3. QED
    BY <2>1, <2>2 DEF Unread
<1>5. Unread' \subseteq Nat
  <2>1. log' \in Seq(1 .. MaxWritten)
    BY FileShapeKept
  <2>2. \A i \in DOMAIN log' : log'[i] \in Nat
    BY <1>1, <2>1
  <2>3. QED
    BY <2>2 DEF Unread
<1>6. ASSUME NEW e \in Event, Old(e) PROVE Older(e)
  <2>1. /\ written' \in Nat /\ written <= written'
        /\ pc' # "down" => \A m \in Unread' : m > written \/ (pc # "down" /\ m \in Unread)
    BY Coming
  <2>2. ASSUME IsLine(e) PROVE e.n \in Nat
    BY <2>2, EventFacts
  <2>3. ASSUME IsLine(e), pc' # "down", NEW m \in Unread' PROVE e.n < m
    BY <1>1, <1>5, <1>6, <2>1, <2>2, <2>3
  <2>4. ASSUME IsLine(e) PROVE e.n <= written'
    BY <1>1, <1>6, <2>1, <2>2, <2>4
  <2>5. QED
    BY <2>3, <2>4
<1>7. \A e \in ToSet(fed) : Older(e)
  BY <1>2, <1>3, <1>6
<1>8. \A i \in DOMAIN net : \A e \in ToSet(net[i].events) : Older(e)
  BY <1>2, <1>3, <1>6
<1> HIDE DEF Old, Older
<1>9. Ordered' <=>
        /\ \A e \in ToSet(fed') : Older(e)
        /\ \A i \in DOMAIN net' : \A e \in ToSet(net'[i].events) : Older(e)
        /\ \A i \in DOMAIN net' : \A j, k \in DOMAIN net'[i].events :
             j < k /\ IsLine(net'[i].events[j]) /\ IsLine(net'[i].events[k]) =>
               net'[i].events[j].n < net'[i].events[k].n
        /\ \A i \in DOMAIN net' : net'[i].awaited /\ net'[i].stage = "sent" =>
             \A e \in ToSet(net'[i].events) : IsLine(e) =>
               /\ \A f \in ToSet(fed') : IsLine(f) => f.n < e.n
               /\ \A j \in DOMAIN net' \ {i} : \A f \in ToSet(net'[j].events) :
                    IsLine(f) => f.n < e.n
  BY DEF Ordered, Older, IsLine
<1>10. ASSUME NEW f, From(f),
              \/ fed' = fed
              \/ \E i \in DOMAIN net : \E m :
                   /\ Feeds(i, m) /\ \A j \in DOMAIN net' : f[j] = i => net'[j].stage # "sent"
       PROVE  Ordered'
  <2>1. \A j \in DOMAIN net' :
          /\ f[j] \in DOMAIN net /\ net'[j].events = net[f[j]].events
          /\ net'[j].awaited => net[f[j]].awaited
          /\ net'[j].stage = "sent" => net[f[j]].stage = "sent"
          /\ \A k \in DOMAIN net' : f[j] = f[k] => j = k
    BY <1>10 DEF From
  <2>2. \A j \in DOMAIN net' : \A e \in ToSet(net'[j].events) : Older(e)
    BY <1>8, <2>1
  <2>3. \A i \in DOMAIN net' : \A j, k \in DOMAIN net'[i].events :
             j < k /\ IsLine(net'[i].events[j]) /\ IsLine(net'[i].events[k]) =>
               net'[i].events[j].n < net'[i].events[k].n
    BY <1>2, <2>1
  <2>4. ASSUME NEW i \in DOMAIN net', net'[i].awaited, net'[i].stage = "sent",
               NEW e \in ToSet(net'[i].events), IsLine(e)
        PROVE  /\ \A g \in ToSet(fed) : IsLine(g) => g.n < e.n
               /\ \A h \in DOMAIN net \ {f[i]} : \A g \in ToSet(net[h].events) :
                    IsLine(g) => g.n < e.n
    BY <1>2, <2>1, <2>4
  <2>5. CASE fed' = fed
    <3>1. \A e \in ToSet(fed') : Older(e)
      BY <1>7, <2>5
    <3>2. ASSUME NEW i \in DOMAIN net', net'[i].awaited, net'[i].stage = "sent",
                 NEW e \in ToSet(net'[i].events), IsLine(e)
          PROVE  /\ \A g \in ToSet(fed') : IsLine(g) => g.n < e.n
                 /\ \A j \in DOMAIN net' \ {i} : \A g \in ToSet(net'[j].events) :
                      IsLine(g) => g.n < e.n
      BY <2>1, <2>4, <2>5, <3>2
    <3>3. QED
      BY <1>9, <2>2, <2>3, <3>1, <3>2, Zenon
  <2>6. ASSUME NEW i \in DOMAIN net, NEW m, Feeds(i, m),
               \A j \in DOMAIN net' : f[j] = i => net'[j].stage # "sent"
        PROVE  Ordered'
    <3>1. ToSet(fed') \subseteq ToSet(fed) \cup ToSet(net[i].events)
      BY <2>6 DEF Feeds
    <3>2. \A e \in ToSet(fed') : Older(e)
      BY <1>7, <1>8, <3>1
    <3>3. ASSUME NEW h \in DOMAIN net', net'[h].awaited, net'[h].stage = "sent",
                 NEW e \in ToSet(net'[h].events), IsLine(e)
          PROVE  /\ \A g \in ToSet(fed') : IsLine(g) => g.n < e.n
                 /\ \A j \in DOMAIN net' \ {h} : \A g \in ToSet(net'[j].events) :
                      IsLine(g) => g.n < e.n
      <4>1. i \in DOMAIN net \ {f[h]}
        BY <2>6, <3>3
      <4>2. \A g \in ToSet(fed') : IsLine(g) => g.n < e.n
        BY <2>4, <3>1, <3>3, <4>1
      <4>3. \A j \in DOMAIN net' \ {h} : f[j] \in DOMAIN net \ {f[h]}
        BY <2>1
      <4>4. QED
        BY <2>1, <2>4, <3>3, <4>2, <4>3
    <3>4. QED
      BY <1>9, <2>2, <2>3, <3>2, <3>3, Zenon
  <2>7. QED
    BY <1>10, <2>5, <2>6
<1>11. ASSUME NEW r, Sends(r), fed' = fed
       PROVE  Ordered'
  <2> DEFINE n == Len(net) + 1
  <2>1. /\ DOMAIN net' = (DOMAIN net) \cup {n} /\ n \notin DOMAIN net /\ net'[n] = r
        /\ \A i \in DOMAIN net : net'[i] = net[i]
    BY <1>1, <1>11, SendsAppends
  <2> HIDE DEF n
  <2>2. r.events \in Seq(Event) /\ pc # "down" /\ \A i \in DOMAIN net : ~ net[i].awaited
    BY <1>1, <1>11 DEF Sends, Request, Waits
  <2>3. CASE r.events = <<>>
    <3>1. DOMAIN r.events = {} /\ ToSet(r.events) = {}
      BY <2>3 DEF ToSet
    <3>2. \A e \in ToSet(fed') : Older(e)
      BY <1>7, <1>11
    <3>3. \A i \in DOMAIN net' : \A e \in ToSet(net'[i].events) : Older(e)
      BY <1>8, <2>1, <3>1
    <3>4. \A i \in DOMAIN net' : \A j, k \in DOMAIN net'[i].events :
             j < k /\ IsLine(net'[i].events[j]) /\ IsLine(net'[i].events[k]) =>
               net'[i].events[j].n < net'[i].events[k].n
      BY <1>2, <2>1, <3>1
    <3>5. \A i \in DOMAIN net' : net'[i].awaited => ToSet(net'[i].events) = {}
      BY <2>1, <2>2, <3>1
    <3>6. QED
      BY <1>9, <3>2, <3>3, <3>4, <3>5, Zenon
  <2>4. CASE Polled(r.events)
    <3>1. /\ \A k \in DOMAIN r.events : IsLine(r.events[k]) => r.events[k].n \in Unread /\ Unread' = {}
          /\ \A j, k \in DOMAIN r.events : j < k /\ IsLine(r.events[k]) => r.events[j].n < r.events[k].n
          /\ written' = written
      BY <2>4 DEF Polled, file
    <3>2. \A e \in ToSet(r.events) : IsLine(e) => e.n \in Unread /\ Unread' = {}
      BY <3>1 DEF ToSet
    <3>3. \A e \in ToSet(r.events) : Older(e)
      BY <1>4, <3>1, <3>2 DEF Older
    <3>4. \A e \in ToSet(fed') : Older(e)
      BY <1>7, <1>11
    <3>5. \A i \in DOMAIN net' : \A e \in ToSet(net'[i].events) : Older(e)
      BY <1>8, <2>1, <3>3
    <3>6. \A i \in DOMAIN net' : \A j, k \in DOMAIN net'[i].events :
             j < k /\ IsLine(net'[i].events[j]) /\ IsLine(net'[i].events[k]) =>
               net'[i].events[j].n < net'[i].events[k].n
      BY <1>2, <2>1, <3>1
    <3>7. ASSUME NEW i \in DOMAIN net', net'[i].awaited, net'[i].stage = "sent",
                 NEW e \in ToSet(net'[i].events), IsLine(e)
          PROVE  /\ \A g \in ToSet(fed') : IsLine(g) => g.n < e.n
                 /\ \A j \in DOMAIN net' \ {i} : \A g \in ToSet(net'[j].events) :
                      IsLine(g) => g.n < e.n
      <4>1. i = n
        BY <2>1, <2>2, <3>7
      <4>2. e.n \in Unread
        BY <2>1, <3>2, <3>7, <4>1
      <4>3. \A g \in ToSet(fed) : IsLine(g) => g.n < e.n
        BY <1>2, <2>2, <4>2 DEF Old
      <4>4. \A j \in DOMAIN net : \A g \in ToSet(net[j].events) : IsLine(g) => g.n < e.n
        BY <1>2, <2>2, <4>2 DEF Old
      <4>5. QED
        BY <1>11, <2>1, <4>1, <4>3, <4>4
    <3>8. QED
      BY <1>9, <3>4, <3>5, <3>6, <3>7, Zenon
  <2>5. QED
    BY <1>11, <2>3, <2>4 DEF Sends
<1>12. QED
  BY Flow, <1>10, <1>11, FromOld DEF Records

LEMMA WaitsKept ==
  ASSUME IInv, [Next]_vars
  PROVE  Waits'
<1>1. /\ TypeOK /\ Waits /\ Forms
      /\ pc \in {"down", "start", "hello", "poll", "ingest", "due", "beat"}
  BY DEF IInv, TypeOK
<1>2. /\ \A i \in DOMAIN net : net[i].awaited =>
           /\ pc \in {"hello", "ingest", "beat"}
           /\ net[i].kind = IF pc = "ingest" THEN "ingest" ELSE "heartbeat"
      /\ pc \in {"hello", "ingest", "beat"} => \E i \in DOMAIN net : net[i].awaited
      /\ \A i, j \in DOMAIN net : net[i].awaited /\ net[j].awaited => i = j
  BY <1>1 DEF Waits
<1>3. ASSUME pc' \notin {"hello", "ingest", "beat"}, \A j \in DOMAIN net' : ~ net'[j].awaited
      PROVE  Waits'
  BY <1>3 DEF Waits
<1>4. ASSUME NEW f, From(f), pc' = pc,
             \A i \in DOMAIN net : net[i].awaited => \E j \in DOMAIN net' : net'[j].awaited
      PROVE  Waits'
  <2>1. \A j \in DOMAIN net' : net'[j].awaited =>
          f[j] \in DOMAIN net /\ net[f[j]].awaited /\ net'[j].kind = net[f[j]].kind
    BY <1>4 DEF From
  <2>2. \A j, k \in DOMAIN net' : f[j] = f[k] => j = k
    BY <1>4 DEF From
  <2>3. \A j, k \in DOMAIN net' : net'[j].awaited /\ net'[k].awaited => j = k
    BY <1>2, <2>1, <2>2
  <2>4. QED
    BY <1>2, <1>4, <2>1, <2>3 DEF Waits
<1>5. CycleFails => pc' \notin {"hello", "ingest", "beat"}
  BY DEF CycleFails
<1>6. ASSUME net' = net, \/ pc' = pc
                           \/ /\ pc \notin {"hello", "ingest", "beat"}
                              /\ pc' \notin {"hello", "ingest", "beat"}
      PROVE  Waits'
  BY <1>2, <1>6 DEF Waits
<1>7. CASE Sources \/ StartAgent \/ SkipHeartbeat \/ UNCHANGED vars
  BY <1>6, <1>7 DEF Sources, WriteLine, FinishLine, LogRecord, Rotate, StartAgent, SkipHeartbeat,
                    vars, agent
<1>8. CASE StopAgent
  BY <1>1, <1>3, <1>8, StraysDescend DEF StopAgent
<1>9. CASE RestartConsole
  <2>1. DOMAIN net' = {}
    BY <1>9 DEF RestartConsole
  <2>2. pc' \notin {"hello", "ingest", "beat"}
    BY <1>2, <1>5, <1>9 DEF RestartConsole, agent
  <2>3. QED
    BY <1>3, <2>1, <2>2
<1>10. ASSUME NEW r, Sends(r)
       PROVE  Waits'
  <2>1. /\ DOMAIN net' = (DOMAIN net) \cup {Len(net) + 1} /\ net'[Len(net) + 1] = r
        /\ \A i \in DOMAIN net : net'[i] = net[i]
    BY <1>1, <1>10, SendsAppends
  <2>2. /\ pc \notin {"hello", "ingest", "beat"} /\ r.awaited
        /\ \/ pc' = "ingest" /\ r.kind = "ingest"
           \/ pc' \in {"hello", "beat"} /\ r.kind = "heartbeat"
    BY <1>10 DEF Sends
  <2>3. \A i \in DOMAIN net : ~ net[i].awaited
    BY <1>2, <2>2
  <2>4. \A i \in DOMAIN net' : net'[i].awaited => i = Len(net) + 1
    BY <2>1, <2>3
  <2>5. QED
    BY <2>1, <2>2, <2>4 DEF Waits
<1>11. CASE \E ev : Polled(ev)
  <2>1. PICK ev : Polled(ev)
    BY <1>11
  <2>2. CASE pc' = "due" /\ net' = net
    BY <1>6, <2>1, <2>2 DEF Polled
  <2>3. QED
    BY <1>1, <1>10, <2>1, <2>2, PollSends
<1>12. CASE SendHello \/ SendHeartbeat
  BY <1>1, <1>10, <1>12, HeartbeatSends
<1>13. ASSUME NEW i \in DOMAIN net, net' = RemoveAt(net, i),
              IF net[i].awaited THEN pc' \notin {"hello", "ingest", "beat"} ELSE pc' = pc
       PROVE  Waits'
  <2>1. PICK f : /\ Descends(f)
                 /\ \A j \in DOMAIN net' : f[j] # i /\ net'[j] = net[f[j]]
                 /\ \A k \in DOMAIN net : k # i => \E j \in DOMAIN net' : f[j] = k
    BY <1>1, <1>13, DropDescends
  <2>2. From(f) /\ \A j \in DOMAIN net' : f[j] \in DOMAIN net
    BY <2>1, FromOld DEF From
  <2>3. CASE net[i].awaited
    BY <1>2, <1>3, <1>13, <2>1, <2>2, <2>3
  <2>4. CASE ~ net[i].awaited
    <3>1. \A k \in DOMAIN net : net[k].awaited => \E j \in DOMAIN net' : net'[j].awaited
      BY <2>1, <2>4
    <3>2. QED
      BY <1>4, <1>13, <2>2, <2>4, <3>1
  <2>5. QED
    BY <2>3, <2>4
<1>14. ASSUME NEW i \in DOMAIN net, EndInError(i)
       PROVE  Waits'
  BY <1>5, <1>13, <1>14 DEF EndInError, agent
<1>15. ASSUME NEW i \in DOMAIN net, Served(i), UNCHANGED agent,
              net[i].stage = "note" \/ net[i].kind = "heartbeat"
       PROVE  Waits'
  <2>1. CASE ~ net[i].awaited
    BY <1>13, <1>15, <2>1 DEF Served, agent
  <2>2. CASE net[i].awaited
    <3>1. net' = [net EXCEPT ![i].stage = "answer"] /\ pc' = pc
      BY <1>15, <2>2 DEF Served, agent
    <3>2. /\ DOMAIN net' = DOMAIN net /\ From([j \in DOMAIN net |-> j])
          /\ net'[i].awaited
      <4>1. /\ DOMAIN net' = DOMAIN net /\ Descends([j \in DOMAIN net |-> j])
        BY <1>1, <1>15, <3>1, EditDescends
      <4>2. net'[i].awaited
        BY <1>1, <2>2, <3>1, NetFacts DEF Request
      <4>3. QED
        BY <4>1, <4>2, FromOld
    <3>3. QED
      BY <1>4, <3>1, <3>2
  <2>3. QED
    BY <2>1, <2>2
<1>16. ASSUME NEW i \in DOMAIN net, RecordBatch(i)
       PROVE  Waits'
  <2>1. /\ DOMAIN net' = DOMAIN net
        /\ \A j \in DOMAIN net : j # i => net'[j] = net[j]
        /\ net'[i].stage = "note" /\ net'[i].kind = net[i].kind
        /\ net'[i].events = net[i].events /\ net'[i].count = net[i].count
        /\ net'[i].awaited = net[i].awaited
    BY <1>1, <1>16, BatchRecorded
  <2>2. From([j \in DOMAIN net |-> j])
    BY <2>1 DEF From
  <2>3. \A k \in DOMAIN net : net[k].awaited => net'[k].awaited
    BY <2>1
  <2>4. pc' = pc
    BY <1>16 DEF RecordBatch, agent
  <2>5. QED
    BY <1>4, <2>1, <2>2, <2>3, <2>4
<1>17. ASSUME NEW i \in DOMAIN net, Answer(i)
       PROVE  Waits'
  <2>1. pc' \notin {"hello", "ingest", "beat"} /\ net[i].awaited /\ net' = RemoveAt(net, i)
    BY <1>17 DEF Answer
  <2>2. QED
    BY <1>13, <2>1
<1>18. ASSUME NEW i \in DOMAIN net, TimeOut(i)
       PROVE  Waits'
  <2>1. pc' \notin {"hello", "ingest", "beat"} /\ net[i].awaited
    BY <1>5, <1>18 DEF TimeOut
  <2>2. CASE net' = RemoveAt(net, i)
    BY <1>13, <2>1, <2>2
  <2>3. CASE net' = [net EXCEPT ![i].awaited = FALSE]
    <3>1. /\ DOMAIN net' = DOMAIN net /\ \A j \in DOMAIN net : j # i => net'[j] = net[j]
          /\ Descends([j \in DOMAIN net |-> j])
      BY <1>1, <2>3, EditDescends
    <3>2. ~ net'[i].awaited
      BY <1>1, <2>3, NetFacts DEF Request
    <3>3. \A j \in DOMAIN net' : ~ net'[j].awaited
      BY <1>2, <2>1, <3>1, <3>2
    <3>4. QED
      BY <1>3, <2>1, <3>3
  <2>4. QED
    BY <1>18, <2>2, <2>3 DEF TimeOut
<1>19. ASSUME NEW i \in DOMAIN net, Handled(i)
       PROVE  Waits'
  <2>1. CASE Reject(i) \/ Refuse(i) \/ PersistFails(i)
    BY <1>14, <2>1 DEF Reject, Refuse, PersistFails
  <2>2. CASE NoteIngest(i) \/ ServeHeartbeat(i)
    BY <1>15, <2>2 DEF NoteIngest, ServeHeartbeat
  <2>3. QED
    BY <1>17, <1>18, <1>19, <2>1, <2>2 DEF Handled
<1>20. ASSUME NEW i \in DOMAIN net, RecordFails(i)
       PROVE  Waits'
  BY <1>14, <1>20 DEF RecordFails
<1>21. QED
  BY Moves, <1>7, <1>8, <1>9, <1>11, <1>12, <1>16, <1>19, <1>20

-----------------------------------------------------------------------------
(***************************************************************************)
(* Counting                                                                *)
(***************************************************************************)

LEMMA InjectsBelow ==
  ASSUME NEW S, NEW T, IsFiniteSet(T), NEW f,
         \A x \in S : f[x] \in T,
         \A x, y \in S : f[x] = f[y] => x = y
  PROVE  IsFiniteSet(S) /\ Cardinality(S) <= Cardinality(T)
<1> DEFINE g == [x \in S |-> f[x]]
<1>1. g \in Injection(S, T)
  BY DEF Injection, IsInjective
<1>2. QED
  BY <1>1, FS_Injection

\* Requests of n on their way to the console with e.
Carrying(n, e) == {i \in DOMAIN n : n[i].stage = "sent" /\ e \in ToSet(n[i].events)}

LEMMA CarriedOn ==
  ASSUME TypeOK, NEW f, From(f), NEW e
  PROVE  /\ Cardinality(Carrying(net', e)) \in Nat /\ Cardinality(Carrying(net, e)) \in Nat
         /\ Cardinality(Carrying(net', e)) <= Cardinality(Carrying(net, e))
         /\ \A i \in Carrying(net, e) :
              (\A j \in DOMAIN net' : f[j] = i => net'[j].stage # "sent") =>
                Cardinality(Carrying(net', e)) + 1 <= Cardinality(Carrying(net, e))
<1> DEFINE S == Carrying(net', e)
           T == Carrying(net, e)
<1>1. IsFiniteSet(T) /\ Cardinality(T) \in Nat
  <2>1. IsFiniteSet(DOMAIN net)
    BY NetFacts, FS_Interval
  <2>2. T \in SUBSET DOMAIN net
    BY DEF Carrying
  <2>3. QED
    BY <2>1, <2>2, FS_Subset, FS_CardinalityType
<1>2. /\ \A x \in S : f[x] \in T /\ x \in DOMAIN net' /\ net'[x].stage = "sent"
      /\ \A x, y \in S : f[x] = f[y] => x = y
  BY DEF From, Carrying
<1> HIDE DEF S, T
<1>3. IsFiniteSet(S) /\ Cardinality(S) <= Cardinality(T)
  BY <1>1, <1>2, InjectsBelow
<1>4. Cardinality(S) \in Nat
  BY <1>3, FS_CardinalityType
<1>5. ASSUME NEW i \in T, \A j \in DOMAIN net' : f[j] = i => net'[j].stage # "sent"
      PROVE  Cardinality(S) + 1 <= Cardinality(T)
  <2>1. IsFiniteSet(T \ {i}) /\ Cardinality(T \ {i}) = Cardinality(T) - 1
    BY <1>1, FS_RemoveElement
  <2>2. \A x \in S : f[x] \in T \ {i}
    BY <1>2, <1>5
  <2>3. Cardinality(S) <= Cardinality(T \ {i})
    BY <1>2, <2>1, <2>2, InjectsBelow
  <2>4. QED
    BY <1>1, <1>4, <2>1, <2>3
<1>6. QED
  BY <1>1, <1>3, <1>4, <1>5 DEF S, T

\* The places of e in s.
Places(s, e) == {k \in DOMAIN s : s[k] = e}

LEMMA FedMore ==
  ASSUME TypeOK, NEW i \in DOMAIN net, NEW m, Feeds(i, m), NEW e,
         \A j, k \in DOMAIN net[i].events : net[i].events[j] = net[i].events[k] => j = k
  PROVE  /\ Cardinality(Places(fed, e)) \in Nat /\ Cardinality(Places(fed', e)) \in Nat
         /\ Cardinality(Places(fed', e))
              <= Cardinality(Places(fed, e)) + (IF e \in ToSet(net[i].events) THEN 1 ELSE 0)
<1> DEFINE b == net[i].events
           S == Places(fed', e)
           T == Places(fed, e)
<1>1. /\ Len(b) \in Nat /\ DOMAIN b = 1 .. Len(b) /\ m \in Nat /\ m <= Len(b)
      /\ Len(fed) \in Nat /\ DOMAIN fed = 1 .. Len(fed) /\ fed' \in Seq(Event)
      /\ Len(fed') = Len(fed) + m /\ DOMAIN fed' = 1 .. Len(fed) + m
  <2>1. Len(b) \in Nat /\ DOMAIN b = 1 .. Len(b) /\ fed \in Seq(Event)
    BY NetFacts DEF TypeOK
  <2>2. m \in 0 .. Len(b) /\ fed' \in Seq(Event) /\ Len(fed') = Len(fed) + m
    BY DEF Feeds
  <2> HIDE DEF b
  <2>3. QED
    BY <2>1, <2>2
<1>2. \A k \in 1 .. Len(fed) + m : fed'[k] = IF k <= Len(fed) THEN fed[k] ELSE b[k - Len(fed)]
  BY <1>1 DEF Feeds
<1>3. \A j, k \in DOMAIN b : b[j] = b[k] => j = k
  OBVIOUS
<1> HIDE DEF b
<1>4. IsFiniteSet(T) /\ Cardinality(T) \in Nat
  <2>1. IsFiniteSet(1 .. Len(fed)) /\ T \in SUBSET (1 .. Len(fed))
    BY <1>1, FS_Interval DEF Places
  <2>2. QED
    BY <2>1, FS_Subset, FS_CardinalityType
<1>5. \A k \in S : /\ k <= Len(fed) => k \in T
                   /\ ~ (k <= Len(fed)) => k - Len(fed) \in DOMAIN b /\ b[k - Len(fed)] = e
  BY <1>1, <1>2 DEF Places
<1>6. S \subseteq Nat
  BY <1>1 DEF Places
<1>7. CASE \A k \in S : k <= Len(fed)
  <2>1. S \in SUBSET T
    BY <1>5, <1>7
  <2>2. IsFiniteSet(S) /\ Cardinality(S) <= Cardinality(T)
    BY <1>4, <2>1, FS_Subset
  <2>3. Cardinality(S) \in Nat
    BY <2>2, FS_CardinalityType
  <2> HIDE DEF S, T
  <2>4. QED
    BY <1>4, <2>2, <2>3 DEF S, T, b
<1>8. CASE \E k \in S : ~ (k <= Len(fed))
  <2>1. PICK k \in S : ~ (k <= Len(fed))
    BY <1>8
  <2>2. S \in SUBSET (T \cup {k})
    <3>1. ASSUME NEW j \in S, ~ (j <= Len(fed)) PROVE j = k
      <4>1. j - Len(fed) = k - Len(fed)
        BY <1>3, <1>5, <2>1, <3>1
      <4>2. QED
        BY <1>1, <1>6, <4>1
    <3>2. QED
      BY <1>5, <3>1
  <2>3. k \notin T
    BY <1>1, <2>1 DEF Places
  <2>4. IsFiniteSet(T \cup {k}) /\ Cardinality(T \cup {k}) = Cardinality(T) + 1
    BY <1>4, <2>3, FS_AddElement
  <2>5. IsFiniteSet(S) /\ Cardinality(S) <= Cardinality(T) + 1
    BY <2>2, <2>4, FS_Subset
  <2>6. Cardinality(S) \in Nat
    BY <2>5, FS_CardinalityType
  <2>7. e \in ToSet(b)
    BY <1>5, <2>1 DEF ToSet
  <2> HIDE DEF S, T
  <2>8. QED
    BY <1>4, <2>5, <2>6, <2>7 DEF S, T, b
<1>9. QED
  BY <1>7, <1>8

\* What is still to come shrinks, but for records when the agent starts again,
\* and what is sent is no longer to come.
LEMMA ToComeShrinks ==
  ASSUME IInv, [Next]_vars, NEW e \in AnyEvent
  PROVE  /\ ToCome(e)' => ToCome(e) \/ (StartAgent /\ ~ IsLine(e))
         /\ Quota(e) \in Nat /\ Quota(e)' \in Nat /\ Quota(e) <= Quota(e)'
         /\ StartAgent /\ ~ IsLine(e) => Quota(e)' = Quota(e) + 1
         /\ \A r : Sends(r) /\ e \in ToSet(r.events) => ToCome(e) /\ ~ ToCome(e)'
<1>1. /\ e.n \in Nat /\ last \in Nat /\ starts \in Nat /\ written \in Nat /\ recorded \in Nat
      /\ last' \in Nat
  <2>1. e.n \in Nat
    BY DEF AnyEvent, Line, WinRecord
  <2>2. last \in Nat /\ starts \in Nat /\ written \in Nat /\ recorded \in Nat
    BY DEF IInv, TypeOK
  <2>3. last' \in Nat
    <3>1. WriteLine \/ Rotate => last' = last
      BY DEF WriteLine, Rotate, agent
    <3>2. StartAgent \/ StopAgent => last' = 0
      BY DEF StartAgent, StopAgent
    <3>3. \A ev : Polled(ev) => last' \in {last, recorded}
      BY DEF Polled
    <3>4. QED
      BY <2>2, <3>1, <3>2, <3>3, Views
  <2>4. QED
    BY <2>1, <2>2, <2>3
<1>2. /\ written' \in Nat /\ written <= written' /\ starts' \in Nat
      /\ pc' # "down" => \A m \in Unread' : m > written \/ (pc # "down" /\ m \in Unread)
      /\ StartAgent \/ (pc' # "down" => pc # "down" /\ last' >= last)
      /\ starts' = IF StartAgent THEN starts + 1 ELSE starts
  BY Coming
<1>3. /\ ToCome(e)' = IF IsLine(e) THEN e.n > written' \/ (pc' # "down" /\ e.n \in Unread')
                                   ELSE pc' # "down" /\ e.n > last'
      /\ Quota(e)' = IF IsLine(e) THEN 1 ELSE starts'
  BY DEF ToCome, Quota, IsLine
<1>4. ToCome(e)' => ToCome(e) \/ (StartAgent /\ ~ IsLine(e))
  <2>1. CASE IsLine(e)
    BY <1>1, <1>2, <1>3, <2>1 DEF ToCome
  <2>2. CASE ~ IsLine(e)
    BY <1>1, <1>2, <1>3, <2>2 DEF ToCome
  <2>3. QED
    BY <2>1, <2>2
<1>5. /\ Quota(e) \in Nat /\ Quota(e)' \in Nat /\ Quota(e) <= Quota(e)'
      /\ StartAgent /\ ~ IsLine(e) => Quota(e)' = Quota(e) + 1
  BY <1>1, <1>2, <1>3 DEF Quota
<1>6. ASSUME NEW r, Sends(r), e \in ToSet(r.events)
      PROVE  ToCome(e) /\ ~ ToCome(e)'
  <2>1. r.events # <<>> /\ Polled(r.events)
    BY <1>6 DEF Sends, ToSet
  <2>2. PICK k \in DOMAIN r.events : e = r.events[k]
    BY <1>6 DEF ToSet
  <2>3. IF IsLine(e) THEN e.n \in Unread /\ Unread' = {}
        ELSE e.n = recorded /\ recorded > last /\ last' = recorded
    BY <2>1, <2>2 DEF Polled
  <2>4. pc = "poll" /\ written' = written
    BY <2>1 DEF Polled, file
  <2>5. \A m \in Unread : m \in Nat /\ m <= written
    <3>1. Len(log) \in Nat /\ DOMAIN log = 1 .. Len(log) /\ Unread \subseteq Nat /\ FileShape
      BY LogFacts DEF IInv
    <3>2. \A i \in DOMAIN log : log[i] <= written
      BY <1>1, <3>1 DEF FileShape
    <3>3. QED
      BY <3>1, <3>2 DEF Unread
  <2>6. CASE IsLine(e)
    BY <1>1, <1>3, <2>3, <2>4, <2>5, <2>6 DEF ToCome
  <2>7. CASE ~ IsLine(e)
    BY <1>1, <1>3, <2>3, <2>4, <2>7 DEF ToCome
  <2>8. QED
    BY <2>6, <2>7
<1>7. QED
  BY <1>4, <1>5, <1>6

LEMMA BudgetedKept ==
  ASSUME IInv, [Next]_vars
  PROVE  Budgeted'
<1>1. TypeOK /\ fed \in Seq(Event)
  BY DEF IInv, TypeOK
<1>2. /\ \A e \in AnyEvent :
           Cardinality(Places(fed, e)) + Cardinality(Carrying(net, e))
             + (IF ToCome(e) THEN 1 ELSE 0) <= Quota(e)
      /\ \A i \in DOMAIN net : \A j, k \in DOMAIN net[i].events :
           net[i].events[j] = net[i].events[k] => j = k
  BY DEF IInv, Budgeted, Times, Carriers, Places, Carrying
<1>3. \A e : Cardinality(Places(fed, e)) \in Nat
  <2>1. IsFiniteSet(DOMAIN fed)
    BY <1>1, FS_Interval
  <2>2. ASSUME NEW e PROVE Cardinality(Places(fed, e)) \in Nat
    <3>1. Places(fed, e) \in SUBSET DOMAIN fed
      BY DEF Places
    <3>2. QED
      BY <2>1, <3>1, FS_Subset, FS_CardinalityType
  <2>3. QED
    BY <2>2
<1>4. \A e : IsFiniteSet(Carrying(net, e)) /\ Cardinality(Carrying(net, e)) \in Nat
  <2>1. IsFiniteSet(DOMAIN net)
    BY <1>1, NetFacts, FS_Interval
  <2>2. ASSUME NEW e
        PROVE  IsFiniteSet(Carrying(net, e)) /\ Cardinality(Carrying(net, e)) \in Nat
    <3>1. Carrying(net, e) \in SUBSET DOMAIN net
      BY DEF Carrying
    <3>2. QED
      BY <2>1, <3>1, FS_Subset, FS_CardinalityType
  <2>3. QED
    BY <2>2
<1>5. ASSUME NEW e \in AnyEvent,
             \/ fed' = fed /\ \E f : Descends(f)
             \/ fed' = fed /\ \E r : Sends(r)
             \/ \E i \in DOMAIN net : \E m, f : Records(i, m, f)
      PROVE  Cardinality(Places(fed', e)) + Cardinality(Carrying(net', e))
               + (IF ToCome(e)' THEN 1 ELSE 0) <= Quota(e)'
  <2> DEFINE t == Cardinality(Places(fed, e))
             c == Cardinality(Carrying(net, e))
             tt == Cardinality(Places(fed', e))
             cc == Cardinality(Carrying(net', e))
  <2>1. /\ t \in Nat /\ c \in Nat /\ t + c + (IF ToCome(e) THEN 1 ELSE 0) <= Quota(e)
        /\ ToCome(e)' => ToCome(e) \/ (StartAgent /\ ~ IsLine(e))
        /\ Quota(e) \in Nat /\ Quota(e)' \in Nat /\ Quota(e) <= Quota(e)'
        /\ StartAgent /\ ~ IsLine(e) => Quota(e)' = Quota(e) + 1
    BY <1>2, <1>3, <1>4, <1>5, ToComeShrinks
  <2>2. ASSUME tt \in Nat, cc \in Nat, tt + cc <= t + c
        PROVE  tt + cc + (IF ToCome(e)' THEN 1 ELSE 0) <= Quota(e)'
    <3> HIDE DEF t, c, tt, cc
    <3>1. QED
      BY <2>1, <2>2
  <2>3. CASE fed' = fed /\ \E f : Descends(f)
    <3>1. PICK f : Descends(f)
      BY <2>3
    <3>2. cc \in Nat /\ cc <= c
      BY <1>1, <3>1, FromOld, CarriedOn
    <3>3. tt = t
      BY <2>3
    <3> HIDE DEF t, c, tt, cc
    <3>4. tt + cc <= t + c
      BY <2>1, <3>2, <3>3
    <3>5. QED
      BY <2>1, <2>2, <3>2, <3>3, <3>4 DEF t, tt, cc
  <2>4. CASE fed' = fed /\ \E r : Sends(r)
    <3>1. PICK r : Sends(r)
      BY <2>4
    <3>2. /\ DOMAIN net' = (DOMAIN net) \cup {Len(net) + 1}
          /\ Len(net) + 1 \notin DOMAIN net /\ net'[Len(net) + 1] = r
          /\ \A i \in DOMAIN net : net'[i] = net[i]
      BY <1>1, <3>1, SendsAppends
    <3>3. r.stage = "sent"
      BY <3>1 DEF Sends
    <3>4. tt = t
      BY <2>4
    <3>5. CASE e \in ToSet(r.events)
      <4>1. Carrying(net', e) = Carrying(net, e) \cup {Len(net) + 1}
        BY <3>2, <3>3, <3>5 DEF Carrying
      <4>2. Len(net) + 1 \notin Carrying(net, e)
        BY <3>2 DEF Carrying
      <4>3. cc = c + 1
        BY <1>4, <4>1, <4>2, FS_AddElement
      <4>4. ToCome(e) /\ ~ ToCome(e)'
        BY <1>5, <3>1, <3>5, ToComeShrinks
      <4> HIDE DEF t, c, tt, cc
      <4>5. t + c + 1 <= Quota(e)
        BY <2>1, <4>4
      <4>6. tt + cc + 0 <= Quota(e)'
        BY <2>1, <3>4, <4>3, <4>5
      <4>7. QED
        BY <4>4, <4>6 DEF tt, cc
    <3>6. CASE e \notin ToSet(r.events)
      <4>1. Carrying(net', e) = Carrying(net, e)
        BY <3>2, <3>6 DEF Carrying
      <4>2. cc = c
        BY <4>1
      <4> HIDE DEF t, c, tt, cc
      <4>3. tt + cc <= t + c
        BY <2>1, <3>4, <4>2
      <4>4. QED
        BY <2>1, <2>2, <3>4, <4>2, <4>3 DEF tt, cc
    <3>7. QED
      BY <3>5, <3>6
  <2>5. CASE \E i \in DOMAIN net : \E m, f : Records(i, m, f)
    <3>1. PICK i \in DOMAIN net : \E m, f : Records(i, m, f)
      BY <2>5
    <3>2. PICK m, f : Records(i, m, f)
      BY <3>1
    <3>3. /\ Feeds(i, m) /\ From(f) /\ net[i].stage = "sent"
          /\ \A j \in DOMAIN net' : f[j] = i => net'[j].stage # "sent"
      BY <3>2 DEF Records, Feeds
    <3>4. tt \in Nat /\ tt <= t + (IF e \in ToSet(net[i].events) THEN 1 ELSE 0)
      BY <1>1, <1>2, <3>3, FedMore
    <3>5. /\ cc \in Nat /\ cc <= c
          /\ e \in ToSet(net[i].events) => cc + 1 <= c
      <4>1. e \in ToSet(net[i].events) => i \in Carrying(net, e)
        BY <3>3 DEF Carrying
      <4>2. QED
        BY <1>1, <3>3, <4>1, CarriedOn
    <3> HIDE DEF t, c, tt, cc
    <3>6. tt + cc <= t + c
      BY <2>1, <3>4, <3>5
    <3>7. QED
      BY <2>2, <3>4, <3>5, <3>6 DEF tt, cc
  <2>6. QED
    BY <1>5, <2>3, <2>4, <2>5
<1>6. ASSUME NEW f, From(f)
      PROVE  \A i \in DOMAIN net' : \A j, k \in DOMAIN net'[i].events :
               net'[i].events[j] = net'[i].events[k] => j = k
  <2>1. \A i \in DOMAIN net' : f[i] \in DOMAIN net /\ net'[i].events = net[f[i]].events
    BY <1>6 DEF From
  <2>2. QED
    BY <1>2, <2>1
<1>7. ASSUME NEW r, Sends(r)
      PROVE  \A i \in DOMAIN net' : \A j, k \in DOMAIN net'[i].events :
               net'[i].events[j] = net'[i].events[k] => j = k
  <2>1. /\ DOMAIN net' = (DOMAIN net) \cup {Len(net) + 1} /\ net'[Len(net) + 1] = r
        /\ \A i \in DOMAIN net : net'[i] = net[i]
    BY <1>1, <1>7, SendsAppends
  <2>2. \A j, k \in DOMAIN r.events : r.events[j] = r.events[k] => j = k
    <3>1. r.events \in Seq(Event) /\ (r.events = <<>> \/ Polled(r.events))
      BY <1>7 DEF Sends, Request
    <3>2. ASSUME NEW j \in DOMAIN r.events, NEW k \in DOMAIN r.events,
                 r.events[j] = r.events[k], j < k
          PROVE  FALSE
      <4>1. Polled(r.events)
        BY <3>1, <3>2
      <4>2. IsLine(r.events[j]) /\ (IsLine(r.events[k]) => r.events[j].n < r.events[k].n)
        BY <3>2, <4>1 DEF Polled
      <4>3. r.events[j].n < r.events[j].n
        BY <3>2, <4>2
      <4>4. r.events[j].n \in Nat
        BY <3>1, <4>2, EventFacts
      <4>5. QED
        BY <4>3, <4>4
    <3>3. DOMAIN r.events \subseteq Nat
      BY <3>1
    <3>4. \A j, k \in Nat : j < k \/ k < j \/ j = k
      OBVIOUS
    <3>5. QED
      BY <3>2, <3>3, <3>4
  <2>3. QED
    BY <1>2, <2>1, <2>2
<1>8. /\ \/ fed' = fed /\ \E f : Descends(f)
         \/ fed' = fed /\ \E r : Sends(r)
         \/ \E i \in DOMAIN net : \E m, f : Records(i, m, f)
      /\ \A i, m, f : Records(i, m, f) => From(f)
  BY Flow DEF Records
<1>9. \A i \in DOMAIN net' : \A j, k \in DOMAIN net'[i].events :
        net'[i].events[j] = net'[i].events[k] => j = k
  BY <1>6, <1>7, <1>8, FromOld
<1>10. \A e \in AnyEvent :
         /\ Times(e)' = Cardinality(Places(fed', e))
         /\ Carriers(e)' = Carrying(net', e)
  BY DEF Times, Carriers, Places, Carrying
<1>11. QED
  BY <1>5, <1>8, <1>9, <1>10 DEF Budgeted

LEMMA ItemsFinite ==
  ASSUME TypeOK
  PROVE  \A S : IsFiniteSet(Items(net, S)) /\ Cardinality(Items(net, S)) \in Nat
<1>1. IsFiniteSet(DOMAIN net) /\ IsFiniteSet(1 .. Limit)
  BY NetFacts, FS_Interval
<1>2. IsFiniteSet((DOMAIN net) \X (1 .. Limit))
  BY <1>1, FS_Product
<1>3. ASSUME NEW S PROVE IsFiniteSet(Items(net, S)) /\ Cardinality(Items(net, S)) \in Nat
  <2>1. Items(net, S) \in SUBSET ((DOMAIN net) \X (1 .. Limit))
    BY DEF Items
  <2>2. QED
    BY <1>2, <2>1, FS_Subset, FS_CardinalityType
<1>4. QED
  BY <1>3

\* A request of T holds the items of its own batch.
LEMMA ItemsOfOne ==
  ASSUME TypeOK, NEW T, NEW i \in T, i \in DOMAIN net, Len(net[i].events) <= Limit
  PROVE  Cardinality(Items(net, T)) = Cardinality(Items(net, T \ {i})) + Len(net[i].events)
<1> DEFINE A == Items(net, T \ {i})
           B == Items(net, {i})
           L == Len(net[i].events)
           g == [k \in 1 .. L |-> <<i, k>>]
<1>1. L \in Nat /\ DOMAIN net[i].events = 1 .. L
  BY NetFacts
<1>2. IsFiniteSet(A) /\ IsFiniteSet(B) /\ Cardinality(A) \in Nat
  BY ItemsFinite
<1>3. A \cup B = Items(net, T) /\ A \cap B = {}
  BY DEF Items
<1>4. Cardinality(Items(net, T)) = Cardinality(A) + Cardinality(B)
  <2> HIDE DEF A, B
  <2>1. Cardinality(A \cup B) = Cardinality(A) + Cardinality(B) - Cardinality(A \cap B)
    BY <1>2, FS_Union
  <2>2. Cardinality(Items(net, T)) = Cardinality(A) + Cardinality(B) - Cardinality({})
    BY <1>3, <2>1, Zenon
  <2>3. Cardinality({}) = 0 /\ Cardinality(B) \in Nat /\ Cardinality(A) \in Nat
    BY <1>2, FS_EmptySet, FS_CardinalityType
  <2>4. QED
    BY <2>2, <2>3
<1>5. Cardinality(B) = L
  <2>1. \A k \in 1 .. L : k \in 1 .. Limit
    BY <1>1
  <2>2. B = {<<i, k>> : k \in 1 .. L}
    <3> HIDE DEF L
    <3>1. B \subseteq {<<i, k>> : k \in 1 .. L}
      BY <1>1 DEF Items
    <3>2. {<<i, k>> : k \in 1 .. L} \subseteq B
      BY <1>1, <2>1 DEF Items
    <3>3. QED
      BY <3>1, <3>2
  <2> HIDE DEF B, L
  <2>3. g \in Bijection(1 .. L, B)
    <3>1. g \in [1 .. L -> B]
      BY <2>2
    <3>2. \A j, k \in 1 .. L : g[j] = g[k] => j = k
      OBVIOUS
    <3>3. \A p \in B : \E k \in 1 .. L : g[k] = p
      BY <2>2
    <3> HIDE DEF g
    <3>4. QED
      BY <3>1, <3>2, <3>3 DEF Bijection, Injection, IsInjective, Surjection
  <2>4. IsFiniteSet(1 .. L) /\ Cardinality(1 .. L) = L
    BY <1>1, FS_Interval
  <2>5. QED
    BY <2>3, <2>4, FS_Bijection DEF ExistsBijection
<1>6. QED
  BY <1>4, <1>5

LEMMA ItemsInject ==
  ASSUME TypeOK, NEW n, NEW f, NEW S, NEW T,
         \A j \in S \cap DOMAIN n :
           \/ n[j].events = <<>>
           \/ f[j] \in DOMAIN net /\ f[j] \in T /\ n[j].events = net[f[j]].events,
         \A j, k \in DOMAIN n : f[j] = f[k] => j = k
  PROVE  /\ Cardinality(Items(n, S)) \in Nat
         /\ Cardinality(Items(n, S)) <= Cardinality(Items(net, T))
<1> DEFINE g == [p \in Items(n, S) |-> <<f[p[1]], p[2]>>]
<1>1. ASSUME NEW p \in Items(n, S)
      PROVE  /\ p = <<p[1], p[2]>> /\ p[1] \in DOMAIN n
             /\ g[p] = <<f[p[1]], p[2]>> /\ g[p] \in Items(net, T)
  <2>1. /\ p \in (DOMAIN n) \X (1 .. Limit) /\ p[1] \in S \cap DOMAIN n
        /\ p[2] \in 1 .. Limit /\ p[2] \in DOMAIN n[p[1]].events
    BY DEF Items
  <2>2. n[p[1]].events # <<>>
    BY <2>1
  <2>3. f[p[1]] \in DOMAIN net /\ f[p[1]] \in T /\ n[p[1]].events = net[f[p[1]]].events
    BY <2>1, <2>2
  <2>4. g[p] = <<f[p[1]], p[2]>> /\ p = <<p[1], p[2]>>
    BY <2>1
  <2> HIDE DEF g
  <2>5. g[p] \in Items(net, T)
    BY <2>1, <2>3, <2>4 DEF Items
  <2>6. QED
    BY <2>1, <2>4, <2>5
<1>2. \A p, q \in Items(n, S) : g[p] = g[q] => p = q
  <2> HIDE DEF g
  <2>1. ASSUME NEW p \in Items(n, S), NEW q \in Items(n, S), g[p] = g[q]
        PROVE  p = q
    <3>1. f[p[1]] = f[q[1]] /\ p[2] = q[2]
      BY <1>1, <2>1
    <3>2. p[1] = q[1]
      BY <1>1, <3>1
    <3>3. QED
      BY <1>1, <3>1, <3>2
  <2>2. QED
    BY <2>1
<1> HIDE DEF g
<1>3. IsFiniteSet(Items(net, T))
  BY ItemsFinite
<1>4. \A p \in Items(n, S) : g[p] \in Items(net, T)
  BY <1>1
<1>5. IsFiniteSet(Items(n, S)) /\ Cardinality(Items(n, S)) <= Cardinality(Items(net, T))
  BY <1>2, <1>3, <1>4, InjectsBelow
<1>6. QED
  BY <1>5, FS_CardinalityType

\* No event becomes one to be counted but by being recorded, and a request that
\* is counted or leaves takes its events along.
LEMMA LessToCount ==
  ASSUME TypeOK, Forms, NEW f, Descends(f)
  PROVE  /\ Uncounted' \in Nat /\ Uncounted \in Nat /\ Uncounted' <= Uncounted
         /\ Unforwarded' \in Nat /\ Unforwarded \in Nat /\ Unforwarded' <= Unforwarded
         /\ \A i \in Unnoted(net) :
              (\A j \in DOMAIN net' : f[j] = i => net'[j].stage # "note") =>
                Uncounted' + Len(net[i].events) <= Uncounted
         /\ \A i \in Unclaimed(net) :
              (\A j \in DOMAIN net' : f[j] # i) =>
                Unforwarded' + Len(net[i].events) <= Unforwarded
<1> DEFINE n == net'
<1>1. \A j \in DOMAIN n :
        /\ f[j] \in DOMAIN net /\ n[j].kind = net[f[j]].kind /\ n[j].events = net[f[j]].events
        /\ n[j].awaited => net[f[j]].awaited
        /\ \/ n[j].stage = net[f[j]].stage
           \/ n[j].stage = "answer" /\ (net[f[j]].stage = "note" \/ net[f[j]].kind = "heartbeat")
  BY DEF Descends
<1>2. \A j, k \in DOMAIN n : f[j] = f[k] => j = k
  BY DEF Descends
<1>3. \A i \in DOMAIN net :
        /\ net[i].kind = "heartbeat" => net[i].events = <<>>
        /\ net[i].stage # "sent" => Len(net[i].events) <= Limit
        /\ Len(net[i].events) \in Nat
  BY NetFacts DEF Forms
<1>4. /\ Uncounted' = Cardinality(Items(n, Unnoted(n)))
      /\ Unforwarded' = Cardinality(Items(n, Unclaimed(n)))
  BY DEF Uncounted, Unforwarded, Items, Unnoted, Unclaimed
<1> HIDE DEF n
<1>5. \A j \in Unnoted(n) \cap DOMAIN n :
        f[j] \in DOMAIN net /\ f[j] \in Unnoted(net) /\ n[j].events = net[f[j]].events
  BY <1>1 DEF Unnoted
<1>6. \A j \in Unclaimed(n) \cap DOMAIN n :
        \/ n[j].events = <<>>
        \/ f[j] \in DOMAIN net /\ f[j] \in Unclaimed(net) /\ n[j].events = net[f[j]].events
  BY <1>1, <1>3 DEF Unclaimed
<1>7. /\ Cardinality(Items(n, Unnoted(n))) \in Nat
      /\ Cardinality(Items(n, Unnoted(n))) <= Cardinality(Items(net, Unnoted(net)))
  BY <1>2, <1>5, ItemsInject
<1>8. /\ Cardinality(Items(n, Unclaimed(n))) \in Nat
      /\ Cardinality(Items(n, Unclaimed(n))) <= Cardinality(Items(net, Unclaimed(net)))
  BY <1>2, <1>6, ItemsInject
<1>9. \A S : Cardinality(Items(net, S)) \in Nat
  BY ItemsFinite
<1>10. ASSUME NEW i \in Unnoted(net), \A j \in DOMAIN n : f[j] = i => n[j].stage # "note"
       PROVE  Uncounted' + Len(net[i].events) <= Uncounted
  <2>1. i \in DOMAIN net /\ Len(net[i].events) <= Limit /\ Len(net[i].events) \in Nat
    BY <1>3 DEF Unnoted
  <2>2. \A j \in Unnoted(n) \cap DOMAIN n :
          f[j] \in DOMAIN net /\ f[j] \in Unnoted(net) \ {i} /\ n[j].events = net[f[j]].events
    BY <1>5, <1>10 DEF Unnoted
  <2>3. Cardinality(Items(n, Unnoted(n))) <= Cardinality(Items(net, Unnoted(net) \ {i}))
    BY <1>2, <2>2, ItemsInject
  <2>4. Cardinality(Items(net, Unnoted(net)))
          = Cardinality(Items(net, Unnoted(net) \ {i})) + Len(net[i].events)
    BY <2>1, ItemsOfOne
  <2>5. Cardinality(Items(net, Unnoted(net) \ {i})) \in Nat
    BY <1>9
  <2>6. QED
    BY <1>4, <1>7, <2>1, <2>3, <2>4, <2>5 DEF Uncounted
<1>11. ASSUME NEW i \in Unclaimed(net), \A j \in DOMAIN n : f[j] # i
       PROVE  Unforwarded' + Len(net[i].events) <= Unforwarded
  <2>1. i \in DOMAIN net /\ Len(net[i].events) <= Limit /\ Len(net[i].events) \in Nat
    BY <1>3 DEF Unclaimed
  <2>2. \A j \in Unclaimed(n) \cap DOMAIN n :
          \/ n[j].events = <<>>
          \/ f[j] \in DOMAIN net /\ f[j] \in Unclaimed(net) \ {i} /\ n[j].events = net[f[j]].events
    BY <1>6, <1>11
  <2>3. Cardinality(Items(n, Unclaimed(n))) <= Cardinality(Items(net, Unclaimed(net) \ {i}))
    BY <1>2, <2>2, ItemsInject
  <2>4. Cardinality(Items(net, Unclaimed(net)))
          = Cardinality(Items(net, Unclaimed(net) \ {i})) + Len(net[i].events)
    BY <2>1, ItemsOfOne
  <2>5. Cardinality(Items(net, Unclaimed(net) \ {i})) \in Nat
    BY <1>9
  <2>6. QED
    BY <1>4, <1>8, <2>1, <2>3, <2>4, <2>5 DEF Unforwarded
<1>12. QED
  BY <1>4, <1>7, <1>8, <1>9, <1>10, <1>11 DEF Uncounted, Unforwarded, n

\* A batch that was recorded is to be counted.
LEMMA MoreToCount ==
  ASSUME TypeOK, NEW i \in DOMAIN net, RecordBatch(i)
  PROVE  /\ Uncounted' \in Nat /\ Uncounted \in Nat
         /\ Unforwarded' \in Nat /\ Unforwarded \in Nat
         /\ Uncounted' <= Uncounted + Len(net[i].events)
         /\ Unforwarded' <= Unforwarded + Len(net[i].events)
<1> DEFINE L == Len(net[i].events)
<1>1. /\ DOMAIN net' = DOMAIN net
      /\ \A j \in DOMAIN net : j # i => net'[j] = net[j]
      /\ net'[i].stage = "note" /\ net'[i].events = net[i].events
  BY BatchRecorded
<1>2. /\ L <= Limit /\ L \in Nat /\ net[i].stage = "sent"
  BY NetFacts DEF RecordBatch
<1>3. /\ Unnoted(net') = Unnoted(net) \cup {i} /\ i \notin Unnoted(net)
      /\ Unclaimed(net') = Unclaimed(net) \cup {i} /\ i \notin Unclaimed(net)
  BY <1>1, <1>2 DEF Unnoted, Unclaimed
<1>4. \A S : Items(net', S) = Items(net, S)
  BY <1>1 DEF Items
<1>5. \A S : Cardinality(Items(net, S)) \in Nat
  BY ItemsFinite
<1>6. ASSUME NEW S, i \notin S
      PROVE  Cardinality(Items(net, S \cup {i})) = Cardinality(Items(net, S)) + L
  <2>1. (S \cup {i}) \ {i} = S /\ i \in S \cup {i}
    BY <1>6
  <2> DEFINE T == S \cup {i}
  <2>2. i \in T /\ T \ {i} = S
    BY <2>1
  <2> HIDE DEF T
  <2>3. Cardinality(Items(net, T)) = Cardinality(Items(net, T \ {i})) + L
    BY <1>2, <2>2, ItemsOfOne
  <2>4. QED
    BY <2>2, <2>3 DEF T
<1>7. /\ Uncounted' = Cardinality(Items(net', Unnoted(net')))
      /\ Unforwarded' = Cardinality(Items(net', Unclaimed(net')))
  BY DEF Uncounted, Unforwarded, Items, Unnoted, Unclaimed
<1>8. Uncounted' = Uncounted + L /\ Unforwarded' = Unforwarded + L
  BY <1>3, <1>4, <1>6, <1>7 DEF Uncounted, Unforwarded
<1>9. Uncounted \in Nat /\ Unforwarded \in Nat
  BY <1>5 DEF Uncounted, Unforwarded
<1> HIDE DEF L
<1>10. QED
  BY <1>2, <1>8, <1>9 DEF L

LEMMA BackedKept ==
  ASSUME IInv, [Next]_vars
  PROVE  Backed' /\ registry' \in AgentRecord /\ saved' \in AgentRecord /\ forwarded' \in Nat
<1>1. /\ TypeOK /\ Waits /\ Forms /\ registry \in AgentRecord /\ saved \in AgentRecord
      /\ forwarded \in Nat /\ registry.count \in Nat /\ saved.count \in Nat
      /\ Len(fed) \in Nat /\ fed \in Seq(Event)
  BY DEF IInv, TypeOK, AgentRecord
<1>2. /\ registry.count + Uncounted <= Len(fed)
      /\ saved.count + Uncounted <= Len(fed)
      /\ \A i \in DOMAIN net : net[i].kind = "heartbeat" => net[i].count + Uncounted <= Len(fed)
      /\ forwarded + Unforwarded <= Len(fed)
      /\ Uncounted \in Nat /\ Unforwarded \in Nat
  BY <1>1, ItemsFinite DEF IInv, Backed, Uncounted, Unforwarded
<1>3. \A i \in DOMAIN net : /\ net[i].count \in Nat /\ Len(net[i].events) \in Nat
                            /\ net[i].kind = "heartbeat" => net[i].events = <<>>
                            /\ net[i].stage = "note" => i \in Unnoted(net)
  BY <1>1, NetFacts DEF Forms, Unnoted
<1> DEFINE Result == Backed' /\ registry' \in AgentRecord /\ saved' \in AgentRecord
                       /\ forwarded' \in Nat
<1>4. ASSUME NEW f, Descends(f), Len(fed') \in Nat, Len(fed') >= Len(fed),
             registry' \in AgentRecord, saved' \in AgentRecord,
             registry'.count + Uncounted' <= Len(fed'),
             saved'.count + Uncounted' <= Len(fed'),
             forwarded' \in Nat, forwarded' + Unforwarded' <= Len(fed')
      PROVE  Result
  <2>1. Uncounted' \in Nat /\ Uncounted' <= Uncounted
    BY <1>1, <1>4, LessToCount
  <2>2. ASSUME NEW j \in DOMAIN net', net'[j].kind = "heartbeat"
        PROVE  net'[j].count + Uncounted' <= Len(fed')
    <3>1. PICK i \in DOMAIN net : net[i].kind = "heartbeat" /\ net'[j].count = net[i].count
      BY <1>4, <2>2 DEF Descends
    <3>2. net[i].count + Uncounted <= Len(fed) /\ net[i].count \in Nat
      BY <1>2, <1>3, <3>1
    <3>3. QED
      BY <1>1, <1>2, <1>4, <2>1, <3>1, <3>2
  <2>3. QED
    BY <1>4, <2>2 DEF Backed
<1> HIDE DEF Result
<1> SUFFICES Result
  BY DEF Result
\* The usual case: what is counted does not change.
<1>5. ASSUME NEW f, Descends(f), Len(fed') \in Nat, Len(fed') >= Len(fed),
             registry' \in {registry, saved}, saved' = saved, forwarded' \in {0, forwarded}
      PROVE  Result
  <2>1. /\ Uncounted' \in Nat /\ Uncounted' <= Uncounted
        /\ Unforwarded' \in Nat /\ Unforwarded' <= Unforwarded
    BY <1>1, <1>5, LessToCount
  <2>2. \A c \in Nat : c + Uncounted <= Len(fed) => c + Uncounted' <= Len(fed')
    BY <1>1, <1>2, <1>5, <2>1
  <2>3. registry'.count + Uncounted' <= Len(fed') /\ saved'.count + Uncounted' <= Len(fed')
    BY <1>1, <1>2, <1>5, <2>2
  <2>4. forwarded' + Unforwarded' <= Len(fed') /\ forwarded' \in Nat
    BY <1>1, <1>2, <1>5, <2>1
  <2>5. registry' \in AgentRecord /\ saved' \in AgentRecord
    BY <1>1, <1>5
  <2>6. QED
    BY <1>4, <1>5, <2>3, <2>4, <2>5
<1>20. ASSUME fed' = fed, \E f : Descends(f), saved' = saved,
              registry' = registry \/ registry' = saved, forwarded' = 0 \/ forwarded' = forwarded
       PROVE  Result
  <2>1. PICK f : Descends(f)
    BY <1>20
  <2>2. Len(fed') \in Nat /\ Len(fed') >= Len(fed)
    BY <1>1, <1>20
  <2>3. registry' \in {registry, saved} /\ forwarded' \in {0, forwarded}
    BY <1>20
  <2>4. QED
    BY <1>5, <1>20, <2>1, <2>2, <2>3
<1>6. ASSUME NEW r, Sends(r), fed' = fed, UNCHANGED <<registry, saved, forwarded>>
      PROVE  Result
  <2>1. /\ DOMAIN net' = (DOMAIN net) \cup {Len(net) + 1} /\ net'[Len(net) + 1] = r
        /\ \A i \in DOMAIN net : net'[i] = net[i]
    BY <1>1, <1>6, SendsAppends
  <2>2. r.stage = "sent" /\ (r.kind = "heartbeat" => r.count = forwarded)
    BY <1>6 DEF Sends
  <2>3. Unnoted(net') = Unnoted(net) /\ Unclaimed(net') = Unclaimed(net)
    BY <2>1, <2>2 DEF Unnoted, Unclaimed
  <2>4. \A S \in SUBSET DOMAIN net : Items(net', S) = Items(net, S)
    BY <2>1 DEF Items
  <2>5. Unnoted(net) \in SUBSET DOMAIN net /\ Unclaimed(net) \in SUBSET DOMAIN net
    BY DEF Unnoted, Unclaimed
  <2>6. /\ Uncounted' = Cardinality(Items(net', Unnoted(net')))
        /\ Unforwarded' = Cardinality(Items(net', Unclaimed(net')))
    BY DEF Uncounted, Unforwarded, Items, Unnoted, Unclaimed
  <2>7. Uncounted' = Uncounted /\ Unforwarded' = Unforwarded
    BY <2>3, <2>4, <2>5, <2>6 DEF Uncounted, Unforwarded
  <2>8. Unnoted(net) \subseteq Unclaimed(net)
    BY DEF Unnoted, Unclaimed
  <2>9. Uncounted <= Unforwarded
    <3>1. Items(net, Unnoted(net)) \in SUBSET Items(net, Unclaimed(net))
      BY <2>8 DEF Items
    <3>2. QED
      BY <1>1, <3>1, ItemsFinite, FS_Subset DEF Uncounted, Unforwarded
  <2>10. forwarded + Uncounted <= Len(fed)
    BY <1>1, <1>2, <2>9
  <2>11. \A i \in DOMAIN net' : net'[i].kind = "heartbeat" =>
           net'[i].count + Uncounted' <= Len(fed')
    BY <1>2, <1>6, <2>1, <2>2, <2>7, <2>10
  <2>12. Backed'
    BY <1>2, <1>6, <2>7, <2>11 DEF Backed
  <2>13. QED
    BY <1>1, <1>6, <2>12 DEF Result
\* The registry hears of request i.
<1>7. ASSUME NEW i \in DOMAIN net, NEW f, Descends(f), fed' = fed, UNCHANGED forwarded,
             \A j \in DOMAIN net' : f[j] = i => net'[j].stage # "note",
             \/ net[i].stage = "note" /\ registry' = Noted(net[i].events)
             \/ net[i].kind = "heartbeat" /\ registry' = Heard(net[i]),
             saved' \in {saved, registry'}
      PROVE  Result
  <2>1. /\ Uncounted' \in Nat /\ Uncounted' <= Uncounted
        /\ Unforwarded' \in Nat /\ Unforwarded' <= Unforwarded
        /\ net[i].stage = "note" => Uncounted' + Len(net[i].events) <= Uncounted
    BY <1>1, <1>3, <1>7, LessToCount
  <2>2. registry' \in AgentRecord /\ registry'.count + Uncounted' <= Len(fed)
    <3>1. CASE net[i].stage = "note" /\ registry' = Noted(net[i].events)
      <4>1. registry.status \in {"none", "ok", "error"}
        BY <1>1 DEF AgentRecord
      <4>2. registry' \in AgentRecord /\ registry'.count = registry.count + Len(net[i].events)
        BY <1>1, <1>3, <3>1, <4>1 DEF Noted, AgentRecord
      <4>3. Len(net[i].events) \in Nat /\ Uncounted' + Len(net[i].events) <= Uncounted
        BY <1>3, <2>1, <3>1
      <4>4. QED
        BY <1>1, <1>2, <2>1, <4>2, <4>3
    <3>2. CASE net[i].kind = "heartbeat" /\ registry' = Heard(net[i])
      <4>1. net[i].status \in {"none", "ok", "error"} /\ net[i].count \in Nat
        BY <1>1, NetFacts DEF Request
      <4>2. registry' \in AgentRecord /\ registry'.count = net[i].count
        BY <3>2, <4>1 DEF Heard, AgentRecord
      <4>3. net[i].count + Uncounted <= Len(fed)
        BY <1>2, <3>2
      <4>4. QED
        BY <1>1, <1>2, <2>1, <4>1, <4>2, <4>3
    <3>3. QED
      BY <1>7, <3>1, <3>2
  <2>3. saved.count + Uncounted' <= Len(fed)
    BY <1>1, <1>2, <2>1
  <2>4. saved' \in AgentRecord /\ saved'.count + Uncounted' <= Len(fed)
    BY <1>1, <1>7, <2>2, <2>3
  <2>5. forwarded' \in Nat /\ forwarded' + Unforwarded' <= Len(fed)
    BY <1>1, <1>2, <1>7, <2>1
  <2>6. Len(fed') \in Nat /\ Len(fed') >= Len(fed) /\ Len(fed') = Len(fed)
    BY <1>1, <1>7
  <2>7. QED
    BY <1>4, <1>7, <2>2, <2>4, <2>5, <2>6
<1>8. ASSUME NEW i \in DOMAIN net, EndInError(i)
      PROVE  UNCHANGED forwarded
  BY <1>8 DEF EndInError, CycleFails, agent
<1>9. fed' = fed => Len(fed') \in Nat /\ Len(fed') >= Len(fed)
  BY <1>1
<1>10. CASE /\ UNCHANGED <<net, fed>>
            /\ Sources \/ StartAgent \/ SkipHeartbeat \/ UNCHANGED vars
  <2>1. \E f : Descends(f)
    BY <1>1, <1>10, SameDescends
  <2>2. registry' = registry /\ saved' = saved /\ (forwarded' = 0 \/ forwarded' = forwarded)
    BY <1>10 DEF Sources, WriteLine, FinishLine, LogRecord, Rotate, StartAgent, SkipHeartbeat,
                 vars, agent, console
  <2>3. QED
    BY <1>10, <1>20, <2>1, <2>2
<1>11. CASE StopAgent
  <2>1. fed' = fed /\ registry' = registry /\ saved' = saved /\ forwarded' = 0 /\ net' = Strays
    BY <1>11 DEF StopAgent, console
  <2>2. \E f : Descends(f)
    BY <1>1, <2>1, StraysDescend
  <2>3. QED
    BY <1>20, <2>1, <2>2
<1>12. CASE RestartConsole
  <2>1. fed' = fed /\ registry' = saved /\ saved' = saved /\ net' = <<>> /\ forwarded' = forwarded
    BY <1>12 DEF RestartConsole, CycleFails, agent
  <2>2. \E f : Descends(f)
    BY <2>1, NoneDescends
  <2>3. QED
    BY <1>20, <2>1, <2>2
<1>13. CASE \E ev : Polled(ev)
  <2>1. PICK ev : Polled(ev)
    BY <1>13
  <2>2. UNCHANGED <<fed, registry, saved, forwarded>>
    BY <2>1 DEF Polled, console
  <2>3. CASE net' = net
    <3>1. \E f : Descends(f)
      BY <1>1, <2>3, SameDescends
    <3>2. QED
      BY <1>20, <2>2, <3>1
  <2>4. QED
    BY <1>1, <1>6, <2>1, <2>2, <2>3, PollSends
<1>14. CASE SendHello \/ SendHeartbeat
  <2>1. UNCHANGED <<fed, registry, saved, forwarded>>
    BY <1>14 DEF SendHello, SendHeartbeat, console
  <2>2. \E r : Sends(r)
    BY <1>1, <1>14, HeartbeatSends
  <2>3. QED
    BY <1>6, <2>1, <2>2
<1>15. ASSUME NEW i \in DOMAIN net, Handled(i)
       PROVE  Result
  <2>1. fed' = fed /\ \E f : Descends(f)
    BY <1>1, <1>15, HandledDescends
  <2>2. CASE Reject(i) \/ Refuse(i)
    <3>1. UNCHANGED <<registry, saved, forwarded>>
      BY <1>8, <2>2 DEF Reject, Refuse, console
    <3>2. QED
      BY <1>20, <2>1, <3>1
  <2>3. CASE TimeOut(i)
    <3>1. UNCHANGED <<registry, saved, forwarded>>
      BY <2>3 DEF TimeOut, CycleFails, console
    <3>2. QED
      BY <1>20, <2>1, <3>1
  <2>4. CASE Answer(i)
    <3>1. /\ net' = RemoveAt(net, i) /\ forwarded' = forwarded + Len(net[i].events)
          /\ UNCHANGED <<registry, saved>> /\ i \in Unclaimed(net)
      BY <2>4 DEF Answer, console, Unclaimed
    <3>2. PICK f : Descends(f) /\ \A j \in DOMAIN net' : f[j] # i
      BY <1>1, <3>1, DropDescends
    <3>3. /\ Uncounted' \in Nat /\ Uncounted' <= Uncounted /\ Unforwarded' \in Nat
          /\ Unforwarded' + Len(net[i].events) <= Unforwarded
      BY <1>1, <3>1, <3>2, LessToCount
    <3>4. registry'.count + Uncounted' <= Len(fed) /\ saved'.count + Uncounted' <= Len(fed)
      <4>1. registry' = registry /\ saved' = saved
        BY <3>1
      <4>2. Len(net[i].events) \in Nat /\ Len(fed) \in Nat /\ Uncounted \in Nat
        BY <1>1, <1>2, <1>3
      <4>3. \A c \in Nat : c + Uncounted <= Len(fed) => c + Uncounted' <= Len(fed)
        BY <3>3, <4>2
      <4>4. QED
        BY <1>1, <1>2, <4>1, <4>3
    <3>5. forwarded' \in Nat /\ forwarded' + Unforwarded' <= Len(fed)
      <4>1. Len(net[i].events) \in Nat /\ forwarded' = forwarded + Len(net[i].events)
        BY <1>3, <3>1
      <4>2. Len(fed) \in Nat /\ Unforwarded \in Nat /\ forwarded \in Nat
            /\ forwarded + Unforwarded <= Len(fed)
        BY <1>1, <1>2
      <4>3. QED
        BY <3>3, <4>1, <4>2
    <3>6. QED
      BY <1>1, <1>4, <1>9, <2>1, <3>1, <3>2, <3>4, <3>5
  <2>5. CASE PersistFails(i)
    <3>1. /\ net' = RemoveAt(net, i) /\ UNCHANGED <<saved, forwarded>>
          /\ \/ net[i].stage = "note" /\ registry' = Noted(net[i].events)
             \/ net[i].kind = "heartbeat" /\ registry' = Heard(net[i])
      BY <1>8, <2>5 DEF PersistFails, EndInError
    <3>2. PICK f : Descends(f) /\ \A j \in DOMAIN net' : f[j] # i
      BY <1>1, <3>1, DropDescends
    <3>3. QED
      BY <1>7, <2>1, <3>1, <3>2
  <2>6. CASE NoteIngest(i) \/ ServeHeartbeat(i)
    <3>1. /\ Served(i) /\ saved' = registry' /\ UNCHANGED forwarded
          /\ \/ net[i].stage = "note" /\ registry' = Noted(net[i].events)
             \/ net[i].kind = "heartbeat" /\ registry' = Heard(net[i])
      BY <2>6 DEF NoteIngest, ServeHeartbeat, agent
    <3>2. CASE net' = RemoveAt(net, i)
      <4>1. PICK f : Descends(f) /\ \A j \in DOMAIN net' : f[j] # i
        BY <1>1, <3>2, DropDescends
      <4>2. QED
        BY <1>7, <2>1, <3>1, <4>1
    <3>3. CASE net' = [net EXCEPT ![i].stage = "answer"]
      <4> DEFINE f == [j \in DOMAIN net |-> j]
      <4>1. Descends(f) /\ DOMAIN net' = DOMAIN net
        BY <1>1, <3>1, <3>3, EditDescends
      <4>2. net'[i].stage = "answer"
        BY <1>1, <3>3, NetFacts DEF Request
      <4>3. \A j \in DOMAIN net' : f[j] = i => net'[j].stage # "note"
        BY <4>1, <4>2
      <4> HIDE DEF f
      <4>4. QED
        BY <1>7, <2>1, <3>1, <4>1, <4>3
    <3>4. QED
      BY <3>1, <3>2, <3>3 DEF Served
  <2>7. QED
    BY <1>15, <2>2, <2>3, <2>4, <2>5, <2>6 DEF Handled
<1>16. ASSUME NEW i \in DOMAIN net, RecordBatch(i)
       PROVE  Result
  <2>1. /\ Len(fed') = Len(fed) + Len(net[i].events) /\ DOMAIN net' = DOMAIN net
        /\ \A j \in DOMAIN net : j # i => net'[j] = net[j]
        /\ net'[i].kind = net[i].kind /\ net'[i].count = net[i].count
    BY <1>1, <1>16, BatchRecorded
  <2>2. /\ Uncounted' \in Nat /\ Uncounted' <= Uncounted + Len(net[i].events)
        /\ Unforwarded' \in Nat /\ Unforwarded' <= Unforwarded + Len(net[i].events)
    BY <1>1, <1>16, MoreToCount
  <2>3. UNCHANGED <<registry, saved, forwarded>>
    BY <1>16 DEF RecordBatch, agent
  <2>4. \A c \in Nat : c + Uncounted <= Len(fed) => c + Uncounted' <= Len(fed')
    BY <1>1, <1>2, <1>3, <2>1, <2>2
  <2>5. forwarded' + Unforwarded' <= Len(fed')
    BY <1>1, <1>2, <1>3, <2>1, <2>2, <2>3
  <2>6. \A j \in DOMAIN net' : net'[j].kind = "heartbeat" => net'[j].count + Uncounted' <= Len(fed')
    BY <1>2, <1>3, <2>1, <2>4
  <2>7. Backed'
    BY <1>1, <1>2, <2>3, <2>4, <2>5, <2>6 DEF Backed
  <2>8. QED
    BY <1>1, <2>3, <2>7 DEF Result
<1>17. ASSUME NEW i \in DOMAIN net, RecordFails(i)
       PROVE  Result
  <2>1. PICK m \in 1 .. Len(net[i].events) : Len(fed') = Len(fed) + m
    BY <1>1, <1>17, BatchBroken
  <2>2. Len(fed') \in Nat /\ Len(fed') >= Len(fed)
    BY <1>1, <1>3, <2>1
  <2>3. UNCHANGED <<registry, saved, forwarded>> /\ net' = RemoveAt(net, i)
    BY <1>8, <1>17 DEF RecordFails, EndInError
  <2>4. \E f : Descends(f)
    BY <1>1, <2>3, DropDescends
  <2>5. QED
    BY <1>5, <2>2, <2>3, <2>4
<1>18. QED
  BY Moves, <1>10, <1>11, <1>12, <1>13, <1>14, <1>15, <1>16, <1>17, Zenon

-----------------------------------------------------------------------------
(***************************************************************************)
(* Types                                                                   *)
(***************************************************************************)

LEMMA OffsetKept ==
  ASSUME IInv, [Next]_vars
  PROVE  offset' \in 0 .. 2 * MaxWritten /\ last' \in 0 .. MaxRecorded
<1>1. /\ offset \in 0 .. 2 * MaxWritten /\ last \in 0 .. MaxRecorded
      /\ recorded \in 0 .. MaxRecorded /\ TypeOK /\ FileShape
      /\ MaxRecorded \in Nat /\ MaxWritten \in Nat /\ written \in 0 .. MaxWritten
  BY DEF IInv, TypeOK
<1>2. CASE UNCHANGED <<offset, last>>
  BY <1>1, <1>2
<1>3. CASE WriteLine \/ Rotate
  BY <1>2, <1>3 DEF WriteLine, Rotate, agent
<1>4. CASE StartAgent
  <2>1. offset' = StartOffset /\ last' = 0
    BY <1>4 DEF StartAgent
  <2>2. Size \in Nat /\ Size <= 2 * Len(log) /\ Len(log) \in Nat /\ Len(log) <= written
    BY <1>1, LogFacts DEF FileShape
  <2>3. StartOffset \in Nat /\ StartOffset <= Size
    BY <2>2 DEF StartOffset
  <2>4. QED
    BY <1>1, <2>1, <2>2, <2>3
<1>5. CASE StopAgent
  BY <1>1, <1>5 DEF StopAgent
<1>6. CASE \E ev : Polled(ev)
  BY <1>1, <1>6 DEF Polled
<1>7. QED
  BY Views, <1>2, <1>3, <1>4, <1>5, <1>6

\* What the agent's loop and the counters of this model may be after a step.
Loop ==
  /\ pc' \in {"down", "start", "hello", "poll", "ingest", "due", "beat"}
  /\ status' \in {"ok", "error"} /\ overdue' \in BOOLEAN
Counters ==
  /\ rotations' \in 0 .. MaxRotations /\ faults' \in 0 .. MaxFaults
  /\ starts' \in 0 .. MaxStarts

LEMMA LoopKept ==
  ASSUME IInv, [Next]_vars
  PROVE  Loop
<1>1. /\ pc \in {"down", "start", "hello", "poll", "ingest", "due", "beat"}
      /\ status \in {"ok", "error"} /\ overdue \in BOOLEAN
  BY DEF IInv, TypeOK
<1>2. UNCHANGED <<pc, status, overdue>> => Loop
  BY <1>1 DEF Loop
<1>3. CycleFails => Loop
  <2>1. (overdue \/ pc = "beat") \in BOOLEAN
    OBVIOUS
  <2>2. QED
    BY <2>1 DEF CycleFails, Loop
<1>4. ASSUME NEW i \in DOMAIN net, EndInError(i) PROVE Loop
  BY <1>2, <1>3, <1>4 DEF EndInError, agent
<1>5. CASE Sources \/ UNCHANGED vars
  BY <1>2, <1>5 DEF Sources, WriteLine, FinishLine, LogRecord, Rotate, vars, agent
<1>6. CASE StartAgent \/ StopAgent
  BY <1>6 DEF StartAgent, StopAgent, Loop
<1>7. CASE SkipHeartbeat \/ SendHello \/ SendHeartbeat
  BY <1>1, <1>7 DEF SkipHeartbeat, SendHello, SendHeartbeat, Send, Loop
<1>8. CASE RestartConsole
  BY <1>2, <1>3, <1>8 DEF RestartConsole, agent
<1>9. CASE \E ev : Polled(ev)
  BY <1>1, <1>9 DEF Polled, Forward, Send, Loop
<1>10. ASSUME NEW i \in DOMAIN net, Handled(i) PROVE Loop
  <2>1. CASE Reject(i) \/ Refuse(i) \/ PersistFails(i)
    BY <1>4, <2>1 DEF Reject, Refuse, PersistFails
  <2>2. CASE NoteIngest(i) \/ ServeHeartbeat(i)
    BY <1>2, <2>2 DEF NoteIngest, ServeHeartbeat, agent
  <2>3. CASE Answer(i)
    <3>1. (overdue /\ pc = "ingest") \in BOOLEAN
      OBVIOUS
    <3>2. QED
      BY <1>1, <2>3, <3>1 DEF Answer, Loop
  <2>4. CASE TimeOut(i)
    BY <1>3, <2>4 DEF TimeOut
  <2>5. QED
    BY <1>10, <2>1, <2>2, <2>3, <2>4 DEF Handled
<1>11. ASSUME NEW i \in DOMAIN net, RecordBatch(i) \/ RecordFails(i) PROVE Loop
  BY <1>2, <1>4, <1>11 DEF RecordBatch, RecordFails, agent
<1>12. QED
  BY Moves, <1>5, <1>6, <1>7, <1>8, <1>9, <1>10, <1>11

LEMMA CountersKept ==
  ASSUME IInv, [Next]_vars
  PROVE  Counters
<1>1. /\ rotations \in 0 .. MaxRotations /\ faults \in 0 .. MaxFaults
      /\ starts \in 0 .. MaxStarts
      /\ MaxRotations \in Nat /\ MaxFaults \in Nat /\ MaxStarts \in Nat
  BY DEF IInv, TypeOK
<1>2. UNCHANGED bounds => Counters
  BY <1>1 DEF bounds, Counters
<1>3. Fault => Counters
  BY <1>1 DEF Fault, Counters
<1>4. CASE Sources \/ SkipHeartbeat \/ UNCHANGED vars
  <2>1. CASE Rotate
    BY <1>1, <2>1 DEF Rotate, Counters
  <2>2. QED
    BY <1>2, <1>4, <2>1 DEF Sources, WriteLine, FinishLine, LogRecord, SkipHeartbeat, vars
<1>5. CASE StartAgent
  BY <1>1, <1>5 DEF StartAgent, Counters
<1>6. CASE StopAgent \/ SendHello \/ SendHeartbeat
  BY <1>2, <1>6 DEF StopAgent, SendHello, SendHeartbeat
<1>7. CASE RestartConsole
  BY <1>3, <1>7 DEF RestartConsole
<1>8. CASE \E ev : Polled(ev)
  BY <1>1, <1>8 DEF Polled, Counters
<1>9. CASE \E i \in DOMAIN net : Handled(i) \/ RecordBatch(i) \/ RecordFails(i)
  BY <1>2, <1>3, <1>9 DEF Handled, RecordBatch, RecordFails, Reject, Refuse, NoteIngest,
                          ServeHeartbeat, PersistFails, Answer, TimeOut
<1>10. QED
  BY Moves, <1>4, <1>5, <1>6, <1>7, <1>8, <1>9

LEMMA GhostsKept ==
  ASSUME IInv, [Next]_vars
  PROVE  rotated' \in BOOLEAN /\ excused' \in SUBSET Event /\ excused \subseteq excused'
<1>1. TypeOK /\ rotated \in BOOLEAN /\ excused \in SUBSET Event
  BY DEF IInv, TypeOK
<1> DEFINE Result == rotated' \in BOOLEAN /\ excused' \in SUBSET Event /\ excused \subseteq excused'
<1>2. \A S \in SUBSET Event : excused' = excused \cup S /\ rotated' \in BOOLEAN => Result
  BY <1>1
<1>3. UNCHANGED ghosts => Result
  BY <1>1 DEF ghosts
<1> HIDE DEF Result
<1> SUFFICES Result
  BY DEF Result
<1>4. {Line(n) : n \in Unread} \in SUBSET Event
  BY <1>1, LogFacts, EventFacts
<1>5. \A i \in DOMAIN net : ToSet(net[i].events) \in SUBSET Event
  BY <1>1, NetFacts
<1>6. Awaited \in SUBSET Event
  BY <1>5 DEF Awaited, ToSet, Range
<1>7. CASE Sources \/ StartAgent \/ SkipHeartbeat \/ UNCHANGED vars
  <2>1. CASE Rotate \/ StartAgent
    <3>1. (pc # "down") \in BOOLEAN
      OBVIOUS
    <3>2. excused' = excused \cup {Line(n) : n \in Unread} /\ rotated' \in BOOLEAN
      BY <2>1, <3>1 DEF Rotate, StartAgent
    <3>3. QED
      BY <1>2, <1>4, <3>2
  <2>2. QED
    BY <1>3, <1>7, <2>1 DEF Sources, WriteLine, FinishLine, LogRecord, SkipHeartbeat, vars
<1>8. CASE StopAgent
  BY <1>2, <1>6, <1>8 DEF StopAgent
<1>9. CASE RestartConsole
  BY <1>1, <1>2, <1>6, <1>9 DEF RestartConsole
<1>10. CASE \E ev : Polled(ev)
  BY <1>10 DEF Polled, Result
<1>11. CASE SendHello \/ SendHeartbeat
  BY <1>3, <1>11 DEF SendHello, SendHeartbeat
<1>12. ASSUME NEW i \in DOMAIN net, EndInError(i), rotated' = rotated PROVE Result
  BY <1>1, <1>2, <1>5, <1>12 DEF EndInError
<1>13. ASSUME NEW i \in DOMAIN net, Handled(i) PROVE Result
  <2>1. CASE Reject(i) \/ Refuse(i) \/ PersistFails(i)
    BY <1>12, <2>1 DEF Reject, Refuse, PersistFails
  <2>2. CASE NoteIngest(i) \/ ServeHeartbeat(i) \/ Answer(i)
    BY <1>3, <2>2 DEF NoteIngest, ServeHeartbeat, Answer
  <2>3. CASE TimeOut(i)
    BY <1>1, <1>2, <1>6, <2>3 DEF TimeOut
  <2>4. QED
    BY <1>13, <2>1, <2>2, <2>3 DEF Handled
<1>14. ASSUME NEW i \in DOMAIN net, RecordBatch(i) \/ RecordFails(i) PROVE Result
  BY <1>3, <1>12, <1>14 DEF RecordBatch, RecordFails
<1>15. QED
  BY Moves, <1>7, <1>8, <1>9, <1>10, <1>11, <1>13, <1>14

LEMMA TypeKept ==
  ASSUME IInv, [Next]_vars
  PROVE  TypeOK'
<1>1. /\ log' \in Seq(1 .. MaxWritten) /\ half' \in BOOLEAN /\ present' \in BOOLEAN
      /\ written' \in 0 .. MaxWritten /\ recorded' \in 0 .. MaxRecorded
  BY FileShapeKept
<1>2. offset' \in 0 .. 2 * MaxWritten /\ last' \in 0 .. MaxRecorded
  BY OffsetKept
<1>3. Loop /\ Counters
  BY LoopKept, CountersKept
<1>4. forwarded' \in Nat /\ registry' \in AgentRecord /\ saved' \in AgentRecord
  BY BackedKept
<1>5. net' \in Seq(Request)
  BY Flow
<1>6. fed' \in Seq(Event)
  <2>1. fed \in Seq(Event)
    BY DEF IInv, TypeOK
  <2>2. \A i, m, f : Records(i, m, f) => fed' \in Seq(Event)
    BY DEF Records, Feeds
  <2>3. QED
    BY <2>1, <2>2, Flow
<1>7. rotated' \in BOOLEAN /\ excused' \subseteq Event
  BY GhostsKept
<1>8. Cardinality({i \in DOMAIN net' : net'[i].awaited})
        = (IF pc' \in {"hello", "ingest", "beat"} THEN 1 ELSE 0)
  <2>1. Waits'
    BY WaitsKept
  <2>2. CASE pc' \in {"hello", "ingest", "beat"}
    <3>1. PICK k \in DOMAIN net' : net'[k].awaited
      BY <2>1, <2>2 DEF Waits
    <3>2. {i \in DOMAIN net' : net'[i].awaited} = {k}
      BY <2>1, <3>1 DEF Waits
    <3>3. Cardinality({k}) = 1
      BY FS_Singleton
    <3>4. QED
      BY <2>2, <3>2, <3>3
  <2>3. CASE pc' \notin {"hello", "ingest", "beat"}
    <3>1. {i \in DOMAIN net' : net'[i].awaited} = {}
      BY <2>1, <2>3 DEF Waits
    <3>2. QED
      BY <2>3, <3>1, FS_EmptySet
  <2>4. QED
    BY <2>2, <2>3
<1>9. QED
  BY <1>1, <1>2, <1>3, <1>4, <1>5, <1>6, <1>7, <1>8 DEF TypeOK, Loop, Counters

LEMMA InitHolds ==
  ASSUME Init
  PROVE  IInv
<1>1. /\ log = <<>> /\ half = FALSE /\ present = FALSE /\ written = 0 /\ recorded = 0
      /\ pc = "down" /\ offset = 0 /\ last = 0 /\ forwarded = 0
      /\ status = "ok" /\ overdue = FALSE /\ net = <<>> /\ fed = <<>>
      /\ registry = [status |-> "none", count |-> 0] /\ saved = registry
      /\ rotations = 0 /\ faults = 0 /\ starts = 0 /\ rotated = FALSE /\ excused = {}
  BY DEF Init
<1>2. DOMAIN net = {} /\ DOMAIN log = {} /\ DOMAIN fed = {} /\ Len(log) = 0 /\ Len(fed) = 0
  BY <1>1
<1>3. \A S : Cardinality({x \in {} : x \in S}) = 0 /\ Cardinality({}) = 0
  BY FS_EmptySet
<1>4. TypeOK
  <2>1. {i \in DOMAIN net : net[i].awaited} = {}
    BY <1>2
  <2>2. registry \in AgentRecord /\ saved \in AgentRecord
    BY <1>1 DEF AgentRecord
  <2>3. Cardinality({i \in DOMAIN net : net[i].awaited}) = 0
    BY <1>3, <2>1
  <2>4. log \in Seq(1 .. MaxWritten) /\ net \in Seq(Request) /\ fed \in Seq(Event)
    BY <1>1
  <2>5. \A m \in Nat : 0 \in 0 .. m /\ 2 * m \in Nat
    OBVIOUS
  <2>6. QED
    BY <1>1, <2>2, <2>3, <2>4, <2>5 DEF TypeOK
<1>5. FileShape /\ Position
  BY <1>1, <1>2 DEF FileShape, Position
<1>6. Waits /\ Forms
  BY <1>1, <1>2 DEF Waits, Forms
<1>7. Ordered
  BY <1>1, <1>2 DEF Ordered, ToSet
<1>8. Budgeted
  <2>1. ASSUME NEW e \in AnyEvent
        PROVE  Times(e) + Cardinality(Carriers(e)) + (IF ToCome(e) THEN 1 ELSE 0) <= Quota(e)
    <3>1. Times(e) = 0 /\ Cardinality(Carriers(e)) = 0
      <4>1. {i \in DOMAIN fed : fed[i] = e} = {} /\ Carriers(e) = {}
        BY <1>2 DEF Carriers
      <4>2. QED
        BY <1>3, <4>1 DEF Times
    <3>2. IsLine(e) => Quota(e) = 1
      BY DEF Quota
    <3>3. ~ IsLine(e) => ~ ToCome(e) /\ Quota(e) = 0
      BY <1>1 DEF ToCome, Quota
    <3>4. QED
      BY <3>1, <3>2, <3>3
  <2>2. QED
    BY <1>2, <2>1 DEF Budgeted
<1>9. Backed
  <2>1. \A S : Items(net, S) = {}
    BY <1>2 DEF Items
  <2>2. Uncounted = 0 /\ Unforwarded = 0
    BY <1>3, <2>1 DEF Uncounted, Unforwarded
  <2>3. QED
    BY <1>1, <1>2, <2>2 DEF Backed
<1>10. QED
  BY <1>4, <1>5, <1>6, <1>7, <1>8, <1>9 DEF IInv

LEMMA IInvKept == IInv /\ [Next]_vars => IInv'
<1> SUFFICES ASSUME IInv, [Next]_vars PROVE IInv'
  OBVIOUS
<1>1. TypeOK' /\ FileShape' /\ Position'
  BY TypeKept, FileShapeKept, PositionKept
<1>2. Waits' /\ Forms' /\ Ordered'
  BY WaitsKept, FormsKept, OrderedKept
<1>3. Budgeted' /\ Backed'
  BY BudgetedKept, BackedKept
<1>4. QED
  BY <1>1, <1>2, <1>3 DEF IInv

-----------------------------------------------------------------------------
(***************************************************************************)
(* No line is lost without a reason                                        *)
(***************************************************************************)

\* A batch the agent waits for stays awaited until it is in the feed, or is lost
\* for a reason.
LEMMA AwaitedKept ==
  ASSUME IInv, [Next]_vars, NEW e \in Awaited
  PROVE  e \in ToSet(fed') \cup excused' \cup Awaited'
<1>1. TypeOK /\ Waits /\ Forms
  BY DEF IInv
<1>2. PICK i \in DOMAIN net : net[i].awaited /\ e \in ToSet(net[i].events)
  BY DEF Awaited, ToSet, Range
<1>3. \A j \in DOMAIN net' : net'[j].awaited /\ e \in ToSet(net'[j].events) => e \in Awaited'
  BY DEF Awaited, ToSet, Range
<1>4. ASSUME NEW j \in DOMAIN net', net'[j] = net[i] PROVE e \in Awaited'
  BY <1>2, <1>3, <1>4
<1>5. CASE UNCHANGED net
  BY <1>2, <1>4, <1>5
<1>6. CASE StopAgent \/ RestartConsole
  BY <1>6 DEF StopAgent, RestartConsole
<1>7. ASSUME NEW r, Sends(r) PROVE e \in Awaited'
  <2>1. i \in DOMAIN net' /\ net'[i] = net[i]
    BY <1>1, <1>7, SendsAppends
  <2>2. QED
    BY <1>4, <2>1
<1>8. CASE \E ev : Polled(ev)
  BY <1>1, <1>5, <1>7, <1>8, PollSends
<1>9. CASE SendHello \/ SendHeartbeat
  BY <1>1, <1>7, <1>9, HeartbeatSends
\* Another request leaves.
<1>10. ASSUME NEW k \in DOMAIN net, k # i, net' = RemoveAt(net, k)
       PROVE  e \in Awaited'
  <2>1. PICK f : /\ \A j \in DOMAIN net' : f[j] # k /\ net'[j] = net[f[j]]
                 /\ \A h \in DOMAIN net : h # k => \E j \in DOMAIN net' : f[j] = h
    BY <1>1, <1>10, DropDescends
  <2>2. PICK j \in DOMAIN net' : f[j] = i
    BY <1>2, <1>10, <2>1
  <2>3. QED
    BY <1>4, <2>1, <2>2
<1>11. ASSUME NEW k \in DOMAIN net, EndInError(k)
       PROVE  e \in excused' \cup Awaited'
  <2>1. net' = RemoveAt(net, k) /\ excused' = excused \cup ToSet(net[k].events)
    BY <1>11 DEF EndInError
  <2>2. QED
    BY <1>2, <1>10, <2>1
<1>12. ASSUME NEW k \in DOMAIN net, Handled(k)
       PROVE  e \in ToSet(fed') \cup excused' \cup Awaited'
  <2>1. CASE Reject(k) \/ Refuse(k) \/ PersistFails(k)
    BY <1>11, <2>1 DEF Reject, Refuse, PersistFails
  <2>2. CASE TimeOut(k)
    BY <2>2 DEF TimeOut
  <2>3. CASE Answer(k)
    <3>1. net' = RemoveAt(net, k) /\ net[k].stage = "answer" /\ fed' = fed
      BY <2>3 DEF Answer, console
    <3>2. CASE k = i
      BY <1>1, <1>2, <3>1, <3>2 DEF Forms
    <3>3. QED
      BY <1>10, <3>1, <3>2
  <2>4. CASE NoteIngest(k) \/ ServeHeartbeat(k)
    <3>1. Served(k) /\ (net[k].stage = "note" \/ net[k].kind = "heartbeat")
      BY <2>4 DEF NoteIngest, ServeHeartbeat
    <3>2. CASE net[k].awaited
      <4>1. k = i
        BY <1>1, <1>2, <3>2 DEF Waits
      <4>2. net' = [net EXCEPT ![k].stage = "answer"]
        BY <3>1, <3>2 DEF Served
      <4>3. i \in DOMAIN net' /\ net'[i].awaited /\ net'[i].events = net[i].events
        <5>1. net[i] \in Request
          BY <1>1, NetFacts
        <5>2. net'[i] = [net[i] EXCEPT !.stage = "answer"] /\ i \in DOMAIN net'
          BY <4>1, <4>2
        <5>3. QED
          BY <1>2, <5>1, <5>2 DEF Request
      <4>4. QED
        BY <1>2, <1>3, <4>3
    <3>3. CASE ~ net[k].awaited
      BY <1>2, <1>10, <3>1, <3>3 DEF Served
    <3>4. QED
      BY <3>2, <3>3
  <2>5. QED
    BY <1>12, <2>1, <2>2, <2>3, <2>4 DEF Handled
<1>13. ASSUME NEW k \in DOMAIN net, RecordBatch(k)
       PROVE  e \in Awaited'
  <2>1. /\ DOMAIN net' = DOMAIN net /\ \A j \in DOMAIN net : j # k => net'[j] = net[j]
        /\ net'[k].events = net[k].events /\ net'[k].awaited = net[k].awaited
    BY <1>1, <1>13, BatchRecorded
  <2>2. net'[i].awaited /\ net'[i].events = net[i].events
    BY <1>2, <2>1
  <2>3. QED
    BY <1>2, <1>3, <2>1, <2>2
<1>14. ASSUME NEW k \in DOMAIN net, RecordFails(k)
       PROVE  e \in excused' \cup Awaited'
  BY <1>11, <1>14 DEF RecordFails
<1>15. QED
  BY Moves, <1>5, <1>6, <1>8, <1>9, <1>12, <1>13, <1>14

\* A line to be read stays so until it is in a batch, or is lost for a reason.
LEMMA UnreadKept ==
  ASSUME IInv, [Next]_vars, NEW n \in Unread
  PROVE  n \in Unread' \/ Line(n) \in excused' \cup Awaited'
<1>1. TypeOK /\ Len(log) \in Nat /\ DOMAIN log = 1 .. Len(log) /\ log \in Seq(1 .. MaxWritten)
      /\ written \in Nat
  BY LogFacts DEF IInv, TypeOK
<1>2. PICK i \in DOMAIN log : n = log[i] /\ (pc = "down" \/ rotated \/ 2 * i - 1 > offset)
  BY DEF Unread
<1>3. CASE WriteLine
  <2>1. log' = Append(log, written + 1) /\ UNCHANGED <<pc, offset, rotated>>
    BY <1>3 DEF WriteLine, agent, ghosts
  <2>2. i \in DOMAIN log' /\ log'[i] = log[i]
    BY <1>1, <2>1
  <2>3. QED
    BY <1>2, <2>1, <2>2 DEF Unread
<1>4. CASE Rotate \/ StartAgent
  BY <1>4 DEF Rotate, StartAgent
<1>5. CASE StopAgent
  <2>1. pc' = "down" /\ log' = log
    BY <1>5 DEF StopAgent, file
  <2>2. QED
    BY <1>2, <2>1 DEF Unread
<1>6. CASE \E ev : Polled(ev)
  <2>1. PICK ev : Polled(ev)
    BY <1>6
  <2>2. n \in Unread' \/ Line(n) \in ToSet(ev) \cup excused'
    BY <2>1 DEF Polled
  <2>3. CASE Line(n) \in ToSet(ev)
    <3>1. ev # <<>>
      BY <2>3 DEF ToSet
    <3>2. Sends(Ingest(ev)) /\ Ingest(ev).events = ev
      BY <1>1, <2>1, <3>1, PollSends
    <3>3. /\ Len(net) + 1 \in DOMAIN net' /\ net'[Len(net) + 1].awaited
          /\ net'[Len(net) + 1].events = ev
      BY <1>1, <3>2, SendsAppends DEF Sends
    <3>4. Line(n) \in Awaited'
      BY <2>3, <3>3 DEF Awaited, ToSet, Range
    <3>5. QED
      BY <3>4
  <2>4. QED
    BY <2>2, <2>3
<1>7. QED
  BY Views, <1>3, <1>4, <1>5, <1>6

\* A line just written is still to be read.
LEMMA WrittenIsUnread ==
  ASSUME IInv, WriteLine
  PROVE  written' = written + 1 /\ written + 1 \in Unread'
<1>1. Len(log) \in Nat /\ log \in Seq(1 .. MaxWritten) /\ offset \in Nat /\ Position
  BY LogFacts DEF IInv, TypeOK
<1>2. /\ written' = written + 1 /\ log' = Append(log, written + 1) /\ half = FALSE
      /\ UNCHANGED <<pc, offset, rotated>>
  BY DEF WriteLine, agent, ghosts, IInv, TypeOK
<1>3. /\ Len(log) + 1 \in DOMAIN log' /\ log'[Len(log) + 1] = written + 1
  BY <1>1, <1>2
<1>4. pc # "down" /\ ~ rotated => offset <= 2 * Len(log)
  BY <1>1, <1>2 DEF Position, Size
<1>5. pc' = "down" \/ rotated' \/ 2 * (Len(log) + 1) - 1 > offset'
  BY <1>1, <1>2, <1>4
<1>6. QED
  BY <1>2, <1>3, <1>5 DEF Unread

LEMMA LossKept ==
  ASSUME IInv, LossIsExplained, [Next]_vars
  PROVE  LossIsExplained'
<1>1. SUFFICES ASSUME NEW n \in 1 .. written'
      PROVE  \/ Line(n) \in ToSet(fed') \cup excused' \cup Awaited'
             \/ n \in Unread'
  BY DEF LossIsExplained
<1>2. written \in Nat
  BY DEF IInv, TypeOK
<1>3. CASE n \notin 1 .. written
  <2>1. WriteLine
    <3>1. Rotate \/ StartAgent \/ StopAgent => written' = written
      BY DEF Rotate, StartAgent, StopAgent, file
    <3>2. \A ev : Polled(ev) => written' = written
      BY DEF Polled, file
    <3>3. QED
      BY <1>3, <3>1, <3>2, Views
  <2>2. written' = written + 1 /\ written + 1 \in Unread'
    BY <2>1, WrittenIsUnread
  <2>3. n = written + 1
    BY <1>2, <1>3, <2>2
  <2>4. QED
    BY <2>2, <2>3
<1>4. CASE n \in 1 .. written
  <2>1. \/ Line(n) \in ToSet(fed) \cup excused
        \/ Line(n) \in Awaited
        \/ \E m \in Unread : Line(n) = Line(m)
    BY <1>4 DEF LossIsExplained
  <2>2. ToSet(fed) \subseteq ToSet(fed') /\ excused \subseteq excused'
    <3>1. \A i, m, f : Records(i, m, f) => ToSet(fed) \subseteq ToSet(fed')
      BY DEF Records, Feeds
    <3>2. QED
      BY <3>1, Flow, GhostsKept
  <2>3. CASE Line(n) \in Awaited
    BY <2>3, AwaitedKept
  <2>4. CASE \E m \in Unread : Line(n) = Line(m)
    <3>1. n \in Unread
      BY <2>4, EventFacts
    <3>2. QED
      BY <3>1, UnreadKept
  <2>5. QED
    BY <2>1, <2>2, <2>3, <2>4
<1>5. QED
  BY <1>3, <1>4

-----------------------------------------------------------------------------
(***************************************************************************)
(* Theorems                                                                *)
(***************************************************************************)

LEMMA AlwaysIInv == Spec => []IInv
<1>1. Init => IInv
  BY InitHolds
<1>2. QED
  BY <1>1, IInvKept, PTL DEF Spec

\* The types, and that the agent waits for exactly one request when its loop
\* says that it does: requests given up never bring it to wait for two.
THEOREM AgentIsWellTyped == Spec => []TypeOK
<1>1. IInv => TypeOK
  BY DEF IInv
<1>2. QED
  BY <1>1, AlwaysIInv, PTL

\* No line of the file is recorded twice, and no record of the Security log more
\* often than the agent was started, whatever times out or is served late: the
\* collectors move their offsets before a batch is sent.
THEOREM FedAtMostOnce == Spec => []NothingIsFedTwice
<1>1. ASSUME IInv PROVE NothingIsFedTwice
  <2>1. TypeOK /\ Budgeted /\ starts \in Nat
    BY <1>1 DEF IInv, TypeOK
  <2>2. ASSUME NEW e \in AnyEvent PROVE Times(e) <= Quota(e)
    <3>1. Times(e) + Cardinality(Carriers(e)) + (IF ToCome(e) THEN 1 ELSE 0) <= Quota(e)
      BY <2>1 DEF Budgeted
    <3>2. Cardinality(Carriers(e)) \in Nat
      <4>1. IsFiniteSet(DOMAIN net)
        BY <2>1, NetFacts, FS_Interval
      <4>2. Carriers(e) \in SUBSET DOMAIN net
        BY DEF Carriers
      <4>3. QED
        BY <4>1, <4>2, FS_Subset, FS_CardinalityType
    <3>3. Times(e) \in Nat
      <4>1. IsFiniteSet(DOMAIN fed)
        BY <2>1, FS_Interval DEF TypeOK
      <4>2. {i \in DOMAIN fed : fed[i] = e} \in SUBSET DOMAIN fed
        OBVIOUS
      <4>3. QED
        BY <4>1, <4>2, FS_Subset, FS_CardinalityType DEF Times
    <3>4. Quota(e) \in Nat
      BY <2>1 DEF Quota
    <3>5. QED
      BY <3>1, <3>2, <3>3, <3>4
  <2>3. \A n \in 1 .. written : Line(n) \in AnyEvent /\ Quota(Line(n)) = 1
    BY EventFacts DEF AnyEvent, Quota
  <2>4. \A n \in 1 .. recorded : WinRecord(n) \in AnyEvent /\ Quota(WinRecord(n)) = starts
    BY EventFacts DEF AnyEvent, Quota
  <2>5. QED
    BY <2>2, <2>3, <2>4 DEF NothingIsFedTwice
<1>2. QED
  BY <1>1, AlwaysIInv, PTL

\* What the agent waits for is newer than every line in the feed, and in order.
THEOREM AwaitedIsNewest == Spec => []AwaitedBatchIsNewest
<1>1. ASSUME IInv PROVE AwaitedBatchIsNewest
  <2>1. SUFFICES ASSUME NEW i \in DOMAIN net, net[i].awaited, net[i].stage = "sent",
                        NEW k \in DOMAIN net[i].events, net[i].events[k].source = "file"
        PROVE  /\ \A j \in 1 .. k - 1 : net[i].events[j].source = "file" =>
                    net[i].events[j].n < net[i].events[k].n
               /\ \A e \in ToSet(fed) : e.source = "file" => e.n < net[i].events[k].n
    BY DEF AwaitedBatchIsNewest
  <2>2. net[i].events[k] \in ToSet(net[i].events) /\ IsLine(net[i].events[k])
    BY <2>1 DEF ToSet, IsLine
  <2>3. \A e \in ToSet(fed) : e.source = "file" => e.n < net[i].events[k].n
    BY <1>1, <2>1, <2>2 DEF IInv, Ordered, IsLine
  <2>4. ASSUME NEW j \in 1 .. k - 1, net[i].events[j].source = "file"
        PROVE  net[i].events[j].n < net[i].events[k].n
    <3>1. DOMAIN net[i].events = 1 .. Len(net[i].events) /\ Len(net[i].events) \in Nat
      BY <1>1, NetFacts DEF IInv
    <3>2. j \in DOMAIN net[i].events /\ j < k
      BY <3>1
    <3>3. QED
      BY <1>1, <2>2, <2>4, <3>2 DEF IInv, Ordered, IsLine
  <2>5. QED
    BY <2>3, <2>4
<1>2. QED
  BY <1>1, AlwaysIInv, PTL

\* The agent's count and the registry's never exceed what was recorded.
THEOREM CountsNeverRunAhead == Spec => []CountsAreBacked
<1>1. ASSUME IInv PROVE CountsAreBacked
  <2>1. TypeOK /\ Backed
    BY <1>1 DEF IInv
  <2>2. /\ forwarded \in Nat /\ registry.count \in Nat /\ saved.count \in Nat
        /\ Len(fed) \in Nat /\ Uncounted \in Nat /\ Unforwarded \in Nat
    <3>1. /\ forwarded \in Nat /\ registry.count \in Nat /\ saved.count \in Nat
          /\ Len(fed) \in Nat
      BY <2>1 DEF TypeOK, AgentRecord
    <3>2. Uncounted \in Nat /\ Unforwarded \in Nat
      BY <2>1, ItemsFinite DEF Uncounted, Unforwarded
    <3>3. QED
      BY <3>1, <3>2
  <2>3. /\ registry.count + Uncounted <= Len(fed) /\ saved.count + Uncounted <= Len(fed)
        /\ forwarded + Unforwarded <= Len(fed)
    BY <2>1 DEF Backed
  <2>4. registry.count <= Len(fed) /\ saved.count <= Len(fed) /\ forwarded <= Len(fed)
    BY <2>2, <2>3
  <2>5. QED
    BY <2>4 DEF CountsAreBacked
<1>2. QED
  BY <1>1, AlwaysIInv, PTL

\* Every line written is in the feed, awaited or still to be read, unless one of
\* the losses the code accepts has happened to it.
THEOREM EveryLossHasAReason == Spec => []LossIsExplained
<1>1. Init => LossIsExplained
  BY DEF Init, LossIsExplained
<1>2. IInv /\ LossIsExplained /\ [Next]_vars => LossIsExplained'
  BY LossKept
<1>3. QED
  BY <1>1, <1>2, AlwaysIInv, PTL DEF Spec
=============================================================================
