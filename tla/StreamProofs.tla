----------------------------- MODULE StreamProofs -----------------------------
(***************************************************************************)
(* Theorems of Stream for every number of threads, any number of           *)
(* connections and events and any size of the queue.  The page misses no   *)
(* alert because an event goes from one place to the next without a gap    *)
(* (Handed), a connection the page still has is not over (Alive), and what *)
(* is published is in the feed already (Published events are Appended).    *)
(***************************************************************************)
EXTENDS Stream, SequenceTheorems, FiniteSetTheorems, WellFoundedInduction, TLAPS

\* A thread has subscribers to call only for an event it has to publish.
Handed ==
  \A t \in Threads :
    /\ copied[t] => todo[t] # <<>>
    /\ ~ copied[t] => targets[t] = <<>>

\* A connection subscribes once and not before the page opened it, and ends only
\* after the page has given it up.
Alive ==
  \A c \in Streams :
    /\ server[c] = "new" => c \notin ToSet(subscribers)
    /\ server[c] # "new" => c <= current
    /\ server[c] = "over" => c < current

\* What is published, or was, is in the feed.
Appended ==
  /\ due <= feed
  /\ \A t \in Threads : \A i \in DOMAIN todo[t] : todo[t][i] <= feed

IInv == TypeOK /\ Handed /\ Alive /\ Appended

USE SizeAssumption DEF engine, streams, page, history

-----------------------------------------------------------------------------
(***************************************************************************)
(* Sequences                                                               *)
(***************************************************************************)

LEMMA FrontAndRest ==
  ASSUME NEW S, NEW s \in Seq(S), s # <<>>
  PROVE  /\ Head(s) \in S /\ Tail(s) \in Seq(S) /\ Head(s) \in ToSet(s)
         /\ ToSet(s) = {Head(s)} \cup ToSet(Tail(s)) /\ Len(Tail(s)) = Len(s) - 1
         /\ \A i \in DOMAIN Tail(s) : i + 1 \in DOMAIN s /\ Tail(s)[i] = s[i + 1]
<1>1. /\ Len(s) \in Nat /\ Len(s) >= 1 /\ DOMAIN s = 1 .. Len(s)
      /\ Tail(s) \in Seq(S) /\ Len(Tail(s)) = Len(s) - 1 /\ Head(s) = s[1]
      /\ DOMAIN Tail(s) = 1 .. Len(s) - 1
      /\ \A i \in 1 .. Len(s) - 1 : Tail(s)[i] = s[i + 1]
  OBVIOUS
<1>2. \A i \in DOMAIN s : i = 1 \/ (i - 1 \in DOMAIN Tail(s) /\ s[i] = Tail(s)[i - 1])
  BY <1>1
<1>3. \A i \in DOMAIN Tail(s) : i + 1 \in DOMAIN s /\ Tail(s)[i] = s[i + 1]
  BY <1>1
<1>4. Head(s) \in ToSet(s) /\ Head(s) \in S
  BY <1>1 DEF ToSet
<1>5. ToSet(Tail(s)) \subseteq ToSet(s)
  BY <1>3 DEF ToSet
<1>6. ToSet(s) \subseteq {Head(s)} \cup ToSet(Tail(s))
  <2>1. ASSUME NEW i \in DOMAIN s PROVE s[i] \in {Head(s)} \cup ToSet(Tail(s))
    BY <1>1, <1>2, <2>1 DEF ToSet
  <2>2. QED
    BY <2>1 DEF ToSet
<1>7. QED
  BY <1>1, <1>3, <1>4, <1>5, <1>6

LEMMA LastAdded ==
  ASSUME NEW S, NEW s \in Seq(S), NEW e \in S
  PROVE  /\ Append(s, e) \in Seq(S) /\ ToSet(Append(s, e)) = ToSet(s) \cup {e}
         /\ Append(s, e) # <<>> /\ Len(Append(s, e)) = Len(s) + 1
<1>1. /\ Append(s, e) \in Seq(S) /\ Len(Append(s, e)) = Len(s) + 1 /\ Len(s) \in Nat
      /\ DOMAIN s = 1 .. Len(s) /\ DOMAIN Append(s, e) = 1 .. Len(s) + 1
      /\ Append(s, e)[Len(s) + 1] = e /\ \A i \in 1 .. Len(s) : Append(s, e)[i] = s[i]
  OBVIOUS
<1>2. \A i \in 1 .. Len(s) + 1 : i = Len(s) + 1 \/ i \in 1 .. Len(s)
  BY <1>1
<1>3. ToSet(Append(s, e)) = ToSet(s) \cup {e}
  BY <1>1, <1>2 DEF ToSet
<1>4. QED
  BY <1>1, <1>3

LEMMA MinOfNats ==
  ASSUME NEW S, S \subseteq Nat, S # {}
  PROVE  Min(S) \in S
<1> DEFINE R == OpToRel(<, Nat)
<1>1. \A x, y \in Nat : <<y, x>> \in R <=> y < x
  BY DEF OpToRel
<1> HIDE DEF R
<1>2. PICK x \in S : \A y \in S : ~ (<<y, x>> \in R)
  BY NatLessThanWellFounded, WFMin DEF R
<1>3. \A y \in S : ~ (y < x)
  BY <1>1, <1>2, Zenon
<1>4. \A y \in S : x <= y
  BY <1>3
<1>5. QED
  BY <1>4 DEF Min

LEMMA CutOut ==
  ASSUME NEW S, NEW s \in Seq(S), NEW k \in 1 .. Len(s)
  PROVE  /\ RemoveAt(s, k) \in Seq(S) /\ Len(RemoveAt(s, k)) = Len(s) - 1
         /\ \A i \in 1 .. Len(s) - 1 : RemoveAt(s, k)[i] = IF i < k THEN s[i] ELSE s[i + 1]
<1> DEFINE a == SubSeq(s, 1, k - 1)
           b == SubSeq(s, k + 1, Len(s))
           r == a \o b
<1>1. /\ Len(s) \in Nat /\ k \in Nat /\ 1 <= k /\ k <= Len(s)
      /\ \A i \in 1 .. Len(s) : s[i] \in S
  OBVIOUS
<1>2. /\ a \in Seq(S) /\ Len(a) = k - 1
      /\ \A i \in 1 .. k - 1 : a[i] = s[i]
  BY <1>1
<1>3. /\ b \in Seq(S) /\ Len(b) = Len(s) - k
      /\ \A i \in 1 .. Len(s) - k : b[i] = s[k + i]
  <2>1. k + 1 \in Int /\ Len(s) \in Int /\ \A i \in k + 1 .. Len(s) : s[i] \in S
    BY <1>1
  <2>2. /\ b \in Seq(S)
        /\ Len(b) = IF k + 1 <= Len(s) THEN Len(s) - (k + 1) + 1 ELSE 0
        /\ \A i \in 1 .. Len(s) - (k + 1) + 1 : b[i] = s[(k + 1) + i - 1]
    BY <2>1, SubSeqProperties
  <2>3. Len(s) - (k + 1) + 1 = Len(s) - k
    BY <1>1
  <2>4. \A i \in Int : (k + 1) + i - 1 = k + i
    BY <1>1
  <2>5. ~ (k + 1 <= Len(s)) => Len(s) - k = 0
    BY <1>1
  <2> HIDE DEF b
  <2>6. Len(b) = Len(s) - k
    BY <1>1, <2>2, <2>3, <2>5
  <2>7. ASSUME NEW i \in 1 .. Len(s) - k PROVE b[i] = s[k + i]
    <3>1. b[i] = s[(k + 1) + i - 1]
      BY <2>2, <2>3
    <3>2. (k + 1) + i - 1 = k + i
      BY <2>4
    <3>3. QED
      BY <3>1, <3>2
  <2>8. QED
    BY <2>2, <2>6, <2>7
<1> HIDE DEF a, b
<1>4. /\ r \in Seq(S) /\ Len(r) = Len(a) + Len(b)
      /\ \A i \in 1 .. Len(a) + Len(b) : r[i] = IF i <= Len(a) THEN a[i] ELSE b[i - Len(a)]
  BY <1>2, <1>3, ConcatProperties
<1>5. RemoveAt(s, k) = r
  BY DEF RemoveAt, a, b
<1> HIDE DEF r
<1>6. ASSUME NEW i \in 1 .. Len(s) - 1
      PROVE  r[i] = IF i < k THEN s[i] ELSE s[i + 1]
  <2>1. Len(a) + Len(b) = Len(s) - 1
    BY <1>1, <1>2, <1>3
  <2>2. CASE i < k
    <3>1. i \in 1 .. k - 1 /\ i <= Len(a)
      BY <1>1, <1>2, <2>2
    <3>2. r[i] = a[i]
      BY <1>4, <2>1, <3>1
    <3>3. QED
      BY <1>2, <2>2, <3>1, <3>2
  <2>3. CASE ~ (i < k)
    <3>1. i - (k - 1) \in 1 .. Len(s) - k /\ k + (i - (k - 1)) = i + 1 /\ ~ (i <= Len(a))
      BY <1>1, <1>2, <2>3
    <3>2. r[i] = b[i - (k - 1)]
      BY <1>2, <1>4, <2>1, <3>1
    <3>3. QED
      BY <1>3, <2>3, <3>1, <3>2
  <2>4. QED
    BY <2>2, <2>3
<1>7. Len(r) = Len(s) - 1
  BY <1>1, <1>2, <1>3, <1>4
<1>8. QED
  BY <1>4, <1>5, <1>6, <1>7

\* list.remove takes one occurrence of an element out.
LEMMA RemovedOnce ==
  ASSUME NEW S, NEW s \in Seq(S), NEW e, IsInjective(s)
  PROVE  /\ RemoveFirst(s, e) \in Seq(S) /\ IsInjective(RemoveFirst(s, e))
         /\ ToSet(RemoveFirst(s, e)) \subseteq ToSet(s)
<1>1. ASSUME NEW k \in 1 .. Len(s)
      PROVE  /\ RemoveAt(s, k) \in Seq(S) /\ IsInjective(RemoveAt(s, k))
             /\ ToSet(RemoveAt(s, k)) \subseteq ToSet(s)
  <2> DEFINE r == RemoveAt(s, k)
             f(i) == IF i < k THEN i ELSE i + 1
  <2>1. /\ r \in Seq(S) /\ Len(r) = Len(s) - 1 /\ DOMAIN r = 1 .. Len(s) - 1
        /\ DOMAIN s = 1 .. Len(s) /\ Len(s) \in Nat
        /\ \A i \in 1 .. Len(s) - 1 : r[i] = IF i < k THEN s[i] ELSE s[i + 1]
    <3>1. /\ r \in Seq(S) /\ Len(r) = Len(s) - 1
          /\ \A i \in 1 .. Len(s) - 1 : r[i] = IF i < k THEN s[i] ELSE s[i + 1]
      BY CutOut
    <3> HIDE DEF r
    <3>2. DOMAIN r = 1 .. Len(r) /\ DOMAIN s = 1 .. Len(s) /\ Len(s) \in Nat
      BY <3>1
    <3>3. QED
      BY <3>1, <3>2
  <2> HIDE DEF r
  <2>2. \A i \in DOMAIN r : f(i) \in DOMAIN s /\ r[i] = s[f(i)]
    BY <2>1
  <2>3. \A i, j \in DOMAIN r : f(i) = f(j) => i = j
    BY <2>1
  <2> HIDE DEF f
  <2>4. IsInjective(r)
    BY <2>2, <2>3 DEF IsInjective
  <2>5. ToSet(r) \subseteq ToSet(s)
    BY <2>2 DEF ToSet
  <2>6. QED
    BY <2>1, <2>4, <2>5 DEF r
<1>2. CASE \E i \in 1 .. Len(s) : s[i] = e
  <2> DEFINE I == {i \in 1 .. Len(s) : s[i] = e}
  <2>1. I # {} /\ I \subseteq Nat
    BY <1>2
  <2>2. Min(I) \in 1 .. Len(s)
    BY <2>1, MinOfNats
  <2>3. RemoveFirst(s, e) = RemoveAt(s, Min(I))
    BY <1>2, <2>1 DEF RemoveFirst, SelectInSeq
  <2>4. QED
    BY <1>1, <2>2, <2>3
<1>3. CASE ~ \E i \in 1 .. Len(s) : s[i] = e
  BY <1>3 DEF RemoveFirst
<1>4. QED
  BY <1>2, <1>3

LEMMA PutFills ==
  ASSUME NEW q \in Seq(1 .. MaxEvents), Len(q) <= QueueSize, NEW e \in 1 .. MaxEvents
  PROVE  /\ Put(q, e) \in Seq(1 .. MaxEvents) /\ Len(Put(q, e)) <= QueueSize
         /\ Put(q, e) # <<>>
<1>1. Len(q) \in Nat
  OBVIOUS
<1>2. CASE Len(q) < QueueSize
  BY <1>1, <1>2, LastAdded DEF Put
<1>3. CASE ~ (Len(q) < QueueSize)
  <2>1. Len(q) # 0
    BY <1>1, <1>3
  <2>2. QED
    BY <1>3, <2>1 DEF Put
<1>4. QED
  BY <1>2, <1>3

-----------------------------------------------------------------------------
(***************************************************************************)
(* The inductive invariant                                                 *)
(***************************************************************************)

LEMMA InitHolds == Init => IInv
<1> SUFFICES ASSUME Init PROVE IInv
  OBVIOUS
<1>1. /\ IsInjective(<<>>) /\ ToSet(<<>>) = {}
  BY DEF IsInjective, ToSet
<1>2. TypeOK
  <2>1. /\ subscribers \in Seq(Streams) /\ IsInjective(subscribers)
        /\ loop \in Seq(Streams \X (1 .. MaxEvents))
        /\ queue \in [Streams -> Seq(1 .. MaxEvents)]
        /\ todo \in [Threads -> Seq(1 .. MaxEvents)]
        /\ targets \in [Threads -> Seq(Streams)]
    BY <1>1 DEF Init
  <2>2. \A c \in Streams : Len(queue[c]) <= QueueSize
    BY DEF Init
  <2>3. /\ copied \in [Threads -> BOOLEAN] /\ IsInjective(subscribers)
        /\ server \in [Streams -> {"new", "check", "wait", "over"}]
        /\ answers \in [0 .. MaxEvents -> Nat] /\ erred \in BOOLEAN
    BY <1>1 DEF Init
  <2>4. /\ stamp \in Clocks /\ feed \in 0 .. MaxEvents /\ current \in 1 .. LastStream + 1
        /\ wire \in Nat /\ asked \in Nat
        /\ caught \subseteq 1 .. MaxEvents /\ due \in 0 .. MaxEvents
    BY DEF Init
  <2>5. QED
    BY <2>1, <2>2, <2>3, <2>4 DEF TypeOK
<1>3. QED
  BY <1>1, <1>2 DEF Init, IInv, Handed, Alive, Appended, Streams

LEMMA BurstKeeps ==
  ASSUME IInv, NEW t \in Threads, AppendBurst(t)
  PROVE  IInv'
<1>1. PICK n \in 1 .. MaxBurst :
        /\ feed + n <= MaxEvents /\ feed' = feed + n
        /\ todo' = [todo EXCEPT ![t] = [i \in 1 .. n |-> feed + i]]
  BY DEF AppendBurst
<1> DEFINE s == [i \in 1 .. n |-> feed + i]
<1>2. n \in Nat /\ feed \in 0 .. MaxEvents /\ \A i \in 1 .. n : feed + i \in 1 .. MaxEvents
  BY <1>1 DEF IInv, TypeOK
<1>3. s \in Seq(1 .. MaxEvents) /\ DOMAIN s = 1 .. n /\ s # <<>>
  BY <1>2
<1>4. \A i \in DOMAIN s : s[i] <= feed'
  BY <1>1, <1>2
<1> HIDE DEF s
<1>5. TypeOK'
  <2>1. todo' = [todo EXCEPT ![t] = s]
    BY <1>1 DEF s
  <2>2. feed' \in 0 .. MaxEvents
    BY <1>1, <1>2
  <2>3. QED
    BY <1>3, <2>1, <2>2 DEF AppendBurst, IInv, TypeOK
<1>6. \A u \in Threads : todo'[u] = IF u = t THEN s ELSE todo[u]
  BY <1>1 DEF IInv, TypeOK, s
<1>7. Appended'
  <2>1. due' <= feed'
    BY <1>1, <1>2 DEF AppendBurst, IInv, Appended, TypeOK
  <2>2. ASSUME NEW u \in Threads, NEW i \in DOMAIN todo'[u] PROVE todo'[u][i] <= feed'
    <3>1. CASE u = t
      BY <1>4, <1>6, <2>2, <3>1
    <3>2. CASE u # t
      <4>1. todo[u] \in Seq(1 .. MaxEvents) /\ i \in DOMAIN todo[u] /\ todo'[u] = todo[u]
        BY <1>6, <2>2, <3>2 DEF IInv, TypeOK
      <4>2. todo[u][i] \in Nat /\ todo[u][i] <= feed
        BY <4>1 DEF IInv, Appended
      <4>3. QED
        BY <1>1, <1>2, <4>1, <4>2
    <3>3. QED
      BY <3>1, <3>2
  <2>3. QED
    BY <2>1, <2>2 DEF Appended
<1>8. QED
  BY <1>3, <1>5, <1>6, <1>7 DEF AppendBurst, IInv, Handed, Alive

LEMMA CopyKeeps ==
  ASSUME IInv, NEW t \in Threads, CopySubscribers(t)
  PROVE  IInv'
<1>1. Head(todo[t]) \in 1 .. MaxEvents /\ Head(todo[t]) <= feed
  <2>1. todo[t] \in Seq(1 .. MaxEvents) /\ todo[t] # <<>>
    BY DEF CopySubscribers, IInv, TypeOK
  <2>2. Head(todo[t]) = todo[t][1] /\ 1 \in DOMAIN todo[t]
    BY <2>1
  <2>3. QED
    BY <2>1, <2>2 DEF IInv, Appended
<1>2. TypeOK'
  BY <1>1, SMTT(60) DEF CopySubscribers, IInv, TypeOK
<1>3. QED
  BY <1>1, <1>2 DEF CopySubscribers, IInv, TypeOK, Handed, Alive, Appended

LEMMA CallKeeps ==
  ASSUME IInv, NEW t \in Threads, CallSubscriber(t)
  PROVE  IInv'
<1>1. todo[t] \in Seq(1 .. MaxEvents) /\ todo[t] # <<>> /\ targets[t] \in Seq(Streams)
      /\ targets[t] # <<>>
  BY DEF CallSubscriber, IInv, TypeOK, Handed
<1>2. /\ <<Head(targets[t]), Head(todo[t])>> \in Streams \X (1 .. MaxEvents)
      /\ Tail(targets[t]) \in Seq(Streams)
  BY <1>1, FrontAndRest
<1>3. loop' \in Seq(Streams \X (1 .. MaxEvents))
  BY <1>2, LastAdded DEF CallSubscriber, IInv, TypeOK
<1>4. QED
  BY <1>2, <1>3 DEF CallSubscriber, IInv, TypeOK, Handed, Alive, Appended

LEMMA PublishedKeeps ==
  ASSUME IInv, NEW t \in Threads, Published(t)
  PROVE  IInv'
<1>1. todo[t] \in Seq(1 .. MaxEvents) /\ todo[t] # <<>>
  BY DEF Published, IInv, TypeOK, Handed
<1>2. /\ Tail(todo[t]) \in Seq(1 .. MaxEvents)
      /\ \A i \in DOMAIN Tail(todo[t]) : Tail(todo[t])[i] <= feed
  BY <1>1, FrontAndRest DEF IInv, Appended
<1>3. TypeOK'
  BY <1>2 DEF Published, IInv, TypeOK
<1>4. \A u \in Threads : todo'[u] = IF u = t THEN Tail(todo[t]) ELSE todo[u]
  BY DEF Published, IInv, TypeOK
<1>5. Appended'
  BY <1>2, <1>4 DEF Published, IInv, Appended
<1>6. QED
  BY <1>3, <1>4, <1>5 DEF Published, IInv, TypeOK, Handed, Alive

LEMMA CallbackKeeps ==
  ASSUME IInv, RunCallback
  PROVE  IInv'
<1>1. loop \in Seq(Streams \X (1 .. MaxEvents)) /\ loop # <<>>
  BY DEF RunCallback, IInv, TypeOK
<1>2. /\ loop[1] \in Streams \X (1 .. MaxEvents)
      /\ Tail(loop) \in Seq(Streams \X (1 .. MaxEvents))
  BY <1>1
<1>3. loop[1][1] \in Streams /\ loop[1][2] \in 1 .. MaxEvents
  BY <1>2
<1> DEFINE c == loop[1][1]
           q == Put(queue[c], loop[1][2])
<1>4. q \in Seq(1 .. MaxEvents) /\ Len(q) <= QueueSize
  BY <1>3, PutFills DEF IInv, TypeOK
<1>5. queue' = queue \/ queue' = [queue EXCEPT ![c] = q]
  BY DEF RunCallback
<1> HIDE DEF c, q
<1>6. /\ queue' \in [Streams -> Seq(1 .. MaxEvents)]
      /\ \A d \in Streams : Len(queue'[d]) <= QueueSize
  BY <1>4, <1>5 DEF IInv, TypeOK
<1>7. TypeOK'
  BY <1>2, <1>6 DEF RunCallback, IInv, TypeOK
<1>8. QED
  BY <1>7 DEF RunCallback, IInv, Handed, Alive, Appended

LEMMA GeneratorKeeps ==
  ASSUME IInv, NEW c \in Streams, Generator(c)
  PROVE  IInv'
<1>1. CASE Subscribe(c)
  <2>1. /\ subscribers \in Seq(Streams) /\ IsInjective(subscribers)
        /\ c \notin ToSet(subscribers) /\ server[c] = "new"
    BY <1>1 DEF Subscribe, IInv, TypeOK, Alive
  <2>2. /\ subscribers' \in Seq(Streams)
        /\ ToSet(subscribers') = ToSet(subscribers) \cup {c}
    BY <1>1, <2>1, LastAdded DEF Subscribe
  <2>3. IsInjective(subscribers')
    <3>1. /\ DOMAIN subscribers' = 1 .. Len(subscribers) + 1 /\ Len(subscribers) \in Nat
          /\ DOMAIN subscribers = 1 .. Len(subscribers)
          /\ subscribers'[Len(subscribers) + 1] = c
          /\ \A i \in 1 .. Len(subscribers) : subscribers'[i] = subscribers[i]
      BY <1>1, <2>1 DEF Subscribe
    <3>2. \A i \in 1 .. Len(subscribers) : subscribers[i] # c
      BY <2>1, <3>1 DEF ToSet
    <3>3. QED
      BY <2>1, <3>1, <3>2 DEF IsInjective
  <2>4. \A d \in Streams : server'[d] = IF d = c THEN "check" ELSE server[d]
    BY <1>1 DEF Subscribe, IInv, TypeOK
  <2>5. TypeOK'
    BY <1>1, <2>2, <2>3 DEF Subscribe, IInv, TypeOK
  <2>6. QED
    BY <1>1, <2>2, <2>4, <2>5 DEF Subscribe, IInv, Handed, Alive, Appended
<1>2. CASE StillConnected(c) \/ KeepAlive(c)
  <2>1. TypeOK'
    BY <1>2 DEF StillConnected, KeepAlive, IInv, TypeOK
  <2>2. Handed'
    BY <1>2 DEF StillConnected, KeepAlive, IInv, Handed
  <2>3. Alive'
    BY <1>2 DEF StillConnected, KeepAlive, IInv, TypeOK, Alive
  <2>4. Appended'
    BY <1>2 DEF StillConnected, KeepAlive, IInv, Appended
  <2>5. QED
    BY <2>1, <2>2, <2>3, <2>4 DEF IInv
<1>3. CASE EndStream(c)
  <2>1. /\ subscribers' \in Seq(Streams) /\ IsInjective(subscribers')
        /\ ToSet(subscribers') \subseteq ToSet(subscribers)
    BY <1>3, RemovedOnce DEF EndStream, Unsubscribed, IInv, TypeOK
  <2>2. TypeOK'
    BY <1>3, <2>1 DEF EndStream, IInv, TypeOK
  <2>3. \A d \in Streams : server'[d] = IF d = c THEN "over" ELSE server[d]
    BY <1>3 DEF EndStream, IInv, TypeOK
  <2>4. c < current
    <3>1. c <= current /\ c # current
      BY <1>3 DEF EndStream, IInv, Alive
    <3>2. c \in Nat /\ current \in Nat
      BY DEF IInv, TypeOK, Streams
    <3>3. QED
      BY <3>1, <3>2
  <2>5. QED
    BY <1>3, <2>1, <2>2, <2>3, <2>4 DEF EndStream, IInv, Handed, Alive, Appended
<1>4. CASE Send(c)
  <2> DEFINE q == queue[c]
  <2>1. q \in Seq(1 .. MaxEvents) /\ q # <<>> /\ Len(q) <= QueueSize
    BY <1>4 DEF Send, IInv, TypeOK
  <2>2. queue' = [queue EXCEPT ![c] = Tail(q)]
    BY <1>4 DEF Send
  <2> HIDE DEF q
  <2>3. Tail(q) \in Seq(1 .. MaxEvents) /\ Len(Tail(q)) <= QueueSize
    <3>1. Tail(q) \in Seq(1 .. MaxEvents) /\ Len(Tail(q)) = Len(q) - 1 /\ Len(q) \in Nat
      BY <2>1, FrontAndRest
    <3>2. QED
      BY <2>1, <3>1
  <2>4. /\ queue' \in [Streams -> Seq(1 .. MaxEvents)]
        /\ \A d \in Streams : Len(queue'[d]) <= QueueSize
    BY <2>2, <2>3 DEF IInv, TypeOK
  <2>5. wire' \in Nat /\ server' \in [Streams -> {"new", "check", "wait", "over"}]
    BY <1>4 DEF Send, IInv, TypeOK
  <2>6. TypeOK'
    BY <1>4, <2>4, <2>5 DEF Send, IInv, TypeOK
  <2>7. QED
    BY <1>4, <2>6 DEF Send, IInv, TypeOK, Handed, Alive, Appended
<1>5. QED
  BY <1>1, <1>2, <1>3, <1>4 DEF Generator

LEMMA PageKeeps ==
  ASSUME IInv,
         \/ Receive \/ ServeEvents \/ Reconnect
         \/ \E n \in 0 .. MaxEvents : Show(n) \/ LoseAnswer(n)
  PROVE  IInv'
<1>1. CASE Receive \/ ServeEvents
  <2>1. wire' \in Nat /\ asked' \in Nat
    <3>1. wire \in Nat /\ asked \in Nat
      BY DEF IInv, TypeOK
    <3>2. CASE Receive
      BY <3>1, <3>2 DEF Receive
    <3>3. CASE ServeEvents
      BY <3>1, <3>3 DEF ServeEvents
    <3>4. QED
      BY <1>1, <3>2, <3>3
  <2>2. answers' \in [0 .. MaxEvents -> Nat]
    <3>1. answers \in [0 .. MaxEvents -> Nat] /\ feed \in 0 .. MaxEvents
      BY DEF IInv, TypeOK
    <3>2. answers[feed] + 1 \in Nat
      BY <3>1
    <3>3. answers' = answers \/ answers' = [answers EXCEPT ![feed] = answers[feed] + 1]
      BY <1>1 DEF Receive, ServeEvents
    <3>4. QED
      BY <3>1, <3>2, <3>3
  <2>3. /\ UNCHANGED <<engine, streams, current, caught, history>>
    BY <1>1 DEF Receive, ServeEvents
  <2>4. TypeOK'
    BY <2>1, <2>2, <2>3 DEF IInv, TypeOK
  <2>5. QED
    BY <1>1, <2>4 DEF Receive, ServeEvents, IInv, Handed, Alive, Appended
<1>2. CASE Reconnect
  <2>1. TypeOK'
    BY <1>2 DEF Reconnect, IInv, TypeOK
  <2>2. Alive'
    BY <1>2 DEF Reconnect, IInv, TypeOK, Alive, Streams
  <2>3. QED
    BY <1>2, <2>1, <2>2 DEF Reconnect, IInv, TypeOK, Handed, Appended
<1>3. CASE \E n \in 0 .. MaxEvents : Show(n) \/ LoseAnswer(n)
  <2>1. PICK n \in 0 .. MaxEvents : Show(n) \/ LoseAnswer(n)
    BY <1>3
  <2>2. answers[n] - 1 \in Nat
    <3>1. answers[n] \in Nat
      BY DEF IInv, TypeOK
    <3>2. answers[n] > 0
      BY <2>1 DEF Show, LoseAnswer
    <3>3. QED
      BY <3>1, <3>2
  <2>3. answers' \in [0 .. MaxEvents -> Nat]
    <3>1. answers' = [answers EXCEPT ![n] = answers[n] - 1]
      BY <2>1 DEF Show, LoseAnswer
    <3>2. QED
      BY <2>2, <3>1 DEF IInv, TypeOK
  <2>4. caught' \subseteq 1 .. MaxEvents
    <3>1. caught' = caught \/ caught' = caught \cup Rows(n) \cup {e \in 1 .. n : Displaced(e, n)}
      BY <2>1 DEF Show, LoseAnswer
    <3>2. Rows(n) \subseteq 1 .. n /\ 1 .. n \subseteq 1 .. MaxEvents
      BY DEF Rows
    <3>3. QED
      BY <3>1, <3>2 DEF IInv, TypeOK
  <2>5. erred' \in BOOLEAN
    BY <2>1 DEF Show, LoseAnswer, IInv, TypeOK
  <2>6. UNCHANGED <<engine, streams, current, wire, asked, due>>
    BY <2>1 DEF Show, LoseAnswer
  <2>7. TypeOK'
    BY <2>3, <2>4, <2>5, <2>6 DEF IInv, TypeOK
  <2>8. QED
    BY <2>6, <2>7 DEF IInv, Handed, Alive, Appended
<1>4. QED
  BY <1>1, <1>2, <1>3

LEMMA StepKeeps == ASSUME IInv, [Next]_vars PROVE IInv'
<1>1. CASE UNCHANGED vars
  <2>1. TypeOK'
    BY <1>1 DEF vars, IInv, TypeOK
  <2>2. QED
    BY <1>1, <2>1 DEF vars, IInv, Handed, Alive, Appended
<1>2. QED
  BY <1>1, BurstKeeps, CopyKeeps, CallKeeps, PublishedKeeps, CallbackKeeps,
     GeneratorKeeps, PageKeeps DEF Next, Publish

\* The types hold, no queue exceeds its size, and no connection subscribes twice.
THEOREM TypeCorrect == Spec => []TypeOK
<1>1. QED
  BY InitHolds, StepKeeps, PTL DEF Spec, IInv

-----------------------------------------------------------------------------
(***************************************************************************)
(* No alert is missed                                                      *)
(***************************************************************************)

\* An event that the feed holds is in an answer, or has no place in it.
LEMMA AnswerCatches ==
  ASSUME NEW n \in 0 .. MaxEvents, stamp \in [1 .. MaxEvents -> Int]
  PROVE  1 .. n \subseteq Rows(n) \cup {e \in 1 .. n : Displaced(e, n)}
<1> SUFFICES ASSUME NEW e \in 1 .. n, ~ Displaced(e, n) PROVE e \in Rows(n)
  OBVIOUS
<1> DEFINE kept == {x \in 1 .. n : n - x < FeedSize}
           first == {x \in kept : stamp[x] > stamp[e] \/ (stamp[x] = stamp[e] /\ x < e)}
           others == {x \in (1 .. n) \ {e} : stamp[x] >= stamp[e]}
<1>1. n \in Nat /\ n <= MaxEvents /\ e \in Int /\ e >= 1 /\ e <= n
      /\ \A x \in 1 .. n : stamp[x] \in Int
  OBVIOUS
<1>2. e \in kept /\ ~ (Cardinality(others) >= Limit)
  <2>1. ~ (n - e >= FeedSize) /\ ~ (Cardinality(others) >= Limit)
    BY Zenon DEF Displaced
  <2>2. n - e < FeedSize
    BY <1>1, <2>1, AnswerAssumption
  <2>3. QED
    BY <2>1, <2>2
<1>3. first \subseteq others
  BY <1>1
<1>4. IsFiniteSet(others)
  <2>1. IsFiniteSet(1 .. n)
    BY <1>1, FS_Interval
  <2>2. others \subseteq 1 .. n
    OBVIOUS
  <2>3. QED
    BY <2>1, <2>2, FS_Subset
<1> HIDE DEF first, others
<1>5. IsFiniteSet(first) /\ Cardinality(first) <= Cardinality(others)
  BY <1>3, <1>4, FS_Subset
<1>6. Cardinality(first) \in Nat /\ Cardinality(others) \in Nat
  BY <1>4, <1>5, FS_CardinalityType
<1>7. Cardinality(first) < Limit
  BY <1>2, <1>5, <1>6, AnswerAssumption
<1>8. QED
  BY <1>2, <1>7 DEF Rows, first

LEMMA InitMissesNone == Init => NoAlertIsMissed
BY DEF Init, NoAlertIsMissed

LEMMA EngineMissesNone ==
  ASSUME IInv, NoAlertIsMissed, NEW t \in Threads, AppendBurst(t) \/ Publish(t)
  PROVE  NoAlertIsMissed'
<1>1. CASE AppendBurst(t)
  BY <1>1 DEF AppendBurst, NoAlertIsMissed, Signalled
<1>2. CASE CopySubscribers(t)
  <2>1. \A u \in Threads : targets'[u] = IF u = t THEN subscribers ELSE targets[u]
    BY <1>2 DEF CopySubscribers, IInv, TypeOK
  <2>2. ToSet(targets[t]) = {}
    BY <1>2 DEF CopySubscribers, IInv, Handed, ToSet
  <2>3. CASE due' = due
    BY <1>2, <2>1, <2>2, <2>3 DEF CopySubscribers, NoAlertIsMissed, Signalled
  <2>4. CASE due' # due
    BY <1>2, <2>1, <2>4 DEF CopySubscribers, NoAlertIsMissed, Signalled
  <2>5. QED
    BY <2>3, <2>4
<1>3. CASE CallSubscriber(t)
  <2>1. /\ targets[t] \in Seq(Streams) /\ targets[t] # <<>>
        /\ loop \in Seq(Streams \X (1 .. MaxEvents))
    BY <1>3 DEF CallSubscriber, IInv, TypeOK
  <2>2. ToSet(targets[t]) = {Head(targets[t])} \cup ToSet(Tail(targets[t]))
    BY <2>1, FrontAndRest
  <2>3. /\ Len(loop) + 1 \in DOMAIN loop' /\ loop'[Len(loop) + 1][1] = Head(targets[t])
        /\ \A i \in DOMAIN loop : i \in DOMAIN loop' /\ loop'[i] = loop[i]
    <3> DEFINE x == <<Head(targets[t]), Head(todo[t])>>
    <3>1. loop' = Append(loop, x) /\ x[1] = Head(targets[t])
      BY <1>3 DEF CallSubscriber
    <3> HIDE DEF x
    <3>2. QED
      BY <2>1, <3>1
  <2>4. \A u \in Threads : targets'[u] = IF u = t THEN Tail(targets[t]) ELSE targets[u]
    BY <1>3 DEF CallSubscriber, IInv, TypeOK
  <2>5. Signalled => Signalled'
    BY <1>3, <2>2, <2>3, <2>4 DEF CallSubscriber, Signalled
  <2>6. QED
    BY <1>3, <2>5 DEF CallSubscriber, NoAlertIsMissed
<1>4. CASE Published(t)
  BY <1>4 DEF Published, NoAlertIsMissed, Signalled
<1>5. QED
  BY <1>1, <1>2, <1>3, <1>4 DEF Publish

LEMMA LoopMissesNone ==
  ASSUME IInv, NoAlertIsMissed, RunCallback
  PROVE  NoAlertIsMissed'
<1>1. loop \in Seq(Streams \X (1 .. MaxEvents)) /\ loop # <<>>
  BY DEF RunCallback, IInv, TypeOK
<1>2. /\ \A i \in DOMAIN loop : i = 1 \/ (i - 1 \in DOMAIN loop' /\ loop'[i - 1] = loop[i])
      /\ loop[1] \in Streams \X (1 .. MaxEvents)
  BY <1>1 DEF RunCallback
<1>3. loop[1][1] \in Streams /\ loop[1][2] \in 1 .. MaxEvents
  BY <1>2
<1>4. CASE loop[1][1] = current
  <2>1. server[current] # "over"
    BY <1>3, <1>4 DEF IInv, Alive, TypeOK
  <2>2. queue'[current] = Put(queue[current], loop[1][2])
    BY <1>3, <1>4, <2>1 DEF RunCallback, IInv, TypeOK
  <2>3. queue'[current] # <<>> /\ current \in Streams
    BY <1>3, <1>4, <2>2, PutFills DEF IInv, TypeOK
  <2>4. QED
    BY <2>3 DEF RunCallback, NoAlertIsMissed, Signalled
<1>5. CASE loop[1][1] # current
  <2>1. current \in Streams => queue'[current] = queue[current]
    BY <1>3, <1>5 DEF RunCallback, IInv, TypeOK
  <2>2. (\E i \in DOMAIN loop : loop[i][1] = current)
          => (\E i \in DOMAIN loop' : loop'[i][1] = current)
    BY <1>2, <1>5
  <2>3. QED
    BY <2>1, <2>2 DEF RunCallback, NoAlertIsMissed, Signalled
<1>6. QED
  BY <1>4, <1>5

LEMMA GeneratorMissesNone ==
  ASSUME IInv, NoAlertIsMissed, NEW c \in Streams, Generator(c)
  PROVE  NoAlertIsMissed'
<1>1. CASE Subscribe(c) \/ StillConnected(c) \/ KeepAlive(c)
  BY <1>1 DEF Subscribe, StillConnected, KeepAlive, NoAlertIsMissed, Signalled
<1>2. CASE EndStream(c)
  <2>1. current \in Streams => queue'[current] = queue[current]
    BY <1>2 DEF EndStream, IInv, TypeOK
  <2>2. QED
    BY <1>2, <2>1 DEF EndStream, NoAlertIsMissed, Signalled
<1>3. CASE Send(c)
  <2>1. CASE current = c
    BY <1>3, <2>1 DEF Send, NoAlertIsMissed, Signalled, IInv, TypeOK
  <2>2. CASE current # c
    <3>1. current \in Streams => queue'[current] = queue[current]
      BY <1>3, <2>2 DEF Send, IInv, TypeOK
    <3>2. QED
      BY <1>3, <2>2, <3>1 DEF Send, NoAlertIsMissed, Signalled
  <2>3. QED
    BY <2>1, <2>2
<1>4. QED
  BY <1>1, <1>2, <1>3 DEF Generator

LEMMA PageMissesNone ==
  ASSUME IInv, NoAlertIsMissed,
         \/ Receive \/ ServeEvents \/ Reconnect
         \/ \E n \in 0 .. MaxEvents : Show(n) \/ LoseAnswer(n)
  PROVE  NoAlertIsMissed'
<1>1. CASE Receive
  BY <1>1 DEF Receive, NoAlertIsMissed, Signalled, IInv, TypeOK
\* The answer holds the feed of this moment, which is no older than any alert due.
<1>2. CASE ServeEvents
  <2>1. feed \in due .. MaxEvents
    BY DEF IInv, TypeOK, Appended
  <2>2. answers'[feed] > 0
    BY <1>2, <2>1 DEF ServeEvents, IInv, TypeOK
  <2>3. QED
    BY <1>2, <2>1, <2>2 DEF ServeEvents, NoAlertIsMissed
<1>3. CASE Reconnect
  BY <1>3 DEF Reconnect, NoAlertIsMissed, IInv, TypeOK
<1>4. ASSUME NEW n \in 0 .. MaxEvents, Show(n) PROVE NoAlertIsMissed'
  <2>1. CASE n >= due
    <3>1. 1 .. n \subseteq caught'
      <4>1. stamp \in [1 .. MaxEvents -> Int]
        BY AnswerAssumption DEF IInv, TypeOK
      <4>2. QED
        BY <1>4, <4>1, AnswerCatches DEF Show
    <3>2. 1 .. due \subseteq 1 .. n
      BY <2>1 DEF IInv, TypeOK
    <3>3. due' = due
      BY <1>4 DEF Show
    <3>4. QED
      BY <3>1, <3>2, <3>3 DEF NoAlertIsMissed
  <2>2. CASE n < due
    <3>1. \A m \in due .. MaxEvents : answers'[m] = answers[m]
      BY <1>4, <2>2 DEF Show, IInv, TypeOK
    <3>2. caught \subseteq caught'
      BY <1>4 DEF Show
    <3>3. QED
      BY <1>4, <3>1, <3>2 DEF Show, NoAlertIsMissed, Signalled
  <2>3. QED
    BY <2>1, <2>2 DEF IInv, TypeOK
<1>5. ASSUME NEW n \in 0 .. MaxEvents, LoseAnswer(n) PROVE NoAlertIsMissed'
  BY <1>5 DEF LoseAnswer, NoAlertIsMissed
<1>6. QED
  BY <1>1, <1>2, <1>3, <1>4, <1>5

\* Whatever a full queue drops and in whatever order answers arrive, an alert that
\* was published to the page's connection has been shown, or had no place in an
\* answer that was, was lost with an answer the page reports, or something is
\* under way that makes the page look (put_nowait, event_generator, startStream,
\* loadEvents, list_events), for every limit, feed size and order of timestamps.
THEOREM NoneIsMissed == Spec => []NoAlertIsMissed
<1>1. ASSUME IInv, NoAlertIsMissed, [Next]_vars PROVE NoAlertIsMissed'
  <2>1. CASE UNCHANGED vars
    BY <1>1, <2>1 DEF vars, NoAlertIsMissed, Signalled
  <2>2. QED
    BY <1>1, <2>1, EngineMissesNone, LoopMissesNone, GeneratorMissesNone, PageMissesNone
       DEF Next
<1>2. QED
  BY InitHolds, StepKeeps, InitMissesNone, <1>1, PTL DEF Spec
===============================================================================
