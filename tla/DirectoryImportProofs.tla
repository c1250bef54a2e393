------------------------- MODULE DirectoryImportProofs -------------------------
(***************************************************************************)
(* Theorems of DirectoryImport for any number of threads, any directory    *)
(* and any page size.  A paged search reads a category from its beginning  *)
(* without a gap (Paged) and within the cap (Room); a snapshot is written  *)
(* domain first, and every statement attaches what it merges (Attaching);  *)
(* the statements of a sync that has not failed still hold every honey     *)
(* object that is missing (Pledged); those of an import hold whatever of   *)
(* its snapshot is missing, and nothing else (Showing).                    *)
(***************************************************************************)
EXTENDS DirectoryImport, FiniteSetTheorems, SequenceTheorems, TLAPS

USE EntryAssumption, NodeAssumption, MembershipAssumption, LimitAssumption
    DEF graph, threads, history, Goto

-----------------------------------------------------------------------------
(***************************************************************************)
(* Sequences of statements                                                 *)
(***************************************************************************)

IsSeq(s) == s \in Seq(Range(s))

LEMMA SeqIsSeq ==
  ASSUME NEW S, NEW s \in Seq(S)
  PROVE  IsSeq(s)
BY LenProperties DEF IsSeq, Range

LEMMA RestOfSeq ==
  ASSUME NEW s, IsSeq(s), s # <<>>
  PROVE  /\ IsSeq(Tail(s)) /\ Head(s) = s[1] /\ 1 \in DOMAIN s
         /\ \A i \in DOMAIN Tail(s) : i + 1 \in DOMAIN s /\ Tail(s)[i] = s[i + 1]
         /\ \A i \in DOMAIN s : i = 1 \/ (i - 1 \in DOMAIN Tail(s) /\ s[i] = Tail(s)[i - 1])
<1>1. s \in Seq(Range(s)) /\ Len(s) \in Nat /\ DOMAIN s = 1 .. Len(s) /\ Len(s) # 0
  BY DEF IsSeq
<1>2. /\ Tail(s) \in Seq(Range(s)) /\ Len(Tail(s)) = Len(s) - 1 /\ Head(s) = s[1]
      /\ DOMAIN Tail(s) = 1 .. Len(s) - 1
      /\ \A i \in 1 .. Len(s) - 1 : Tail(s)[i] = s[i + 1]
  BY <1>1
<1>3. IsSeq(Tail(s))
  BY <1>2, SeqIsSeq
<1>4. QED
  BY <1>1, <1>2, <1>3

LEMMA ListIsSeq ==
  ASSUME NEW S, NEW n \in Nat, NEW s, s = [i \in 1 .. n |-> s[i]],
         \A i \in 1 .. n : s[i] \in S
  PROVE  s \in Seq(S) /\ Len(s) = n /\ DOMAIN s = 1 .. n
<1>1. s \in [1 .. n -> S]
  OBVIOUS
<1>2. QED
  BY <1>1

\* A finite set as a sequence: all its elements, and no other.
LEMMA ListsAll ==
  ASSUME NEW S, IsFiniteSet(S)
  PROVE  /\ Cardinality(S) \in Nat /\ SetToSeq(S) \in [1 .. Cardinality(S) -> S]
         /\ \A x \in S : \E i \in 1 .. Cardinality(S) : SetToSeq(S)[i] = x
<1> DEFINE n == Cardinality(S)
<1>1. n \in Nat /\ ExistsBijection(1 .. n, S)
  BY FS_CardinalityType
<1> HIDE DEF n
<1>2. PICK f : f \in [1 .. n -> S] /\ IsInjective(f)
  BY <1>1 DEF ExistsBijection, Bijection, Injection
<1>3. SetToSeq(S) \in [1 .. n -> S] /\ IsInjective(SetToSeq(S))
  BY <1>2 DEF SetToSeq, n
<1>4. SetToSeq(S) \in Injection(1 .. n, S)
  BY <1>3 DEF Injection
<1>5. Cardinality(1 .. n) = n
  BY <1>1, FS_Interval
<1>6. SetToSeq(S) \in Surjection(1 .. n, S)
  BY <1>4, <1>5, FS_Injection DEF n
<1>7. QED
  BY <1>1, <1>3, <1>6 DEF Surjection, n

\* r[e] are the elements up to e in an order of S.
Ordering(S, r) ==
  /\ r \in [S -> SUBSET S]
  /\ \A e \in S : e \in r[e]
  /\ \A e, f \in S : f \in r[e] => r[f] \subseteq r[e]
  /\ \A e, f \in S : e \in r[f] \/ f \in r[e]
  /\ \A e, f \in S : e \in r[f] /\ f \in r[e] => e = f

Filled(S, r) == \A i \in 1 .. Cardinality(S) : \E e \in S : Cardinality(r[e]) = i

\* Their numbers are the places 1, 2, ... of the elements.
LEMMA Ranks ==
  ASSUME NEW S, IsFiniteSet(S), NEW r, Ordering(S, r)
  PROVE  /\ \A e \in S : Cardinality(r[e]) \in 1 .. Cardinality(S)
         /\ \A e, f \in S : Cardinality(r[e]) = Cardinality(r[f]) => e = f
         /\ Filled(S, r)
<1> DEFINE n == Cardinality(S)
           p == [e \in S |-> Cardinality(r[e])]
<1> USE DEF Ordering
<1>1. n \in Nat
  BY FS_CardinalityType
<1>2. ASSUME NEW e \in S
      PROVE  IsFiniteSet(r[e]) /\ Cardinality(r[e]) \in 1 .. n
  <2>1. r[e] \in SUBSET S /\ e \in r[e]
    OBVIOUS
  <2>2. IsFiniteSet(r[e]) /\ Cardinality(r[e]) <= n
    BY <2>1, FS_Subset
  <2>3. Cardinality(r[e]) \in Nat /\ Cardinality(r[e]) # 0
    BY <2>1, <2>2, FS_CardinalityType, FS_EmptySet
  <2> HIDE DEF n
  <2>4. QED
    BY <1>1, <2>2, <2>3
<1>3. ASSUME NEW e \in S, NEW f \in S, Cardinality(r[e]) = Cardinality(r[f])
      PROVE  e = f
  <2>1. CASE f \in r[e]
    <3>1. r[f] \in SUBSET r[e]
      BY <2>1
    <3>2. r[e] = r[f]
      BY <1>2, <1>3, <3>1, FS_Subset
    <3>3. QED
      BY <2>1, <3>2
  <2>2. CASE e \in r[f]
    <3>1. r[e] \in SUBSET r[f]
      BY <2>2
    <3>2. r[e] = r[f]
      BY <1>2, <1>3, <3>1, FS_Subset
    <3>3. QED
      BY <2>2, <3>2
  <2>3. QED
    BY <2>1, <2>2
<1> HIDE DEF n
<1>4. p \in [S -> 1 .. n] /\ \A e \in S : p[e] = Cardinality(r[e])
  BY <1>2
<1>5. IsInjective(p)
  <2> HIDE DEF p
  <2>1. DOMAIN p = S
    BY <1>4
  <2>2. QED
    BY <1>3, <1>4, <2>1 DEF IsInjective
<1> HIDE DEF p
<1>6. p \in Injection(S, 1 .. n)
  BY <1>4, <1>5 DEF Injection
<1>7. IsFiniteSet(1 .. n) /\ Cardinality(1 .. n) = n
  BY <1>1, FS_Interval
<1>8. p \in Surjection(S, 1 .. n)
  BY <1>6, <1>7, FS_Injection DEF n
<1>9. QED
  BY <1>2, <1>3, <1>4, <1>8 DEF Surjection, Filled, n

\* The categories come in their order, and each has its entries in theirs.
LEMMA InOrderLists ==
  ASSUME NEW S \in SUBSET Entries
  PROVE  /\ Cardinality(S) \in Nat /\ InOrder(S) \in [1 .. Cardinality(S) -> S]
         /\ \A e \in S : \E i \in 1 .. Cardinality(S) : InOrder(S)[i] = e
<1> DEFINE n == Cardinality(S)
           r == [e \in S |-> {f \in S : f = e \/ ReadBefore(f, e)}]
<1>1. IsFiniteSet(S) /\ n \in Nat
  BY FS_Subset, FS_CardinalityType
<1>2. \A e \in S : CategoryIndex(e) \in Nat /\ e \in Nat
  <2> SUFFICES ASSUME NEW e \in S PROVE CategoryIndex(e) \in Nat /\ e \in Nat
    OBVIOUS
  <2>1. DOMAIN Categories = 1 .. 4
    BY DEF Categories
  <2>2. \E i \in DOMAIN Categories : Categories[i] = Category[e]
    BY DEF Range
  <2>3. CategoryIndex(e) \in 1 .. 4
    BY <2>1, <2>2 DEF CategoryIndex
  <2>4. QED
    BY <2>3
<1>3. r \in [S -> SUBSET S] /\ \A e \in S : e \in r[e] /\ \A f \in S : f \in r[e] <=> f = e \/ ReadBefore(f, e)
  OBVIOUS
<1> HIDE DEF r, n
<1>4. \A e, f \in S : ReadBefore(e, f) \/ ReadBefore(f, e) \/ e = f
  BY <1>2 DEF ReadBefore
<1>5. \A e, f \in S : ~ (ReadBefore(e, f) /\ ReadBefore(f, e))
  BY <1>2 DEF ReadBefore
<1>6. \A e, f, g \in S : ReadBefore(e, f) /\ ReadBefore(f, g) => ReadBefore(e, g)
  BY <1>2 DEF ReadBefore
<1>7. \A e, f \in S : f \in r[e] => r[f] \subseteq r[e]
  BY <1>3, <1>6
<1>8. \A e, f \in S : e \in r[f] \/ f \in r[e]
  BY <1>3, <1>4
<1>9. \A e, f \in S : e \in r[f] /\ f \in r[e] => e = f
  BY <1>3, <1>5
<1>10. \A e \in S : e \in r[e]
  BY <1>3
<1>11. /\ \A e \in S : Cardinality(r[e]) \in 1 .. n
       /\ \A e, f \in S : Cardinality(r[e]) = Cardinality(r[f]) => e = f
       /\ \A i \in 1 .. n : \E e \in S : Cardinality(r[e]) = i
  <2>1. Ordering(S, r)
    BY <1>3, <1>7, <1>8, <1>9, <1>10 DEF Ordering
  <2>2. IsFiniteSet(S)
    BY <1>1
  <2>3. \A e \in S : Cardinality(r[e]) \in 1 .. Cardinality(S)
    BY <2>1, <2>2, Ranks
  <2>4. \A e, f \in S : Cardinality(r[e]) = Cardinality(r[f]) => e = f
    BY <2>1, <2>2, Ranks
  <2>5. Filled(S, r)
    BY <2>1, <2>2, Ranks
  <2>6. QED
    BY <2>3, <2>4, <2>5 DEF Filled, n
<1>12. \A e \in S : Place(S, e) = Cardinality(r[e])
  BY DEF Place, r
<1>13. InOrder(S) = [i \in 1 .. n |-> CHOOSE e \in S : Place(S, e) = i]
  BY DEF InOrder, n
<1>14. \A i \in 1 .. n : InOrder(S)[i] \in S /\ Place(S, InOrder(S)[i]) = i
  BY <1>11, <1>12, <1>13
<1>15. InOrder(S) \in [1 .. n -> S]
  BY <1>13, <1>14
<1>16. ASSUME NEW e \in S PROVE \E i \in 1 .. n : InOrder(S)[i] = e
  <2>1. Place(S, e) \in 1 .. n
    BY <1>11, <1>12
  <2>2. Place(S, InOrder(S)[Place(S, e)]) = Place(S, e) /\ InOrder(S)[Place(S, e)] \in S
    BY <1>14, <2>1
  <2>3. InOrder(S)[Place(S, e)] = e
    BY <1>11, <1>12, <2>2
  <2>4. QED
    BY <2>1, <2>3
<1>17. QED
  BY <1>1, <1>15, <1>16 DEF n

MergeOfDomain == [merge |-> {Domain}, link |-> {}]

\* A statement that merges an entry merges its relationship with the domain.
Attaching(q) == \A e \in q.merge \cap Entries : DomainEdge(e) \in q.link

LEMMA SnapshotFinite ==
  ASSUME NEW s \in Snapshot
  PROVE  /\ IsFiniteSet(s.entries) /\ Cardinality(s.entries) \in Nat
         /\ IsFiniteSet(s.shown \cup s.listed)
<1>1. s.entries \in SUBSET Entries /\ s.shown \cup s.listed \in SUBSET Members
  BY DEF Snapshot
<1>2. IsFiniteSet(s.entries) /\ IsFiniteSet(s.shown \cup s.listed)
  BY <1>1, FS_Subset
<1>3. QED
  BY <1>2, FS_CardinalityType

LinkOf(m, s) == [merge |-> {}, link |-> {MemberEdge(x) : x \in {m} \cap Spelled(s)}]

\* The statements of a snapshot: the domain, the n entries in the order o, and the m
\* memberships in the order k.
Laid(q, s, n, m, o, k) ==
  /\ q \in Seq(Statement) /\ DOMAIN q = 1 .. n + m + 1
  /\ q[1] = MergeOfDomain
  /\ \A i \in 1 .. n : q[i + 1] = Entry(o[i])
  /\ \A i \in 1 .. m : q[n + i + 1] = LinkOf(k[i], s)
  /\ o \in [1 .. n -> s.entries] /\ \A e \in s.entries : \E i \in 1 .. n : o[i] = e
  /\ k \in [1 .. m -> s.shown \cup s.listed]
  /\ \A x \in s.shown \cup s.listed : \E i \in 1 .. m : k[i] = x

LEMMA EntryTyped ==
  ASSUME NEW e \in Entries
  PROVE  Entry(e) \in Statement
<1>1. DomainEdge(e) \in Edges
  BY DEF DomainEdge, Edges
<1>2. QED
  BY <1>1 DEF Entry, Statement

LEMMA LinkTyped ==
  ASSUME NEW m \in Members, NEW s
  PROVE  LinkOf(m, s) \in Statement
<1>1. \A x \in {m} : MemberEdge(x) \in Edges
  BY DEF MemberEdge, Edges
<1>2. {MemberEdge(x) : x \in {m} \cap Spelled(s)} \in SUBSET Edges
  BY <1>1
<1>3. QED
  BY <1>2 DEF LinkOf, Statement

LEMMA StatementsAre ==
  ASSUME NEW s \in Snapshot
  PROVE  \E n, m \in Nat : \E o, k : Laid(Statements(s), s, n, m, o, k)
<1> DEFINE a == MergeDomain
           b == MergeEntries(s)
           c == MergeMemberships(s)
           o == InOrder(s.entries)
           K == s.shown \cup s.listed
           k == SetToSeq(K)
           n == Cardinality(s.entries)
           m == Cardinality(K)
<1>1. s.entries \in SUBSET Entries /\ K \in SUBSET Members /\ IsFiniteSet(K)
  BY SnapshotFinite DEF Snapshot
<1>2. n \in Nat /\ o \in [1 .. n -> s.entries] /\ \A e \in s.entries : \E i \in 1 .. n : o[i] = e
  BY <1>1, InOrderLists
<1>3. m \in Nat /\ k \in [1 .. m -> K] /\ \A x \in K : \E i \in 1 .. m : k[i] = x
  BY <1>1, ListsAll
<1>4. a \in Seq(Statement) /\ Len(a) = 1 /\ a[1] = MergeOfDomain
  <2>1. MergeOfDomain \in Statement
    BY DEF MergeOfDomain, Statement
  <2>2. a = <<MergeOfDomain>>
    BY DEF MergeDomain, MergeOfDomain
  <2>3. QED
    BY <2>1, <2>2
<1> HIDE DEF n, m, o, k, a, K
<1>5. b \in Seq(Statement) /\ Len(b) = n /\ \A i \in 1 .. n : b[i] = Entry(o[i])
  <2>1. b = [i \in 1 .. n |-> Entry(o[i])]
    BY DEF MergeEntries, n, o
  <2>2. ASSUME NEW i \in 1 .. n PROVE b[i] = Entry(o[i]) /\ b[i] \in Statement
    <3>1. b[i] = Entry(o[i])
      BY <2>1
    <3>2. o[i] \in Entries
      BY <1>1, <1>2
    <3>3. Entry(o[i]) \in Statement
      BY <3>2, EntryTyped
    <3>4. QED
      BY <3>1, <3>3, Zenon
  <2>3. b = [i \in 1 .. n |-> b[i]]
    BY <2>1
  <2> HIDE DEF b
  <2>4. QED
    BY <1>2, <2>2, <2>3, ListIsSeq
<1>6. c \in Seq(Statement) /\ Len(c) = m /\ \A i \in 1 .. m : c[i] = LinkOf(k[i], s)
  <2>1. DOMAIN k = 1 .. m
    BY <1>3
  <2>2. c = [i \in DOMAIN k |-> LinkOf(k[i], s)]
    BY DEF MergeMemberships, LinkOf, k, K
  <2>3. ASSUME NEW i \in 1 .. m PROVE c[i] = LinkOf(k[i], s) /\ c[i] \in Statement
    <3>1. c[i] = LinkOf(k[i], s)
      BY <2>1, <2>2
    <3>2. k[i] \in Members
      BY <1>1, <1>3
    <3>3. QED
      BY <3>1, <3>2, LinkTyped
  <2>4. c = [i \in 1 .. m |-> c[i]]
    BY <2>1, <2>2
  <2> HIDE DEF c
  <2>5. QED
    BY <1>3, <2>3, <2>4, ListIsSeq
<1> HIDE DEF b, c
<1> DEFINE d == a \o b
           q == d \o c
<1>7. /\ d \in Seq(Statement) /\ Len(d) = n + 1 /\ d[1] = MergeOfDomain
      /\ \A i \in 1 .. n : d[i + 1] = Entry(o[i])
  <2>1. /\ d \in Seq(Statement) /\ Len(d) = Len(a) + Len(b)
        /\ \A i \in 1 .. Len(a) + Len(b) : d[i] = IF i <= Len(a) THEN a[i] ELSE b[i - Len(a)]
    <3>1. a \in Seq(Statement) /\ b \in Seq(Statement)
      BY <1>4, <1>5
    <3>2. QED
      BY <3>1, ConcatProperties, SMT
  <2> HIDE DEF d
  <2>2. Len(d) = n + 1
    BY <1>2, <1>4, <1>5, <2>1
  <2>3. \A i \in 1 .. n + 1 : d[i] = IF i <= 1 THEN a[i] ELSE b[i - 1]
    BY <1>2, <1>4, <1>5, <2>1
  <2>4. d[1] = a[1]
    BY <1>2, <2>3
  <2>5. ASSUME NEW i \in 1 .. n PROVE d[i + 1] = Entry(o[i])
    <3>1. i + 1 \in 1 .. n + 1 /\ ~ (i + 1 <= 1) /\ (i + 1) - 1 = i
      BY <1>2
    <3>2. d[i + 1] = b[i]
      BY <2>3, <3>1
    <3>3. QED
      BY <1>5, <3>2
  <2>6. QED
    BY <1>4, <2>1, <2>2, <2>4, <2>5
<1> HIDE DEF d
<1>8. /\ q \in Seq(Statement) /\ Len(q) = n + m + 1
      /\ \A i \in 1 .. n + m + 1 : q[i] = IF i <= n + 1 THEN d[i] ELSE c[i - (n + 1)]
  <2>1. /\ q \in Seq(Statement) /\ Len(q) = Len(d) + Len(c)
        /\ \A i \in 1 .. Len(d) + Len(c) : q[i] = IF i <= Len(d) THEN d[i] ELSE c[i - Len(d)]
    <3>1. d \in Seq(Statement) /\ c \in Seq(Statement)
      BY <1>6, <1>7
    <3>2. QED
      BY <3>1, ConcatProperties, SMT
  <2>2. Len(d) + Len(c) = n + m + 1
    BY <1>2, <1>3, <1>6, <1>7
  <2> HIDE DEF q
  <2>3. QED
    BY <1>7, <2>1, <2>2
<1> HIDE DEF q
<1>9. DOMAIN q = 1 .. n + m + 1
  BY <1>8
<1>10. q[1] = MergeOfDomain
  <2>1. 1 \in 1 .. n + m + 1 /\ 1 <= n + 1
    BY <1>2, <1>3
  <2>2. QED
    BY <1>7, <1>8, <2>1
<1>11. ASSUME NEW i \in 1 .. n PROVE q[i + 1] = Entry(o[i])
  <2>1. i + 1 \in 1 .. n + m + 1 /\ i + 1 <= n + 1
    BY <1>2, <1>3
  <2>2. q[i + 1] = d[i + 1]
    BY <1>8, <2>1
  <2>3. QED
    BY <1>7, <2>2
<1>12. ASSUME NEW i \in 1 .. m PROVE q[n + i + 1] = LinkOf(k[i], s)
  <2>1. n + i + 1 \in 1 .. n + m + 1 /\ ~ (n + i + 1 <= n + 1) /\ (n + i + 1) - (n + 1) = i
    BY <1>2, <1>3
  <2>2. q[n + i + 1] = c[i]
    BY <1>8, <2>1
  <2>3. QED
    BY <1>6, <2>2
<1>13. Statements(s) = q
  BY DEF Statements, a, b, c, d, q
<1>14. Laid(q, s, n, m, o, k)
  BY <1>2, <1>3, <1>8, <1>9, <1>10, <1>11, <1>12 DEF Laid, K
<1>15. QED
  BY <1>2, <1>3, <1>13, <1>14

\* sync_directory_snapshot: the domain first, every entry with its relationship.
LEMMA StatementsAttach ==
  ASSUME NEW s \in Snapshot
  PROVE  /\ IsSeq(Statements(s)) /\ Statements(s) # <<>>
         /\ Statements(s)[1] = MergeOfDomain
         /\ \A i \in DOMAIN Statements(s) : Attaching(Statements(s)[i])
<1> DEFINE q == Statements(s)
<1>0. PICK n \in Nat, m \in Nat : \E o, k : Laid(q, s, n, m, o, k)
  BY StatementsAre
<1>1. PICK o, k : Laid(q, s, n, m, o, k)
  BY <1>0
<1> HIDE DEF q
<1>2. q \in Seq(Statement) /\ DOMAIN q = 1 .. n + m + 1 /\ q[1] = MergeOfDomain
  BY <1>1 DEF Laid
<1>3. IsSeq(q)
  BY <1>2, SeqIsSeq
<1>4. q # <<>>
  <2>1. 1 \in DOMAIN q /\ DOMAIN <<>> = {}
    BY <1>2
  <2>2. QED
    BY <2>1
<1>5. ASSUME NEW i \in DOMAIN q PROVE Attaching(q[i])
  <2>1. i = 1 \/ i - 1 \in 1 .. n \/ i - n - 1 \in 1 .. m
    BY <1>2
  <2>2. i = (i - 1) + 1 /\ i = n + (i - n - 1) + 1
    BY <1>2
  <2>3. CASE i = 1
    BY <1>2, <2>3 DEF Attaching, MergeOfDomain
  <2>4. CASE i - 1 \in 1 .. n
    <3>1. q[i] = Entry(o[i - 1])
      BY <1>1, <2>2, <2>4, Zenon DEF Laid
    <3>2. QED
      BY <3>1 DEF Attaching, Entry
  <2>5. CASE i - n - 1 \in 1 .. m
    <3>1. q[i] = LinkOf(k[i - n - 1], s)
      BY <1>1, <2>2, <2>5, Zenon DEF Laid
    <3>2. QED
      BY <3>1 DEF Attaching, LinkOf
  <2>6. QED
    BY <2>1, <2>3, <2>4, <2>5
<1>6. QED
  BY <1>2, <1>3, <1>4, <1>5 DEF q

LEMMA HoneyStatementsCover ==
  /\ IsSeq(HoneyStatements) /\ HoneyStatements \in Seq(Statement)
  /\ \A i \in DOMAIN HoneyStatements : /\ HoneyStatements[i].merge \subseteq Honey
                                       /\ HoneyStatements[i].link = {}
  /\ \A h \in Honey : \E i \in DOMAIN HoneyStatements : h \in HoneyStatements[i].merge
<1> DEFINE n == Cardinality(Honey)
           l == SetToSeq(Honey)
<1>1. n \in Nat /\ l \in [1 .. n -> Honey] /\ \A h \in Honey : \E i \in 1 .. n : l[i] = h
  BY ListsAll
<1> HIDE DEF n, l
<1>2. HoneyStatements = [i \in 1 .. n |-> [merge |-> {l[i]}, link |-> {}]]
  BY DEF HoneyStatements, n, l
<1> DEFINE S == {[merge |-> {h}, link |-> {}] : h \in Honey}
<1>3. \A i \in 1 .. n : HoneyStatements[i] = [merge |-> {l[i]}, link |-> {}]
  BY <1>2
<1>4. \A i \in 1 .. n : HoneyStatements[i] \in S
  BY <1>1, <1>3
<1>5. HoneyStatements = [i \in 1 .. n |-> HoneyStatements[i]]
  BY <1>2
<1> HIDE DEF S
<1>6. HoneyStatements \in Seq(S) /\ DOMAIN HoneyStatements = 1 .. n
  BY <1>1, <1>4, <1>5, ListIsSeq
<1>7. HoneyStatements \in Seq(Statement)
  <2>1. ASSUME NEW i \in 1 .. n PROVE HoneyStatements[i] \in Statement
    <3>1. {l[i]} \in SUBSET (Entries \cup Honey \cup {Domain}) /\ {} \in SUBSET Edges
      BY <1>1
    <3>2. [merge |-> {l[i]}, link |-> {}] \in Statement
      BY <3>1 DEF Statement
    <3>3. QED
      BY <1>3, <3>2
  <2>2. QED
    BY <1>1, <1>5, <2>1, ListIsSeq
<1>8. IsSeq(HoneyStatements)
  BY <1>6, SeqIsSeq
<1>9. ASSUME NEW i \in 1 .. n
      PROVE  HoneyStatements[i].merge = {l[i]} /\ HoneyStatements[i].link = {}
  <2>1. HoneyStatements[i] = [merge |-> {l[i]}, link |-> {}]
    BY <1>3
  <2> HIDE DEF HoneyStatements
  <2>2. QED
    BY <2>1
<1>10. QED
  BY <1>1, <1>6, <1>7, <1>8, <1>9

-----------------------------------------------------------------------------
(***************************************************************************)
(* The inductive invariant of reading and writing                          *)
(***************************************************************************)

Typed ==
  /\ directory \subseteq Entries
  /\ step \in [Threads -> {"idle", "search", "health", "delete", "write"}]
  /\ call \in [Threads -> Calls \cup {NoCall}]
  /\ cat \in [Threads -> 1 .. Len(Categories)]
  /\ page \in [Threads -> SUBSET Entries]
  /\ snap \in [Threads -> Snapshot]
  /\ queries = [t \in Threads |-> queries[t]]
  /\ \A t \in Threads : IsSeq(queries[t])
  /\ failed \in [Threads -> BOOLEAN] /\ steady \in [Threads -> BOOLEAN]
  /\ crossed \in BOOLEAN /\ synced \in BOOLEAN

\* What a call works on at its steps.
Calling ==
  \A t \in Threads :
    /\ step[t] = "idle" => call[t] = NoCall /\ snap[t] = NoEntries
    /\ step[t] # "search" => cat[t] = 1 /\ page[t] = {}
    /\ step[t] \in {"search", "health", "delete"} => call[t].import

\* The statements a call has still to run.
Planned ==
  \A t \in Threads :
    /\ step[t] \in {"delete", "write"} /\ call[t].import =>
         \A i \in DOMAIN queries[t] : Attaching(queries[t][i])
    /\ step[t] = "delete" => queries[t] # <<>> /\ queries[t][1] = MergeOfDomain
    /\ step[t] = "write" /\ ~ call[t].import =>
         \A i \in DOMAIN queries[t] : queries[t][i].merge \subseteq Honey

\* The domain node is there, or is merged next.
Attached ==
  ~ crossed =>
    /\ \A e \in nodes \cap Entries : DomainEdge(e) \in edges
    /\ \A t \in Threads :
         step[t] = "write" /\ call[t].import /\ queries[t] # <<>> =>
           Domain \in nodes \/ queries[t][1] = MergeOfDomain

\* A sync that has not failed still merges the honey objects that are missing.
Pledged ==
  /\ HoneyStays
  /\ \A t \in Threads :
       step[t] = "write" /\ ~ call[t].import /\ ~ failed[t] =>
         \A h \in Honey \ nodes : \E i \in DOMAIN queries[t] : h \in queries[t][i].merge

IInv == Typed /\ Calling /\ Planned /\ Attached /\ Pledged

LEMMA NothingYet ==
  /\ NoCall \in Calls \cup {NoCall} /\ ~ NoCall.import
  /\ NoEntries \in Snapshot /\ NoEntries.entries = {} /\ ~ NoEntries.truncated
  /\ IsSeq(<<>>) /\ DOMAIN <<>> = {}
  /\ Len(Categories) = 4
<1>1. IsSeq(<<>>)
  BY DEF IsSeq
<1>2. QED
  BY <1>1 DEF NoCall, NoEntries, Snapshot, Categories

LEMMA InitHolds == Init => IInv
<1> SUFFICES ASSUME Init PROVE IInv
  OBVIOUS
<1>1. Typed
  <2>1. directory \subseteq Entries
    BY DEF Init
  <2>2. /\ step \in [Threads -> {"idle", "search", "health", "delete", "write"}]
        /\ call \in [Threads -> Calls \cup {NoCall}]
        /\ page \in [Threads -> SUBSET Entries]
        /\ snap \in [Threads -> Snapshot]
        /\ failed \in [Threads -> BOOLEAN] /\ steady \in [Threads -> BOOLEAN]
        /\ crossed \in BOOLEAN /\ synced \in BOOLEAN
    BY NothingYet DEF Init
  <2>3. cat \in [Threads -> 1 .. Len(Categories)]
    BY NothingYet DEF Init
  <2>4. queries = [t \in Threads |-> queries[t]] /\ \A t \in Threads : IsSeq(queries[t])
    BY NothingYet DEF Init
  <2>5. QED
    BY <2>1, <2>2, <2>3, <2>4 DEF Typed
<1>2. Calling
  BY DEF Init, Calling
<1>3. Planned
  BY DEF Init, Planned
<1>4. Attached
  BY DEF Init, Attached
<1>5. Pledged
  BY DEF Init, Pledged, HoneyStays
<1>6. QED
  BY <1>1, <1>2, <1>3, <1>4, <1>5 DEF IInv

\* Nothing of the graph is at stake in a step of a call that reads, or ends.
LEMMA ReadingKeeps ==
  ASSUME IInv, NEW t \in Threads, UNCHANGED <<nodes, edges, crossed, synced>>,
         step'[t] \in {"idle", "search", "health"},
         \A u \in Threads \ {t} : /\ step'[u] = step[u] /\ call'[u] = call[u]
                                  /\ queries'[u] = queries[u] /\ failed'[u] = failed[u]
  PROVE  Planned' /\ Attached' /\ Pledged'
<1>1. Planned'
  BY DEF IInv, Planned
<1>2. Attached'
  BY DEF IInv, Attached
<1>3. Pledged'
  BY DEF IInv, Pledged, HoneyStays
<1>4. QED
  BY <1>1, <1>2, <1>3

LEMMA ReturnClears ==
  ASSUME Typed, NEW t \in Threads, Return(t)
  PROVE  /\ step' \in [Threads -> {"idle", "search", "health", "delete", "write"}]
         /\ call' \in [Threads -> Calls \cup {NoCall}]
         /\ snap' \in [Threads -> Snapshot]
         /\ queries' = [u \in Threads |-> queries'[u]]
         /\ \A u \in Threads : IsSeq(queries'[u])
         /\ failed' \in [Threads -> BOOLEAN]
         /\ step'[t] = "idle" /\ call'[t] = NoCall /\ snap'[t] = NoEntries
         /\ \A u \in Threads \ {t} : /\ step'[u] = step[u] /\ call'[u] = call[u]
                                     /\ snap'[u] = snap[u]
                                     /\ queries'[u] = queries[u] /\ failed'[u] = failed[u]
<1>1. /\ step' \in [Threads -> {"idle", "search", "health", "delete", "write"}]
      /\ call' \in [Threads -> Calls \cup {NoCall}]
      /\ snap' \in [Threads -> Snapshot]
      /\ failed' \in [Threads -> BOOLEAN]
  BY NothingYet DEF Return, Typed
<1>2. queries' = [queries EXCEPT ![t] = <<>>]
  BY DEF Return
<1>3. \A u \in Threads : queries'[u] = IF u = t THEN <<>> ELSE queries[u]
  BY <1>2 DEF Typed
<1>4. queries' = [u \in Threads |-> queries'[u]]
  BY <1>2 DEF Typed
<1>5. QED
  BY <1>1, <1>3, <1>4, NothingYet DEF Return, Typed

LEMMA ImportKeeps ==
  ASSUME IInv, NEW t \in Threads, NEW c \in Calls, Import(t, c)
  PROVE  IInv'
<1>1. /\ step[t] = "idle" /\ step' = [step EXCEPT ![t] = "search"]
      /\ call' = [call EXCEPT ![t] = c] /\ c.import
      /\ steady' = [steady EXCEPT ![t] = TRUE]
      /\ UNCHANGED <<directory, graph, cat, page, snap, queries, failed,
                     changes, crossed, mirror, synced>>
  BY DEF Import, Calls
<1>2. Typed'
  BY <1>1 DEF IInv, Typed
<1>3. Calling'
  BY <1>1 DEF IInv, Typed, Calling
<1>4. Planned' /\ Attached' /\ Pledged'
  <2>1. step'[t] = "search" /\ \A u \in Threads \ {t} :
          step'[u] = step[u] /\ call'[u] = call[u]
    BY <1>1 DEF IInv, Typed
  <2>2. QED
    BY <1>1, <2>1, ReadingKeeps
<1>5. QED
  BY <1>2, <1>3, <1>4 DEF IInv

\* What the snapshot gains from a category is typed.
LEMMA GainTyped ==
  ASSUME NEW s \in Snapshot, NEW c, NEW got \in SUBSET Entries
  PROVE  Gain(s, c, got) \in Snapshot
<1> DEFINE there == {m \in Members : {m.entry, m.group} \subseteq directory}
           sh == IF c = "users" THEN {m \in there : m.entry \in got /\ m.shown} ELSE s.shown
           li == IF c = "groups" THEN {m \in there : m.group \in got} ELSE s.listed
           tr == s.truncated \/ Capped(got)
<1>1. sh \in SUBSET Members /\ li \in SUBSET Members
  BY DEF Snapshot
<1>2. tr \in BOOLEAN
  BY Zenon
<1>3. s.entries \cup got \in SUBSET Entries
  BY DEF Snapshot
<1>4. Gain(s, c, got) = [entries |-> s.entries \cup got, shown |-> sh, listed |-> li,
                         truncated |-> tr]
  BY DEF Gain
<1> HIDE DEF sh, li, tr
<1>5. QED
  BY <1>1, <1>2, <1>3, <1>4 DEF Snapshot

LEMMA CategoryEnds ==
  ASSUME IInv, NEW t \in Threads, NEW got \in SUBSET Entries, step[t] = "search",
         EndCategory(t, got), UNCHANGED <<directory, graph, crossed, synced>>,
         steady' \in [Threads -> BOOLEAN]
  PROVE  IInv'
<1> DEFINE s == Gain(snap[t], Categories[cat[t]], got)
           last == cat[t] = Len(Categories) \/ (LabMode /\ cat[t] + 1 = Len(Categories))
<1>1. s \in Snapshot
  BY GainTyped DEF IInv, Typed
<1> HIDE DEF s
<1>2. /\ page' = [page EXCEPT ![t] = {}]
      /\ cat' = [cat EXCEPT ![t] = IF last THEN 1 ELSE @ + 1]
      /\ IF last /\ ~ call[t].sync
         THEN Return(t)
         ELSE /\ snap' = [snap EXCEPT ![t] = s]
              /\ step' = [step EXCEPT ![t] = IF last THEN "health" ELSE "search"]
              /\ UNCHANGED <<call, queries, failed>>
  BY DEF EndCategory, s
<1>3. /\ cat' \in [Threads -> 1 .. Len(Categories)] /\ page' \in [Threads -> SUBSET Entries]
      /\ last => cat'[t] = 1
      /\ page'[t] = {}
      /\ \A u \in Threads \ {t} : cat'[u] = cat[u] /\ page'[u] = page[u]
  <2>1. /\ cat \in [Threads -> 1 .. 4] /\ page \in [Threads -> SUBSET Entries]
        /\ Len(Categories) = 4
    BY NothingYet DEF IInv, Typed
  <2>2. (IF last THEN 1 ELSE cat[t] + 1) \in 1 .. 4
    BY <2>1
  <2>3. cat' = [cat EXCEPT ![t] = IF last THEN 1 ELSE cat[t] + 1]
    BY <1>2
  <2>4. cat' \in [Threads -> 1 .. 4] /\ cat'[t] = IF last THEN 1 ELSE cat[t] + 1
    BY <2>1, <2>2, <2>3
  <2>5. QED
    BY <1>2, <2>1, <2>3, <2>4
<1>4. CASE last /\ ~ call[t].sync
  <2>1. Typed'
    BY <1>2, <1>3, <1>4, ReturnClears DEF IInv, Typed
  <2>2. Calling'
    BY <1>2, <1>3, <1>4, ReturnClears DEF IInv, Calling
  <2>3. Planned' /\ Attached' /\ Pledged'
    BY <1>2, <1>4, ReturnClears, ReadingKeeps DEF IInv
  <2>4. QED
    BY <2>1, <2>2, <2>3 DEF IInv
<1>5. CASE ~ (last /\ ~ call[t].sync)
  <2>1. /\ snap' = [snap EXCEPT ![t] = s]
        /\ step' = [step EXCEPT ![t] = IF last THEN "health" ELSE "search"]
        /\ UNCHANGED <<call, queries, failed>>
    BY <1>2, <1>5
  <2>2. /\ step'[t] = IF last THEN "health" ELSE "search"
        /\ \A u \in Threads \ {t} : step'[u] = step[u] /\ snap'[u] = snap[u]
    BY <2>1 DEF IInv, Typed
  <2>3. Typed'
    BY <1>1, <1>3, <2>1 DEF IInv, Typed
  <2>4. Calling'
    BY <1>3, <2>1, <2>2 DEF IInv, Calling
  <2>5. Planned' /\ Attached' /\ Pledged'
    BY <2>1, <2>2, ReadingKeeps
  <2>6. QED
    BY <2>3, <2>4, <2>5 DEF IInv
<1>6. QED
  BY <1>4, <1>5

LEMMA SearchKeeps ==
  ASSUME IInv, NEW t \in Threads, Search(t) \/ SearchFails(t)
  PROVE  IInv'
<1> DEFINE c == Categories[cat[t]]
           got == page[t] \cup First(PageLength(page[t]), Rest(c, page[t]))
<1>1. step[t] = "search" /\ page[t] \in SUBSET Entries /\ got \in SUBSET Entries
  BY DEF Search, SearchFails, IInv, Typed, First, Rest
<1>2. CASE SearchFails(t)
  <2>1. steady' \in [Threads -> BOOLEAN]
    BY <1>2 DEF SearchFails, IInv, Typed
  <2>2. QED
    BY <1>1, <1>2, <2>1, CategoryEnds DEF SearchFails
<1>3. CASE Search(t) /\ (Rest(c, got) = {} \/ Cardinality(got) >= Cap)
  <2> HIDE DEF got
  <2>1. EndCategory(t, got) /\ UNCHANGED <<directory, graph, history>>
    BY <1>3 DEF Search, got
  <2>2. steady' \in [Threads -> BOOLEAN]
    BY <2>1 DEF IInv, Typed
  <2>3. QED
    BY <1>1, <2>1, <2>2, CategoryEnds
<1>4. CASE Search(t) /\ ~ (Rest(c, got) = {} \/ Cardinality(got) >= Cap)
  <2> HIDE DEF got
  <2>1. /\ page' = [page EXCEPT ![t] = got]
        /\ UNCHANGED <<step, call, cat, snap, queries, failed, directory, graph, history>>
    BY <1>4 DEF Search, got
  <2>2. Typed'
    BY <1>1, <2>1 DEF IInv, Typed
  <2>3. Calling'
    BY <1>1, <2>1 DEF IInv, Typed, Calling
  <2>4. Planned' /\ Attached' /\ Pledged'
    BY <1>1, <2>1, ReadingKeeps
  <2>5. QED
    BY <2>2, <2>3, <2>4 DEF IInv
<1>5. QED
  BY <1>2, <1>3, <1>4
LEMMA GiveUpKeeps ==
  ASSUME IInv, NEW t \in Threads, GiveUp(t)
  PROVE  IInv'
<1>1. /\ Return(t) /\ page' = [page EXCEPT ![t] = {}] /\ cat' = [cat EXCEPT ![t] = 1]
      /\ UNCHANGED <<directory, graph, history>>
  BY DEF GiveUp
<1>2. /\ cat' \in [Threads -> 1 .. Len(Categories)] /\ page' \in [Threads -> SUBSET Entries]
      /\ cat'[t] = 1 /\ page'[t] = {}
      /\ \A u \in Threads \ {t} : cat'[u] = cat[u] /\ page'[u] = page[u]
  BY <1>1, NothingYet DEF IInv, Typed
<1>3. Typed'
  BY <1>1, <1>2, ReturnClears DEF IInv, Typed
<1>4. Calling'
  BY <1>1, <1>2, ReturnClears DEF IInv, Calling
<1>5. Planned' /\ Attached' /\ Pledged'
  BY <1>1, ReturnClears, ReadingKeeps DEF IInv
<1>6. QED
  BY <1>3, <1>4, <1>5 DEF IInv

LEMMA HealthKeeps ==
  ASSUME IInv, NEW t \in Threads, Health(t)
  PROVE  IInv'
<1> DEFINE q == Statements(snap[t])
<1>1. /\ step[t] = "health" /\ queries' = [queries EXCEPT ![t] = q]
      /\ UNCHANGED <<directory, graph, call, cat, page, snap, failed, history>>
      /\ call[t].import
  BY DEF Health, IInv, Calling
<1>2. \E x \in {"delete", "write"} : step' = [step EXCEPT ![t] = x]
  BY DEF Health
<1>3. /\ IsSeq(q) /\ q # <<>> /\ q[1] = MergeOfDomain
      /\ \A i \in DOMAIN q : Attaching(q[i])
  BY StatementsAttach DEF IInv, Typed
<1> HIDE DEF q
<1>4. /\ step'[t] \in {"delete", "write"} /\ queries'[t] = q
      /\ \A u \in Threads \ {t} : step'[u] = step[u] /\ queries'[u] = queries[u]
  BY <1>1, <1>2 DEF IInv, Typed
<1>5. Typed'
  <2>1. step' \in [Threads -> {"idle", "search", "health", "delete", "write"}]
    BY <1>2 DEF IInv, Typed
  <2>2. queries' = [u \in Threads |-> queries'[u]]
    BY <1>1 DEF IInv, Typed
  <2>3. \A u \in Threads : IsSeq(queries'[u])
    BY <1>3, <1>4 DEF IInv, Typed
  <2>4. QED
    BY <1>1, <2>1, <2>2, <2>3 DEF IInv, Typed
<1>6. Calling'
  BY <1>1, <1>4 DEF IInv, Calling
<1>7. Planned'
  BY <1>1, <1>3, <1>4 DEF IInv, Planned
<1>8. Attached'
  BY <1>1, <1>3, <1>4 DEF IInv, Attached
<1>9. Pledged'
  BY <1>1, <1>4 DEF IInv, Pledged, HoneyStays
<1>10. QED
  BY <1>5, <1>6, <1>7, <1>8, <1>9 DEF IInv

\* Whatever was imported goes; while another import writes, the two have crossed.
LEMMA DeleteKeeps ==
  ASSUME IInv, NEW t \in Threads, Delete(t) \/ DeleteFails(t)
  PROVE  IInv'
<1>1. /\ step[t] = "delete" /\ call[t].import /\ step' = [step EXCEPT ![t] = "write"]
      /\ UNCHANGED <<directory, call, cat, page, snap, steady, synced>>
      /\ ~ crossed' => ~ OthersWrite(t)
  BY DEF Delete, DeleteFails, IInv, Calling
<1>2. \/ nodes' = nodes \cap Honey /\ edges' = {l \in edges : {l[2], l[3]} \subseteq Kept}
      \/ UNCHANGED graph /\ (crossed => crossed')
  BY DEF Delete, DeleteFails, Kept
<1>3. queries' = queries \/ queries' = [queries EXCEPT ![t] = <<>>]
  BY DEF Delete, DeleteFails
<1>4. /\ step'[t] = "write" /\ \A u \in Threads \ {t} : step'[u] = step[u] /\ queries'[u] = queries[u]
      /\ queries'[t] = queries[t] \/ queries'[t] = <<>>
  BY <1>1, <1>3 DEF IInv, Typed
<1>5. Typed'
  <2>1. failed' \in [Threads -> BOOLEAN]
    BY DEF Delete, DeleteFails, IInv, Typed
  <2>2. crossed' \in BOOLEAN
    BY Zenon DEF Delete, DeleteFails, IInv, Typed, OthersWrite
  <2>3. step' \in [Threads -> {"idle", "search", "health", "delete", "write"}]
    BY <1>1 DEF IInv, Typed
  <2>4. queries' = [u \in Threads |-> queries'[u]]
    BY <1>3 DEF IInv, Typed
  <2>5. \A u \in Threads : IsSeq(queries'[u])
    BY <1>4, NothingYet DEF IInv, Typed
  <2>6. QED
    BY <1>1, <2>1, <2>2, <2>3, <2>4, <2>5 DEF IInv, Typed
<1>6. Calling'
  BY <1>1, <1>4 DEF IInv, Calling
<1>7. Planned'
  BY <1>1, <1>4, NothingYet DEF IInv, Planned
<1>8. Attached'
  <2> SUFFICES ASSUME ~ crossed' PROVE Attached'
    BY DEF Attached
  <2>1. \A u \in Threads : step'[u] = "write" /\ call'[u].import => u = t
    BY <1>1, <1>4 DEF OthersWrite
  <2>2. queries'[t] # <<>> => queries'[t][1] = MergeOfDomain
    BY <1>1, <1>4 DEF IInv, Planned
  <2>3. \A e \in nodes' \cap Entries : DomainEdge(e) \in edges'
    <3>1. CASE nodes' = nodes \cap Honey
      BY <3>1
    <3>2. CASE UNCHANGED graph /\ ~ crossed
      BY <3>2 DEF IInv, Attached
    <3>3. QED
      BY <1>2, <3>1, <3>2
  <2>4. QED
    BY <2>1, <2>2, <2>3 DEF Attached
<1>9. Pledged'
  <2>1. nodes' \cap Honey = nodes \cap Honey
    BY <1>2
  <2>2. \A u \in Threads \ {t} : failed'[u] = failed[u]
    BY DEF Delete, DeleteFails, IInv, Typed
  <2>3. HoneyStays'
    BY <1>1, <2>1 DEF IInv, Pledged, HoneyStays
  <2>4. \A u \in Threads : step'[u] = "write" /\ ~ call'[u].import /\ ~ failed'[u] =>
          \A h \in Honey \ nodes' : \E i \in DOMAIN queries'[u] : h \in queries'[u][i].merge
    BY <1>1, <1>4, <2>1, <2>2 DEF IInv, Pledged
  <2>5. QED
    BY <2>3, <2>4 DEF Pledged
<1>10. QED
  BY <1>5, <1>6, <1>7, <1>8, <1>9 DEF IInv
\* A statement takes effect, or fails with its effect or without.
LEMMA WriteKeeps ==
  ASSUME IInv, NEW t \in Threads, Write(t) \/ WriteFails(t)
  PROVE  IInv'
<1> DEFINE s == queries[t]
<1>1. /\ step[t] = "write" /\ s # <<>> /\ IsSeq(s)
      /\ UNCHANGED <<directory, step, call, cat, page, snap, steady, synced>>
      /\ Noted(t)
  BY DEF Write, WriteFails, IInv, Typed
<1>2. Run(Head(s)) \/ (UNCHANGED graph /\ WriteFails(t))
  BY DEF Write, WriteFails
<1>3. \/ queries' = [queries EXCEPT ![t] = Tail(s)]
      \/ call[t].import /\ WriteFails(t) /\ queries' = [queries EXCEPT ![t] = <<>>]
  BY DEF Write, WriteFails, Remaining
<1>4. /\ IsSeq(Tail(s)) /\ Head(s) = s[1] /\ 1 \in DOMAIN s
      /\ \A i \in DOMAIN Tail(s) : i + 1 \in DOMAIN s /\ Tail(s)[i] = s[i + 1]
      /\ \A i \in DOMAIN s : i = 1 \/ (i - 1 \in DOMAIN Tail(s) /\ s[i] = Tail(s)[i - 1])
  BY <1>1, RestOfSeq
<1> HIDE DEF s
<1>5. /\ \A u \in Threads \ {t} : queries'[u] = queries[u]
      /\ queries'[t] = Tail(s) \/ (call[t].import /\ queries'[t] = <<>>)
  BY <1>3 DEF IInv, Typed
<1>6. nodes \subseteq nodes' /\ edges \subseteq edges'
      /\ nodes' \subseteq nodes \cup Head(s).merge
  BY <1>2 DEF Run
<1>7. Typed'
  <2>1. failed' \in [Threads -> BOOLEAN]
    BY DEF Write, WriteFails, IInv, Typed
  <2>2. crossed' \in BOOLEAN
    BY <1>1, Zenon DEF Noted, IInv, Typed, OthersWrite
  <2>3. queries' = [u \in Threads |-> queries'[u]]
    BY <1>3 DEF IInv, Typed
  <2>4. \A u \in Threads : IsSeq(queries'[u])
    BY <1>4, <1>5, NothingYet DEF IInv, Typed
  <2>5. QED
    BY <1>1, <2>1, <2>2, <2>3, <2>4 DEF IInv, Typed
<1>8. Calling'
  BY <1>1 DEF IInv, Calling
<1>9. Planned'
  <2>1. ASSUME NEW u \in Threads, NEW i \in DOMAIN queries'[u]
        PROVE  \E j \in DOMAIN queries[u] : queries'[u][i] = queries[u][j]
    <3>1. CASE u = t
      <4>1. queries'[u] # <<>>
        BY <2>1, NothingYet
      <4>2. queries[u] = s /\ queries'[u] = Tail(s)
        BY <1>5, <3>1, <4>1 DEF s
      <4>3. i \in DOMAIN Tail(s)
        BY <2>1, <4>2
      <4>4. i + 1 \in DOMAIN queries[u] /\ queries'[u][i] = queries[u][i + 1]
        BY <1>4, <4>2, <4>3
      <4>5. QED
        BY <4>4
    <3>2. CASE u # t
      BY <1>5, <2>1, <3>2
    <3>3. QED
      BY <3>1, <3>2
  <2>2. QED
    BY <1>1, <1>5, <2>1 DEF IInv, Planned
<1>10. Attached'
  <2> SUFFICES ASSUME ~ crossed' PROVE Attached'
    BY DEF Attached
  <2>1. ~ crossed /\ (call[t].import => ~ OthersWrite(t))
    BY <1>1 DEF Noted
  <2>2. CASE call[t].import
    <3>1. \A u \in Threads : step'[u] = "write" /\ call'[u].import => u = t
      BY <1>1, <2>1, <2>2 DEF OthersWrite
    <3>2. /\ Domain \in nodes \/ Head(s) = MergeOfDomain
          /\ Attaching(Head(s))
          /\ \A e \in nodes \cap Entries : DomainEdge(e) \in edges
      BY <1>1, <1>4, <2>1, <2>2 DEF IInv, Planned, Attached, s
    <3>3. ASSUME NEW e \in nodes' \cap Entries PROVE DomainEdge(e) \in edges'
      <4>1. CASE e \in nodes
        BY <1>6, <3>2, <4>1
      <4>2. CASE e \notin nodes
        <5>1. e \in Head(s).merge /\ Run(Head(s))
          BY <1>2, <1>6, <4>2
        <5>2. Domain \in nodes
          BY <3>2, <5>1 DEF MergeOfDomain
        <5>3. DomainEdge(e) \in Head(s).link
          BY <3>2, <5>1 DEF Attaching
        <5>4. {DomainEdge(e)[2], DomainEdge(e)[3]} \subseteq nodes \cup Head(s).merge
          BY <5>1, <5>2 DEF DomainEdge
        <5>5. QED
          BY <5>1, <5>3, <5>4 DEF Run
      <4>3. QED
        BY <4>1, <4>2
    <3>4. Domain \in nodes' \/ queries'[t] = <<>>
      <4>1. CASE Run(Head(s))
        BY <3>2, <4>1 DEF Run, MergeOfDomain
      <4>2. CASE UNCHANGED graph /\ WriteFails(t)
        BY <2>2, <4>2 DEF WriteFails, Remaining, IInv, Typed
      <4>3. QED
        BY <1>2, <4>1, <4>2
    <3>5. QED
      BY <3>1, <3>3, <3>4 DEF Attached
  <2>3. CASE ~ call[t].import
    <3>1. nodes' \cap Entries = nodes \cap Entries
      BY <1>1, <1>4, <1>6, <2>3 DEF IInv, Planned, s
    <3>2. \A u \in Threads : step'[u] = "write" /\ call'[u].import => u # t
      BY <1>1, <2>3
    <3>3. QED
      BY <1>1, <1>5, <1>6, <2>1, <3>1, <3>2 DEF IInv, Attached
  <2>4. QED
    BY <2>2, <2>3
<1>11. Pledged'
  <2>1. HoneyStays'
    BY <1>1, <1>6 DEF IInv, Pledged, HoneyStays
  <2>2. ASSUME NEW u \in Threads, step'[u] = "write", ~ call'[u].import, ~ failed'[u],
               NEW h \in Honey \ nodes'
        PROVE  \E i \in DOMAIN queries'[u] : h \in queries'[u][i].merge
    <3>1. CASE u = t
      <4>1. ~ WriteFails(t)
        BY <2>2, <3>1 DEF WriteFails, IInv, Typed
      <4>2. /\ ~ failed[t] /\ Run(Head(s)) /\ queries'[t] = Tail(s)
        BY <1>1, <1>2, <1>5, <2>2, <3>1, <4>1 DEF Write, IInv, Typed
      <4>3. PICK i \in DOMAIN s : h \in s[i].merge
        BY <1>1, <1>6, <2>2, <3>1, <4>2 DEF IInv, Pledged, s
      <4>4. i # 1
        BY <1>4, <2>2, <4>2, <4>3 DEF Run
      <4>5. QED
        BY <1>4, <3>1, <4>2, <4>3, <4>4
    <3>2. CASE u # t
      <4>1. failed'[u] = failed[u]
        BY <3>2 DEF Write, WriteFails, IInv, Typed
      <4>2. QED
        BY <1>1, <1>5, <1>6, <2>2, <3>2, <4>1 DEF IInv, Pledged
    <3>3. QED
      BY <3>1, <3>2
  <2>3. QED
    BY <2>1, <2>2 DEF Pledged
<1>12. QED
  BY <1>7, <1>8, <1>9, <1>10, <1>11 DEF IInv

LEMMA AnswerKeeps ==
  ASSUME IInv, NEW t \in Threads, Answer(t)
  PROVE  IInv'
<1>1. /\ step[t] = "write" /\ queries[t] = <<>> /\ Return(t)
      /\ synced' = (synced \/ (Succeeded(t) /\ ~ call[t].import))
      /\ UNCHANGED <<directory, graph, cat, page, steady, crossed>>
  BY DEF Answer
<1>2. Typed'
  <2>1. synced' \in BOOLEAN
    BY <1>1, Zenon DEF IInv, Typed
  <2>2. QED
    BY <1>1, <2>1, ReturnClears DEF IInv, Typed
<1>3. Calling'
  BY <1>1, ReturnClears DEF IInv, Calling
<1>4. Planned'
  BY <1>1, ReturnClears DEF IInv, Planned
<1>5. Attached'
  BY <1>1, ReturnClears DEF IInv, Attached
<1>6. Pledged'
  <2>1. HoneyStays'
    <3>1. synced' => synced \/ (~ failed[t] /\ ~ call[t].import)
      BY <1>1, Zenon DEF Succeeded
    <3>2. ~ failed[t] /\ ~ call[t].import => Honey \subseteq nodes
      BY <1>1, NothingYet DEF IInv, Pledged
    <3>3. QED
      BY <1>1, <3>1, <3>2 DEF IInv, Pledged, HoneyStays
  <2>2. QED
    BY <1>1, <2>1, ReturnClears DEF IInv, Pledged
<1>7. QED
  BY <1>2, <1>3, <1>4, <1>5, <1>6 DEF IInv

LEMMA SyncKeeps ==
  ASSUME IInv, NEW t \in Threads, SyncHoney(t)
  PROVE  IInv'
<1>1. /\ step[t] = "idle" /\ step' = [step EXCEPT ![t] = "write"] /\ call[t] = NoCall
      /\ queries' = [queries EXCEPT ![t] = HoneyStatements]
      /\ UNCHANGED <<directory, graph, call, cat, page, snap, failed, steady, crossed, synced>>
  BY DEF SyncHoney, IInv, Calling
<1>2. /\ \A u \in Threads : /\ step'[u] = IF u = t THEN "write" ELSE step[u]
                            /\ queries'[u] = IF u = t THEN HoneyStatements ELSE queries[u]
      /\ queries' = [u \in Threads |-> queries'[u]]
  BY <1>1 DEF IInv, Typed
<1>3. Typed'
  BY <1>1, <1>2, HoneyStatementsCover DEF IInv, Typed
<1>4. Calling'
  BY <1>1, <1>2 DEF IInv, Calling
<1>5. Planned'
  BY <1>1, <1>2, HoneyStatementsCover, NothingYet DEF IInv, Planned
<1>6. Attached'
  BY <1>1, <1>2, NothingYet DEF IInv, Attached
<1>7. Pledged'
  <2>1. \A h \in Honey : \E i \in DOMAIN HoneyStatements : h \in HoneyStatements[i].merge
    BY HoneyStatementsCover
  <2>2. QED
    BY <1>1, <1>2, <2>1 DEF IInv, Pledged, HoneyStays
<1>8. QED
  BY <1>3, <1>4, <1>5, <1>6, <1>7 DEF IInv

LEMMA OutsideKeeps ==
  ASSUME IInv, Restart \/ \E e \in Entries : Change(e)
  PROVE  IInv'
<1>1. CASE Restart
  <2>1. Typed'
    <3>1. /\ step' \in [Threads -> {"idle", "search", "health", "delete", "write"}]
          /\ call' \in [Threads -> Calls \cup {NoCall}]
          /\ page' \in [Threads -> SUBSET Entries]
          /\ snap' \in [Threads -> Snapshot]
          /\ failed' \in [Threads -> BOOLEAN]
      BY <1>1, NothingYet DEF Restart
    <3>2. cat' \in [Threads -> 1 .. Len(Categories)]
      BY <1>1, NothingYet DEF Restart
    <3>3. queries' = [t \in Threads |-> queries'[t]] /\ \A t \in Threads : IsSeq(queries'[t])
      BY <1>1, NothingYet DEF Restart
    <3>4. QED
      BY <1>1, <3>1, <3>2, <3>3 DEF Restart, IInv, Typed
  <2>2. Calling' /\ Planned' /\ Attached' /\ Pledged'
    BY <1>1 DEF Restart, IInv, Calling, Planned, Attached, Pledged, HoneyStays
  <2>3. QED
    BY <2>1, <2>2 DEF IInv
<1>2. CASE \E e \in Entries : Change(e)
  <2>1. PICK e \in Entries : Change(e)
    BY <1>2
  <2>2. directory' \subseteq Entries /\ steady' \in [Threads -> BOOLEAN]
    BY <2>1 DEF Change, SymDiff, IInv, Typed
  <2>3. UNCHANGED <<graph, threads, calls, crossed, mirror, synced>>
    BY <2>1 DEF Change
  <2>4. Typed'
    BY <2>2, <2>3 DEF IInv, Typed
  <2>5. QED
    BY <2>3, <2>4 DEF IInv, Calling, Planned, Attached, Pledged, HoneyStays
<1>3. QED
  BY <1>1, <1>2

LEMMA StepKeeps == ASSUME IInv, [Next]_vars PROVE IInv'
<1>1. CASE UNCHANGED vars
  <2>1. Typed'
    BY <1>1 DEF vars, IInv, Typed
  <2>2. QED
    BY <1>1, <2>1 DEF vars, IInv, Calling, Planned, Attached, Pledged, HoneyStays
<1>2. QED
  BY <1>1, ImportKeeps, SyncKeeps, SearchKeeps, GiveUpKeeps, HealthKeeps, DeleteKeeps,
     WriteKeeps, AnswerKeeps, OutsideKeeps DEF Next

\* In the middle of an import, after a failed one and after a restart every directory node
\* hangs on its domain node, while imports do not cross (sync_directory_snapshot).
THEOREM NodesHangOn == Spec => []EntriesAreAttached
<1>1. IInv => EntriesAreAttached
  BY DEF IInv, Attached, EntriesAreAttached
<1>2. QED
  BY InitHolds, StepKeeps, <1>1, PTL DEF Spec

\* Once a sync of the honey objects succeeded, no import takes them from the graph,
\* however many cross it (AD_LABELS, HONEY_LABELS, execute_queries).
THEOREM HoneyIsKept == Spec => []HoneyStays
<1>1. IInv => HoneyStays
  BY DEF IInv, Pledged
<1>2. QED
  BY InitHolds, StepKeeps, <1>1, PTL DEF Spec
-----------------------------------------------------------------------------
(***************************************************************************)
(* A paged search is complete                                              *)
(***************************************************************************)

OfCategory(c) == {e \in directory : Category[e] = c}

\* What the categories before the k-th have.
Before(k) == {e \in directory : \E j \in 1 .. k - 1 : Category[e] = Categories[j]}

Memberships == {m \in Members : {m.entry, m.group} \subseteq directory}

\* A part of category c that has no gap.
Gapless(c, got) ==
  /\ got \subseteq OfCategory(c)
  /\ \A e \in got, f \in OfCategory(c) : f < e => f \in got

\* While nothing disturbs a call, it has all of the earlier categories, unless it
\* marked the snapshot, and the beginning of the category it reads.
Paged ==
  /\ CompleteUnlessTruncated
  /\ \A t \in Threads :
       step[t] = "search" /\ steady[t] =>
         /\ Gapless(Categories[cat[t]], page[t])
         /\ ~ snap[t].truncated =>
              /\ snap[t].entries = Before(cat[t])
              /\ cat[t] > 2 => snap[t].listed = Memberships

LEMMA PageLengthTyped ==
  ASSUME ~ LabMode, NEW got \in SUBSET Entries
  PROVE  PageLength(got) \in Int
<1>1. Cardinality(got) \in Nat
  BY FS_Subset, FS_CardinalityType
<1>2. \A a, b \in Int : Max({a, b}) \in Int /\ Min({a, b}) \in Int
  <2> SUFFICES ASSUME NEW a \in Int, NEW b \in Int
               PROVE  Max({a, b}) \in Int /\ Min({a, b}) \in Int
    OBVIOUS
  <2>1. CASE a <= b
    BY <2>1 DEF Max, Min
  <2>2. CASE b <= a
    BY <2>2 DEF Max, Min
  <2>3. QED
    BY <2>1, <2>2
<1>3. Size \in Int /\ Cap \in Int
  BY <1>2 DEF Size, Cap
<1>4. Cap - Cardinality(got) \in Int
  BY <1>1, <1>3
<1>5. QED
  BY <1>2, <1>3, <1>4 DEF PageLength

LEMMA FirstHasNoGap ==
  ASSUME NEW S \in SUBSET Entries, NEW n \in Int, NEW e \in First(n, S), NEW f \in S, f < e
  PROVE  f \in First(n, S)
<1> DEFINE A == {g \in S : g <= f}
           B == {g \in S : g <= e}
<1>1. e \in S /\ Cardinality(B) <= n
  BY DEF First
<1>2. A \subseteq B /\ B \in SUBSET Entries
  <2>1. S \subseteq Nat /\ e \in Nat /\ f \in Nat
    BY <1>1
  <2>2. \A g \in S : g <= f => g <= e
    BY <2>1
  <2>3. QED
    BY <2>2
<1>3. IsFiniteSet(B)
  BY <1>2, FS_Subset
<1> HIDE DEF A, B
<1>4. Cardinality(A) <= Cardinality(B) /\ Cardinality(A) \in Nat /\ Cardinality(B) \in Nat
  BY <1>2, <1>3, FS_Subset, FS_CardinalityType
<1>5. Cardinality(A) <= n
  BY <1>1, <1>4
<1>6. QED
  BY <1>5 DEF First, A

\* The next page continues where the last one ended.
LEMMA PageContinues ==
  ASSUME directory \subseteq Entries, NEW c, NEW got, Gapless(c, got), NEW n \in Int
  PROVE  Gapless(c, got \cup First(n, Rest(c, got)))
<1> DEFINE R == Rest(c, got)
<1>1. R = {e \in OfCategory(c) : \A f \in got : f < e} /\ R \in SUBSET Entries
  BY DEF Rest, OfCategory
<1>2. got \subseteq OfCategory(c) /\ OfCategory(c) \subseteq Nat /\ First(n, R) \subseteq R
  BY DEF Gapless, OfCategory, First
<1> HIDE DEF R
<1>3. ASSUME NEW e \in got \cup First(n, R), NEW f \in OfCategory(c), f < e
      PROVE  f \in got \cup First(n, R)
  <2>1. CASE e \in got
    BY <1>3, <2>1 DEF Gapless
  <2>2. CASE e \in First(n, R) /\ f \in R
    BY <1>1, <1>3, <2>2, FirstHasNoGap
  <2>3. CASE f \notin R
    <3>1. PICK g \in got : ~ (g < f)
      BY <1>1, <2>3
    <3>2. f = g \/ f < g
      BY <1>2, <3>1
    <3>3. QED
      BY <3>1, <3>2 DEF Gapless
  <2>4. QED
    BY <2>1, <2>2, <2>3
<1>4. QED
  BY <1>1, <1>2, <1>3 DEF Gapless, R

LEMMA AllRead ==
  ASSUME directory \subseteq Entries, NEW c, NEW got, Gapless(c, got), Rest(c, got) = {}
  PROVE  got = OfCategory(c)
<1>1. ASSUME NEW e \in OfCategory(c) PROVE e \in got
  <2>1. PICK f \in got : ~ (f < e)
    BY DEF Rest, OfCategory
  <2>2. e \in Nat /\ f \in Nat
    BY DEF OfCategory, Gapless
  <2>3. e = f \/ e < f
    BY <2>1, <2>2
  <2>4. QED
    BY <2>1, <2>3 DEF Gapless
<1>2. QED
  BY <1>1 DEF Gapless

LEMMA InitPaged == Init => Paged
BY DEF Init, Paged, CompleteUnlessTruncated

\* A step that neither changes the directory nor what an undisturbed call has read.
LEMMA AsideKeepsPaged ==
  ASSUME Paged, directory' = directory,
         \A u \in Threads : step'[u] \in {"search", "health"} /\ steady'[u] =>
           /\ step'[u] = step[u] /\ cat'[u] = cat[u] /\ page'[u] = page[u]
           /\ snap'[u] = snap[u] /\ steady'[u] = steady[u]
  PROVE  Paged'
<1>1. CompleteUnlessTruncated'
  BY DEF Paged, CompleteUnlessTruncated
<1>2. QED
  BY <1>1 DEF Paged, Gapless, OfCategory, Before, Memberships

LEMMA CategoryIsComplete ==
  ASSUME IInv, Paged, ~ LabMode, NEW t \in Threads, step[t] = "search", steady[t],
         NEW got \in SUBSET Entries, Gapless(Categories[cat[t]], got),
         Rest(Categories[cat[t]], got) = {} \/ Cardinality(got) >= Cap,
         NEW s, s = Gain(snap[t], Categories[cat[t]], got), ~ s.truncated
  PROVE  /\ s.entries = Before(cat[t] + 1)
         /\ cat[t] >= 2 => s.listed = Memberships
<1> DEFINE c == Categories[cat[t]]
<1>1. ~ snap[t].truncated /\ ~ (Cardinality(got) >= Cap)
  BY DEF Gain, Capped
<1>2. got = OfCategory(c)
  BY <1>1, AllRead DEF IInv, Typed
<1>3. /\ cat[t] \in 1 .. 4 /\ directory \subseteq Entries
      /\ snap[t].entries = Before(cat[t])
      /\ cat[t] > 2 => snap[t].listed = Memberships
  BY <1>1, NothingYet DEF IInv, Typed, Paged
<1>4. s.entries = Before(cat[t] + 1)
  <2>1. s.entries = Before(cat[t]) \cup OfCategory(c)
    BY <1>2, <1>3 DEF Gain
  <2>2. \A e \in directory :
          (\E j \in 1 .. cat[t] : Category[e] = Categories[j])
            <=> (Category[e] = c \/ \E j \in 1 .. cat[t] - 1 : Category[e] = Categories[j])
    BY <1>3
  <2>3. (cat[t] + 1) - 1 = cat[t]
    BY <1>3
  <2>4. QED
    BY <2>1, <2>2, <2>3 DEF Before, OfCategory
<1>5. CASE cat[t] = 2
  <2>1. s.listed = {m \in Memberships : m.group \in got}
    BY <1>5 DEF Gain, Memberships, Categories
  <2>2. \A m \in Memberships : m.group \in got
    BY <1>2, <1>5 DEF Memberships, OfCategory, Categories
  <2>3. QED
    BY <1>4, <2>1, <2>2
<1>6. CASE cat[t] > 2
  <2>1. c # "groups"
    BY <1>3, <1>6 DEF Categories
  <2>2. s.listed = snap[t].listed
    BY <2>1 DEF Gain
  <2>3. QED
    BY <1>3, <1>4, <1>6, <2>2
<1>7. QED
  BY <1>3, <1>4, <1>5, <1>6

LEMMA SearchKeepsPaged ==
  ASSUME IInv, Paged, ~ LabMode, NEW t \in Threads, Search(t)
  PROVE  Paged'
<1> DEFINE c == Categories[cat[t]]
           got == page[t] \cup First(PageLength(page[t]), Rest(c, page[t]))
           s == Gain(snap[t], c, got)
           last == cat[t] = 4
<1>1. /\ step[t] = "search" /\ page[t] \in SUBSET Entries /\ got \in SUBSET Entries
      /\ directory \subseteq Entries /\ cat[t] \in 1 .. 4
  BY NothingYet DEF Search, IInv, Typed, First, Rest
<1>2. steady[t] => Gapless(c, got)
  BY <1>1, PageLengthTyped, PageContinues DEF Paged
<1>3. UNCHANGED <<directory, steady>>
  BY DEF Search
<1> HIDE DEF got
<1>4. CASE Rest(c, got) = {} \/ Cardinality(got) >= Cap
  <2>1. EndCategory(t, got)
    BY <1>4 DEF Search, got
  <2>2. /\ cat' = [cat EXCEPT ![t] = IF last THEN 1 ELSE @ + 1]
        /\ page' = [page EXCEPT ![t] = {}]
        /\ IF last /\ ~ call[t].sync
           THEN Return(t)
           ELSE /\ snap' = [snap EXCEPT ![t] = s]
                /\ step' = [step EXCEPT ![t] = IF last THEN "health" ELSE "search"]
    BY <2>1, NothingYet DEF EndCategory
  <2>3. steady[t] /\ ~ s.truncated => /\ s.entries = Before(cat[t] + 1)
                                      /\ cat[t] >= 2 => s.listed = Memberships
    BY <1>1, <1>2, <1>4, CategoryIsComplete
  <2> HIDE DEF s
  <2>4. \A u \in Threads \ {t} : /\ step'[u] = step[u] /\ cat'[u] = cat[u]
                                 /\ page'[u] = page[u] /\ snap'[u] = snap[u]
    BY <2>2, ReturnClears DEF IInv, Typed
  <2>5. CASE last /\ ~ call[t].sync
    <3>1. step'[t] = "idle"
      BY <2>2, <2>5, ReturnClears DEF IInv
    <3>2. QED
      BY <1>3, <2>4, <3>1, AsideKeepsPaged
  <2>6. CASE last /\ call[t].sync
    <3>1. step'[t] = "health" /\ snap'[t] = s
      BY <2>2, <2>6 DEF IInv, Typed
    <3>2. Before(cat[t] + 1) = directory
      <4>1. \A e \in directory : \E j \in 1 .. 4 : Category[e] = Categories[j]
        <5>1. DOMAIN Categories = 1 .. 4
          BY DEF Categories
        <5>2. \A e \in directory : Category[e] \in Range(Categories)
          BY <1>1
        <5>3. QED
          BY <5>1, <5>2 DEF Range
      <4>2. (cat[t] + 1) - 1 = 4
        BY <2>6
      <4>3. QED
        BY <4>1, <4>2 DEF Before
    <3>3. CompleteUnlessTruncated'
      BY <1>1, <1>3, <2>3, <2>4, <2>6, <3>1, <3>2 DEF Paged, CompleteUnlessTruncated, Memberships
    <3>4. QED
      BY <1>3, <2>4, <3>1, <3>3 DEF Paged, Gapless, OfCategory, Before, Memberships
  <2>7. CASE ~ last
    <3>1. /\ step'[t] = "search" /\ snap'[t] = s /\ cat'[t] = cat[t] + 1 /\ page'[t] = {}
      BY <2>2, <2>7 DEF IInv, Typed
    <3>2. CompleteUnlessTruncated'
      BY <1>3, <2>4, <3>1 DEF Paged, CompleteUnlessTruncated
    <3>3. cat[t] + 1 > 2 => cat[t] >= 2
      BY <1>1
    <3>4. steady'[t] =>
            /\ Gapless(Categories[cat[t]], page[t])'
            /\ ~ snap'[t].truncated =>
                 /\ snap'[t].entries = Before(cat[t])'
                 /\ cat'[t] > 2 => snap'[t].listed = Memberships'
      BY <1>3, <2>3, <3>1, <3>3 DEF Gapless, OfCategory, Before, Memberships
    <3>5. QED
      BY <1>3, <2>4, <3>2, <3>4 DEF Paged, Gapless, OfCategory, Before, Memberships
  <2>8. QED
    BY <2>5, <2>6, <2>7
<1>5. CASE ~ (Rest(c, got) = {} \/ Cardinality(got) >= Cap)
  <2>1. /\ page' = [page EXCEPT ![t] = got] /\ UNCHANGED <<step, cat, snap>>
    BY <1>5 DEF Search, got
  <2>2. page'[t] = got /\ \A u \in Threads \ {t} : page'[u] = page[u]
    BY <2>1 DEF IInv, Typed
  <2>3. CompleteUnlessTruncated'
    BY <1>3, <2>1 DEF Paged, CompleteUnlessTruncated
  <2>4. QED
    BY <1>2, <1>3, <2>1, <2>2, <2>3 DEF Paged, Gapless, OfCategory, Before, Memberships
<1>6. QED
  BY <1>4, <1>5

\* A call begins with nothing, at the first category.
LEMMA ImportKeepsPaged ==
  ASSUME IInv, Paged, NEW t \in Threads, NEW c \in Calls, Import(t, c)
  PROVE  Paged'
<1>1. /\ cat[t] = 1 /\ page[t] = {} /\ snap[t] = NoEntries
      /\ step' = [step EXCEPT ![t] = "search"] /\ steady' = [steady EXCEPT ![t] = TRUE]
      /\ UNCHANGED <<directory, cat, page, snap>>
  BY DEF Import, IInv, Calling
<1>2. /\ step'[t] = "search"
      /\ \A u \in Threads \ {t} : step'[u] = step[u] /\ steady'[u] = steady[u]
  BY <1>1 DEF IInv, Typed
<1>3. CompleteUnlessTruncated'
  BY <1>1, <1>2 DEF Paged, CompleteUnlessTruncated
<1>4. Gapless(Categories[1], {}) /\ Before(1) = {}
  BY DEF Gapless, Before
<1>5. QED
  BY <1>1, <1>2, <1>3, <1>4, NothingYet DEF Paged, Gapless, OfCategory, Before, Memberships

LEMMA SearchFailsKeepsPaged ==
  ASSUME IInv, Paged, NEW t \in Threads, SearchFails(t)
  PROVE  Paged'
<1> DEFINE s == Gain(snap[t], Categories[cat[t]], page[t])
           last == cat[t] = Len(Categories) \/ (LabMode /\ cat[t] + 1 = Len(Categories))
<1>1. /\ EndCategory(t, page[t]) /\ directory' = directory
      /\ steady' = [steady EXCEPT ![t] = FALSE]
  BY DEF SearchFails
<1>2. /\ cat' = [cat EXCEPT ![t] = IF last THEN 1 ELSE @ + 1]
      /\ page' = [page EXCEPT ![t] = {}]
      /\ \/ Return(t)
         \/ /\ snap' = [snap EXCEPT ![t] = s]
            /\ step' = [step EXCEPT ![t] = IF last THEN "health" ELSE "search"]
  BY <1>1 DEF EndCategory
<1> HIDE DEF s, last
<1>3. ~ steady'[t] /\ \A u \in Threads \ {t} :
        /\ step'[u] = step[u] /\ cat'[u] = cat[u] /\ page'[u] = page[u]
        /\ snap'[u] = snap[u] /\ steady'[u] = steady[u]
  BY <1>1, <1>2, ReturnClears DEF IInv, Typed
<1>4. QED
  BY <1>1, <1>3, AsideKeepsPaged

LEMMA OthersKeepPaged ==
  ASSUME IInv, Paged, NEW t \in Threads,
         \/ SyncHoney(t) \/ GiveUp(t) \/ Health(t) \/ Delete(t) \/ DeleteFails(t)
         \/ Write(t) \/ WriteFails(t) \/ Answer(t)
  PROVE  Paged'
<1>1. UNCHANGED <<directory, steady>>
  BY DEF SyncHoney, GiveUp, Health, Delete, DeleteFails, Write, WriteFails, Answer
<1>2. CASE GiveUp(t) \/ Answer(t)
  <2>1. Return(t) /\ \A u \in Threads \ {t} : cat'[u] = cat[u] /\ page'[u] = page[u]
    BY <1>2 DEF GiveUp, Answer, IInv, Typed
  <2>2. QED
    BY <1>1, <2>1, ReturnClears, AsideKeepsPaged DEF IInv
<1>3. CASE \/ SyncHoney(t) \/ Health(t) \/ Delete(t) \/ DeleteFails(t)
           \/ Write(t) \/ WriteFails(t)
  <2>1. /\ UNCHANGED <<cat, page, snap>>
        /\ step' = step \/ \E x \in {"delete", "write"} : step' = [step EXCEPT ![t] = x]
    BY <1>3 DEF SyncHoney, Health, Delete, DeleteFails, Write, WriteFails
  <2>2. \A u \in Threads : step'[u] \in {"search", "health"} => step'[u] = step[u]
    BY <2>1 DEF IInv, Typed
  <2>3. QED
    BY <1>1, <2>1, <2>2, AsideKeepsPaged
<1>4. QED
  BY <1>2, <1>3

LEMMA StepKeepsPaged ==
  ASSUME IInv, Paged, ~ LabMode, [Next]_vars
  PROVE  Paged'
<1>1. CASE UNCHANGED vars
  BY <1>1, AsideKeepsPaged DEF vars
<1>2. CASE Restart
  <2>1. directory' = directory /\ \A t \in Threads : step'[t] = "idle"
    BY <1>2 DEF Restart
  <2>2. QED
    BY <2>1, AsideKeepsPaged
<1>3. CASE \E e \in Entries : Change(e)
  <2>1. \A t \in Threads : ~ steady'[t]
    BY <1>3 DEF Change
  <2>2. QED
    BY <2>1 DEF Paged, CompleteUnlessTruncated
<1>4. QED
  BY <1>1, <1>2, <1>3, ImportKeepsPaged, SearchKeepsPaged, SearchFailsKeepsPaged,
     OthersKeepPaged DEF Next

\* In an import that nothing disturbed, a paged search misses no entry and no membership
\* unless the snapshot is marked truncated, whatever the page size and the cap
\* (_paged_search).  Without pages (lab mode) it may.
THEOREM PagedSearchComplete == ~ LabMode => (Spec => []CompleteUnlessTruncated)
<1> SUFFICES ASSUME ~ LabMode PROVE Spec => []CompleteUnlessTruncated
  OBVIOUS
<1>1. IInv /\ Paged /\ [Next]_vars => IInv' /\ Paged'
  BY StepKeeps, StepKeepsPaged
<1>2. Paged => CompleteUnlessTruncated
  BY DEF Paged
<1>3. QED
  BY InitHolds, InitPaged, <1>1, <1>2, PTL DEF Spec
-----------------------------------------------------------------------------
(***************************************************************************)
(* Types, and the cap of each category                                     *)
(***************************************************************************)

\* What Typed leaves open.
Wide ==
  /\ nodes \subseteq Entries \cup Honey \cup {Domain} /\ edges \subseteq Edges
  /\ \A t \in Threads : queries[t] \in Seq(Statement)
  /\ calls \in 0 .. MaxCalls /\ changes \in 0 .. MaxChanges
  /\ mirror \in [snap : Snapshot, replaced : BOOLEAN] \cup {NoSnapshot}

\* The graph changes by a statement or by the deletion.
LEMMA GraphSteps ==
  ASSUME [Next]_vars
  PROVE  \/ UNCHANGED <<nodes, edges>>
         \/ \E t \in Threads : queries[t] # <<>> /\ Run(Head(queries[t]))
         \/ nodes' = Kept /\ edges' = {l \in edges : {l[2], l[3]} \subseteq Kept}
<1>1. CASE UNCHANGED vars \/ Restart \/ \E e \in Entries : Change(e)
  BY <1>1 DEF vars, Restart, Change
<1>2. ASSUME NEW t \in Threads, Delete(t) \/ DeleteFails(t)
      PROVE  \/ UNCHANGED <<nodes, edges>>
             \/ nodes' = Kept /\ edges' = {l \in edges : {l[2], l[3]} \subseteq Kept}
  BY <1>2 DEF Delete, DeleteFails
<1>3. ASSUME NEW t \in Threads, Write(t) \/ WriteFails(t)
      PROVE  UNCHANGED <<nodes, edges>> \/ (queries[t] # <<>> /\ Run(Head(queries[t])))
  BY <1>3 DEF Write, WriteFails
<1>4. ASSUME NEW t \in Threads,
             \/ \E c \in Calls : Import(t, c)
             \/ SyncHoney(t) \/ Search(t) \/ SearchFails(t) \/ GiveUp(t) \/ Health(t)
             \/ Answer(t)
      PROVE  UNCHANGED <<nodes, edges>>
  BY <1>4 DEF Import, SyncHoney, Search, SearchFails, GiveUp, Health, Answer
<1>5. QED
  BY <1>1, <1>2, <1>3, <1>4 DEF Next

LEMMA SearchSteps ==
  ASSUME IInv, NEW t \in Threads, Search(t) \/ SearchFails(t)
  PROVE  \/ UNCHANGED <<queries, calls, changes, mirror, crossed>>
         \/ Return(t) /\ UNCHANGED <<calls, changes, mirror, crossed>>
<1>1. CASE SearchFails(t)
  BY <1>1 DEF SearchFails, EndCategory
<1>2. CASE Search(t)
  BY <1>2 DEF Search, EndCategory
<1>3. QED
  BY <1>1, <1>2

\* What a thread has left to run.
LEMMA QuerySteps ==
  ASSUME IInv, [Next]_vars, NEW u \in Threads
  PROVE  \/ queries'[u] \in {queries[u], <<>>, Statements(snap[u]), HoneyStatements}
         \/ queries[u] # <<>> /\ queries'[u] = Tail(queries[u])
<1> USE DEF IInv, Typed
<1> DEFINE Left == \/ queries'[u] \in {queries[u], <<>>, Statements(snap[u]), HoneyStatements}
                   \/ queries[u] # <<>> /\ queries'[u] = Tail(queries[u])
<1> SUFFICES Left
  OBVIOUS
<1>1. CASE UNCHANGED vars \/ Restart \/ \E e \in Entries : Change(e)
  <2>1. queries' = queries \/ queries' = [t \in Threads |-> <<>>]
    BY <1>1 DEF vars, Restart, Change
  <2>2. QED
    BY <2>1
<1>2. ASSUME NEW t \in Threads, (\E c \in Calls : Import(t, c)) \/ Delete(t) \/ DeleteFails(t)
      PROVE  Left
  BY <1>2 DEF Import, Delete, DeleteFails
<1>3. ASSUME NEW t \in Threads, Search(t) \/ SearchFails(t) \/ GiveUp(t) \/ Answer(t)
      PROVE  Left
  <2>1. UNCHANGED queries \/ Return(t)
    BY <1>3, SearchSteps DEF GiveUp, Answer
  <2>2. QED
    BY <2>1 DEF Return
<1>4. ASSUME NEW t \in Threads, SyncHoney(t) \/ Health(t)
      PROVE  Left
  BY <1>4 DEF SyncHoney, Health
<1>5. ASSUME NEW t \in Threads, Write(t) \/ WriteFails(t)
      PROVE  Left
  BY <1>5 DEF Write, WriteFails, Remaining
<1> HIDE DEF Left, IInv, Typed
<1>6. \A t \in Threads :
        (\/ \E c \in Calls : Import(t, c)
         \/ SyncHoney(t)
         \/ Search(t) \/ SearchFails(t) \/ GiveUp(t) \/ Health(t)
         \/ Delete(t) \/ DeleteFails(t) \/ Write(t) \/ WriteFails(t) \/ Answer(t)) => Left
  BY <1>2, <1>3, <1>4, <1>5
<1>7. QED
  BY <1>1, <1>6 DEF Next

LEMMA InitWide == Init => Wide
<1>1. <<>> \in Seq(Statement)
  OBVIOUS
<1>2. QED
  BY <1>1 DEF Init, Wide

LEMMA StepKeepsWide ==
  ASSUME IInv, Wide, [Next]_vars
  PROVE  Wide'
<1>1. nodes' \subseteq Entries \cup Honey \cup {Domain} /\ edges' \subseteq Edges
  <2>1. ASSUME NEW t \in Threads, queries[t] # <<>>
        PROVE  Head(queries[t]) \in Statement
    BY <2>1 DEF Wide
  <2>2. QED
    BY <2>1, GraphSteps DEF Wide, Run, Statement, Kept
<1>2. ASSUME NEW u \in Threads PROVE queries'[u] \in Seq(Statement)
  <2>1. <<>> \in Seq(Statement) /\ HoneyStatements \in Seq(Statement) /\ queries[u] \in Seq(Statement)
    BY HoneyStatementsCover DEF Wide
  <2>2. Statements(snap[u]) \in Seq(Statement)
    BY StatementsAre DEF IInv, Typed, Laid
  <2>3. queries[u] # <<>> => Tail(queries[u]) \in Seq(Statement)
    BY <2>1
  <2>4. QED
    BY <2>1, <2>2, <2>3, QuerySteps
<1>3. calls' \in 0 .. MaxCalls /\ changes' \in 0 .. MaxChanges
  <2>1. \/ calls' = calls
        \/ calls < MaxCalls /\ calls' = calls + 1
    BY SearchSteps DEF Next, vars, Import, SyncHoney, GiveUp, Health, Delete, DeleteFails,
       Write, WriteFails, Answer, Change, Restart
  <2>2. \/ changes' = changes
        \/ changes < MaxChanges /\ changes' = changes + 1
    BY SearchSteps DEF Next, vars, Import, SyncHoney, GiveUp, Health, Delete, DeleteFails,
       Write, WriteFails, Answer, Change, Restart
  <2>3. QED
    BY <2>1, <2>2 DEF Wide
<1>4. mirror' \in [snap : Snapshot, replaced : BOOLEAN] \cup {NoSnapshot}
  <2>1. \/ mirror' \in {mirror, NoSnapshot}
        \/ \E t \in Threads : call[t].import /\ mirror' = [snap |-> snap[t], replaced |-> call[t].replace]
    <3>1. ASSUME NEW t \in Threads, Answer(t)
          PROVE  mirror' = mirror \/ (call[t].import /\ mirror' = [snap |-> snap[t], replaced |-> call[t].replace])
      BY <3>1 DEF Answer
    <3>2. ASSUME NEW t \in Threads, Write(t) \/ WriteFails(t) \/ Delete(t) \/ DeleteFails(t)
          PROVE  mirror' \in {mirror, NoSnapshot}
      BY <3>2 DEF Write, WriteFails, Noted, Delete, DeleteFails
    <3>3. QED
      BY <3>1, <3>2, SearchSteps DEF Next, vars, Import, SyncHoney, GiveUp, Health, Change, Restart
  <2>2. ASSUME NEW t \in Threads, call[t].import
        PROVE  [snap |-> snap[t], replaced |-> call[t].replace]
                 \in [snap : Snapshot, replaced : BOOLEAN]
    <3>1. call[t] \in Calls \cup {NoCall} /\ snap[t] \in Snapshot
      BY DEF IInv, Typed
    <3>2. call[t].replace \in BOOLEAN
      <4>1. CASE call[t] \in Calls
        BY <4>1 DEF Calls
      <4>2. CASE call[t] = NoCall
        BY <4>2 DEF NoCall
      <4>3. QED
        BY <3>1, <4>1, <4>2
    <3>3. QED
      BY <3>1, <3>2
  <2>3. QED
    BY <2>1, <2>2 DEF Wide
<1>5. QED
  BY <1>1, <1>2, <1>3, <1>4 DEF Wide

\* No category of a snapshot exceeds the cap.
InCategory(s, c) == {e \in s.entries : Category[e] = c}
Capsized == \A t \in Threads, c \in Range(Categories) : Cardinality(InCategory(snap[t], c)) <= Cap

\* What has been read of a category is of that category and within the cap, and the
\* snapshot has the earlier categories only; in lab mode a category is read at once.
Room ==
  \A t \in Threads :
    /\ \A e \in page[t] : Category[e] = Categories[cat[t]]
    /\ IF LabMode THEN page[t] = {} ELSE Cardinality(page[t]) <= Cap
    /\ step[t] = "search" =>
         \A e \in snap[t].entries : \E j \in 1 .. cat[t] - 1 : Category[e] = Categories[j]

LEMMA LimitsTyped == Size \in Nat /\ Cap \in Nat /\ Cap >= 1
<1>1. \A a \in Int : Max({1, a}) \in Nat /\ Max({1, a}) >= 1
  <2> SUFFICES ASSUME NEW a \in Int PROVE Max({1, a}) \in Nat /\ Max({1, a}) >= 1
    OBVIOUS
  <2>1. CASE a <= 1
    BY <2>1 DEF Max
  <2>2. CASE 1 <= a
    BY <2>2 DEF Max
  <2>3. QED
    BY <2>1, <2>2
<1>2. QED
  BY <1>1 DEF Size, Cap

\* The first n of a set are n, or all of them.
LEMMA FirstCounts ==
  ASSUME NEW S \in SUBSET Entries, NEW n \in Int
  PROVE  /\ First(n, S) \in SUBSET S /\ IsFiniteSet(First(n, S))
         /\ Cardinality(First(n, S)) <= IF n > 0 THEN n ELSE 0
         /\ n \in 0 .. Cardinality(S) => Cardinality(First(n, S)) = n
         /\ n >= Cardinality(S) => First(n, S) = S
<1> DEFINE k == Cardinality(S)
           r == [e \in S |-> {f \in S : f <= e}]
           F == First(n, S)
           p == [e \in F |-> Cardinality(r[e])]
<1>1. IsFiniteSet(S) /\ k \in Nat /\ \A e \in S : e \in Nat
  BY FS_Subset, FS_CardinalityType
<1>2. r \in [S -> SUBSET S] /\ \A e, f \in S : f \in r[e] <=> f <= e
  OBVIOUS
<1>3. F = {e \in S : Cardinality(r[e]) <= n}
  BY DEF First
<1> HIDE DEF k, r, F, p
<1>4. Ordering(S, r)
  <2>1. \A e \in S : e \in r[e]
    BY <1>1, <1>2
  <2>2. \A e, f \in S : f \in r[e] => r[f] \subseteq r[e]
    <3> SUFFICES ASSUME NEW e \in S, NEW f \in S, f \in r[e], NEW g \in r[f] PROVE g \in r[e]
      OBVIOUS
    <3>1. g \in S /\ g <= f /\ f <= e
      BY <1>2
    <3>2. g <= e
      BY <1>1, <3>1
    <3>3. QED
      BY <1>2, <3>1, <3>2
  <2>3. \A e, f \in S : e \in r[f] \/ f \in r[e]
    BY <1>1, <1>2
  <2>4. \A e, f \in S : e \in r[f] /\ f \in r[e] => e = f
    BY <1>1, <1>2
  <2>5. r \in [S -> SUBSET S]
    BY <1>2
  <2>6. QED
    BY <2>1, <2>2, <2>3, <2>4, <2>5 DEF Ordering
<1>5. /\ \A e \in S : Cardinality(r[e]) \in 1 .. k
      /\ \A e, f \in S : Cardinality(r[e]) = Cardinality(r[f]) => e = f
      /\ \A i \in 1 .. k : \E e \in S : Cardinality(r[e]) = i
  <2>1. IsFiniteSet(S)
    BY <1>1
  <2>2. \A e \in S : Cardinality(r[e]) \in 1 .. Cardinality(S)
    BY <1>4, <2>1, Ranks
  <2>3. \A e, f \in S : Cardinality(r[e]) = Cardinality(r[f]) => e = f
    BY <1>4, <2>1, Ranks
  <2>4. Filled(S, r)
    BY <1>4, <2>1, Ranks
  <2>5. QED
    BY <2>2, <2>3, <2>4 DEF Filled, k
<1>6. F \in SUBSET S /\ DOMAIN p = F /\ \A e \in F : p[e] = Cardinality(r[e]) /\ p[e] \in 1 .. n
  <2>1. ASSUME NEW e \in F PROVE Cardinality(r[e]) \in 1 .. n
    <3>1. Cardinality(r[e]) \in 1 .. k /\ Cardinality(r[e]) <= n
      BY <1>3, <1>5
    <3>2. QED
      BY <1>1, <3>1
  <2>2. QED
    BY <1>3, <2>1 DEF p
<1>7. p \in [F -> 1 .. n]
  BY <1>6 DEF p
<1>8. IsInjective(p)
  BY <1>5, <1>6 DEF IsInjective
<1>9. p \in Injection(F, 1 .. n)
  BY <1>7, <1>8 DEF Injection
<1>10. IsFiniteSet(1 .. n) /\ Cardinality(1 .. n) = IF n > 0 THEN n ELSE 0
  <2>1. IsFiniteSet(1 .. n) /\ Cardinality(1 .. n) = IF 1 > n THEN 0 ELSE n - 1 + 1
    BY FS_Interval
  <2>2. QED
    BY <2>1
<1>11. /\ IsFiniteSet(F) /\ Cardinality(F) <= Cardinality(1 .. n)
       /\ Cardinality(F) = Cardinality(1 .. n) <=> p \in Surjection(F, 1 .. n)
  BY <1>9, <1>10, FS_Injection
<1>12. ASSUME n \in 0 .. k PROVE Cardinality(F) = n
  <2>1. \A i \in 1 .. n : \E e \in F : p[e] = i
    <3> SUFFICES ASSUME NEW i \in 1 .. n PROVE \E e \in F : p[e] = i
      OBVIOUS
    <3>1. i \in 1 .. k /\ i <= n
      BY <1>1, <1>12
    <3>2. PICK e \in S : Cardinality(r[e]) = i
      BY <1>5, <3>1
    <3>3. e \in F
      BY <1>3, <3>1, <3>2
    <3>4. QED
      BY <1>6, <3>2, <3>3
  <2>2. p \in Surjection(F, 1 .. n)
    BY <1>7, <2>1 DEF Surjection
  <2>3. QED
    BY <1>10, <1>11, <1>12, <2>2
<1>13. ASSUME n >= k PROVE F = S
  <2>1. ASSUME NEW e \in S PROVE Cardinality(r[e]) <= n
    <3>1. Cardinality(r[e]) \in 1 .. k
      BY <1>5
    <3>2. QED
      BY <1>1, <1>13, <3>1
  <2>2. QED
    BY <1>3, <2>1
<1>14. QED
  BY <1>6, <1>10, <1>11, <1>12, <1>13 DEF F, k

\* A page stays within the cap; in lab mode the first one ends the category.
LEMMA PageFits ==
  ASSUME directory \subseteq Entries, NEW c, NEW got \in SUBSET Entries,
         IF LabMode THEN got = {} ELSE Cardinality(got) <= Cap,
         NEW more, more = got \cup First(PageLength(got), Rest(c, got))
  PROVE  /\ Cardinality(more) <= Cap
         /\ LabMode => Rest(c, more) = {} \/ Cardinality(more) >= Cap
<1> DEFINE R == Rest(c, got)
           n == PageLength(got)
           F == First(n, R)
<1>1. R \in SUBSET Entries /\ IsFiniteSet(got) /\ Cardinality(got) \in Nat /\ IsFiniteSet(R)
      /\ Cardinality(R) \in Nat
  <2>1. R \in SUBSET Entries
    BY DEF Rest
  <2>2. IsFiniteSet(got) /\ IsFiniteSet(R)
    BY <2>1, FS_Subset
  <2>3. QED
    BY <2>1, <2>2, FS_CardinalityType
<1>2. CASE ~ LabMode
  <2> DEFINE room == Cap - Cardinality(got)
  <2>1. room \in Nat
    BY <1>1, <1>2, LimitsTyped
  <2>2. n = Min({Size, room})
    BY <1>2 DEF PageLength
  <2> HIDE DEF room, n, R
  <2>3. n \in Int /\ n <= room
    <3>1. Size \in Int /\ room \in Int
      BY <2>1, LimitsTyped
    <3>2. CASE Size <= room
      BY <2>2, <3>1, <3>2 DEF Min
    <3>3. CASE room <= Size
      BY <2>2, <3>1, <3>3 DEF Min
    <3>4. QED
      BY <3>1, <3>2, <3>3
  <2>4. IsFiniteSet(F) /\ Cardinality(F) <= IF n > 0 THEN n ELSE 0
    BY <1>1, <2>3, FirstCounts
  <2> HIDE DEF F
  <2>5. Cardinality(F) \in Nat /\ Cardinality(F) <= room
    BY <2>1, <2>3, <2>4, FS_CardinalityType
  <2>6. /\ Cardinality(got \cup F) = Cardinality(got) + Cardinality(F) - Cardinality(got \cap F)
        /\ Cardinality(got \cap F) \in Nat
    <3>1. IsFiniteSet(got \cap F)
      BY <1>1, FS_Intersection
    <3>2. QED
      BY <1>1, <2>4, <3>1, FS_Union, FS_CardinalityType
  <2>7. Cardinality(got) + Cardinality(F) <= Cap
    BY <1>1, <2>1, <2>5, LimitsTyped DEF room
  <2>8. Cardinality(got \cup F) <= Cap
    BY <1>1, <2>5, <2>6, <2>7, LimitsTyped
  <2>9. QED
    BY <1>2, <2>8 DEF F, R, n
<1>3. CASE LabMode
  <2>1. got = {} /\ n = Cap /\ more = F
    BY <1>3 DEF PageLength
  <2> HIDE DEF n, R
  <2>2. /\ Cardinality(F) <= Cap
        /\ Cap \in 0 .. Cardinality(R) => Cardinality(F) = Cap
        /\ Cap >= Cardinality(R) => F = R
    <3>1. n \in Int /\ n > 0
      BY <2>1, LimitsTyped
    <3>2. QED
      BY <1>1, <2>1, <3>1, FirstCounts
  <2> HIDE DEF F
  <2>3. Cap \in 0 .. Cardinality(R) \/ Cap >= Cardinality(R)
    BY <1>1, LimitsTyped
  <2>4. ASSUME F = R PROVE Rest(c, more) = {}
    <3>1. R = {e \in directory : Category[e] = c}
      BY <2>1 DEF R, Rest
    <3>2. ASSUME NEW e \in Rest(c, more) PROVE FALSE
      <4>1. e \in R /\ \A f \in R : f < e
        BY <2>1, <2>4, <3>1, <3>2 DEF Rest
      <4>2. e \in Nat /\ e < e
        BY <1>1, <4>1
      <4>3. QED
        BY <4>2
    <3>3. QED
      BY <3>2
  <2>5. Cap \in 0 .. Cardinality(R) => Cardinality(more) >= Cap
    BY <2>1, <2>2, LimitsTyped
  <2>6. QED
    BY <2>1, <2>2, <2>3, <2>4, <2>5
<1>4. QED
  BY <1>2, <1>3

\* The end of a category concerns the call that read it.
LEMMA EndSteps ==
  ASSUME IInv, NEW t \in Threads, NEW got, EndCategory(t, got)
  PROVE  /\ page'[t] = {} /\ cat'[t] \in {1, cat[t] + 1}
         /\ snap'[t] \in {NoEntries, Gain(snap[t], Categories[cat[t]], got)}
         /\ step'[t] = "search" => cat'[t] = cat[t] + 1
         /\ \A u \in Threads \ {t} :
              page'[u] = page[u] /\ cat'[u] = cat[u] /\ snap'[u] = snap[u] /\ step'[u] = step[u]
<1> DEFINE s == Gain(snap[t], Categories[cat[t]], got)
           last == cat[t] = Len(Categories) \/ (LabMode /\ cat[t] + 1 = Len(Categories))
<1>1. /\ page' = [page EXCEPT ![t] = {}]
      /\ cat' = [cat EXCEPT ![t] = IF last THEN 1 ELSE @ + 1]
      /\ IF last /\ ~ call[t].sync
         THEN Return(t)
         ELSE /\ snap' = [snap EXCEPT ![t] = s]
              /\ step' = [step EXCEPT ![t] = IF last THEN "health" ELSE "search"]
  BY DEF EndCategory
<1> HIDE DEF s, last
<1>2. /\ page'[t] = {} /\ cat'[t] = IF last THEN 1 ELSE cat[t] + 1
      /\ \A u \in Threads \ {t} : page'[u] = page[u] /\ cat'[u] = cat[u]
  BY <1>1 DEF IInv, Typed
<1>3. CASE last /\ ~ call[t].sync
  <2>1. Return(t)
    BY <1>1, <1>3
  <2>2. /\ snap'[t] = NoEntries /\ step'[t] = "idle"
        /\ \A u \in Threads \ {t} : snap'[u] = snap[u] /\ step'[u] = step[u]
    BY <2>1, ReturnClears DEF IInv
  <2>3. QED
    BY <1>2, <2>2
<1>4. CASE ~ (last /\ ~ call[t].sync)
  <2>1. /\ snap'[t] = s /\ step'[t] = IF last THEN "health" ELSE "search"
        /\ \A u \in Threads \ {t} : snap'[u] = snap[u] /\ step'[u] = step[u]
    BY <1>1, <1>4 DEF IInv, Typed
  <2>2. QED
    BY <1>2, <2>1 DEF s
<1>5. QED
  BY <1>3, <1>4

LEMMA OtherSearches ==
  ASSUME IInv, NEW t \in Threads, Search(t) \/ SearchFails(t), NEW u \in Threads \ {t}
  PROVE  page'[u] = page[u] /\ cat'[u] = cat[u] /\ snap'[u] = snap[u] /\ step'[u] = step[u]
<1>1. CASE \E got : EndCategory(t, got)
  BY <1>1, EndSteps
<1>2. CASE ~ \E got : EndCategory(t, got)
  <2>1. ~ SearchFails(t)
    BY <1>2 DEF SearchFails
  <2>2. UNCHANGED <<step, cat, snap>> /\ \E got : page' = [page EXCEPT ![t] = got]
    BY <1>2, <2>1 DEF Search
  <2>3. QED
    BY <2>2 DEF IInv, Typed
<1>3. QED
  BY <1>1, <1>2

\* A call that does not search keeps what it has read, or begins or ends with nothing.
LEMMA ReadSteps ==
  ASSUME IInv, [Next]_vars, NEW u \in Threads, ~ Search(u), ~ SearchFails(u)
  PROVE  \/ /\ page'[u] = page[u] /\ cat'[u] = cat[u] /\ snap'[u] = snap[u]
            /\ step'[u] = "search" => step[u] = "search" \/ snap[u] = NoEntries
         \/ page'[u] = {} /\ snap'[u] = NoEntries /\ step'[u] # "search"
<1> DEFINE Alike == /\ page'[u] = page[u] /\ cat'[u] = cat[u] /\ snap'[u] = snap[u]
                    /\ step'[u] = "search" => step[u] = "search" \/ snap[u] = NoEntries
           Over == page'[u] = {} /\ snap'[u] = NoEntries /\ step'[u] # "search"
<1> SUFFICES Alike \/ Over
  OBVIOUS
<1>1. CASE UNCHANGED vars \/ \E e \in Entries : Change(e)
  BY <1>1 DEF vars, Change
<1>2. CASE Restart
  BY <1>2 DEF Restart
<1>3. ASSUME NEW t \in Threads, NEW c \in Calls, Import(t, c) PROVE Alike \/ Over
  <2>1. /\ step[t] = "idle" /\ step' = [step EXCEPT ![t] = "search"] /\ UNCHANGED <<cat, page, snap>>
    BY <1>3 DEF Import
  <2>2. QED
    BY <2>1 DEF IInv, Typed, Calling
<1>4. ASSUME NEW t \in Threads, SyncHoney(t) \/ Health(t) \/ Delete(t) \/ DeleteFails(t)
      PROVE  Alike \/ Over
  <2>1. UNCHANGED <<cat, page, snap>> /\ \E x \in {"delete", "write"} : step' = [step EXCEPT ![t] = x]
    BY <1>4 DEF SyncHoney, Health, Delete, DeleteFails
  <2>2. QED
    BY <2>1 DEF IInv, Typed
<1>5. ASSUME NEW t \in Threads, Write(t) \/ WriteFails(t) PROVE Alike \/ Over
  <2>1. UNCHANGED <<cat, page, snap, step>>
    BY <1>5 DEF Write, WriteFails
  <2>2. QED
    BY <2>1
<1>6. ASSUME NEW t \in Threads, GiveUp(t) \/ Answer(t) PROVE Alike \/ Over
  <2>1. /\ Return(t) /\ page'[t] = {}
        /\ \A v \in Threads \ {t} : page'[v] = page[v] /\ cat'[v] = cat[v]
    BY <1>6 DEF GiveUp, Answer, IInv, Typed, Calling
  <2>2. /\ step'[t] = "idle" /\ snap'[t] = NoEntries
        /\ \A v \in Threads \ {t} : snap'[v] = snap[v] /\ step'[v] = step[v]
    BY <2>1, ReturnClears DEF IInv
  <2>3. QED
    BY <2>1, <2>2
<1>7. ASSUME NEW t \in Threads, Search(t) \/ SearchFails(t) PROVE Alike \/ Over
  BY <1>7, OtherSearches
<1> HIDE DEF Alike, Over
<1>8. QED
  BY <1>1, <1>2, <1>3, <1>4, <1>5, <1>6, <1>7 DEF Next

\* What the snapshot of a call gains is one category that it did not have.
LEMMA GainFits ==
  ASSUME IInv, Room, Capsized, NEW t \in Threads, step[t] = "search", NEW got \in SUBSET Entries,
         \A e \in got : Category[e] = Categories[cat[t]], Cardinality(got) <= Cap,
         NEW s, s = Gain(snap[t], Categories[cat[t]], got), NEW c \in Range(Categories)
  PROVE  Cardinality(InCategory(s, c)) <= Cap
<1>1. /\ \A e \in snap[t].entries : \E j \in 1 .. cat[t] - 1 : Category[e] = Categories[j]
      /\ cat[t] \in 1 .. 4
  BY NothingYet DEF Room, IInv, Typed
<1>2. s.entries = snap[t].entries \cup got
  BY DEF Gain
<1>3. \A i, j \in 1 .. 4 : Categories[i] = Categories[j] => i = j
  BY DEF Categories
<1>4. CASE c = Categories[cat[t]]
  <2>1. \A e \in snap[t].entries : Category[e] # c
    BY <1>1, <1>3, <1>4
  <2>2. InCategory(s, c) = got
    BY <1>2, <1>4, <2>1 DEF InCategory
  <2>3. QED
    BY <2>2
<1>5. CASE c # Categories[cat[t]]
  <2>1. InCategory(s, c) = InCategory(snap[t], c)
    BY <1>2, <1>5 DEF InCategory
  <2>2. QED
    BY <2>1 DEF Capsized
<1>6. QED
  BY <1>4, <1>5

LEMMA InitRoom == Init => Room /\ Capsized
<1>1. Cardinality({}) = 0 /\ 0 <= Cap
  BY FS_EmptySet, LimitsTyped
<1>2. \A c : InCategory(NoEntries, c) = {}
  BY NothingYet DEF InCategory
<1>3. QED
  BY <1>1, <1>2, NothingYet DEF Init, Room, Capsized

LEMMA StepKeepsRoom ==
  ASSUME IInv, Room, Capsized, [Next]_vars
  PROVE  Room' /\ Capsized'
<1>1. Cardinality({}) = 0 /\ 0 <= Cap /\ \A c : InCategory(NoEntries, c) = {}
  BY FS_EmptySet, LimitsTyped, NothingYet DEF InCategory
<1> DEFINE Fits(u) ==
             /\ \A e \in page'[u] : Category[e] = Categories[cat'[u]]
             /\ IF LabMode THEN page'[u] = {} ELSE Cardinality(page'[u]) <= Cap
             /\ step'[u] = "search" =>
                  \A e \in snap'[u].entries : \E j \in 1 .. cat'[u] - 1 : Category[e] = Categories[j]
             /\ \A c \in Range(Categories) : Cardinality(InCategory(snap'[u], c)) <= Cap
<1>2. ASSUME NEW u \in Threads, ~ Search(u), ~ SearchFails(u)
      PROVE  Fits(u)
  <2>1. CASE /\ page'[u] = page[u] /\ cat'[u] = cat[u] /\ snap'[u] = snap[u]
             /\ step'[u] = "search" => step[u] = "search" \/ snap[u] = NoEntries
    BY <2>1, NothingYet DEF Room, Capsized
  <2>2. CASE page'[u] = {} /\ snap'[u] = NoEntries /\ step'[u] # "search"
    BY <1>1, <2>2
  <2>3. QED
    BY <1>2, <2>1, <2>2, ReadSteps
<1>3. ASSUME NEW u \in Threads, step[u] = "search", NEW got \in SUBSET Entries,
             EndCategory(u, got),
             \A e \in got : Category[e] = Categories[cat[u]], Cardinality(got) <= Cap
      PROVE  Fits(u)
  <2>1. /\ page'[u] = {}
        /\ snap'[u] \in {NoEntries, Gain(snap[u], Categories[cat[u]], got)}
        /\ step'[u] = "search" => cat'[u] = cat[u] + 1
    BY <1>3, EndSteps
  <2>2. cat[u] \in 1 .. 4
    BY NothingYet DEF IInv, Typed
  <2>3. \A c \in Range(Categories) : Cardinality(InCategory(snap'[u], c)) <= Cap
    BY <1>1, <1>3, <2>1, GainFits
  <2>4. ASSUME step'[u] = "search", NEW e \in snap'[u].entries
        PROVE  \E j \in 1 .. cat'[u] - 1 : Category[e] = Categories[j]
    <3>1. cat'[u] - 1 = cat[u]
      BY <2>1, <2>2, <2>4
    <3>2. e \in snap[u].entries \cup got
      BY <2>1, <2>4, NothingYet DEF Gain
    <3>3. CASE e \in snap[u].entries
      <4>1. \E j \in 1 .. cat[u] - 1 : Category[e] = Categories[j]
        BY <1>3, <3>3 DEF Room
      <4>2. QED
        BY <2>2, <3>1, <4>1
    <3>4. CASE e \in got
      BY <1>3, <2>2, <3>1, <3>4
    <3>5. QED
      BY <3>2, <3>3, <3>4
  <2>5. QED
    BY <1>1, <2>1, <2>3, <2>4
<1>4. ASSUME NEW u \in Threads, SearchFails(u)
      PROVE  Fits(u)
  <2>1. step[u] = "search" /\ EndCategory(u, page[u]) /\ page[u] \in SUBSET Entries
    BY <1>4 DEF SearchFails, IInv, Typed
  <2>2. Cardinality(page[u]) <= Cap
    BY <1>1 DEF Room
  <2>3. \A e \in page[u] : Category[e] = Categories[cat[u]]
    BY DEF Room
  <2> HIDE DEF Fits
  <2>4. QED
    BY <1>3, <2>1, <2>2, <2>3
<1>5. ASSUME NEW u \in Threads, Search(u)
      PROVE  Fits(u)
  <2> DEFINE c == Categories[cat[u]]
             got == page[u] \cup First(PageLength(page[u]), Rest(c, page[u]))
  <2>1. step[u] = "search" /\ page[u] \in SUBSET Entries /\ directory \subseteq Entries
    BY <1>5 DEF Search, IInv, Typed
  <2>2. got \in SUBSET Entries /\ \A e \in got : Category[e] = c
    BY <2>1 DEF First, Rest, Room
  <2>3. /\ Cardinality(got) <= Cap
        /\ LabMode => Rest(c, got) = {} \/ Cardinality(got) >= Cap
    <3>1. IF LabMode THEN page[u] = {} ELSE Cardinality(page[u]) <= Cap
      BY DEF Room
    <3> HIDE DEF c
    <3>2. QED
      BY <2>1, <3>1, PageFits
  <2>4. IF Rest(c, got) = {} \/ Cardinality(got) >= Cap
        THEN EndCategory(u, got)
        ELSE /\ page' = [page EXCEPT ![u] = got]
             /\ UNCHANGED <<step, call, cat, snap, queries, failed>>
    BY <1>5 DEF Search
  <2> HIDE DEF got
  <2>5. CASE Rest(c, got) = {} \/ Cardinality(got) >= Cap
    <3>1. EndCategory(u, got)
      BY <2>4, <2>5
    <3> HIDE DEF Fits
    <3>2. QED
      BY <1>3, <2>1, <2>2, <2>3, <3>1
  <2>6. CASE ~ (Rest(c, got) = {} \/ Cardinality(got) >= Cap)
    <3>1. ~ LabMode /\ page'[u] = got /\ UNCHANGED <<step, cat, snap>>
      BY <2>3, <2>4, <2>6 DEF IInv, Typed
    <3>2. QED
      BY <2>2, <2>3, <3>1 DEF Room, Capsized
  <2>7. QED
    BY <2>5, <2>6
<1>6. \A u \in Threads : Fits(u)
  <2> HIDE DEF Fits
  <2>1. QED
    BY <1>2, <1>4, <1>5
<1>7. QED
  BY <1>6 DEF Room, Capsized

-----------------------------------------------------------------------------
(***************************************************************************)
(* A successful import shows its snapshot                                  *)
(***************************************************************************)

\* What the graph shows of a snapshot: nodes, memberships, relationships.
Ends(s) == s.entries \cup {Domain}
Visible(s) ==
  {m \in s.shown \cup {n \in s.listed : n.exact} : {m.entry, m.group} \subseteq s.entries}
Links(s) == {DomainEdge(e) : e \in s.entries} \cup {MemberEdge(m) : m \in Visible(s)}

\* Beside the nodes N and the relationships E the statements q bring all of s, and no
\* relationship before its ends.
Promised(q, s, N, E) ==
  /\ \A x \in Ends(s) \ N : \E i \in DOMAIN q : x \in q[i].merge
  /\ \A l \in Links(s) \ E : \E i \in DOMAIN q : l \in q[i].link
  /\ \A i \in DOMAIN q : \A l \in q[i].link \cap Links(s) :
       \A x \in {l[2], l[3]} \ N : \E j \in DOMAIN q : j <= i /\ x \in q[j].merge

\* They bring nothing else.
Only(q, s) ==
  \A i \in DOMAIN q :
    /\ q[i].merge \subseteq Ends(s)
    /\ \A l \in q[i].link : {l[2], l[3]} \subseteq Ends(s) => l \in Links(s)

\* A snapshot on its way to the graph: what is not there is still to be written.
Showing ==
  \A t \in Threads :
    /\ step[t] = "delete" => Promised(queries[t], snap[t], {}, {}) /\ Only(queries[t], snap[t])
    /\ step[t] = "write" /\ call[t].import /\ ~ failed[t] /\ ~ crossed =>
         /\ Promised(queries[t], snap[t], nodes, edges) /\ Only(queries[t], snap[t])
         /\ call[t].replace => nodes \ Honey \subseteq Ends(snap[t]) /\ edges \subseteq Links(snap[t])
    /\ step[t] = "write" /\ ~ call[t].import =>
         \A i \in DOMAIN queries[t] : queries[t][i].link = {}

LEMMA LinksHaveEnds ==
  ASSUME NEW s \in Snapshot, NEW l \in Links(s)
  PROVE  {l[2], l[3]} \subseteq Ends(s)
<1>1. CASE \E e \in s.entries : l = DomainEdge(e)
  BY <1>1 DEF DomainEdge, Ends
<1>2. CASE \E m \in Visible(s) : l = MemberEdge(m)
  BY <1>2 DEF MemberEdge, Visible, Ends
<1>3. QED
  BY <1>1, <1>2 DEF Links

\* sync_directory_snapshot writes all of a snapshot, and nothing else.
LEMMA StatementsShow ==
  ASSUME NEW s \in Snapshot
  PROVE  Promised(Statements(s), s, {}, {}) /\ Only(Statements(s), s)
<1> DEFINE q == Statements(s)
<1>0. PICK n \in Nat, m \in Nat : \E o, k : Laid(q, s, n, m, o, k)
  BY StatementsAre
<1>1. PICK o, k : Laid(q, s, n, m, o, k)
  BY <1>0
<1> HIDE DEF q
<1>2. /\ DOMAIN q = 1 .. n + m + 1 /\ q[1] = MergeOfDomain
      /\ \A i \in 1 .. n : q[i + 1] = Entry(o[i]) /\ i + 1 \in DOMAIN q
      /\ \A i \in 1 .. m : q[n + i + 1] = LinkOf(k[i], s) /\ n + i + 1 \in DOMAIN q
  BY <1>1 DEF Laid
<1>3. /\ o \in [1 .. n -> s.entries] /\ \A e \in s.entries : \E i \in 1 .. n : o[i] = e
      /\ k \in [1 .. m -> s.shown \cup s.listed]
      /\ \A x \in s.shown \cup s.listed : \E i \in 1 .. m : k[i] = x
  BY <1>1 DEF Laid
<1>4. /\ s.entries \subseteq Entries /\ s.shown \cup s.listed \subseteq Members
      /\ Domain \notin s.entries
      /\ \A x \in s.shown \cup s.listed : x.entry \in Entries /\ x.group \in Entries
  BY DEF Snapshot
<1>5. 1 \in DOMAIN q /\ Domain \in q[1].merge
  BY <1>2 DEF MergeOfDomain
<1>6. ASSUME NEW e \in s.entries
      PROVE  \E i \in 1 .. n : e \in q[i + 1].merge /\ DomainEdge(e) \in q[i + 1].link
  <2>1. PICK i \in 1 .. n : o[i] = e
    BY <1>3
  <2>2. q[i + 1] = Entry(e)
    BY <1>2, <2>1
  <2>3. e \in Entry(e).merge /\ DomainEdge(e) \in Entry(e).link
    BY DEF Entry
  <2>4. QED
    BY <2>2, <2>3
<1>7. ASSUME NEW x \in Visible(s)
      PROVE  \E i \in 1 .. m : MemberEdge(x) \in q[n + i + 1].link
  <2>1. PICK i \in 1 .. m : k[i] = x
    BY <1>3 DEF Visible
  <2>2. x \in {k[i]} \cap Spelled(s)
    BY <2>1 DEF Visible, Spelled
  <2>3. q[n + i + 1] = LinkOf(k[i], s)
    BY <1>2
  <2>4. MemberEdge(x) \in LinkOf(k[i], s).link
    BY <2>2 DEF LinkOf
  <2>5. QED
    BY <2>3, <2>4
<1>8. ASSUME NEW i \in DOMAIN q
      PROVE  \/ i = 1 /\ q[i] = MergeOfDomain
             \/ \E j \in 1 .. n : i = j + 1 /\ q[i] = Entry(o[j])
             \/ \E j \in 1 .. m : i = n + j + 1 /\ q[i] = LinkOf(k[j], s)
  <2>1. i = 1 \/ i - 1 \in 1 .. n \/ i - n - 1 \in 1 .. m
    BY <1>2
  <2>2. i = (i - 1) + 1 /\ i = n + (i - n - 1) + 1
    BY <1>2
  <2>3. CASE i = 1
    BY <1>2, <2>3
  <2>4. CASE i - 1 \in 1 .. n
    <3>1. q[(i - 1) + 1] = Entry(o[i - 1])
      BY <1>2, <2>4
    <3>2. QED
      BY <2>2, <2>4, <3>1
  <2>5. CASE i - n - 1 \in 1 .. m
    <3>1. q[n + (i - n - 1) + 1] = LinkOf(k[i - n - 1], s)
      BY <1>2, <2>5
    <3>2. QED
      BY <2>2, <2>5, <3>1
  <2>6. QED
    BY <2>1, <2>3, <2>4, <2>5
<1>9. \A x \in Ends(s) : \E i \in DOMAIN q : i <= n + 1 /\ x \in q[i].merge
  <2>1. \A x \in s.entries : \E i \in DOMAIN q : i <= n + 1 /\ x \in q[i].merge
    BY <1>2, <1>6
  <2>2. QED
    BY <1>5, <2>1 DEF Ends
<1>10. \A l \in Links(s) : \E i \in DOMAIN q : l \in q[i].link
  <2>1. ASSUME NEW l \in Links(s) PROVE \E i \in DOMAIN q : l \in q[i].link
    <3>1. CASE \E e \in s.entries : l = DomainEdge(e)
      BY <1>2, <1>6, <3>1
    <3>2. CASE \E x \in Visible(s) : l = MemberEdge(x)
      BY <1>2, <1>7, <3>2
    <3>3. QED
      BY <2>1, <3>1, <3>2 DEF Links
  <2>2. QED
    BY <2>1
<1>11. ASSUME NEW i \in DOMAIN q, NEW l \in q[i].link \cap Links(s), NEW x \in {l[2], l[3]}
       PROVE  \E j \in DOMAIN q : j <= i /\ x \in q[j].merge
  <2>1. x \in Ends(s)
    BY LinksHaveEnds
  <2>2. CASE i = 1 /\ q[i] = MergeOfDomain
    BY <1>11, <2>2 DEF MergeOfDomain
  <2>3. CASE \E j \in 1 .. n : i = j + 1 /\ q[i] = Entry(o[j])
    <3>1. PICK j \in 1 .. n : i = j + 1 /\ q[i] = Entry(o[j])
      BY <2>3
    <3>2. l = DomainEdge(o[j]) /\ o[j] \in q[i].merge
      BY <3>1 DEF Entry
    <3>3. x \in {o[j], Domain}
      BY <3>2 DEF DomainEdge
    <3>4. 1 <= i /\ i <= i
      BY <3>1
    <3>5. QED
      BY <1>5, <3>2, <3>3, <3>4
  <2>4. CASE \E j \in 1 .. m : i = n + j + 1
    <3>1. PICK j \in DOMAIN q : j <= n + 1 /\ x \in q[j].merge
      BY <1>9, <2>1
    <3>2. j <= i
      BY <1>2, <2>4, <3>1
    <3>3. QED
      BY <3>1, <3>2
  <2>5. QED
    BY <1>8, <2>2, <2>3, <2>4
<1>12. ASSUME NEW i \in DOMAIN q
       PROVE  /\ q[i].merge \subseteq Ends(s)
              /\ \A l \in q[i].link : {l[2], l[3]} \subseteq Ends(s) => l \in Links(s)
  <2>1. CASE q[i] = MergeOfDomain
    BY <2>1 DEF MergeOfDomain, Ends
  <2>2. CASE \E j \in 1 .. n : q[i] = Entry(o[j])
    <3>1. PICK j \in 1 .. n : q[i] = Entry(o[j])
      BY <2>2
    <3>2. o[j] \in s.entries
      BY <1>3
    <3>3. q[i].merge = {o[j]} /\ q[i].link = {DomainEdge(o[j])}
      BY <3>1 DEF Entry
    <3>4. QED
      BY <3>2, <3>3 DEF Ends, Links
  <2>3. CASE \E j \in 1 .. m : q[i] = LinkOf(k[j], s)
    <3>1. PICK j \in 1 .. m : q[i] = LinkOf(k[j], s)
      BY <2>3
    <3>2. q[i].merge = {} /\ q[i].link = {MemberEdge(x) : x \in {k[j]} \cap Spelled(s)}
      BY <3>1 DEF LinkOf
    <3>3. ASSUME NEW l \in q[i].link, {l[2], l[3]} \subseteq Ends(s) PROVE l \in Links(s)
      <4>1. PICK x \in Spelled(s) : l = MemberEdge(x)
        BY <3>2, <3>3
      <4>2. x \in s.shown \cup {y \in s.listed : y.exact} /\ x \in s.shown \cup s.listed
        BY <4>1 DEF Spelled
      <4>3. l[2] = x.entry /\ l[3] = x.group
        BY <4>1 DEF MemberEdge
      <4>4. x.entry \in s.entries /\ x.group \in s.entries
        BY <1>4, <3>3, <4>2, <4>3 DEF Ends
      <4>5. x \in Visible(s)
        BY <4>2, <4>4 DEF Visible
      <4>6. QED
        BY <4>1, <4>5 DEF Links
    <3>4. QED
      BY <3>2, <3>3
  <2>4. QED
    BY <1>8, <2>1, <2>2, <2>3
<1>13. Promised(q, s, {}, {})
  BY <1>9, <1>10, <1>11 DEF Promised
<1>14. Only(q, s)
  BY <1>12 DEF Only
<1>15. QED
  BY <1>13, <1>14 DEF q

LEMMA MoreIsPromised ==
  ASSUME NEW q, NEW s, NEW N, NEW E, Promised(q, s, N, E),
         NEW N2, NEW E2, N \subseteq N2, E \subseteq E2
  PROVE  Promised(q, s, N2, E2)
BY DEF Promised

\* The graph holds nothing of the directory but the snapshot.
Within(s, N, E) == N \ Honey \subseteq Ends(s) /\ E \subseteq Links(s)

\* What a statement brings need not be promised any more.
LEMMA RunKeepsPromise ==
  ASSUME NEW q \in Seq(Statement), q # <<>>, NEW s, NEW N, NEW E,
         Promised(q, s, N, E), Only(q, s),
         NEW N2, N2 = N \cup Head(q).merge,
         NEW E2, E2 = E \cup {l \in Head(q).link : {l[2], l[3]} \subseteq N2}
  PROVE  /\ Promised(Tail(q), s, N2, E2) /\ Only(Tail(q), s)
         /\ Within(s, N, E) => Within(s, N2, E2)
<1> DEFINE r == Tail(q)
<1>1. /\ Head(q) = q[1] /\ 1 \in DOMAIN q /\ DOMAIN q \subseteq Nat \ {0}
      /\ \A i \in DOMAIN r : i + 1 \in DOMAIN q /\ r[i] = q[i + 1] /\ i \in Nat
      /\ \A i \in DOMAIN q : i = 1 \/ (i - 1 \in DOMAIN r /\ q[i] = r[i - 1])
  <2>1. IsSeq(q)
    BY SeqIsSeq
  <2>2. DOMAIN q = 1 .. Len(q) /\ Len(q) \in Nat
    OBVIOUS
  <2>3. DOMAIN r \subseteq Nat
    <3>1. r \in Seq(Statement)
      OBVIOUS
    <3> HIDE DEF r
    <3>2. QED
      BY <3>1
  <2>4. QED
    BY <2>1, <2>2, <2>3, RestOfSeq
<1> HIDE DEF r
<1>2. /\ \A x \in Ends(s) \ N : \E i \in DOMAIN q : x \in q[i].merge
      /\ \A l \in Links(s) \ E : \E i \in DOMAIN q : l \in q[i].link
      /\ \A i \in DOMAIN q : \A l \in q[i].link \cap Links(s) :
           \A x \in {l[2], l[3]} \ N : \E j \in DOMAIN q : j <= i /\ x \in q[j].merge
  BY DEF Promised
<1>3. \A x \in Ends(s) \ N2 : \E i \in DOMAIN r : x \in r[i].merge
  <2> SUFFICES ASSUME NEW x \in Ends(s) \ N2 PROVE \E i \in DOMAIN r : x \in r[i].merge
    OBVIOUS
  <2>1. PICK i \in DOMAIN q : x \in q[i].merge
    BY <1>2
  <2>2. i # 1
    BY <1>1, <2>1
  <2>3. QED
    BY <1>1, <2>1, <2>2
<1>4. \A l \in Links(s) \ E2 : \E i \in DOMAIN r : l \in r[i].link
  <2> SUFFICES ASSUME NEW l \in Links(s) \ E2 PROVE \E i \in DOMAIN r : l \in r[i].link
    OBVIOUS
  <2>1. PICK i \in DOMAIN q : l \in q[i].link
    BY <1>2
  <2>2. i # 1
    <3> SUFFICES ASSUME i = 1 PROVE FALSE
      OBVIOUS
    <3>1. ASSUME NEW x \in {l[2], l[3]} PROVE x \in N2
      <4>1. CASE x \notin N
        <5>1. PICK j \in DOMAIN q : j <= 1 /\ x \in q[j].merge
          BY <1>2, <2>1, <4>1
        <5>2. j = 1
          BY <1>1, <5>1
        <5>3. QED
          BY <1>1, <5>1, <5>2
      <4>2. QED
        BY <4>1
    <3>2. l \in Head(q).link /\ {l[2], l[3]} \subseteq N2
      BY <1>1, <2>1, <3>1
    <3>3. QED
      BY <3>2
  <2>3. QED
    BY <1>1, <2>1, <2>2
<1>5. \A i \in DOMAIN r : \A l \in r[i].link \cap Links(s) :
        \A x \in {l[2], l[3]} \ N2 : \E j \in DOMAIN r : j <= i /\ x \in r[j].merge
  <2> SUFFICES ASSUME NEW i \in DOMAIN r, NEW l \in r[i].link \cap Links(s),
                      NEW x \in {l[2], l[3]} \ N2
               PROVE  \E j \in DOMAIN r : j <= i /\ x \in r[j].merge
    OBVIOUS
  <2>1. i + 1 \in DOMAIN q /\ l \in q[i + 1].link \cap Links(s) /\ x \in {l[2], l[3]} \ N
    BY <1>1
  <2>2. PICK j \in DOMAIN q : j <= i + 1 /\ x \in q[j].merge
    BY <1>2, <2>1
  <2>3. j # 1
    BY <1>1, <2>2
  <2>4. j - 1 \in DOMAIN r /\ q[j] = r[j - 1]
    BY <1>1, <2>3
  <2>5. j - 1 <= i
    BY <1>1, <2>2
  <2>6. QED
    BY <2>2, <2>4, <2>5
<1>6. Promised(r, s, N2, E2)
  BY <1>3, <1>4, <1>5 DEF Promised
<1>7. Only(r, s)
  BY <1>1 DEF Only
<1>8. ASSUME Within(s, N, E)
      PROVE  Within(s, N2, E2)
  <2> USE DEF Within
  <2>1. Head(q) \in Statement
    OBVIOUS
  <2>2. Head(q).merge \subseteq Ends(s)
    BY <1>1 DEF Only
  <2>3. N2 \ Honey \subseteq Ends(s)
    BY <1>8, <2>2
  <2>4. ASSUME NEW l \in Head(q).link, {l[2], l[3]} \subseteq N2 PROVE l \in Links(s)
    <3>1. l \in Edges
      BY <2>1 DEF Statement
    <3>2. l[2] \notin Honey /\ l[3] \notin Honey
      BY <3>1 DEF Edges
    <3>3. {l[2], l[3]} \subseteq Ends(s)
      BY <2>3, <2>4, <3>2
    <3>4. QED
      BY <1>1, <3>3 DEF Only
  <2>5. QED
    BY <1>8, <2>3, <2>4
<1>9. QED
  BY <1>6, <1>7, <1>8 DEF r

\* A statement about honey objects leaves the directory part of the graph alone.
LEMMA HoneyWrites ==
  ASSUME IInv, Wide, Showing, NEW t \in Threads, Write(t) \/ WriteFails(t), ~ call[t].import
  PROVE  /\ nodes \subseteq nodes' /\ nodes' \ Honey = nodes \ Honey /\ edges' = edges
         /\ UNCHANGED <<crossed, mirror>>
<1>1. step[t] = "write" /\ queries[t] # <<>> /\ queries[t] \in Seq(Statement)
  BY DEF Write, WriteFails, Wide
<1>2. Head(queries[t]) = queries[t][1] /\ 1 \in DOMAIN queries[t]
  BY <1>1
<1>3. Head(queries[t]).merge \subseteq Honey /\ Head(queries[t]).link = {}
  <2>1. \A i \in DOMAIN queries[t] : queries[t][i].merge \subseteq Honey
    BY <1>1 DEF IInv, Planned
  <2>2. \A i \in DOMAIN queries[t] : queries[t][i].link = {}
    BY <1>1 DEF Showing
  <2>3. QED
    BY <1>2, <2>1, <2>2
<1>4. UNCHANGED <<nodes, edges>> \/ Run(Head(queries[t]))
  BY DEF Write, WriteFails
<1>5. UNCHANGED <<crossed, mirror>>
  BY DEF Write, WriteFails, Noted
<1>6. QED
  BY <1>3, <1>4, <1>5 DEF Run

LEMMA InitShowing == Init => Showing /\ GraphMirrorsSnapshot
BY DEF Init, Showing, GraphMirrorsSnapshot

\* A step that concerns neither the graph nor a call that writes.
LEMMA AsideKeepsShowing ==
  ASSUME Showing, UNCHANGED <<nodes, edges, crossed>>,
         \A u \in Threads : step'[u] \in {"delete", "write"} =>
           /\ step'[u] = step[u] /\ call'[u] = call[u] /\ snap'[u] = snap[u]
           /\ queries'[u] = queries[u] /\ failed'[u] = failed[u]
  PROVE  Showing'
BY DEF Showing

LEMMA ReadersKeepShowing ==
  ASSUME IInv, Showing,
         \/ UNCHANGED vars \/ Restart \/ \E e \in Entries : Change(e)
         \/ \E t \in Threads :
              (\E c \in Calls : Import(t, c)) \/ Search(t) \/ SearchFails(t) \/ GiveUp(t) \/ Answer(t)
  PROVE  Showing'
<1>1. CASE UNCHANGED vars \/ \E e \in Entries : Change(e)
  BY <1>1, AsideKeepsShowing DEF vars, Change
<1>2. CASE Restart
  BY <1>2, AsideKeepsShowing DEF Restart
<1>3. ASSUME NEW t \in Threads, NEW c \in Calls, Import(t, c) PROVE Showing'
  <2>1. /\ UNCHANGED <<nodes, edges, crossed, snap, queries, failed>> /\ step' = [step EXCEPT ![t] = "search"]
        /\ call' = [call EXCEPT ![t] = c]
    BY <1>3 DEF Import
  <2>2. step'[t] = "search" /\ \A u \in Threads \ {t} : step'[u] = step[u] /\ call'[u] = call[u]
    BY <2>1 DEF IInv, Typed
  <2>3. QED
    BY <2>1, <2>2, AsideKeepsShowing
<1>4. ASSUME NEW t \in Threads, Search(t) \/ SearchFails(t) \/ GiveUp(t) \/ Answer(t) PROVE Showing'
  <2>1. UNCHANGED <<nodes, edges, crossed>>
    BY <1>4 DEF Search, SearchFails, GiveUp, Answer
  <2>2. CASE Return(t)
    BY <2>1, <2>2, ReturnClears, AsideKeepsShowing DEF IInv
  <2>3. CASE ~ Return(t)
    <3>1. UNCHANGED <<call, queries, failed>>
      BY <1>4, <2>3 DEF Search, SearchFails, GiveUp, Answer, EndCategory
    <3>2. step'[t] \notin {"delete", "write"}
      <4>1. step[t] = "search"
        BY <1>4, <2>3 DEF Search, SearchFails, GiveUp, Answer
      <4>2. step' = step \/ step' = [step EXCEPT ![t] = "health"] \/ step' = [step EXCEPT ![t] = "search"]
        BY <1>4, <2>3 DEF Search, SearchFails, GiveUp, Answer, EndCategory
      <4>3. QED
        BY <4>1, <4>2 DEF IInv, Typed
    <3>3. \A u \in Threads \ {t} : step'[u] = step[u] /\ snap'[u] = snap[u]
      BY <1>4, <2>3, OtherSearches DEF GiveUp, Answer
    <3>4. QED
      BY <2>1, <3>1, <3>2, <3>3, AsideKeepsShowing
  <2>4. QED
    BY <2>2, <2>3
<1>5. QED
  BY <1>1, <1>2, <1>3, <1>4

LEMMA SyncKeepsShowing ==
  ASSUME IInv, Showing, NEW t \in Threads, SyncHoney(t)
  PROVE  Showing'
<1>1. /\ step[t] = "idle" /\ step' = [step EXCEPT ![t] = "write"] /\ call[t] = NoCall
      /\ queries' = [queries EXCEPT ![t] = HoneyStatements]
      /\ UNCHANGED <<nodes, edges, call, snap, failed, crossed>>
  BY DEF SyncHoney, IInv, Calling
<1>2. \A u \in Threads : /\ step'[u] = IF u = t THEN "write" ELSE step[u]
                         /\ queries'[u] = IF u = t THEN HoneyStatements ELSE queries[u]
  BY <1>1 DEF IInv, Typed
<1>3. \A i \in DOMAIN HoneyStatements : HoneyStatements[i].link = {}
  BY HoneyStatementsCover
<1>4. ~ call[t].import
  BY <1>1, NothingYet
<1>5. QED
  BY <1>1, <1>2, <1>3, <1>4 DEF Showing

LEMMA HealthKeepsShowing ==
  ASSUME IInv, Showing, NEW t \in Threads, Health(t)
  PROVE  Showing'
<1> DEFINE q == Statements(snap[t])
<1>1. /\ step[t] = "health" /\ queries' = [queries EXCEPT ![t] = q]
      /\ step' = [step EXCEPT ![t] = IF call[t].replace THEN "delete" ELSE "write"]
      /\ UNCHANGED <<nodes, edges, call, snap, failed, crossed>> /\ call[t].import
  BY DEF Health, IInv, Calling
<1>2. Promised(q, snap[t], {}, {}) /\ Only(q, snap[t])
  BY StatementsShow DEF IInv, Typed
<1> HIDE DEF q
<1>3. Promised(q, snap[t], nodes, edges)
  BY <1>2, MoreIsPromised
<1>4. /\ step'[t] = IF call[t].replace THEN "delete" ELSE "write"
      /\ queries'[t] = q
      /\ \A u \in Threads \ {t} : step'[u] = step[u] /\ queries'[u] = queries[u]
  BY <1>1 DEF IInv, Typed
<1>5. QED
  BY <1>1, <1>2, <1>3, <1>4 DEF Showing

\* After the deletion nothing is left of the directory; any other import that is
\* writing was crossed.
LEMMA DeleteKeepsShowing ==
  ASSUME IInv, Wide, Showing, NEW t \in Threads, Delete(t) \/ DeleteFails(t)
  PROVE  Showing'
<1>1. /\ step[t] = "delete" /\ call[t].import /\ step' = [step EXCEPT ![t] = "write"]
      /\ UNCHANGED <<call, snap>>
      /\ ~ crossed' => ~ OthersWrite(t)
      /\ queries' = queries \/ queries' = [queries EXCEPT ![t] = <<>>]
      /\ failed' = failed \/ failed' = [failed EXCEPT ![t] = TRUE]
  BY DEF Delete, DeleteFails, IInv, Calling
<1>2. /\ step'[t] = "write"
      /\ \A u \in Threads \ {t} :
           step'[u] = step[u] /\ queries'[u] = queries[u] /\ failed'[u] = failed[u]
  BY <1>1 DEF IInv, Typed
<1>3. ASSUME NEW u \in Threads \ {t}, step'[u] = "write", call'[u].import, ~ crossed'
      PROVE  FALSE
  <2>1. step[u] = "write" /\ call[u].import
    BY <1>1, <1>2, <1>3
  <2>2. OthersWrite(t)
    BY <2>1 DEF OthersWrite
  <2>3. QED
    BY <1>1, <1>3, <2>2
<1>4. ASSUME ~ failed'[t]
      PROVE  /\ Promised(queries'[t], snap[t], nodes', edges') /\ Only(queries'[t], snap[t])
             /\ nodes' \ Honey \subseteq Ends(snap[t]) /\ edges' \subseteq Links(snap[t])
  <2>1. Delete(t)
    BY <1>4 DEF DeleteFails, IInv, Typed
  <2>2. /\ queries'[t] = queries[t] /\ nodes' = Kept
        /\ edges' = {l \in edges : {l[2], l[3]} \subseteq Kept}
    BY <2>1 DEF Delete
  <2>3. Promised(queries[t], snap[t], {}, {}) /\ Only(queries[t], snap[t])
    BY <1>1 DEF Showing
  <2>4. Promised(queries[t], snap[t], nodes', edges')
    BY <2>3, MoreIsPromised
  <2>5. edges' = {}
    <3>1. ASSUME NEW l \in edges PROVE l[2] \notin Honey
      <4>1. l \in Edges
        BY <3>1 DEF Wide
      <4>2. QED
        BY <4>1 DEF Edges
    <3>2. QED
      BY <2>2, <3>1 DEF Kept
  <2>6. nodes' \ Honey = {}
    BY <2>2 DEF Kept
  <2>7. QED
    BY <2>2, <2>3, <2>4, <2>5, <2>6
<1>5. ASSUME NEW u \in Threads \ {t}
      PROVE  /\ step'[u] = "delete" => Promised(queries'[u], snap'[u], {}, {}) /\ Only(queries'[u], snap'[u])
             /\ ~ (step'[u] = "write" /\ call'[u].import /\ ~ crossed')
             /\ step'[u] = "write" /\ ~ call'[u].import =>
                  \A i \in DOMAIN queries'[u] : queries'[u][i].link = {}
  <2>1. /\ step'[u] = step[u] /\ queries'[u] = queries[u] /\ snap'[u] = snap[u] /\ call'[u] = call[u]
    BY <1>1, <1>2
  <2>2. ~ (step'[u] = "write" /\ call'[u].import /\ ~ crossed')
    BY <1>3
  <2>3. QED
    BY <2>1, <2>2 DEF Showing
<1>6. step'[t] = "write" /\ call'[t].import /\ snap'[t] = snap[t]
  BY <1>1, <1>2
<1>7. QED
  BY <1>4, <1>5, <1>6 DEF Showing

LEMMA WriteKeepsShowing ==
  ASSUME IInv, Wide, Showing, NEW t \in Threads, Write(t) \/ WriteFails(t)
  PROVE  Showing'
<1> DEFINE q == queries[t]
<1>1. /\ step[t] = "write" /\ q # <<>> /\ q \in Seq(Statement)
      /\ UNCHANGED <<step, call, snap>> /\ Noted(t)
      /\ queries' = [queries EXCEPT ![t] = Tail(q)] \/ queries' = [queries EXCEPT ![t] = <<>>]
      /\ failed' = failed \/ failed' = [failed EXCEPT ![t] = TRUE]
  BY DEF Write, WriteFails, Remaining, Wide
<1> HIDE DEF q
<1>2. \A u \in Threads \ {t} : queries'[u] = queries[u] /\ failed'[u] = failed[u]
  BY <1>1 DEF IInv, Typed
<1>3. CASE call[t].import
  <2>1. ~ crossed' => ~ crossed /\ ~ OthersWrite(t)
    BY <1>1, <1>3 DEF Noted
  <2>2. ASSUME NEW u \in Threads \ {t}, step'[u] = "write", call'[u].import, ~ crossed'
        PROVE  FALSE
    BY <1>1, <2>1, <2>2 DEF OthersWrite
  <2>3. ASSUME ~ failed'[t], ~ crossed'
        PROVE  /\ Promised(queries'[t], snap[t], nodes', edges') /\ Only(queries'[t], snap[t])
               /\ call[t].replace =>
                    nodes' \ Honey \subseteq Ends(snap[t]) /\ edges' \subseteq Links(snap[t])
    <3>1. Write(t) /\ ~ failed[t]
      BY <2>3 DEF Write, WriteFails, IInv, Typed
    <3>2. queries'[t] = Tail(q) /\ Run(Head(q))
      BY <3>1 DEF Write, IInv, Typed, q
    <3>3. /\ Promised(q, snap[t], nodes, edges) /\ Only(q, snap[t])
          /\ call[t].replace => nodes \ Honey \subseteq Ends(snap[t]) /\ edges \subseteq Links(snap[t])
      BY <1>1, <1>3, <2>1, <2>3, <3>1 DEF Showing, q
    <3>4. /\ nodes' = nodes \cup Head(q).merge
          /\ edges' = edges \cup {l \in Head(q).link : {l[2], l[3]} \subseteq nodes'}
      BY <3>2 DEF Run
    <3>5. /\ Promised(Tail(q), snap[t], nodes', edges') /\ Only(Tail(q), snap[t])
          /\ Within(snap[t], nodes, edges) => Within(snap[t], nodes', edges')
      <4>1. q \in Seq(Statement) /\ q # <<>>
        BY <1>1
      <4>2. Promised(q, snap[t], nodes, edges) /\ Only(q, snap[t])
        BY <3>3
      <4>3. \A N2, E2 :
              /\ N2 = nodes \cup Head(q).merge
              /\ E2 = edges \cup {l \in Head(q).link : {l[2], l[3]} \subseteq N2}
              => Promised(Tail(q), snap[t], N2, E2)
        BY <4>1, <4>2, RunKeepsPromise, Zenon
      <4>4. \A N2, E2 :
              /\ N2 = nodes \cup Head(q).merge
              /\ E2 = edges \cup {l \in Head(q).link : {l[2], l[3]} \subseteq N2}
              => (Within(snap[t], nodes, edges) => Within(snap[t], N2, E2))
        BY <4>1, <4>2, RunKeepsPromise, Zenon
      <4>5. Only(Tail(q), snap[t])
        BY <4>1, <4>2, RunKeepsPromise, Zenon
      <4>6. Promised(Tail(q), snap[t], nodes', edges')
        BY <3>4, <4>3, Zenon
      <4>7. Within(snap[t], nodes, edges) => Within(snap[t], nodes', edges')
        BY <3>4, <4>4, Zenon
      <4>8. QED
        BY <4>5, <4>6, <4>7
    <3>6. QED
      BY <3>2, <3>3, <3>5 DEF Within
  <2>4. QED
    BY <1>1, <1>2, <1>3, <2>2, <2>3 DEF Showing
<1>4. CASE ~ call[t].import
  <2>1. /\ nodes \subseteq nodes' /\ nodes' \ Honey = nodes \ Honey /\ edges' = edges
        /\ crossed' = crossed
    BY <1>4, HoneyWrites
  <2>2. ASSUME NEW u \in Threads \ {t}, step[u] = "write", call[u].import, ~ failed[u], ~ crossed
        PROVE  /\ Promised(queries[u], snap[u], nodes', edges') /\ Only(queries[u], snap[u])
               /\ call[u].replace =>
                    nodes' \ Honey \subseteq Ends(snap[u]) /\ edges' \subseteq Links(snap[u])
    <3>1. /\ Promised(queries[u], snap[u], nodes, edges) /\ Only(queries[u], snap[u])
          /\ call[u].replace => nodes \ Honey \subseteq Ends(snap[u]) /\ edges \subseteq Links(snap[u])
      BY <2>2 DEF Showing
    <3>2. Promised(queries[u], snap[u], nodes', edges')
      BY <2>1, <3>1, MoreIsPromised
    <3>3. QED
      BY <2>1, <3>1, <3>2
  <2>3. \A i \in DOMAIN queries'[t] : queries'[t][i].link = {}
    <3>1. \A i \in DOMAIN q : q[i].link = {}
      BY <1>1, <1>4 DEF Showing, q
    <3>2. IsSeq(q)
      BY <1>1, SeqIsSeq
    <3>3. \A i \in DOMAIN Tail(q) : i + 1 \in DOMAIN q /\ Tail(q)[i] = q[i + 1]
      BY <1>1, <3>2, RestOfSeq
    <3>4. queries'[t] = Tail(q) \/ queries'[t] = <<>>
      BY <1>1 DEF IInv, Typed
    <3>5. CASE queries'[t] = Tail(q)
      BY <3>1, <3>3, <3>5
    <3>6. CASE queries'[t] = <<>>
      BY <3>6, NothingYet
    <3>7. QED
      BY <3>4, <3>5, <3>6
  <2>4. QED
    BY <1>1, <1>2, <1>4, <2>1, <2>2, <2>3 DEF Showing
<1>5. QED
  BY <1>3, <1>4

LEMMA StepKeepsShowing ==
  ASSUME IInv, Wide, Showing, [Next]_vars
  PROVE  Showing'
BY ReadersKeepShowing, SyncKeepsShowing, HealthKeepsShowing, DeleteKeepsShowing,
   WriteKeepsShowing DEF Next

\* The graph shows a snapshot.
Mirrors(s, replaced, N, E) ==
  /\ Ends(s) \subseteq N /\ Links(s) \subseteq E
  /\ replaced => N \ Honey = Ends(s) /\ E = Links(s)

LEMMA MirrorsIs ==
  /\ GraphMirrorsSnapshot <=>
       (mirror # NoSnapshot => Mirrors(mirror.snap, mirror.replaced, nodes, edges))
  /\ GraphMirrorsSnapshot' <=>
       (mirror' # NoSnapshot => Mirrors(mirror'.snap, mirror'.replaced, nodes', edges'))
BY DEF GraphMirrorsSnapshot, Mirrors, Ends, Links, Visible

\* With no statement left, all that was promised is there.
LEMMA AnswerMirrors ==
  ASSUME IInv, Wide, Showing, GraphMirrorsSnapshot, NEW t \in Threads, Answer(t)
  PROVE  GraphMirrorsSnapshot'
<1>1. /\ step[t] = "write" /\ queries[t] = <<>> /\ UNCHANGED <<nodes, edges>>
      /\ \/ mirror' = mirror
         \/ /\ ~ failed[t] /\ call[t].import /\ ~ crossed
            /\ mirror' = [snap |-> snap[t], replaced |-> call[t].replace]
  BY DEF Answer, Succeeded
<1>2. CASE mirror' = mirror
  BY <1>1, <1>2 DEF GraphMirrorsSnapshot
<1>3. CASE /\ ~ failed[t] /\ call[t].import /\ ~ crossed
           /\ mirror' = [snap |-> snap[t], replaced |-> call[t].replace]
  <2>1. /\ Promised(<<>>, snap[t], nodes, edges)
        /\ call[t].replace => nodes \ Honey \subseteq Ends(snap[t]) /\ edges \subseteq Links(snap[t])
    BY <1>1, <1>3 DEF Showing
  <2>2. Ends(snap[t]) \subseteq nodes /\ Links(snap[t]) \subseteq edges
    BY <2>1, NothingYet DEF Promised
  <2>3. Ends(snap[t]) \cap Honey = {}
    <3>1. snap[t] \in Snapshot
      BY DEF IInv, Typed
    <3>2. QED
      BY <3>1 DEF Ends, Snapshot
  <2>4. Mirrors(snap[t], call[t].replace, nodes', edges')
    BY <1>1, <2>1, <2>2, <2>3 DEF Mirrors
  <2>5. Mirrors(mirror'.snap, mirror'.replaced, nodes', edges')
    BY <1>3, <2>4
  <2>6. QED
    BY <2>5, MirrorsIs
<1>4. QED
  BY <1>1, <1>2, <1>3

LEMMA StepKeepsMirror ==
  ASSUME IInv, Wide, Showing, GraphMirrorsSnapshot, [Next]_vars
  PROVE  GraphMirrorsSnapshot'
<1>1. CASE UNCHANGED <<nodes, edges, mirror>>
  BY <1>1 DEF GraphMirrorsSnapshot
<1>2. CASE mirror' = NoSnapshot
  BY <1>2, MirrorsIs
<1>3. ASSUME NEW t \in Threads, Write(t) \/ WriteFails(t), ~ call[t].import
      PROVE  GraphMirrorsSnapshot'
  <2>1. /\ nodes \subseteq nodes' /\ nodes' \ Honey = nodes \ Honey /\ edges' = edges
        /\ mirror' = mirror
    BY <1>3, HoneyWrites
  <2>2. mirror # NoSnapshot => Mirrors(mirror.snap, mirror.replaced, nodes, edges)
    BY MirrorsIs
  <2>3. mirror' # NoSnapshot => Mirrors(mirror'.snap, mirror'.replaced, nodes', edges')
    BY <2>1, <2>2 DEF Mirrors
  <2>4. QED
    BY <2>3, MirrorsIs
<1>4. ASSUME NEW t \in Threads,
             \/ Delete(t) \/ DeleteFails(t)
             \/ (Write(t) \/ WriteFails(t)) /\ call[t].import
      PROVE  mirror' = NoSnapshot
  BY <1>4 DEF Delete, DeleteFails, Write, WriteFails, Noted
<1>5. ASSUME NEW t \in Threads,
             \/ \E c \in Calls : Import(t, c)
             \/ SyncHoney(t) \/ Search(t) \/ SearchFails(t) \/ GiveUp(t) \/ Health(t)
      PROVE  UNCHANGED <<nodes, edges, mirror>>
  BY <1>5 DEF Import, SyncHoney, Search, SearchFails, GiveUp, Health
<1>6. CASE UNCHANGED vars \/ Restart \/ \E e \in Entries : Change(e)
  BY <1>1, <1>6 DEF vars, Restart, Change
<1>7. QED
  BY <1>1, <1>2, <1>3, <1>4, <1>5, <1>6, AnswerMirrors DEF Next

\* Types, for any number of threads, any directory and any limits; and no category of a
\* snapshot exceeds max_objects, however the pages come (_paged_search, _simple_search).
THEOREM TypeCorrect == Spec => []TypeOK
<1>1. IInv /\ Wide /\ Capsized => TypeOK
  <2> SUFFICES ASSUME IInv, Wide, Capsized PROVE TypeOK
    OBVIOUS
  <2>1. queries \in [Threads -> Seq(Statement)]
    BY DEF IInv, Typed, Wide
  <2>2. \A t \in Threads, c \in Range(Categories) :
          Cardinality({e \in snap[t].entries : Category[e] = c}) <= Cap
    BY DEF Capsized, InCategory
  <2>3. QED
    BY <2>1, <2>2 DEF IInv, Typed, Wide, TypeOK
<1>2. IInv /\ Wide /\ Room /\ Capsized /\ [Next]_vars => IInv' /\ Wide' /\ Room' /\ Capsized'
  BY StepKeeps, StepKeepsWide, StepKeepsRoom
<1>3. QED
  BY InitHolds, InitWide, InitRoom, <1>1, <1>2, PTL DEF Spec

\* After an import that was reported as a success and that no other import crossed, the
\* graph shows its snapshot, and with replace nothing of the directory besides, until the
\* next import writes: for any number of threads, any directory and any number of failed
\* imports and restarts before (sync_directory_snapshot).
THEOREM GraphMirrors == Spec => []GraphMirrorsSnapshot
<1>1. IInv /\ Wide /\ Showing /\ GraphMirrorsSnapshot /\ [Next]_vars =>
        IInv' /\ Wide' /\ Showing' /\ GraphMirrorsSnapshot'
  BY StepKeeps, StepKeepsWide, StepKeepsShowing, StepKeepsMirror
<1>2. QED
  BY InitHolds, InitWide, InitShowing, <1>1, PTL DEF Spec
===============================================================================
