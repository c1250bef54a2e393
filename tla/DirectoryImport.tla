---------------------------- MODULE DirectoryImport ----------------------------
(***************************************************************************)
(* Reading the directory over LDAP (app/core/directory_enumerator), and    *)
(* writing it into the Neo4j graph (app/core/directory_service,            *)
(* graph_store) next to the honey nodes of the deception deployments.      *)
(*                                                                         *)
(* POST /api/connection/enumerate reads four categories, each page by      *)
(* page, while the directory may change and the server may fail.  The      *)
(* graph is then rewritten statement by statement: every session.run is a  *)
(* transaction of its own, and several imports, syncs of honey objects     *)
(* (POST /api/graph/sync and /import-sample) and restarts of the console   *)
(* may come in between.                                                    *)
(*                                                                         *)
(* An entry stands for its DN and the attributes copied from it.  Entries  *)
(* are numbers, in the order in which the server returns them.             *)
(***************************************************************************)
EXTENDS Integers, Sequences, FiniteSets, FiniteSetsExt, SequencesExt

CONSTANTS
  Threads,     \* worker threads that serve requests
  Entries,     \* directory entries, positive numbers
  Category,    \* the category of each
  Initial,     \* directories to begin with
  Members,     \* memberships that exist while both ends do
  Domain,      \* the domain node
  Honey,       \* honey objects a session may sync
  PageSize,    \* LDAP_PAGE_SIZE, 200 in the code
  MaxObjects,  \* LDAP_MAX_OBJECTS, 500 in the code
  LabMode,     \* LDAP_LAB_MODE
  NoSnapshot,  \* the graph is not known to show a snapshot
  MaxCalls,    \* bound: requests in one behaviour
  MaxChanges   \* bound: changes of the directory in one behaviour

Categories == <<"users", "groups", "computers", "trusts">>

\* Of a membership is known whether the entry shows it (memberOf, with the
\* group's own DN), and whether the group's member attribute spells the DN
\* of the entry as the entry itself does.
ASSUME EntryAssumption ==
  /\ Entries \subseteq Nat \ {0} /\ IsFiniteSet(Entries)
  /\ Category \in [Entries -> Range(Categories)]
  /\ Initial \subseteq SUBSET Entries
ASSUME NodeAssumption ==
  /\ IsFiniteSet(Honey) /\ Honey \cap Entries = {}
  /\ Domain \notin Entries \cup Honey
ASSUME MembershipAssumption ==
  /\ Members \subseteq [entry : Entries, group : Entries,
                        shown : BOOLEAN, exact : BOOLEAN]
  /\ IsFiniteSet(Members)
  /\ \A m \in Members : Category[m.group] = "groups"
  /\ \A m, n \in Members : m.entry = n.entry /\ m.group = n.group => m = n
ASSUME LimitAssumption ==
  /\ PageSize \in Int /\ MaxObjects \in Int /\ LabMode \in BOOLEAN
  /\ MaxCalls \in Nat /\ MaxChanges \in Nat

VARIABLES
  directory, \* the entries that exist
  nodes,     \* nodes of the graph: entries, honey objects, the domain
  edges,     \* its relationships, <<type, from, to>>
  step,      \* the next step of the call a thread serves
  call,      \* its parameters
  cat,       \* index of the category being read
  page,      \* entries read of it so far
  snap,      \* the snapshot so far
  queries,   \* statements still to be run
  failed,    \* a statement failed
  calls,     \* calls so far
  changes,   \* changes of the directory so far
  steady,    \* neither a change nor a failed page since the call began
  crossed,   \* two imports have written at a time, and no import has begun
             \* afresh since
  mirror,    \* the last import reported as a success that was not crossed by
             \* another, until the next one writes
  synced     \* a sync of the honey objects was reported as a success

graph   == <<nodes, edges>>
threads == <<step, call, cat, page, snap, queries, failed>>
history == <<calls, changes, steady, crossed, mirror, synced>>
vars    == <<directory, graph, threads, history>>

Calls == [import : {TRUE}, sync : BOOLEAN, replace : BOOLEAN]
NoCall == [import |-> FALSE, sync |-> TRUE, replace |-> FALSE]
NoEntries == [entries |-> {}, shown |-> {}, listed |-> {}, truncated |-> FALSE]
Edges == {"IN_DOMAIN", "TRUSTS", "MEMBER_OF"} \X (Entries \cup {Domain})
                                              \X (Entries \cup {Domain})

-----------------------------------------------------------------------------
(***************************************************************************)
(* The snapshot                                                            *)
(***************************************************************************)

Size == Max({1, PageSize})
Cap == Max({1, MaxObjects})

\* The first n of a set of entries, in the server's order.
First(n, S) == {e \in S : Cardinality({f \in S : f <= e}) <= n}

\* What a search of category c still has to return after the entries got.
Rest(c, got) == {e \in directory : Category[e] = c /\ \A f \in got : f < e}

\* Mutant: pages without a limit.
BadPageLength(got) == Cardinality(directory)

\* What _paged_search asks for; _simple_search asks for everything at once.
PageLength(got) == IF LabMode THEN Cap ELSE Min({Size, Cap - Cardinality(got)})

\* Mutant: the cap has to be exceeded.
BadCapped(got) == Cardinality(got) > Cap

\* _simple_search asks for max_objects entries and then looks for more.
Capped(got) == IF LabMode THEN Cardinality(got) > Cap ELSE Cardinality(got) >= Cap

\* What the snapshot gains from the entries got of category c; memberships
\* come as the users show them and as the groups list them.
Gain(s, c, got) ==
  LET there == {m \in Members : {m.entry, m.group} \subseteq directory}
  IN  [entries |-> s.entries \cup got,
       shown |-> IF c = "users" THEN {m \in there : m.entry \in got /\ m.shown}
                                ELSE s.shown,
       listed |-> IF c = "groups" THEN {m \in there : m.group \in got}
                                  ELSE s.listed,
       truncated |-> s.truncated \/ Capped(got)]

\* Mutant: of two spellings of a membership the last one is kept.
BadSpelled(s) == {m \in s.listed : m.exact} \cup (s.shown \ s.listed)

\* _dedupe_memberships keeps the first of two spellings, which is the one a
\* user shows; these are the memberships spelled as the entries are.
Spelled(s) == s.shown \cup {m \in s.listed \ s.shown : m.exact}

-----------------------------------------------------------------------------
(***************************************************************************)
(* Statements: the nodes merged, and the relationships merged if both      *)
(* their ends are found                                                    *)
(***************************************************************************)

Statement == [merge : SUBSET (Entries \cup Honey \cup {Domain}), link : SUBSET Edges]

DomainEdge(e) ==
  IF Category[e] = "trusts" THEN <<"TRUSTS", Domain, e>> ELSE <<"IN_DOMAIN", e, Domain>>
MemberEdge(m) == <<"MEMBER_OF", m.entry, m.group>>

Entry(e) == [merge |-> {e}, link |-> {DomainEdge(e)}]

\* Categories in their order, entries in the order they were read in.
CategoryIndex(e) == CHOOSE i \in DOMAIN Categories : Categories[i] = Category[e]
ReadBefore(e, f) ==
  \/ CategoryIndex(e) < CategoryIndex(f)
  \/ CategoryIndex(e) = CategoryIndex(f) /\ e < f
Place(S, e) == Cardinality({f \in S : f = e \/ ReadBefore(f, e)})
InOrder(S) == [i \in 1 .. Cardinality(S) |-> CHOOSE e \in S : Place(S, e) = i]

MergeDomain == <<[merge |-> {Domain}, link |-> {}]>>
MergeEntries(s) == [i \in 1 .. Cardinality(s.entries) |-> Entry(InOrder(s.entries)[i])]
MergeMemberships(s) ==
  LET links == SetToSeq(s.shown \cup s.listed)
  IN  [i \in DOMAIN links |->
         [merge |-> {}, link |-> {MemberEdge(m) : m \in {links[i]} \cap Spelled(s)}]]

\* Mutant: the domain is merged after the entries.
BadStatements(s) == MergeEntries(s) \o MergeDomain \o MergeMemberships(s)

\* sync_directory_snapshot
Statements(s) == MergeDomain \o MergeEntries(s) \o MergeMemberships(s)

\* The cypher_queries of a deployment.
HoneyStatements == [i \in 1 .. Cardinality(Honey) |->
                      [merge |-> {SetToSeq(Honey)[i]}, link |-> {}]]

\* Statement q takes effect.
Run(q) ==
  /\ nodes' = nodes \cup q.merge
  /\ edges' = edges \cup {l \in q.link : {l[2], l[3]} \subseteq nodes \cup q.merge}

-----------------------------------------------------------------------------
(***************************************************************************)
(* Requests                                                                *)
(***************************************************************************)

Goto(t, s) == step' = [step EXCEPT ![t] = s]

Return(t) ==
  /\ Goto(t, "idle")
  /\ call' = [call EXCEPT ![t] = NoCall]
  /\ snap' = [snap EXCEPT ![t] = NoEntries]
  /\ queries' = [queries EXCEPT ![t] = <<>>]
  /\ failed' = [failed EXCEPT ![t] = FALSE]

\* Other threads in the middle of writing a snapshot.
OthersWrite(t) == \E u \in Threads \ {t} : step[u] = "write" /\ call[u].import

Init ==
  /\ directory \in Initial
  /\ nodes = {} /\ edges = {}
  /\ step = [t \in Threads |-> "idle"]
  /\ call = [t \in Threads |-> NoCall]
  /\ cat = [t \in Threads |-> 1]
  /\ page = [t \in Threads |-> {}]
  /\ snap = [t \in Threads |-> NoEntries]
  /\ queries = [t \in Threads |-> <<>>]
  /\ failed = [t \in Threads |-> FALSE]
  /\ calls = 0 /\ changes = 0
  /\ steady = [t \in Threads |-> TRUE]
  /\ crossed = FALSE
  /\ mirror = NoSnapshot
  /\ synced = FALSE

\* POST /api/connection/enumerate binds to the directory.
Import(t, c) ==
  /\ step[t] = "idle" /\ calls < MaxCalls
  /\ Goto(t, "search")
  /\ call' = [call EXCEPT ![t] = c]
  /\ steady' = [steady EXCEPT ![t] = TRUE]
  /\ calls' = calls + 1
  /\ UNCHANGED <<directory, graph, cat, page, snap, queries, failed,
                 changes, crossed, mirror, synced>>

\* A category has been read; after the last one the snapshot is complete,
\* and without a sync the call is answered.
EndCategory(t, got) ==
  LET s == Gain(snap[t], Categories[cat[t]], got)
      last == cat[t] = Len(Categories) \/ (LabMode /\ cat[t] + 1 = Len(Categories))
  IN  /\ page' = [page EXCEPT ![t] = {}]
      /\ cat' = [cat EXCEPT ![t] = IF last THEN 1 ELSE @ + 1]
      /\ IF last /\ ~ call[t].sync
         THEN Return(t)
         ELSE /\ snap' = [snap EXCEPT ![t] = s]
              /\ Goto(t, IF last THEN "health" ELSE "search")
              /\ UNCHANGED <<call, queries, failed>>

\* One page: the loop goes on while there is a cookie and room.
Search(t) ==
  LET c == Categories[cat[t]]
      got == page[t] \cup First(PageLength(page[t]), Rest(c, page[t]))
  IN  /\ step[t] = "search"
      /\ IF Rest(c, got) = {} \/ Cardinality(got) >= Cap
         THEN EndCategory(t, got)
         ELSE /\ page' = [page EXCEPT ![t] = got]
              /\ UNCHANGED <<step, call, cat, snap, queries, failed>>
      /\ UNCHANGED <<directory, graph, history>>

\* The server refuses a page: a search without entries ends the loop.
SearchFails(t) ==
  /\ step[t] = "search"
  /\ EndCategory(t, page[t])
  /\ steady' = [steady EXCEPT ![t] = FALSE]
  /\ UNCHANGED <<directory, graph, calls, changes, crossed, mirror, synced>>

\* An exception while binding or searching, or a graph that is not
\* configured or does not answer health(): nothing is written.
GiveUp(t) ==
  /\ step[t] \in {"search", "health"}
  /\ Return(t)
  /\ page' = [page EXCEPT ![t] = {}]
  /\ cat' = [cat EXCEPT ![t] = 1]
  /\ UNCHANGED <<directory, graph, history>>

Health(t) ==
  /\ step[t] = "health"
  /\ Goto(t, IF call[t].replace THEN "delete" ELSE "write")
  /\ queries' = [queries EXCEPT ![t] = Statements(snap[t])]
  /\ UNCHANGED <<directory, graph, call, cat, page, snap, failed, history>>

\* Mutant: every node goes.
BadKept == {}

\* DETACH DELETE of the nodes with an AD label.
Kept == nodes \cap Honey

Delete(t) ==
  /\ step[t] = "delete"
  /\ nodes' = Kept
  /\ edges' = {l \in edges : {l[2], l[3]} \subseteq Kept}
  /\ crossed' = OthersWrite(t)
  /\ mirror' = NoSnapshot
  /\ Goto(t, "write")
  /\ UNCHANGED <<directory, call, cat, page, snap, queries, failed,
                 calls, changes, steady, synced>>

\* The statement fails, before or after it took effect: nothing more of the
\* snapshot is written.
DeleteFails(t) ==
  /\ step[t] = "delete"
  /\ \/ nodes' = Kept /\ edges' = {l \in edges : {l[2], l[3]} \subseteq Kept}
     \/ UNCHANGED graph
  /\ crossed' = (crossed \/ OthersWrite(t))
  /\ mirror' = NoSnapshot
  /\ failed' = [failed EXCEPT ![t] = TRUE]
  /\ queries' = [queries EXCEPT ![t] = <<>>]
  /\ Goto(t, "write")
  /\ UNCHANGED <<directory, call, cat, page, snap, calls, changes, steady, synced>>

\* A statement of a snapshot invalidates what was known of the graph.
Noted(t) ==
  IF call[t].import
  THEN /\ crossed' = (crossed \/ OthersWrite(t))
       /\ mirror' = NoSnapshot
  ELSE UNCHANGED <<crossed, mirror>>

Write(t) ==
  /\ step[t] = "write" /\ queries[t] # <<>>
  /\ Run(Head(queries[t]))
  /\ queries' = [queries EXCEPT ![t] = Tail(@)]
  /\ Noted(t)
  /\ UNCHANGED <<directory, step, call, cat, page, snap, failed,
                 calls, changes, steady, synced>>

\* sync_directory_snapshot stops at the first failure, execute_queries goes
\* on with the next statement.
Remaining(t) == IF call[t].import THEN <<>> ELSE Tail(queries[t])

WriteFails(t) ==
  /\ step[t] = "write" /\ queries[t] # <<>>
  /\ Run(Head(queries[t])) \/ UNCHANGED graph
  /\ queries' = [queries EXCEPT ![t] = Remaining(t)]
  /\ failed' = [failed EXCEPT ![t] = TRUE]
  /\ Noted(t)
  /\ UNCHANGED <<directory, step, call, cat, page, snap,
                 calls, changes, steady, synced>>

\* The answer of sync_directory_snapshot and execute_queries.
Succeeded(t) == ~ failed[t]

Answer(t) ==
  /\ step[t] = "write" /\ queries[t] = <<>>
  /\ mirror' = IF Succeeded(t) /\ call[t].import /\ ~ crossed /\ ~ OthersWrite(t)
               THEN [snap |-> snap[t], replaced |-> call[t].replace] ELSE mirror
  /\ synced' = (synced \/ (Succeeded(t) /\ ~ call[t].import))
  /\ Return(t)
  /\ UNCHANGED <<directory, graph, cat, page, calls, changes, steady, crossed>>

\* POST /api/graph/sync with the statements of the last deployment.
SyncHoney(t) ==
  /\ step[t] = "idle" /\ calls < MaxCalls
  /\ Goto(t, "write")
  /\ queries' = [queries EXCEPT ![t] = HoneyStatements]
  /\ calls' = calls + 1
  /\ UNCHANGED <<directory, graph, call, cat, page, snap, failed,
                 changes, steady, crossed, mirror, synced>>

\* An administrator adds or removes an entry.
Change(e) ==
  /\ changes < MaxChanges
  /\ directory' = SymDiff(directory, {e})
  /\ changes' = changes + 1
  /\ steady' = [t \in Threads |-> FALSE]
  /\ UNCHANGED <<graph, threads, calls, crossed, mirror, synced>>

\* The console stops and starts again; the graph is as far as it was.
Restart ==
  /\ step' = [t \in Threads |-> "idle"]
  /\ call' = [t \in Threads |-> NoCall]
  /\ cat' = [t \in Threads |-> 1]
  /\ page' = [t \in Threads |-> {}]
  /\ snap' = [t \in Threads |-> NoEntries]
  /\ queries' = [t \in Threads |-> <<>>]
  /\ failed' = [t \in Threads |-> FALSE]
  /\ UNCHANGED <<directory, graph, history>>

Next ==
  \/ \E t \in Threads :
       \/ \E c \in Calls : Import(t, c)
       \/ SyncHoney(t)
       \/ Search(t) \/ SearchFails(t) \/ GiveUp(t) \/ Health(t)
       \/ Delete(t) \/ DeleteFails(t) \/ Write(t) \/ WriteFails(t) \/ Answer(t)
  \/ \E e \in Entries : Change(e)
  \/ Restart

Spec == Init /\ [][Next]_vars

-----------------------------------------------------------------------------
(***************************************************************************)
(* Properties                                                              *)
(***************************************************************************)

Snapshot == [entries : SUBSET Entries, shown : SUBSET Members,
             listed : SUBSET Members, truncated : BOOLEAN]

\* Type invariant; no category of a snapshot exceeds max_objects.
TypeOK ==
  /\ directory \subseteq Entries
  /\ nodes \subseteq Entries \cup Honey \cup {Domain}
  /\ edges \subseteq Edges
  /\ step \in [Threads -> {"idle", "search", "health", "delete", "write"}]
  /\ call \in [Threads -> Calls \cup {NoCall}]
  /\ cat \in [Threads -> 1 .. Len(Categories)]
  /\ page \in [Threads -> SUBSET Entries]
  /\ snap \in [Threads -> Snapshot]
  /\ \A t \in Threads, c \in Range(Categories) :
       Cardinality({e \in snap[t].entries : Category[e] = c}) <= Cap
  /\ queries \in [Threads -> Seq(Statement)]
  /\ failed \in [Threads -> BOOLEAN]
  /\ calls \in 0 .. MaxCalls /\ changes \in 0 .. MaxChanges
  /\ steady \in [Threads -> BOOLEAN]
  /\ crossed \in BOOLEAN /\ synced \in BOOLEAN
  /\ mirror \in [snap : Snapshot, replaced : BOOLEAN] \cup {NoSnapshot}

\* A snapshot that is not marked truncated has every entry and every
\* membership, if the directory did not change and answered every page
\* (_paged_search: the cap, the last page, the cookie).
CompleteUnlessTruncated ==
  \A t \in Threads :
    step[t] = "health" /\ steady[t] /\ ~ snap[t].truncated =>
      /\ snap[t].entries = {e \in directory : LabMode => Category[e] # "trusts"}
      /\ snap[t].listed = {m \in Members : {m.entry, m.group} \subseteq directory}

\* After an import that was reported as a success and that no other import
\* crossed, the graph shows the snapshot and, if it was told to replace, no
\* entry or relationship besides: also if an earlier import broke off half-way
\* (sync_directory_snapshot).  A membership shows if a user shows it, or the
\* group spells the DN as the entry does.
GraphMirrorsSnapshot ==
  mirror # NoSnapshot =>
    LET s == mirror.snap
        ends == s.entries \cup {Domain}
        links == {DomainEdge(e) : e \in s.entries}
                 \cup {MemberEdge(m) : m \in {n \in s.shown \cup {x \in s.listed : x.exact} :
                                                {n.entry, n.group} \subseteq s.entries}}
    IN  /\ ends \subseteq nodes /\ links \subseteq edges
        /\ mirror.replaced => nodes \ Honey = ends /\ edges = links

\* While imports do not cross, every directory node hangs on its domain node,
\* in the middle of an import, after a failed one and after a restart (the
\* order of the statements of sync_directory_snapshot).
EntriesAreAttached ==
  ~ crossed => \A e \in nodes \cap Entries : DomainEdge(e) \in edges

\* Once a sync of the honey objects was reported as a success, no import takes
\* them from the graph again, whatever crosses it (AD_LABELS, HONEY_LABELS).
HoneyStays == synced => Honey \subseteq nodes
=============================================================================
