--------------------------- MODULE DeploymentProofs ---------------------------
(***************************************************************************)
(* Theorems of Deployment for every number of threads, every set of names, *)
(* plans, OUs and settings and every capacity of the history:              *)
(*   Inv1  types, and what the loops of a call work on                     *)
(*   Inv2  a call that may write is live and allowed by the settings       *)
(*   Inv3  one record per deployment, and the history is faithful to them  *)
(*   Inv4  what a teardown has still to remove                             *)
(*   Inv5  whose decoys the directory holds                                *)
(***************************************************************************)
EXTENDS Deployment, SequenceTheorems, TLAPS

Writing   == {"probe", "modify", "add"}
Deploying == {"start", "sync", "file"} \cup Writing

\* What the loops work on, and when a call has recorded nothing yet.
Shape ==
  /\ todo \in [Threads -> Seq(Names) \cup Seq(DN)]
  /\ \A t \in Threads :
       /\ pc[t] \in {"start"} \cup Writing => todo[t] \in Seq(Names) /\ todo[t] # <<>>
       /\ pc[t] = "delete" => todo[t] \in Seq(DN)
       /\ pc[t] # "idle" => dep[t] \in Ids
       /\ pc[t] \in {"idle", "start", "delete"} => made[t] = <<>>

Inv1 == TypeOK /\ Shape

\* A call that writes is not a dry run, and the settings it was admitted under
\* are still in force.
Inv2 ==
  \A t \in Threads :
    /\ pc[t] \in Writing => ~ dry[t]
    /\ pc[t] \in {"start"} \cup Writing /\ ~ dry[t] =>
         settings.enabled /\ settings.compliant

\* Every deployment files one record at most, which is open when it is filed.
Filing ==
  /\ \A i \in DOMAIN filed :
       filed[i].id \in 1 .. issued /\ filed[i].status # "torn_down"
  /\ \A i, j \in DOMAIN filed : filed[i].id = filed[j].id => i = j
  /\ marked \subseteq FiledIds

\* A deployment that runs has an id of its own and no record yet; a teardown
\* works on one that has a record.
Ownership ==
  /\ \A t \in Threads : pc[t] \in Deploying => dep[t] \in 1 .. issued \ FiledIds
  /\ \A t, u \in Threads :
       t # u /\ pc[t] \in Deploying /\ pc[u] \in Deploying => dep[t] # dep[u]
  /\ \A t \in Threads : pc[t] = "delete" => dep[t] \in FiledIds

Inv3 == Filing /\ Ownership /\ LedgerIsFaithful

\* What a record lists has been removed once it is marked; while a live teardown
\* has met no failure, what is not yet removed is what its loop has left.
Inv4 ==
  /\ \A i \in DOMAIN filed :
       filed[i].id \in marked => ToSet(filed[i].provisioned) \subseteq removed[filed[i].id]
  /\ \A t \in Threads : \A i \in DOMAIN filed :
       pc[t] = "delete" /\ ok[t] /\ ~ dry[t] /\ filed[i].id = dep[t] =>
         ToSet(filed[i].provisioned) \subseteq removed[dep[t]] \cup ToSet(todo[t])

\* A decoy in the directory is known to the deployment that created it, while it
\* runs and in its record, and no teardown saw it go.
Inv5 ==
  /\ \A d \in ad : creator[d] <= issued
  /\ \A t \in Threads : \A d \in ad :
       pc[t] \in Deploying /\ creator[d] = dep[t] => d \in ToSet(made[t])
  /\ \A i \in DOMAIN filed : \A d \in ad :
       creator[d] = filed[i].id => d \in ToSet(filed[i].provisioned)
  /\ \A d \in ad : creator[d] # 0 => d \notin removed[creator[d]]
  /\ \A c \in Ids \ FiledIds : removed[c] = {}

USE PlanAssumption, SettingsAssumption, LimitAssumption

-----------------------------------------------------------------------------
(***************************************************************************)
(* Types                                                                   *)
(***************************************************************************)

LEMMA ReturnKeeps ==
  ASSUME Inv1, NEW t \in Threads, Return(t),
         settings' \in Settings, maxRecords' = maxRecords, ad' \subseteq DN,
         ledger' \in Seq(Record), Len(ledger') <= maxRecords,
         issued' = issued, faults' \in 0 .. MaxFaults, boots' = boots,
         filed' \in Seq(Record), marked' \subseteq Ids,
         creator' \in [DN -> Ids \cup {0}], removed' \in [Ids -> SUBSET DN]
  PROVE  Inv1'
<1>1. /\ pc' \in [Threads -> Places] /\ dep' \in [Threads -> Ids \cup {0}]
      /\ dry' \in [Threads -> BOOLEAN] /\ made' \in [Threads -> Seq(DN)]
      /\ ok' \in [Threads -> BOOLEAN] /\ todo' \in [Threads -> Seq(Names) \cup Seq(DN)]
  BY DEF Inv1, TypeOK, Shape, Return, Goto, Places
<1>2. TypeOK'
  BY <1>1 DEF Inv1, TypeOK
<1>3. ASSUME NEW u \in Threads
      PROVE  /\ pc'[u] \in {"start"} \cup Writing => todo'[u] \in Seq(Names) /\ todo'[u] # <<>>
             /\ pc'[u] = "delete" => todo'[u] \in Seq(DN)
             /\ pc'[u] # "idle" => dep'[u] \in Ids
             /\ pc'[u] \in {"idle", "start", "delete"} => made'[u] = <<>>
  BY DEF Inv1, TypeOK, Shape, Return, Goto, Writing
<1>4. QED
  BY <1>1, <1>2, <1>3 DEF Inv1, Shape

LEMMA StartKeeps ==
  ASSUME Inv1, NEW t \in Threads, NEW isDry \in BOOLEAN, NEW names \in Seq(Names),
         NEW label \in {"start", "sync", "file"}, label = "start" => names # <<>>,
         NEW success \in BOOLEAN, StartDeploy(t, isDry, names, label, success)
  PROVE  Inv1'
<1>1. issued + 1 \in Ids /\ issued' \in 0 .. MaxDeploys
  BY DEF Inv1, TypeOK, StartDeploy, Ids
<1>2. /\ pc' \in [Threads -> Places] /\ dep' \in [Threads -> Ids \cup {0}]
      /\ dry' \in [Threads -> BOOLEAN] /\ ok' \in [Threads -> BOOLEAN]
      /\ todo' \in [Threads -> Seq(Names) \cup Seq(DN)]
  BY <1>1 DEF Inv1, TypeOK, Shape, StartDeploy, Goto, Places
<1>3. TypeOK'
  BY <1>1, <1>2 DEF Inv1, TypeOK, StartDeploy, world, config, traces
<1>4. ASSUME NEW u \in Threads
      PROVE  /\ pc'[u] \in {"start"} \cup Writing => todo'[u] \in Seq(Names) /\ todo'[u] # <<>>
             /\ pc'[u] = "delete" => todo'[u] \in Seq(DN)
             /\ pc'[u] # "idle" => dep'[u] \in Ids
             /\ pc'[u] \in {"idle", "start", "delete"} => made'[u] = <<>>
  BY <1>1 DEF Inv1, TypeOK, Shape, StartDeploy, Goto, Writing
<1>5. QED
  BY <1>2, <1>3, <1>4 DEF Inv1, Shape

\* The target of a loop is a DN in the OU of the settings.
LEMMA TargetType ==
  ASSUME Inv1, NEW t \in Threads, pc[t] \in {"start"} \cup Writing
  PROVE  /\ Target(t) \in DN /\ Target(t).ou = settings.ou
         /\ Tail(todo[t]) \in Seq(Names)
<1>1. todo[t] \in Seq(Names) /\ todo[t] # <<>>
  BY DEF Inv1, Shape
<1>2. Head(todo[t]) \in Names /\ Tail(todo[t]) \in Seq(Names)
  BY <1>1
<1>3. settings.ou \in Ous
  BY DEF Inv1, TypeOK
<1>4. QED
  BY <1>2, <1>3 DEF Target, Dn, DN

\* A step of the loop over the objects of a deployment.
LEMMA NextObjectKeeps ==
  ASSUME Inv1, NEW t \in Threads, pc[t] \in Writing, NextObject(t),
         settings' = settings, maxRecords' = maxRecords, ad' \subseteq DN,
         ledger' = ledger, dep' = dep, dry' = dry,
         made' \in [Threads -> Seq(DN)], ok' \in [Threads -> BOOLEAN],
         \A u \in Threads \ {t} : made'[u] = made[u],
         issued' = issued, faults' \in 0 .. MaxFaults, boots' = boots,
         filed' = filed, marked' = marked,
         creator' \in [DN -> Ids \cup {0}], removed' = removed
  PROVE  Inv1'
<1>1. Tail(todo[t]) \in Seq(Names)
  BY TargetType
<1>2. /\ pc' \in [Threads -> Places]
      /\ todo' \in [Threads -> Seq(Names) \cup Seq(DN)]
  BY <1>1 DEF Inv1, TypeOK, Shape, NextObject, Goto, Places
<1>3. TypeOK'
  BY <1>2 DEF Inv1, TypeOK
<1>4. ASSUME NEW u \in Threads
      PROVE  /\ pc'[u] \in {"start"} \cup Writing => todo'[u] \in Seq(Names) /\ todo'[u] # <<>>
             /\ pc'[u] = "delete" => todo'[u] \in Seq(DN)
             /\ pc'[u] # "idle" => dep'[u] \in Ids
             /\ pc'[u] \in {"idle", "start", "delete"} => made'[u] = <<>>
  <2>1. CASE u = t
    BY <1>1, <2>1 DEF Inv1, TypeOK, Shape, NextObject, Goto, Writing
  <2>2. CASE u # t
    BY <2>2 DEF Inv1, TypeOK, Shape, NextObject, Goto, Writing
  <2>3. QED
    BY <2>1, <2>2
<1>5. QED
  BY <1>2, <1>3, <1>4 DEF Inv1, Shape

\* Everything the loop had left is dropped, and the call goes on to the sync.
LEMMA ToSyncKeeps ==
  ASSUME Inv1, NEW t \in Threads, pc[t] \in {"start"} \cup Writing,
         Goto(t, "sync"), todo' = [todo EXCEPT ![t] = <<>>],
         settings' = settings, maxRecords' = maxRecords, ad' \subseteq DN,
         ledger' = ledger, dep' = dep, dry' = dry,
         made' \in [Threads -> Seq(DN)], ok' \in [Threads -> BOOLEAN],
         \A u \in Threads \ {t} : made'[u] = made[u],
         issued' = issued, faults' \in 0 .. MaxFaults, boots' = boots,
         filed' = filed, marked' = marked,
         creator' \in [DN -> Ids \cup {0}], removed' = removed
  PROVE  Inv1'
<1>2. /\ pc' \in [Threads -> Places]
      /\ todo' \in [Threads -> Seq(Names) \cup Seq(DN)]
  BY DEF Inv1, TypeOK, Shape, Goto, Places
<1>3. TypeOK'
  BY <1>2 DEF Inv1, TypeOK
<1>4. ASSUME NEW u \in Threads
      PROVE  /\ pc'[u] \in {"start"} \cup Writing => todo'[u] \in Seq(Names) /\ todo'[u] # <<>>
             /\ pc'[u] = "delete" => todo'[u] \in Seq(DN)
             /\ pc'[u] # "idle" => dep'[u] \in Ids
             /\ pc'[u] \in {"idle", "start", "delete"} => made'[u] = <<>>
  <2>1. CASE u = t
    BY <2>1 DEF Inv1, TypeOK, Shape, Goto, Writing
  <2>2. CASE u # t
    BY <2>2 DEF Inv1, TypeOK, Shape, Goto, Writing
  <2>3. QED
    BY <2>1, <2>2
<1>5. QED
  BY <1>2, <1>3, <1>4 DEF Inv1, Shape

\* A step of the loop over the objects of a teardown.
LEMMA DeleteKeeps ==
  ASSUME Inv1, NEW t \in Threads, pc[t] = "delete", todo[t] # <<>>,
         todo' = [todo EXCEPT ![t] = Tail(@)], pc' = pc,
         settings' = settings, maxRecords' = maxRecords, ad' \subseteq DN,
         ledger' = ledger, dep' = dep, dry' = dry, made' = made,
         ok' \in [Threads -> BOOLEAN],
         issued' = issued, faults' \in 0 .. MaxFaults, boots' = boots,
         filed' = filed, marked' = marked,
         creator' \in [DN -> Ids \cup {0}], removed' \in [Ids -> SUBSET DN]
  PROVE  Inv1'
<1>1. todo[t] \in Seq(DN) /\ Tail(todo[t]) \in Seq(DN)
  BY DEF Inv1, Shape
<1>2. todo' \in [Threads -> Seq(Names) \cup Seq(DN)]
  BY <1>1 DEF Inv1, Shape
<1>3. TypeOK'
  BY <1>2 DEF Inv1, TypeOK
<1>4. ASSUME NEW u \in Threads
      PROVE  /\ pc'[u] \in {"start"} \cup Writing => todo'[u] \in Seq(Names) /\ todo'[u] # <<>>
             /\ pc'[u] = "delete" => todo'[u] \in Seq(DN)
             /\ pc'[u] # "idle" => dep'[u] \in Ids
             /\ pc'[u] \in {"idle", "start", "delete"} => made'[u] = <<>>
  <2>1. CASE u = t
    BY <1>1, <2>1 DEF Inv1, TypeOK, Shape, Writing
  <2>2. CASE u # t
    BY <2>2 DEF Inv1, TypeOK, Shape, Writing
  <2>3. QED
    BY <2>1, <2>2
<1>5. QED
  BY <1>2, <1>3, <1>4 DEF Inv1, Shape

LEMMA NewRecordType ==
  ASSUME Inv1, NEW t \in Threads, pc[t] \in {"sync", "file"}
  PROVE  /\ NewRecord(t) \in Record /\ NewRecord(t).id = dep[t]
         /\ NewRecord(t).provisioned = made[t] /\ NewRecord(t).status # "torn_down"
BY DEF Inv1, TypeOK, Shape, NewRecord, Record

\* The newest records, up to the capacity of the history.
LEMMA KeptType ==
  ASSUME NEW s \in Seq(Record), maxRecords \in Capacities
  PROVE  /\ Kept(s) \in Seq(Record)
         /\ Len(Kept(s)) = IF Len(s) > maxRecords THEN maxRecords ELSE Len(s)
         /\ \A i \in 1 .. Len(Kept(s)) : Kept(s)[i] = s[i]
BY DEF Kept

LEMMA MarkedType ==
  ASSUME NEW s \in Seq(Record), NEW id \in Ids
  PROVE  /\ Marked(s, id) \in Seq(Record) /\ Len(Marked(s, id)) = Len(s)
         /\ \A i \in 1 .. Len(s) :
              Marked(s, id)[i] = IF s[i].id = id THEN [s[i] EXCEPT !.status = "torn_down"]
                                 ELSE s[i]
<1>1. DOMAIN s = 1 .. Len(s) /\ Len(s) \in Nat /\ \A i \in 1 .. Len(s) : s[i] \in Record
  OBVIOUS
<1>2. \A r \in Record : [r EXCEPT !.status = "torn_down"] \in Record
  BY DEF Record
<1>3. Marked(s, id) \in [1 .. Len(s) -> Record]
  BY <1>1, <1>2 DEF Marked
<1>4. QED
  BY <1>1, <1>3 DEF Marked

LEMMA RestartKeeps ==
  ASSUME Inv1, Restart
  PROVE  Inv1'
<1>1. boots' \in 1 .. MaxBoots
  BY DEF Inv1, TypeOK, Restart
<1>2. TypeOK'
  BY <1>1 DEF Inv1, TypeOK, Restart, traces, Places
<1>3. todo' \in [Threads -> Seq(Names) \cup Seq(DN)]
  BY DEF Restart
<1>4. QED
  BY <1>2, <1>3 DEF Inv1, Shape, Restart, Writing

LEMMA FaultType == ASSUME Inv1, Fault PROVE faults' \in 0 .. MaxFaults
BY DEF Inv1, TypeOK, Fault

LEMMA DeployKeeps ==
  ASSUME Inv1, NEW t \in Threads, Deploy(t)
  PROVE  Inv1'
<1> USE DEF world, config, bounds, traces
<1>1. CASE DeployPlan(t)
  <2>1. StartDeploy(t, FALSE, <<>>, "sync", TRUE)
    BY <1>1, Zenon DEF DeployPlan
  <2>2. <<>> \in Seq(Names)
    OBVIOUS
  <2>3. QED
    BY <2>1, <2>2, StartKeeps
<1>2. CASE DeployBlocked(t)
  <2>1. StartDeploy(t, FALSE, <<>>, "file", FALSE)
    BY <1>2, Zenon DEF DeployBlocked
  <2>2. <<>> \in Seq(Names)
    OBVIOUS
  <2>3. QED
    BY <2>1, <2>2, StartKeeps
<1>3. CASE DeployToDirectory(t)
  <2>1. PICK isDry \in BOOLEAN, names \in Plans : StartDeploy(t, isDry, names, "start", TRUE)
    BY <1>3 DEF DeployToDirectory
  <2>2. names \in Seq(Names) /\ names # <<>>
    OBVIOUS
  <2>3. QED
    BY <2>1, <2>2, StartKeeps
<1>4. CASE PreflightFails(t)
  BY <1>4, FaultType, ToSyncKeeps DEF PreflightFails, Fault, Inv1, TypeOK
<1>5. CASE DryProvision(t)
  <2>1. todo[t] \in Seq(Names) /\ settings.ou \in Ous
    BY <1>5 DEF DryProvision, Inv1, TypeOK, Shape
  <2>2. [i \in DOMAIN todo[t] |-> Dn(todo[t][i])] \in Seq(DN)
    <3>1. DOMAIN todo[t] = 1 .. Len(todo[t]) /\ Len(todo[t]) \in Nat
      BY <2>1
    <3>2. \A i \in 1 .. Len(todo[t]) : Dn(todo[t][i]) \in DN
      BY <2>1 DEF Dn, DN
    <3>3. [i \in DOMAIN todo[t] |-> Dn(todo[t][i])] \in [1 .. Len(todo[t]) -> DN]
      BY <3>1, <3>2
    <3>4. QED
      BY <3>1, <3>3, SeqDef
  <2>3. QED
    BY <1>5, <2>2, ToSyncKeeps DEF DryProvision, Inv1, TypeOK
<1>6. CASE Probe(t)
  <2>1. TypeOK'
    BY <1>6 DEF Probe, Goto, Inv1, TypeOK, Places
  <2>2. QED
    BY <1>6, <2>1 DEF Probe, Goto, Inv1, TypeOK, Shape, Writing
<1>7. CASE Modify(t)
  <2>1. pc[t] \in Writing
    BY <1>7 DEF Modify, Writing
  <2>2. made' \in [Threads -> Seq(DN)]
    BY <1>7, <2>1, TargetType DEF Modify, Inv1, TypeOK
  <2>3. QED
    BY <1>7, <2>1, <2>2, NextObjectKeeps DEF Modify, Inv1, TypeOK
<1>8. CASE Add(t)
  <2>1. pc[t] \in Writing
    BY <1>8 DEF Add, Writing
  <2>2. Target(t) \in DN
    BY <2>1, TargetType
  <2>3. made' \in [Threads -> Seq(DN)]
    BY <1>8, <2>2 DEF Add, Inv1, TypeOK
  <2>4. creator' \in [DN -> Ids \cup {0}] /\ ad' \subseteq DN
    BY <1>8, <2>2 DEF Add, Inv1, TypeOK
  <2>5. QED
    BY <1>8, <2>1, <2>3, <2>4, NextObjectKeeps DEF Add, Inv1, TypeOK
<1>9. CASE AddRefused(t)
  BY <1>9, FaultType, NextObjectKeeps DEF AddRefused, Fault, Inv1, TypeOK, Writing
<1>10. CASE ProvisionRaises(t)
  <2>1. pc[t] \in Writing
    BY <1>10 DEF ProvisionRaises, Writing
  <2>2. Target(t) \in DN
    BY <2>1, TargetType
  <2>3. creator' \in [DN -> Ids \cup {0}] /\ ad' \subseteq DN
    BY <1>10, <2>2 DEF ProvisionRaises, Inv1, TypeOK
  <2>4. QED
    BY <1>10, <2>1, <2>3, FaultType, ToSyncKeeps DEF ProvisionRaises, Fault, Inv1, TypeOK
<1>11. CASE DeployRaises(t)
  BY <1>11, ReturnKeeps DEF DeployRaises, Inv1, TypeOK
<1>12. CASE FileRecord(t)
  <2>1. NewRecord(t) \in Record
    BY <1>12, NewRecordType DEF FileRecord
  <2>2. <<NewRecord(t)>> \o ledger \in Seq(Record) /\ filed' \in Seq(Record)
    BY <1>12, <2>1 DEF FileRecord, Inv1, TypeOK
  <2>3. ledger' \in Seq(Record) /\ Len(ledger') <= maxRecords
    <3>1. ledger' = Kept(<<NewRecord(t)>> \o ledger)
      BY <1>12 DEF FileRecord
    <3>2. maxRecords \in Capacities /\ maxRecords \in Nat
      BY DEF Inv1, TypeOK
    <3>3. Len(<<NewRecord(t)>> \o ledger) \in Nat
      BY <2>2
    <3> DEFINE s == <<NewRecord(t)>> \o ledger
    <3> HIDE DEF s
    <3>4. s \in Seq(Record) /\ Len(s) \in Nat /\ ledger' = Kept(s)
      BY <2>2, <3>1, <3>3 DEF s
    <3>5. /\ Kept(s) \in Seq(Record)
          /\ Len(Kept(s)) = IF Len(s) > maxRecords THEN maxRecords ELSE Len(s)
      BY <3>2, <3>4, KeptType
    <3>6. QED
      BY <3>2, <3>4, <3>5
  <2>4. QED
    BY <1>12, <2>2, <2>3, ReturnKeeps DEF FileRecord, Inv1, TypeOK
<1>13. QED
  BY <1>1, <1>2, <1>3, <1>4, <1>5, <1>6, <1>7, <1>8, <1>9, <1>10, <1>11, <1>12 DEF Deploy

LEMMA TeardownKeeps ==
  ASSUME Inv1, NEW t \in Threads, Teardown(t)
  PROVE  Inv1'
<1> USE DEF world, config, bounds, traces
<1>1. CASE TeardownAnswered(t)
  BY <1>1 DEF TeardownAnswered, vars, calls, Inv1, TypeOK, Shape
<1>2. CASE TeardownCall(t)
  <2>1. PICK r \in ToSet(ledger), isDry \in BOOLEAN :
          /\ Goto(t, "delete")
          /\ dep' = [dep EXCEPT ![t] = r.id]
          /\ dry' = [dry EXCEPT ![t] = isDry]
          /\ todo' = [todo EXCEPT ![t] = r.provisioned]
    BY <1>2 DEF TeardownCall
  <2>2. r.id \in Ids /\ r.provisioned \in Seq(DN)
    <3>1. PICK i \in DOMAIN ledger : r = ledger[i]
      BY DEF ToSet
    <3>2. ledger[i] \in Record
      BY <3>1 DEF Inv1, TypeOK
    <3>3. QED
      BY <3>1, <3>2 DEF Record
  <2>3. TypeOK'
    BY <1>2, <2>1, <2>2 DEF TeardownCall, Goto, Inv1, TypeOK, Shape, Places
  <2>4. QED
    BY <1>2, <2>1, <2>2, <2>3 DEF TeardownCall, Goto, Inv1, TypeOK, Shape, Writing
<1>3. CASE TeardownRaises(t)
  <2>1. Head(todo[t]) \in DN
    BY <1>3 DEF TeardownRaises, Inv1, Shape
  <2>2. creator' \in [DN -> Ids \cup {0}] /\ ad' \subseteq DN
    BY <1>3, <2>1 DEF TeardownRaises, Inv1, TypeOK
  <2>3. QED
    BY <1>3, <2>2, FaultType, ReturnKeeps DEF TeardownRaises, Fault, Inv1, TypeOK
<1>4. CASE DeleteObject(t)
  <2>1. Head(todo[t]) \in DN /\ dep[t] \in Ids
    BY <1>4 DEF DeleteObject, Inv1, Shape
  <2>2. /\ creator' \in [DN -> Ids \cup {0}] /\ ad' \subseteq DN
        /\ removed' \in [Ids -> SUBSET DN]
    <3>1. CASE dry[t]
      BY <1>4, <3>1 DEF DeleteObject, Inv1, TypeOK
    <3>2. CASE ~ dry[t]
      <4>1. removed[dep[t]] \cup {Head(todo[t])} \in SUBSET DN
        BY <2>1 DEF Inv1, TypeOK
      <4>2. removed' = [removed EXCEPT ![dep[t]] = removed[dep[t]] \cup {Head(todo[t])}]
        BY <1>4, <3>2 DEF DeleteObject
      <4>3. removed' \in [Ids -> SUBSET DN]
        BY <4>1, <4>2, Zenon DEF Inv1, TypeOK
      <4>4. QED
        BY <1>4, <2>1, <3>2, <4>3 DEF DeleteObject, Inv1, TypeOK
    <3>3. QED
      BY <3>1, <3>2
  <2>3. QED
    BY <1>4, <2>2, DeleteKeeps DEF DeleteObject, Inv1, TypeOK
<1>5. CASE DeleteFails(t)
  <2>1. faults' \in 0 .. MaxFaults /\ issued' = issued /\ boots' = boots
    BY <1>5, FaultType DEF DeleteFails, Fault, Inv1, TypeOK
  <2>2. QED
    BY <1>5, <2>1, DeleteKeeps DEF DeleteFails, Inv1, TypeOK
<1>6. CASE TeardownKeepsRecord(t)
  BY <1>6, ReturnKeeps DEF TeardownKeepsRecord, Inv1, TypeOK
<1>7. CASE MarkTornDown(t)
  <2>1. dep[t] \in Ids
    BY <1>7 DEF MarkTornDown, Inv1, Shape
  <2>2. ledger' \in Seq(Record) /\ Len(ledger') <= maxRecords /\ marked' \subseteq Ids
    BY <1>7, <2>1, MarkedType DEF MarkTornDown, Inv1, TypeOK
  <2>3. QED
    BY <1>7, <2>2, ReturnKeeps DEF MarkTornDown, Inv1, TypeOK
<1>8. CASE MarkRaises(t)
  BY <1>8, ReturnKeeps DEF MarkRaises, Inv1, TypeOK
<1>9. QED
  BY <1>1, <1>2, <1>3, <1>4, <1>5, <1>6, <1>7, <1>8 DEF Teardown

LEMMA InitTypes == Init => Inv1
<1> SUFFICES ASSUME Init PROVE Inv1
  OBVIOUS
<1>1. TypeOK
  BY DEF Init, TypeOK, Places
<1>2. QED
  BY <1>1 DEF Init, Inv1, Shape, Writing

LEMMA StepTypes == ASSUME Inv1, [Next]_vars PROVE Inv1'
<1>1. CASE UNCHANGED vars
  BY <1>1 DEF vars, world, config, calls, bounds, traces, Inv1, TypeOK, Shape
<1>2. CASE Next
  BY <1>2, RestartKeeps, DeployKeeps, TeardownKeeps DEF Next
<1>3. QED
  BY <1>1, <1>2

\* The type invariant, for any threads, plans, settings and capacities: the
\* history never exceeds its capacity (deployment_history).
THEOREM TypeCorrect == Spec => []TypeOK
<1>1. Inv1 => TypeOK
  BY DEF Inv1
<1>2. QED
  BY InitTypes, StepTypes, <1>1, PTL DEF Spec

-----------------------------------------------------------------------------
(***************************************************************************)
(* What changes in the directory, and under which settings                 *)
(***************************************************************************)

\* The four ways a step treats the settings and the call it belongs to.
LEMMA Admission ==
  ASSUME Inv1, NEW t \in Threads, Deploy(t) \/ Teardown(t)
  PROVE  /\ settings' = settings
         /\ \A u \in Threads \ {t} : pc'[u] = pc[u] /\ dry'[u] = dry[u]
         /\ \/ pc'[t] \notin {"start"} \cup Writing
            \/ pc'[t] = "start" /\ (~ dry'[t] => settings.enabled /\ settings.compliant)
            \/ /\ pc[t] \in {"start"} \cup Writing /\ pc'[t] \in Writing
               /\ dry'[t] = dry[t] /\ (pc[t] = "start" => ~ dry[t])
<1> USE DEF world, config, calls, bounds, traces, Inv1, TypeOK
<1>1. CASE DeployPlan(t) \/ DeployBlocked(t) \/ DeployToDirectory(t)
  BY <1>1 DEF DeployPlan, DeployBlocked, DeployToDirectory, StartDeploy, Goto, Writing
<1>2. CASE PreflightFails(t) \/ DryProvision(t) \/ ProvisionRaises(t)
  BY <1>2 DEF PreflightFails, DryProvision, ProvisionRaises, Goto, Writing
<1>3. CASE Probe(t)
  BY <1>3 DEF Probe, Goto, Writing
<1>4. CASE Modify(t) \/ Add(t) \/ AddRefused(t)
  BY <1>4 DEF Modify, Add, AddRefused, NextObject, Goto, Writing
<1>5. CASE DeployRaises(t) \/ FileRecord(t)
  BY <1>5 DEF DeployRaises, FileRecord, Return, Goto, Writing
<1>6. CASE TeardownAnswered(t)
  BY <1>6 DEF TeardownAnswered, vars, Writing, Inv2
<1>7. CASE TeardownCall(t)
  BY <1>7 DEF TeardownCall, Goto, Writing
<1>8. CASE TeardownRaises(t) \/ TeardownKeepsRecord(t) \/ MarkTornDown(t) \/ MarkRaises(t)
  BY <1>8 DEF TeardownRaises, TeardownKeepsRecord, MarkTornDown, MarkRaises, Return,
              Goto, Writing
<1>9. CASE DeleteObject(t) \/ DeleteFails(t)
  BY <1>9 DEF DeleteObject, DeleteFails, Writing
<1>10. QED
  BY <1>1, <1>2, <1>3, <1>4, <1>5, <1>6, <1>7, <1>8, <1>9 DEF Deploy, Teardown

LEMMA StepAdmission == ASSUME Inv1, Inv2, [Next]_vars PROVE Inv2'
<1>1. CASE UNCHANGED vars
  BY <1>1 DEF vars, world, config, calls, Inv2
<1>2. CASE Restart
  BY <1>2 DEF Restart, Inv2, Writing
<1>3. CASE \E t \in Threads : Deploy(t) \/ Teardown(t)
  BY <1>3, Admission DEF Inv2, Writing
<1>4. QED
  BY <1>1, <1>2, <1>3 DEF Next

\* A step creates the target of an add, deletes what a live teardown has at
\* hand, or leaves the directory alone.
LEMMA DirectoryChange ==
  ASSUME Inv1, [Next]_vars
  PROVE  \/ ad' = ad
         \/ \E t \in Threads : pc[t] = "add" /\ ad' = ad \cup {Target(t)}
         \/ \E t \in Threads : /\ pc[t] = "delete" /\ ~ dry[t] /\ SafeDn(Head(todo[t]))
                              /\ ad' = ad \ {Head(todo[t])}
<1> USE DEF world, config
<1>1. CASE UNCHANGED vars
  BY <1>1 DEF vars
<1>2. CASE Restart
  BY <1>2 DEF Restart
<1>3. ASSUME NEW t \in Threads, Deploy(t)
      PROVE  ad' = ad \/ (pc[t] = "add" /\ ad' = ad \cup {Target(t)})
  BY <1>3 DEF Deploy, DeployPlan, DeployBlocked, DeployToDirectory, StartDeploy,
              PreflightFails, DryProvision, Probe, Modify, Add, AddRefused,
              ProvisionRaises, DeployRaises, FileRecord
<1>4. ASSUME NEW t \in Threads, Teardown(t)
      PROVE  \/ ad' = ad
             \/ /\ pc[t] = "delete" /\ ~ dry[t] /\ SafeDn(Head(todo[t]))
                /\ ad' = ad \ {Head(todo[t])}
  BY <1>4 DEF Teardown, TeardownAnswered, vars, TeardownCall, TeardownRaises,
              DeleteObject, DeleteFails, TeardownKeepsRecord, MarkTornDown, MarkRaises
<1>5. QED
  BY <1>1, <1>2, <1>3, <1>4 DEF Next

LEMMA InitAdmission == Init => Inv2
BY DEF Init, Inv2, Writing

\* Whatever OU the records of earlier starts name, nothing is created or deleted
\* outside the honey OU of the settings in force (_is_safe_dn, _ensure_prefix).
THEOREM StayInOu == Spec => ChangesStayInOu
<1>1. ASSUME Inv1, [Next]_vars
      PROVE  [\A d \in (ad \ ad') \cup (ad' \ ad) : d.ou = settings.ou]_vars
  <2>1. ASSUME NEW t \in Threads, pc[t] = "add" PROVE Target(t).ou = settings.ou
    BY <1>1, <2>1, TargetType DEF Writing
  <2>2. QED
    BY <1>1, <2>1, DirectoryChange DEF SafeDn
<1>2. QED
  BY InitTypes, StepTypes, <1>1, PTL DEF Spec, ChangesStayInOu

\* The directory grows only under settings that allow it, and no dry run changes
\* it (api_deception_deploy, gate_provision).
THEOREM LiveChanges == Spec => ChangesAreLive
<1>1. ASSUME Inv1, Inv2, [Next]_vars
      PROVE  [/\ ad' \ ad # {} => settings.enabled /\ settings.compliant
              /\ ad' # ad => \E t \in Threads : pc[t] \in {"add", "delete"} /\ ~dry[t]]_vars
  BY <1>1, DirectoryChange DEF Inv2, Writing
<1>2. QED
  BY InitTypes, StepTypes, InitAdmission, StepAdmission, <1>1, PTL DEF Spec, ChangesAreLive

-----------------------------------------------------------------------------
(***************************************************************************)
(* The history                                                             *)
(***************************************************************************)

LEMMA FiledIdsByIndex ==
  FiledIds = {filed[i].id : i \in DOMAIN filed}
BY DEF FiledIds, ToSet

\* What a step of a call does to the call, and to the history.
LEMMA CallStep ==
  ASSUME Inv1, NEW t \in Threads, Deploy(t) \/ Teardown(t)
  PROVE  /\ \A u \in Threads \ {t} : pc'[u] = pc[u] /\ dep'[u] = dep[u]
         /\ \/ pc'[t] = "idle" /\ issued' = issued
            \/ pc'[t] \in Deploying /\ dep'[t] = issued + 1 /\ issued' = issued + 1
            \/ /\ pc[t] \in Deploying /\ pc'[t] \in Deploying
               /\ dep'[t] = dep[t] /\ issued' = issued
            \/ /\ pc[t] = "delete" /\ pc'[t] = "delete"
               /\ dep'[t] = dep[t] /\ issued' = issued
            \/ /\ pc'[t] = "delete" /\ issued' = issued
               /\ \E r \in ToSet(ledger) : dep'[t] = r.id
         /\ maxRecords' = maxRecords
         /\ FileRecord(t) \/ MarkTornDown(t) \/ UNCHANGED <<ledger, filed, marked>>
<1> USE DEF world, config, calls, bounds, traces, Inv1, TypeOK
<1>1. CASE DeployPlan(t) \/ DeployBlocked(t) \/ DeployToDirectory(t)
  BY <1>1 DEF DeployPlan, DeployBlocked, DeployToDirectory, StartDeploy, Goto, Deploying
<1>2. CASE PreflightFails(t) \/ DryProvision(t) \/ ProvisionRaises(t)
  BY <1>2 DEF PreflightFails, DryProvision, ProvisionRaises, Fault, Goto, Deploying, Writing
<1>3. CASE Probe(t)
  BY <1>3 DEF Probe, Goto, Deploying, Writing
<1>4. CASE Modify(t) \/ Add(t) \/ AddRefused(t)
  BY <1>4 DEF Modify, Add, AddRefused, Fault, NextObject, Goto, Deploying, Writing
<1>5. CASE DeployRaises(t) \/ FileRecord(t)
  BY <1>5 DEF DeployRaises, FileRecord, Return, Goto
<1>6. CASE TeardownAnswered(t)
  BY <1>6 DEF TeardownAnswered, vars
<1>7. CASE TeardownCall(t)
  BY <1>7 DEF TeardownCall, Goto
<1>8. CASE TeardownRaises(t) \/ TeardownKeepsRecord(t) \/ MarkTornDown(t) \/ MarkRaises(t)
  BY <1>8 DEF TeardownRaises, TeardownKeepsRecord, MarkTornDown, MarkRaises, Return,
              Fault, Goto
<1>9. CASE DeleteObject(t) \/ DeleteFails(t)
  BY <1>9 DEF DeleteObject, DeleteFails, Fault
<1>10. QED
  BY <1>1, <1>2, <1>3, <1>4, <1>5, <1>6, <1>7, <1>8, <1>9 DEF Deploy, Teardown

\* The records of the history have ids that were filed.
LEMMA LedgerIds ==
  ASSUME Inv1, LedgerIsFaithful, NEW i \in DOMAIN ledger
  PROVE  /\ Len(filed) + 1 - i \in DOMAIN filed
         /\ ledger[i].id = filed[Len(filed) + 1 - i].id
         /\ ledger[i].provisioned = filed[Len(filed) + 1 - i].provisioned
         /\ ledger[i].id \in FiledIds
         /\ ledger[i].status = IF ledger[i].id \in marked THEN "torn_down"
                               ELSE filed[Len(filed) + 1 - i].status
<1> DEFINE j == Len(filed) + 1 - i
<1>1. /\ Len(ledger) \in Nat /\ Len(filed) \in Nat /\ maxRecords \in Nat
      /\ i \in 1 .. Len(ledger) /\ Len(ledger) <= Len(filed)
  BY DEF Inv1, TypeOK, LedgerIsFaithful
<1>2. j \in 1 .. Len(filed) /\ DOMAIN filed = 1 .. Len(filed)
  BY <1>1 DEF Inv1, TypeOK
<1>3. filed[j] \in Record
  BY <1>2 DEF Inv1, TypeOK
<1>4. ledger[i] = IF filed[j].id \in marked THEN [filed[j] EXCEPT !.status = "torn_down"]
                  ELSE filed[j]
  BY DEF LedgerIsFaithful
<1>5. /\ ledger[i].id = filed[j].id /\ ledger[i].provisioned = filed[j].provisioned
      /\ ledger[i].status = IF filed[j].id \in marked THEN "torn_down" ELSE filed[j].status
  BY <1>3, <1>4 DEF Record
<1>6. QED
  BY <1>2, <1>5, FiledIdsByIndex

\* history.add: the new record goes before the others.
LEMMA FileKeepsLedger ==
  ASSUME Inv1, Inv3, NEW t \in Threads, FileRecord(t)
  PROVE  LedgerIsFaithful' /\ FiledIds' = FiledIds \cup {dep[t]}
         /\ Len(filed') = Len(filed) + 1 /\ filed'[Len(filed) + 1] = NewRecord(t)
         /\ \A i \in DOMAIN filed : filed'[i] = filed[i]
<1> DEFINE r == NewRecord(t)
           s == <<r>> \o ledger
           n == Len(filed)
           k == Len(ledger)
<1>1. r \in Record /\ r.id = dep[t]
  BY NewRecordType DEF FileRecord
<1>2. ledger' = Kept(s) /\ filed' = Append(filed, r) /\ marked' = marked
      /\ maxRecords' = maxRecords
  BY DEF FileRecord, config
<1>3. ledger \in Seq(Record) /\ filed \in Seq(Record) /\ maxRecords \in Capacities
      /\ maxRecords \in Nat \ {0}
  BY DEF Inv1, TypeOK
<1>4. dep[t] \notin FiledIds /\ dep[t] \notin marked
  BY DEF Inv3, Ownership, Filing, FileRecord, Deploying
<1> HIDE DEF r
<1>5. /\ filed' \in Seq(Record) /\ Len(filed') = n + 1 /\ filed'[n + 1] = r
      /\ \A i \in 1 .. n : filed'[i] = filed[i] /\ n \in Nat
      /\ DOMAIN filed = 1 .. n /\ DOMAIN filed' = 1 .. n + 1
  BY <1>1, <1>2, <1>3
<1>6. FiledIds' = FiledIds \cup {dep[t]}
  <2>1. FiledIds' = {filed'[i].id : i \in DOMAIN filed'}
    BY DEF FiledIds, ToSet
  <2>2. \A i \in 1 .. n + 1 : i \in 1 .. n \/ i = n + 1
    BY <1>5
  <2>3. QED
    BY <1>1, <1>5, <2>1, <2>2, FiledIdsByIndex
<1>7. /\ s \in Seq(Record) /\ Len(s) = k + 1 /\ s[1] = r /\ k \in Nat
      /\ \A i \in 2 .. k + 1 : s[i] = ledger[i - 1]
  BY <1>1, <1>3
<1> HIDE DEF s
<1>8. /\ Len(ledger') = IF k + 1 > maxRecords THEN maxRecords ELSE k + 1
      /\ \A i \in 1 .. Len(ledger') : ledger'[i] = s[i]
      /\ DOMAIN ledger' = 1 .. Len(ledger')
  <2>1. /\ ledger' \in Seq(Record)
        /\ Len(ledger') = IF Len(s) > maxRecords THEN maxRecords ELSE Len(s)
        /\ \A i \in 1 .. Len(ledger') : ledger'[i] = s[i]
    BY <1>2, <1>3, <1>7, KeptType, Zenon
  <2>2. QED
    BY <1>7, <2>1
<1>9. k = IF n > maxRecords THEN maxRecords ELSE n
  BY DEF Inv3, LedgerIsFaithful
<1>10. Len(ledger') = IF n + 1 > maxRecords THEN maxRecords ELSE n + 1
  BY <1>3, <1>5, <1>8, <1>9
<1>11. ASSUME NEW i \in 1 .. Len(ledger')
       PROVE  LET q == filed'[n + 2 - i]
              IN  ledger'[i] = IF q.id \in marked THEN [q EXCEPT !.status = "torn_down"] ELSE q
  <2>1. CASE i = 1
    BY <1>1, <1>4, <1>5, <1>7, <1>8, <2>1
  <2>2. CASE i # 1
    <3>1. i - 1 \in 1 .. k /\ i \in 2 .. k + 1 /\ k <= n
      BY <1>3, <1>5, <1>7, <1>8, <1>9, <1>11, <2>2
    <3>2. ledger'[i] = ledger[i - 1]
      BY <1>7, <1>8, <1>11, <3>1
    <3>3. n + 2 - i = n + 1 - (i - 1) /\ n + 2 - i \in 1 .. n
      BY <1>5, <1>7, <3>1
    <3>4. filed'[n + 2 - i] = filed[n + 1 - (i - 1)]
      BY <1>5, <3>3
    <3>5. i - 1 \in DOMAIN ledger
      BY <1>3, <3>1
    <3>6. LET q == filed[n + 1 - (i - 1)]
          IN  ledger[i - 1] = IF q.id \in marked THEN [q EXCEPT !.status = "torn_down"] ELSE q
      BY <3>5 DEF Inv3, LedgerIsFaithful
    <3>7. QED
      BY <3>2, <3>4, <3>6
  <2>3. QED
    BY <2>1, <2>2
<1>12. LedgerIsFaithful'
  <2>1. \A i \in 1 .. Len(ledger') : Len(filed') + 1 - i = n + 2 - i
    BY <1>5, <1>8
  <2>2. ASSUME NEW i \in DOMAIN ledger'
        PROVE  LET q == filed'[Len(filed') + 1 - i]
               IN  ledger'[i] = IF q.id \in marked THEN [q EXCEPT !.status = "torn_down"]
                                ELSE q
    BY <1>8, <1>11, <2>1, <2>2
  <2>3. Len(ledger') = IF Len(filed') > maxRecords THEN maxRecords ELSE Len(filed')
    BY <1>5, <1>10
  <2>4. QED
    BY <1>2, <2>2, <2>3 DEF LedgerIsFaithful
<1>13. QED
  BY <1>5, <1>6, <1>12 DEF r

\* history.mark_torn_down: the records with the id, and no other.
LEMMA MarkKeepsLedger ==
  ASSUME Inv1, Inv3, NEW t \in Threads, MarkTornDown(t)
  PROVE  LedgerIsFaithful'
<1>1. /\ ledger' = Marked(ledger, dep[t]) /\ marked' = marked \cup {dep[t]}
      /\ filed' = filed /\ maxRecords' = maxRecords
  BY DEF MarkTornDown, config
<1>2. dep[t] \in Ids /\ ledger \in Seq(Record)
  BY DEF MarkTornDown, Inv1, TypeOK, Shape
<1>3. /\ Len(ledger') = Len(ledger) /\ DOMAIN ledger' = 1 .. Len(ledger)
      /\ \A i \in 1 .. Len(ledger) :
           ledger'[i] = IF ledger[i].id = dep[t] THEN [ledger[i] EXCEPT !.status = "torn_down"]
                        ELSE ledger[i]
  BY <1>1, <1>2, MarkedType
<1>4. ASSUME NEW i \in 1 .. Len(ledger)
      PROVE  LET q == filed[Len(filed) + 1 - i]
             IN  ledger'[i] = IF q.id \in marked' THEN [q EXCEPT !.status = "torn_down"] ELSE q
  <2> DEFINE q == filed[Len(filed) + 1 - i]
  <2>1. i \in DOMAIN ledger
    BY <1>2, <1>4
  <2>2. q \in Record /\ ledger[i].id = q.id
    BY <2>1, LedgerIds DEF Inv1, TypeOK, Inv3
  <2>3. ledger[i] = IF q.id \in marked THEN [q EXCEPT !.status = "torn_down"] ELSE q
    BY <2>1 DEF Inv3, LedgerIsFaithful
  <2> HIDE DEF q
  <2>4. [[q EXCEPT !.status = "torn_down"] EXCEPT !.status = "torn_down"]
          = [q EXCEPT !.status = "torn_down"]
    BY <2>2 DEF Record
  <2>5. ledger'[i] = IF q.id \in marked' THEN [q EXCEPT !.status = "torn_down"] ELSE q
    BY <1>1, <1>3, <1>4, <2>2, <2>3, <2>4
  <2>6. QED
    BY <2>5 DEF q
<1>5. QED
  BY <1>1, <1>3, <1>4 DEF Inv3, LedgerIsFaithful

LEMMA InitHistory == Init => Inv3
<1> SUFFICES ASSUME Init PROVE Inv3
  OBVIOUS
<1>1. maxRecords \in Nat /\ ledger = <<>> /\ filed = <<>> /\ marked = {}
  BY DEF Init
<1>2. QED
  BY <1>1 DEF Init, Inv3, Filing, Ownership, LedgerIsFaithful, Deploying, Writing

LEMMA CallHistory ==
  ASSUME Inv1, Inv3, NEW t \in Threads, Deploy(t) \/ Teardown(t)
  PROVE  Inv3'
<1>1. issued \in Nat /\ filed \in Seq(Record) /\ DOMAIN filed = 1 .. Len(filed)
      /\ Len(filed) \in Nat
  BY DEF Inv1, TypeOK
<1>2. \A id \in FiledIds : id \in 1 .. issued
  BY FiledIdsByIndex DEF Inv3, Filing
<1>3. CASE FileRecord(t)
  <2>1. /\ LedgerIsFaithful' /\ FiledIds' = FiledIds \cup {dep[t]}
        /\ Len(filed') = Len(filed) + 1 /\ filed'[Len(filed) + 1] = NewRecord(t)
        /\ \A i \in DOMAIN filed : filed'[i] = filed[i]
    BY <1>3, FileKeepsLedger
  <2>2. /\ pc[t] \in Deploying /\ NewRecord(t).id = dep[t]
        /\ NewRecord(t).status # "torn_down"
        /\ issued' = issued /\ marked' = marked /\ DOMAIN filed' = 1 .. Len(filed')
        /\ pc' = [pc EXCEPT ![t] = "idle"] /\ dep' = [dep EXCEPT ![t] = 0]
    BY <1>1, <1>3, NewRecordType DEF FileRecord, Return, Goto, bounds, Deploying
  <2>3. dep[t] \in 1 .. issued /\ dep[t] \notin FiledIds
    BY <2>2 DEF Inv3, Ownership
  <2>4. Filing'
    <3>1. \A i \in DOMAIN filed' : i \in DOMAIN filed \/ i = Len(filed) + 1
      BY <1>1, <2>1, <2>2
    <3>2. \A i \in DOMAIN filed : filed[i].id \in FiledIds
      BY FiledIdsByIndex
    <3>3. QED
      BY <2>1, <2>2, <2>3, <3>1, <3>2 DEF Inv3, Filing
  <2>5. Ownership'
    BY <2>1, <2>2 DEF Inv1, TypeOK, Inv3, Ownership, Deploying, Writing
  <2>6. QED
    BY <2>1, <2>4, <2>5 DEF Inv3
<1>4. CASE ~ FileRecord(t)
  <2>1. filed' = filed /\ maxRecords' = maxRecords /\ FiledIds' = FiledIds
        /\ (MarkTornDown(t) \/ UNCHANGED <<ledger, marked>>)
    BY <1>4, CallStep DEF FiledIds, MarkTornDown
  <2>2. \A u \in Threads \ {t} : pc'[u] = pc[u] /\ dep'[u] = dep[u]
    BY CallStep
  <2>3. \A r \in ToSet(ledger) : r.id \in FiledIds
    BY LedgerIds DEF ToSet, Inv3
  <2>4. \/ pc'[t] = "idle" /\ issued' = issued
        \/ pc'[t] \in Deploying /\ dep'[t] = issued + 1 /\ issued' = issued + 1
        \/ /\ pc[t] \in Deploying /\ pc'[t] \in Deploying
           /\ dep'[t] = dep[t] /\ issued' = issued
        \/ /\ pc[t] = "delete" /\ pc'[t] = "delete"
           /\ dep'[t] = dep[t] /\ issued' = issued
        \/ pc'[t] = "delete" /\ issued' = issued /\ dep'[t] \in FiledIds
    BY <2>3, CallStep
  <2>5. "idle" \notin Deploying /\ "delete" \notin Deploying
    BY DEF Deploying, Writing
  <2>6. Ownership'
    BY <1>1, <1>2, <2>1, <2>2, <2>4, <2>5 DEF Inv3, Ownership
  <2>7. Filing' /\ LedgerIsFaithful'
    <3>1. CASE MarkTornDown(t)
      <4>1. marked' = marked \cup {dep[t]} /\ dep[t] \in FiledIds /\ issued' = issued
        BY <3>1 DEF MarkTornDown, bounds, Inv3, Ownership
      <4>2. QED
        BY <2>1, <3>1, <4>1, MarkKeepsLedger DEF Inv3, Filing
    <3>2. CASE UNCHANGED <<ledger, marked>>
      <4>1. issued' = issued \/ issued' = issued + 1
        BY <2>4
      <4>2. QED
        BY <1>1, <2>1, <3>2, <4>1 DEF Inv3, Filing, LedgerIsFaithful
    <3>3. QED
      BY <2>1, <3>1, <3>2
  <2>8. QED
    BY <2>6, <2>7 DEF Inv3
<1>5. QED
  BY <1>3, <1>4

LEMMA StepHistory == ASSUME Inv1, Inv3, [Next]_vars PROVE Inv3'
<1>1. CASE UNCHANGED vars
  BY <1>1 DEF vars, world, config, calls, bounds, traces, Inv3, Filing, Ownership,
              FiledIds, LedgerIsFaithful
<1>2. CASE Restart
  <2>1. FiledIds' = FiledIds /\ filed' = filed /\ marked' = marked /\ ledger' = ledger
        /\ issued' = issued /\ maxRecords' = maxRecords
    BY <1>2 DEF Restart, traces, FiledIds
  <2>2. \A t \in Threads : pc'[t] = "idle"
    BY <1>2 DEF Restart
  <2>3. QED
    BY <2>1, <2>2 DEF Inv3, Filing, Ownership, LedgerIsFaithful, Deploying, Writing
<1>3. QED
  BY <1>1, <1>2, CallHistory DEF Next

\* Concurrent deployments and teardowns, restarts and a full history lose no
\* record and no mark (DeploymentHistoryStore.add, mark_torn_down).
THEOREM FaithfulLedger == Spec => []LedgerIsFaithful
<1>1. Inv3 => LedgerIsFaithful
  BY DEF Inv3
<1>2. QED
  BY InitTypes, StepTypes, InitHistory, StepHistory, <1>1, PTL DEF Spec

-----------------------------------------------------------------------------
(***************************************************************************)
(* What a teardown has removed                                             *)
(***************************************************************************)

LEMMA HeadAndTail ==
  ASSUME NEW S, NEW s \in Seq(S), s # <<>>
  PROVE  ToSet(s) = {Head(s)} \cup ToSet(Tail(s))
<1>1. /\ DOMAIN s = 1 .. Len(s) /\ Len(s) \in Nat \ {0} /\ Head(s) = s[1]
      /\ DOMAIN Tail(s) = 1 .. Len(s) - 1
      /\ \A i \in 1 .. Len(s) - 1 : Tail(s)[i] = s[i + 1]
  OBVIOUS
<1>2. ASSUME NEW i \in 1 .. Len(s), i # 1 PROVE s[i] \in ToSet(Tail(s))
  <2>1. i - 1 \in 1 .. Len(s) - 1 /\ Tail(s)[i - 1] = s[i]
    BY <1>1, <1>2
  <2>2. QED
    BY <1>1, <2>1 DEF ToSet
<1>3. ToSet(s) \subseteq {Head(s)} \cup ToSet(Tail(s))
  BY <1>1, <1>2 DEF ToSet
<1>4. ASSUME NEW i \in 1 .. Len(s) - 1 PROVE Tail(s)[i] \in ToSet(s)
  <2>1. i + 1 \in 1 .. Len(s)
    BY <1>1, <1>4
  <2>2. QED
    BY <1>1, <1>4, <2>1 DEF ToSet
<1>5. {Head(s)} \cup ToSet(Tail(s)) \subseteq ToSet(s)
  BY <1>1, <1>4 DEF ToSet
<1>6. QED
  BY <1>3, <1>5

\* Which steps go on with the loop of a teardown, and what they do to `removed'.
LEMMA LoopStep ==
  ASSUME Inv1, NEW t \in Threads, Deploy(t) \/ Teardown(t)
  PROVE  /\ \A u \in Threads \ {t} : /\ pc'[u] = pc[u] /\ dep'[u] = dep[u] /\ ok'[u] = ok[u]
                                     /\ dry'[u] = dry[u] /\ todo'[u] = todo[u]
                                     /\ made'[u] = made[u]
         /\ pc'[t] = "delete" => TeardownCall(t) \/ DeleteObject(t) \/ DeleteFails(t)
         /\ \/ removed' = removed
            \/ /\ DeleteObject(t) /\ ~ dry[t]
               /\ removed' = [removed EXCEPT ![dep[t]] = @ \cup {Head(todo[t])}]
<1> USE DEF world, config, calls, bounds, traces, Inv1, TypeOK, Shape
<1>1. CASE DeployPlan(t) \/ DeployBlocked(t) \/ DeployToDirectory(t)
  BY <1>1 DEF DeployPlan, DeployBlocked, DeployToDirectory, StartDeploy, Goto
<1>2. CASE PreflightFails(t) \/ DryProvision(t) \/ ProvisionRaises(t)
  BY <1>2 DEF PreflightFails, DryProvision, ProvisionRaises, Goto
<1>3. CASE Probe(t)
  BY <1>3 DEF Probe, Goto
<1>4. CASE Modify(t) \/ Add(t) \/ AddRefused(t)
  BY <1>4 DEF Modify, Add, AddRefused, NextObject, Goto
<1>5. CASE DeployRaises(t) \/ FileRecord(t)
  BY <1>5 DEF DeployRaises, FileRecord, Return, Goto
<1>6. CASE TeardownAnswered(t)
  BY <1>6 DEF TeardownAnswered, vars
<1>7. CASE TeardownCall(t)
  BY <1>7 DEF TeardownCall, Goto
<1>8. CASE TeardownRaises(t) \/ TeardownKeepsRecord(t) \/ MarkTornDown(t) \/ MarkRaises(t)
  BY <1>8 DEF TeardownRaises, TeardownKeepsRecord, MarkTornDown, MarkRaises, Return, Goto
<1>9. CASE DeleteObject(t) \/ DeleteFails(t)
  BY <1>9 DEF DeleteObject, DeleteFails
<1>10. QED
  BY <1>1, <1>2, <1>3, <1>4, <1>5, <1>6, <1>7, <1>8, <1>9 DEF Deploy, Teardown

\* What was seen removed stays so.
LEMMA RemovedGrows ==
  ASSUME Inv1, NEW t \in Threads, Deploy(t) \/ Teardown(t), NEW c \in Ids
  PROVE  removed[c] \subseteq removed'[c]
<1>1. CASE removed' = removed
  BY <1>1
<1>2. CASE removed' = [removed EXCEPT ![dep[t]] = @ \cup {Head(todo[t])}]
  BY <1>2 DEF Inv1, TypeOK
<1>3. QED
  BY <1>1, <1>2, LoopStep

\* A filed record is there after a step, and a new one is that of the call.
LEMMA FiledGrows ==
  ASSUME Inv1, Inv3, NEW t \in Threads, Deploy(t) \/ Teardown(t), NEW i \in DOMAIN filed'
  PROVE  /\ i \in DOMAIN filed => filed'[i] = filed[i]
         /\ i \notin DOMAIN filed => FileRecord(t) /\ filed'[i] = NewRecord(t)
<1>1. CASE FileRecord(t)
  <2>1. /\ filed \in Seq(Record) /\ filed' = Append(filed, NewRecord(t))
        /\ NewRecord(t) \in Record
    BY <1>1, NewRecordType DEF FileRecord, Inv1, TypeOK
  <2>2. /\ DOMAIN filed = 1 .. Len(filed) /\ DOMAIN filed' = 1 .. Len(filed) + 1
        /\ Len(filed) \in Nat /\ filed'[Len(filed) + 1] = NewRecord(t)
        /\ \A j \in 1 .. Len(filed) : filed'[j] = filed[j]
    BY <2>1
  <2>3. QED
    BY <1>1, <2>2
<1>2. CASE ~ FileRecord(t)
  BY <1>2, CallStep DEF MarkTornDown
<1>3. QED
  BY <1>1, <1>2

LEMMA CallRemoves ==
  ASSUME Inv1, Inv3, Inv4, NEW t \in Threads, Deploy(t) \/ Teardown(t)
  PROVE  Inv4'
<1>1. ASSUME NEW i \in DOMAIN filed', filed'[i].id \in marked'
      PROVE  ToSet(filed'[i].provisioned) \subseteq removed'[filed'[i].id]
  <2>1. CASE i \notin DOMAIN filed
    <3>1. FileRecord(t) /\ filed'[i].id = dep[t] /\ marked' = marked
      BY <1>1, <2>1, FiledGrows, NewRecordType DEF FileRecord
    <3>2. dep[t] \notin marked
      BY <3>1 DEF FileRecord, Inv3, Ownership, Filing, Deploying
    <3>3. QED
      BY <1>1, <3>1, <3>2
  <2>2. CASE i \in DOMAIN filed
    <3>1. filed'[i] = filed[i] /\ filed[i] \in Record
      BY <1>1, <2>2, FiledGrows DEF Inv1, TypeOK
    <3>2. filed[i].id \in Ids
      BY <3>1 DEF Record
    <3>3. CASE filed[i].id \in marked
      BY <2>2, <3>1, <3>2, <3>3, RemovedGrows DEF Inv4
    <3>4. CASE filed[i].id \notin marked
      <4>0. filed[i].id \in marked'
        BY <1>1, <3>1
      <4>1. MarkTornDown(t) /\ filed[i].id = dep[t] /\ removed' = removed
        <5>1. FileRecord(t) => marked' = marked
          BY DEF FileRecord
        <5>2. MarkTornDown(t)
          BY <4>0, <5>1, <3>4, CallStep
        <5>3. marked' = marked \cup {dep[t]} /\ removed' = removed
          BY <5>2 DEF MarkTornDown
        <5>4. QED
          BY <4>0, <5>2, <5>3, <3>4
      <4>2. pc[t] = "delete" /\ ok[t] /\ ~ dry[t] /\ todo[t] = <<>>
        BY <4>1 DEF MarkTornDown
      <4>3. ToSet(todo[t]) = {}
        BY <4>2 DEF ToSet
      <4>4. QED
        BY <2>2, <3>1, <4>1, <4>2, <4>3 DEF Inv4
    <3>5. QED
      BY <3>3, <3>4
  <2>3. QED
    BY <2>1, <2>2
<1>2. ASSUME NEW u \in Threads, NEW i \in DOMAIN filed',
             pc'[u] = "delete", ok'[u], ~ dry'[u], filed'[i].id = dep'[u]
      PROVE  ToSet(filed'[i].provisioned) \subseteq removed'[dep'[u]] \cup ToSet(todo'[u])
  <2>1. CASE i \notin DOMAIN filed
    <3>1. FileRecord(t) /\ filed'[i].id = dep[t] /\ pc'[t] # "delete"
      BY <1>2, <2>1, FiledGrows, NewRecordType DEF FileRecord, Return, Goto, Inv1, TypeOK
    <3>2. u # t /\ pc[u] = "delete" /\ dep[u] = dep[t]
      BY <1>2, <3>1, LoopStep
    <3>3. QED
      BY <3>1, <3>2 DEF FileRecord, Inv3, Ownership, Deploying
  <2>2. CASE i \in DOMAIN filed
    <3>1. filed'[i] = filed[i] /\ filed[i] \in Record
      BY <1>2, <2>2, FiledGrows DEF Inv1, TypeOK
    <3>2. CASE u # t
      <4>1. dep[u] \in Ids
        BY <1>2, <3>2, LoopStep DEF Inv1, Shape
      <4>2. QED
        BY <1>2, <2>2, <3>1, <3>2, <4>1, LoopStep, RemovedGrows DEF Inv4
    <3>3. CASE u = t /\ TeardownCall(t)
      <4>1. PICK r \in ToSet(ledger) : dep'[t] = r.id /\ todo'[t] = r.provisioned
        BY <3>3 DEF TeardownCall, Inv1, TypeOK, Shape
      <4>2. PICK j \in DOMAIN ledger : r = ledger[j]
        BY <4>1 DEF ToSet
      <4>3. /\ Len(filed) + 1 - j \in DOMAIN filed
            /\ r.id = filed[Len(filed) + 1 - j].id
            /\ r.provisioned = filed[Len(filed) + 1 - j].provisioned
        BY <4>2, LedgerIds DEF Inv3
      <4>4. i = Len(filed) + 1 - j
        BY <1>2, <2>2, <3>1, <3>3, <4>1, <4>3 DEF Inv3, Filing
      <4>5. QED
        BY <3>1, <3>3, <4>1, <4>3, <4>4
    <3>4. CASE u = t /\ DeleteObject(t)
      <4>1. /\ pc[t] = "delete" /\ ok[t] /\ ~ dry[t] /\ dep'[t] = dep[t]
            /\ todo[t] # <<>> /\ todo'[t] = Tail(todo[t]) /\ todo[t] \in Seq(DN)
            /\ dep[t] \in Ids
            /\ removed' = [removed EXCEPT ![dep[t]] = @ \cup {Head(todo[t])}]
        BY <1>2, <3>4 DEF DeleteObject, Inv1, TypeOK, Shape
      <4>2. ToSet(todo[t]) = {Head(todo[t])} \cup ToSet(todo'[t])
        BY <4>1, HeadAndTail
      <4>3. removed'[dep[t]] = removed[dep[t]] \cup {Head(todo[t])}
        BY <4>1 DEF Inv1, TypeOK
      <4>4. ToSet(filed[i].provisioned) \subseteq removed[dep[t]] \cup ToSet(todo[t])
        BY <1>2, <2>2, <3>1, <3>4, <4>1 DEF Inv4
      <4>5. QED
        BY <3>1, <3>4, <4>1, <4>2, <4>3, <4>4
    <3>5. CASE u = t /\ DeleteFails(t)
      BY <1>2, <3>5 DEF DeleteFails, Inv1, TypeOK
    <3>6. QED
      BY <1>2, <3>2, <3>3, <3>4, <3>5, LoopStep
  <2>3. QED
    BY <2>1, <2>2
<1>3. QED
  BY <1>1, <1>2 DEF Inv4

LEMMA StepRemoves == ASSUME Inv1, Inv3, Inv4, [Next]_vars PROVE Inv4'
<1>1. CASE UNCHANGED vars
  BY <1>1 DEF vars, calls, traces, Inv4
<1>2. CASE Restart
  BY <1>2 DEF Restart, traces, Inv4
<1>3. QED
  BY <1>1, <1>2, CallRemoves DEF Next

LEMMA InitRemoves == Init => Inv4
BY DEF Init, Inv4

\* A record is torn down only when the directory confirmed to a teardown of that
\* deployment the deletion of everything it lists, whatever fails, is repeated or
\* runs beside it (run_deception_teardown).
THEOREM TornDownIsRemoved == Spec => []TornDownMeansRemoved
<1>1. ASSUME Inv1, Inv3, Inv4 PROVE TornDownMeansRemoved
  <2>1. ASSUME NEW i \in DOMAIN ledger, ledger[i].status = "torn_down"
        PROVE  ToSet(ledger[i].provisioned) \subseteq removed[ledger[i].id]
    <3>1. /\ Len(filed) + 1 - i \in DOMAIN filed
          /\ ledger[i].id = filed[Len(filed) + 1 - i].id
          /\ ledger[i].provisioned = filed[Len(filed) + 1 - i].provisioned
          /\ ledger[i].status = IF ledger[i].id \in marked THEN "torn_down"
                                ELSE filed[Len(filed) + 1 - i].status
      BY <1>1, <2>1, LedgerIds DEF Inv3
    <3>2. ledger[i].id \in marked
      BY <1>1, <2>1, <3>1 DEF Inv3, Filing
    <3>3. QED
      BY <1>1, <3>1, <3>2 DEF Inv4
  <2>2. QED
    BY <2>1 DEF TornDownMeansRemoved, ToSet
<1>2. QED
  BY InitTypes, StepTypes, InitHistory, StepHistory, InitRemoves, StepRemoves, <1>1, PTL
     DEF Spec
-----------------------------------------------------------------------------
(***************************************************************************)
(* The decoys in the directory                                             *)
(***************************************************************************)

\* What a step of a call does to the decoys of the directory: a decoy of the new
\* state was there before, is of an unknown creator, or has just been added.
LEMMA DecoyStep ==
  ASSUME Inv1, NEW t \in Threads, Deploy(t) \/ Teardown(t)
  PROVE  /\ \A d \in ad' :
              \/ d \in ad /\ creator'[d] = creator[d]
              \/ creator'[d] = 0
              \/ /\ pc[t] = "add" /\ pc'[t] \in Deploying /\ dep'[t] = dep[t]
                 /\ creator'[d] = dep[t] /\ d \in ToSet(made'[t])
                 /\ filed' = filed /\ removed' = removed
         /\ \A c \in Ids : \/ removed'[c] = removed[c]
                           \/ /\ pc[t] = "delete" /\ c = dep[t]
                              /\ removed'[c] \cap ad' \subseteq removed[c]
<1> USE DEF world, config, traces
<1>1. CASE DeployPlan(t) \/ DeployBlocked(t) \/ DeployToDirectory(t)
  BY <1>1 DEF DeployPlan, DeployBlocked, DeployToDirectory, StartDeploy
<1>2. CASE PreflightFails(t) \/ DryProvision(t) \/ Probe(t) \/ Modify(t) \/ AddRefused(t)
  BY <1>2 DEF PreflightFails, DryProvision, Probe, Modify, AddRefused
<1>3. CASE Add(t)
  <2>1. Target(t) \in DN /\ made[t] \in Seq(DN)
    BY <1>3, TargetType DEF Add, Writing, Inv1, TypeOK
  <2>2. made'[t] = Append(made[t], Target(t))
    BY <1>3 DEF Add, Inv1, TypeOK
  <2>3. Target(t) \in ToSet(made'[t])
    BY <2>1, <2>2 DEF ToSet
  <2>4. pc[t] = "add" /\ pc'[t] \in Deploying /\ dep'[t] = dep[t]
    BY <1>3 DEF Add, NextObject, Goto, Deploying, Writing, Inv1, TypeOK
  <2>5. \A d \in DN : creator'[d] = IF d = Target(t) THEN dep[t] ELSE creator[d]
    BY <1>3, <2>1 DEF Add, Inv1, TypeOK
  <2>6. ad \subseteq DN /\ ad' = ad \cup {Target(t)} /\ filed' = filed /\ removed' = removed
    BY <1>3 DEF Add, Inv1, TypeOK
  <2>7. QED
    BY <2>1, <2>3, <2>4, <2>5, <2>6
<1>4. CASE ProvisionRaises(t)
  <2>1. CASE UNCHANGED <<ad, creator>>
    BY <1>4, <2>1 DEF ProvisionRaises
  <2>2. CASE pc[t] = "add" /\ ad' = ad \cup {Target(t)} /\ creator' = [creator EXCEPT ![Target(t)] = 0]
    <3>1. Target(t) \in DN
      BY <2>2, TargetType DEF Writing
    <3>2. \A d \in DN : creator'[d] = IF d = Target(t) THEN 0 ELSE creator[d]
      BY <2>2, <3>1 DEF Inv1, TypeOK
    <3>3. ad \subseteq DN /\ removed' = removed
      BY <1>4 DEF ProvisionRaises, Inv1, TypeOK
    <3>4. QED
      BY <2>2, <3>1, <3>2, <3>3
  <2>3. QED
    BY <1>4, <2>1, <2>2 DEF ProvisionRaises
<1>5. CASE DeployRaises(t) \/ FileRecord(t)
  BY <1>5 DEF DeployRaises, FileRecord
<1>6. CASE TeardownAnswered(t)
  BY <1>6 DEF TeardownAnswered, vars
<1>7. CASE TeardownCall(t) \/ DeleteFails(t) \/ TeardownKeepsRecord(t) \/ MarkTornDown(t) \/ MarkRaises(t)
  BY <1>7 DEF TeardownCall, DeleteFails, TeardownKeepsRecord, MarkTornDown, MarkRaises
<1>8. CASE TeardownRaises(t) \/ DeleteObject(t)
  <2>1. pc[t] = "delete" /\ todo[t] \in Seq(DN) /\ todo[t] # <<>>
    BY <1>8 DEF TeardownRaises, DeleteObject, Inv1, Shape
  <2> DEFINE h == Head(todo[t])
  <2>2. h \in DN /\ dep[t] \in Ids
    BY <2>1 DEF Inv1, Shape
  <2>3. \/ UNCHANGED <<ad, creator>>
        \/ ad' = ad \ {h} /\ creator' = [creator EXCEPT ![h] = 0]
    BY <1>8 DEF TeardownRaises, DeleteObject
  <2>4. \/ removed' = removed
        \/ ad' = ad \ {h} /\ removed' = [removed EXCEPT ![dep[t]] = @ \cup {h}]
    BY <1>8 DEF TeardownRaises, DeleteObject
  <2> HIDE DEF h
  <2>5. \A d \in ad' : d \in ad /\ creator'[d] = creator[d]
    BY <2>2, <2>3 DEF Inv1, TypeOK
  <2>6. \A c \in Ids : \/ removed'[c] = removed[c]
                       \/ c = dep[t] /\ removed'[c] \cap ad' \subseteq removed[c]
    BY <2>2, <2>4 DEF Inv1, TypeOK
  <2>7. QED
    BY <2>1, <2>5, <2>6
<1>9. QED
  BY <1>1, <1>2, <1>3, <1>4, <1>5, <1>6, <1>7, <1>8 DEF Deploy, Teardown

\* A deployment that goes on forgets none of the objects it is to record.
LEMMA MadeGrows ==
  ASSUME Inv1, NEW t \in Threads, Deploy(t) \/ Teardown(t)
  PROVE  /\ \A u \in Threads \ {t} : made'[u] = made[u]
         /\ pc[t] \in Deploying /\ pc'[t] \in Deploying =>
              ToSet(made[t]) \subseteq ToSet(made'[t])
<1>1. made \in [Threads -> Seq(DN)]
  BY DEF Inv1, TypeOK
<1>2. CASE made' = made
  BY <1>2
<1>3. CASE Return(t)
  BY <1>1, <1>3 DEF Return, Goto, Deploying, Writing, Inv1, TypeOK
<1>4. CASE DryProvision(t)
  <2>1. made[t] = <<>>
    BY <1>4 DEF DryProvision, Inv1, Shape
  <2>2. ToSet(made[t]) = {}
    BY <2>1 DEF ToSet
  <2>3. QED
    BY <1>1, <1>4, <2>2 DEF DryProvision
<1>5. CASE Modify(t) \/ Add(t)
  <2>1. made[t] \in Seq(DN) /\ Target(t) \in DN
    BY <1>1, <1>5, TargetType DEF Modify, Add, Writing
  <2>2. made' = [made EXCEPT ![t] = Append(@, Target(t))]
    BY <1>5 DEF Modify, Add
  <2>3. made'[t] = Append(made[t], Target(t))
    BY <1>1, <2>2
  <2>4. ToSet(made[t]) \subseteq ToSet(made'[t])
    BY <2>1, <2>3 DEF ToSet
  <2>5. QED
    BY <1>1, <2>2, <2>4
<1>6. made' = made \/ Return(t) \/ DryProvision(t) \/ Modify(t) \/ Add(t)
  BY DEF Deploy, Teardown, DeployPlan, DeployBlocked, DeployToDirectory, StartDeploy,
         PreflightFails, Probe, AddRefused, ProvisionRaises, DeployRaises, FileRecord,
         TeardownAnswered, vars, calls, TeardownCall, TeardownRaises, DeleteObject,
         DeleteFails, TeardownKeepsRecord, MarkTornDown, MarkRaises
<1>7. QED
  BY <1>2, <1>3, <1>4, <1>5, <1>6

LEMMA CallCreates ==
  ASSUME Inv1, Inv1', Inv3, Inv5, NEW t \in Threads, Deploy(t) \/ Teardown(t)
  PROVE  Inv5'
<1>1. ASSUME NEW d \in ad' PROVE creator'[d] <= issued'
  <2>1. issued \in Nat /\ issued' \in Nat /\ issued <= issued'
    BY CallStep DEF Inv1, TypeOK
  <2>2. pc[t] = "add" => dep[t] \in 1 .. issued
    BY DEF Inv3, Ownership, Deploying, Writing
  <2>3. d \in ad => creator[d] \in Nat /\ creator[d] <= issued
    BY DEF Inv5, Inv1, TypeOK, Ids
  <2>4. QED
    BY <1>1, <2>1, <2>2, <2>3, DecoyStep
<1>2. ASSUME NEW u \in Threads, NEW d \in ad', pc'[u] \in Deploying, creator'[d] = dep'[u]
      PROVE  d \in ToSet(made'[u])
  <2>1. dep'[u] \in Ids /\ 0 \notin Ids
    BY <1>2 DEF Inv1, Shape, Ids, Deploying, Writing
  <2>2. CASE d \in ad /\ creator'[d] = creator[d]
    <3>1. creator[d] <= issued /\ issued \in Nat /\ creator[d] \in Nat
      BY <2>2 DEF Inv5, Inv1, TypeOK, Ids
    <3>2. CASE u # t
      <4>1. pc'[u] = pc[u] /\ dep'[u] = dep[u]
        BY <3>2, CallStep
      <4>2. d \in ToSet(made[u])
        BY <1>2, <2>2, <4>1 DEF Inv5
      <4>3. made'[u] = made[u]
        BY <3>2, MadeGrows
      <4>4. QED
        BY <4>2, <4>3
    <3>3. CASE u = t
      <4>0. pc'[t] \notin {"idle", "delete"} /\ dep'[t] # issued + 1
        <5>1. pc'[t] \notin {"idle", "delete"}
          BY <1>2, <3>3 DEF Deploying, Writing
        <5>2. dep'[t] = creator[d]
          BY <1>2, <2>2, <3>3
        <5>3. QED
          BY <3>1, <5>1, <5>2
      <4>1. pc[t] \in Deploying /\ dep'[t] = dep[t]
        BY <4>0, CallStep
      <4>2. d \in ToSet(made[t])
        BY <1>2, <2>2, <3>3, <4>1 DEF Inv5
      <4>3. QED
        BY <1>2, <3>3, <4>1, <4>2, MadeGrows
    <3>4. QED
      BY <3>2, <3>3
  <2>3. CASE pc[t] = "add" /\ creator'[d] = dep[t] /\ d \in ToSet(made'[t])
    <3>1. pc[t] \in Deploying
      BY <2>3 DEF Deploying, Writing
    <3>2. ASSUME u # t PROVE FALSE
      <4>1. pc[u] \in Deploying /\ dep[u] = dep'[u]
        BY <1>2, <3>2, CallStep
      <4>2. dep[u] = dep[t]
        BY <1>2, <2>3, <4>1
      <4>3. QED
        BY <3>1, <3>2, <4>1, <4>2 DEF Inv3, Ownership
    <3>3. QED
      BY <2>3, <3>2
  <2>4. QED
    BY <1>2, <2>1, <2>2, <2>3, DecoyStep
<1>3. ASSUME NEW i \in DOMAIN filed', NEW d \in ad', creator'[d] = filed'[i].id
      PROVE  d \in ToSet(filed'[i].provisioned)
  <2>1. CASE i \notin DOMAIN filed
    <3>1. /\ FileRecord(t) /\ filed'[i].id = dep[t] /\ filed'[i].provisioned = made[t]
          /\ pc[t] \in Deploying
      BY <1>3, <2>1, FiledGrows, NewRecordType DEF FileRecord, Deploying
    <3>2. ad' = ad /\ creator' = creator
      BY <3>1 DEF FileRecord
    <3>3. QED
      BY <1>3, <3>1, <3>2 DEF Inv5
  <2>2. CASE i \in DOMAIN filed
    <3>1. filed'[i] = filed[i] /\ filed[i].id \in FiledIds
      BY <1>3, <2>2, FiledGrows, FiledIdsByIndex
    <3>2. filed[i] \in Record
      BY <2>2 DEF Inv1, TypeOK
    <3>3. filed[i].id # 0
      BY <3>2 DEF Record, Ids
    <3>4. pc[t] = "add" => dep[t] \notin FiledIds
      BY DEF Inv3, Ownership, Deploying, Writing
    <3>5. d \in ad /\ creator'[d] = creator[d]
      BY <1>3, <3>1, <3>3, <3>4, DecoyStep
    <3>6. QED
      BY <1>3, <2>2, <3>1, <3>5 DEF Inv5
  <2>3. QED
    BY <2>1, <2>2
<1>4. ASSUME NEW d \in ad', creator'[d] # 0
      PROVE  d \notin removed'[creator'[d]]
  <2>1. CASE d \in ad /\ creator'[d] = creator[d]
    <3>1. creator[d] \in Ids /\ d \notin removed[creator[d]]
      BY <1>4, <2>1 DEF Inv5, Inv1, TypeOK
    <3>2. QED
      BY <1>4, <2>1, <3>1, DecoyStep
  <2>2. CASE pc[t] = "add" /\ creator'[d] = dep[t] /\ removed' = removed
    <3>1. dep[t] \in Ids \ FiledIds
      BY <2>2 DEF Inv3, Ownership, Deploying, Writing, Inv1, Shape
    <3>2. QED
      BY <2>2, <3>1 DEF Inv5
  <2>3. QED
    BY <1>4, <2>1, <2>2, DecoyStep
<1>5. ASSUME NEW c \in Ids \ FiledIds' PROVE removed'[c] = {}
  <2>1. FiledIds \subseteq FiledIds'
    <3>1. FileRecord(t) => FiledIds \subseteq FiledIds'
      BY FileKeepsLedger
    <3>2. ~ FileRecord(t) => filed' = filed
      BY CallStep DEF MarkTornDown
    <3>3. QED
      BY <3>1, <3>2 DEF FiledIds
  <2>2. c \notin FiledIds /\ removed[c] = {}
    BY <1>5, <2>1 DEF Inv5
  <2>3. pc[t] = "delete" => c # dep[t]
    BY <2>2 DEF Inv3, Ownership
  <2>4. QED
    BY <1>5, <2>2, <2>3, DecoyStep
<1>6. QED
  BY <1>1, <1>2, <1>3, <1>4, <1>5 DEF Inv5

LEMMA StepCreates == ASSUME Inv1, Inv1', Inv3, Inv5, [Next]_vars PROVE Inv5'
<1>1. CASE UNCHANGED vars
  BY <1>1 DEF vars, world, calls, bounds, traces, Inv5, FiledIds
<1>2. CASE Restart
  <2>1. /\ UNCHANGED <<ad, creator, removed, filed, issued>>
        /\ \A t \in Threads : pc'[t] \notin Deploying
    BY <1>2 DEF Restart, traces, Deploying, Writing
  <2>2. FiledIds' = FiledIds
    BY <2>1 DEF FiledIds
  <2>3. QED
    BY <2>1, <2>2 DEF Inv5
<1>3. QED
  BY <1>1, <1>2, CallCreates DEF Next

LEMMA InitCreates == Init => Inv5
BY DEF Init, Inv5

\* A decoy no teardown can find any more got into the directory in one of the
\* named ways: a deployment that failed half way, and returned, has recorded what
\* it created in a record that stays open until the decoy is gone.
THEOREM OrphansExplained == Spec => []OrphansAreExplained
<1>1. ASSUME Inv1, Inv3, Inv4, Inv5 PROVE OrphansAreExplained
  <2>1. ASSUME NEW d \in ad, creator[d] # 0, creator[d] \in FiledIds,
               NEW r \in ToSet(ledger), r.id = creator[d]
        PROVE  r.status # "torn_down" /\ d \in ToSet(r.provisioned)
    <3>1. PICK i \in DOMAIN ledger : r = ledger[i]
      BY <2>1 DEF ToSet
    <3> DEFINE q == filed[Len(filed) + 1 - i]
    <3>2. /\ Len(filed) + 1 - i \in DOMAIN filed
          /\ r.id = q.id /\ r.provisioned = q.provisioned
          /\ r.status = IF r.id \in marked THEN "torn_down" ELSE q.status
      BY <1>1, <3>1, LedgerIds DEF Inv3
    <3>3. d \in ToSet(q.provisioned) /\ q.status # "torn_down"
      BY <1>1, <2>1, <3>2 DEF Inv5, Inv3, Filing
    <3>4. d \notin removed[creator[d]]
      BY <1>1, <2>1 DEF Inv5
    <3>5. r.id \notin marked
      BY <1>1, <2>1, <3>2, <3>3, <3>4 DEF Inv4
    <3>6. QED
      BY <3>2, <3>3, <3>5
  <2>2. QED
    BY <2>1 DEF OrphansAreExplained
<1>2. QED
  BY InitTypes, StepTypes, InitHistory, StepHistory, InitRemoves, StepRemoves,
     InitCreates, StepCreates, <1>1, PTL DEF Spec
=============================================================================
