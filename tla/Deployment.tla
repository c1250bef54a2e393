------------------------------ MODULE Deployment ------------------------------
(***************************************************************************)
(* Deploying decoys into Active Directory and tearing them down again:     *)
(* run_deception_deploy and run_deception_teardown (app/core/              *)
(* deception_service), the ADProvisioner that writes over LDAP, and the    *)
(* DeploymentHistoryStore whose records are what a teardown works from.    *)
(*                                                                         *)
(* Requests run on worker threads without a lock around a deploy or a      *)
(* teardown; only the history file has one.  Every LDAP request on an      *)
(* object is an action: it may fail, and its answer may be lost after the  *)
(* directory has carried it out.  A step whose success changes nothing (a  *)
(* preflight that passes, a graph that is synchronised) is part of the     *)
(* step after it.  The process may stop between any two requests and come  *)
(* back with other settings.                                               *)
(*                                                                         *)
(* A plan is the sequence of its provisionable names; shadow DCs and       *)
(* breadcrumbs are never written to the directory.  Registering the plan   *)
(* with the monitoring engine is an operation of module Monitoring.        *)
(***************************************************************************)
EXTENDS Integers, Sequences, FiniteSets, SequencesExt

CONSTANTS
  Threads,    \* worker threads that serve requests
  Names,      \* decoy names the deception engine draws, prefix included
  Plans,      \* sequences of names a deployment may consist of
  Ous,        \* honey OUs the settings may name
  Settings,   \* settings a process may start with
  Capacities, \* values of max_records of the history store, 100 in the code
  MaxDeploys, \* bound: deployments in one behaviour
  MaxFaults,  \* bound: failed LDAP requests in one behaviour
  MaxBoots    \* bound: starts of the process in one behaviour

ASSUME PlanAssumption == Plans \subseteq Seq(Names) \ {<<>>}
ASSUME SettingsAssumption ==
  Settings \subseteq [ou : Ous, enabled : BOOLEAN, compliant : BOOLEAN]
ASSUME LimitAssumption ==
  /\ Capacities \subseteq Nat \ {0}
  /\ MaxDeploys \in Nat /\ MaxFaults \in Nat /\ MaxBoots \in Nat \ {0}

VARIABLES
  settings,  \* [ou, enabled, compliant]: AD_HONEY_OU, AD_PROVISION_ENABLED and
             \* whether the policy checks pass
  maxRecords,\* the capacity the history store was made with
  ad,        \* DNs of the decoys the directory holds
  ledger,    \* data/deployments.json, newest record first
  pc,        \* the next step of the call a thread serves
  dep,       \* the deployment the call is about
  dry,       \* the call is a dry run
  todo,      \* names or DNs the loop of the call has not reached yet
  made,      \* `created' of provision_objects: DNs to be recorded
  ok,        \* no object of the call has failed so far
  issued,    \* deployments started so far (ids are 1 .. issued)
  faults,    \* failed LDAP requests so far
  boots,     \* starts of the process so far
  filed,     \* every record ever added to the history, oldest first
  marked,    \* deployments ever marked torn down
  creator,   \* the deployment that created a DN, 0 if it never learned so or the
             \* directory does not hold the DN
  removed    \* DNs whose deletion a teardown of the deployment saw confirmed

config == <<settings, maxRecords>>
world == <<config, ad, ledger>>
calls == <<pc, dep, dry, todo, made, ok>>
bounds == <<issued, faults, boots>>
traces == <<filed, marked, creator, removed>>
vars  == <<world, calls, bounds, traces>>

DN == [name : Names, ou : Ous]
Ids == 1 .. MaxDeploys
Record == [id : Ids, status : {"active", "plan_only", "torn_down"},
           provisioned : Seq(DN)]

Dn(name) == [name |-> name, ou |-> settings.ou]

Init ==
  /\ settings \in Settings /\ maxRecords \in Capacities
  /\ ad = {} /\ ledger = <<>>
  /\ pc = [t \in Threads |-> "idle"]
  /\ dep = [t \in Threads |-> 0]
  /\ dry = [t \in Threads |-> FALSE]
  /\ todo = [t \in Threads |-> <<>>]
  /\ made = [t \in Threads |-> <<>>]
  /\ ok = [t \in Threads |-> TRUE]
  /\ issued = 0 /\ faults = 0 /\ boots = 1
  /\ filed = <<>> /\ marked = {}
  /\ creator = [d \in DN |-> 0]
  /\ removed = [i \in Ids |-> {}]

\* The call of t takes its next step at label.
Goto(t, label) == pc' = [pc EXCEPT ![t] = label]

\* The call of t returns, or ends in an exception.
Return(t) ==
  /\ Goto(t, "idle")
  /\ dep' = [dep EXCEPT ![t] = 0]
  /\ dry' = [dry EXCEPT ![t] = FALSE]
  /\ todo' = [todo EXCEPT ![t] = <<>>]
  /\ made' = [made EXCEPT ![t] = <<>>]
  /\ ok' = [ok EXCEPT ![t] = TRUE]

\* An LDAP request goes wrong.
Fault ==
  /\ faults < MaxFaults
  /\ faults' = faults + 1
  /\ UNCHANGED <<issued, boots>>

\* The process stops and starts again, perhaps with other settings.
Restart ==
  /\ boots < MaxBoots
  /\ boots' = boots + 1
  /\ settings' \in Settings
  /\ pc' = [t \in Threads |-> "idle"]
  /\ dep' = [t \in Threads |-> 0]
  /\ dry' = [t \in Threads |-> FALSE]
  /\ todo' = [t \in Threads |-> <<>>]
  /\ made' = [t \in Threads |-> <<>>]
  /\ ok' = [t \in Threads |-> TRUE]
  /\ UNCHANGED <<maxRecords, ad, ledger, issued, faults, traces>>

-----------------------------------------------------------------------------
(***************************************************************************)
(* run_deception_deploy                                                    *)
(***************************************************************************)

StartDeploy(t, isDry, names, label, success) ==
  /\ pc[t] = "idle"
  /\ issued < MaxDeploys
  /\ issued' = issued + 1
  /\ Goto(t, label)
  /\ dep' = [dep EXCEPT ![t] = issued + 1]
  /\ dry' = [dry EXCEPT ![t] = isDry]
  /\ todo' = [todo EXCEPT ![t] = names]
  /\ ok' = [ok EXCEPT ![t] = success]
  /\ UNCHANGED <<world, made, faults, boots, traces>>

\* Without provision_ad nothing is written to the directory.
DeployPlan(t) == StartDeploy(t, FALSE, <<>>, "sync", TRUE)

\* The route refuses a live provision while the feature flag is off, and the
\* policy gate stops one whose checks fail: only a plan is recorded.
DeployBlocked(t) ==
  /\ settings.enabled /\ ~settings.compliant
  /\ StartDeploy(t, FALSE, <<>>, "file", FALSE)

\* Mutant: the feature flag is not looked at.
BadDeployToDirectory(t) ==
  \E isDry \in BOOLEAN, names \in Plans :
    /\ isDry \/ settings.compliant
    /\ StartDeploy(t, isDry, names, "start", TRUE)

\* A dry run passes both.
DeployToDirectory(t) ==
  \E isDry \in BOOLEAN, names \in Plans :
    /\ isDry \/ (settings.enabled /\ settings.compliant)
    /\ StartDeploy(t, isDry, names, "start", TRUE)

\* preflight: without a profile, the OU or a bind nothing is written.
PreflightFails(t) ==
  /\ pc[t] = "start"
  /\ Fault
  /\ Goto(t, "sync")
  /\ todo' = [todo EXCEPT ![t] = <<>>]
  /\ ok' = [ok EXCEPT ![t] = FALSE]
  /\ UNCHANGED <<world, dep, dry, made, traces>>

\* A dry run reports every object as would_create, and would_create objects
\* are part of `created'.
DryProvision(t) ==
  /\ pc[t] = "start" /\ dry[t]
  /\ Goto(t, "sync")
  /\ made' = [made EXCEPT ![t] = [i \in DOMAIN todo[t] |-> Dn(todo[t][i])]]
  /\ todo' = [todo EXCEPT ![t] = <<>>]
  /\ UNCHANGED <<world, dep, dry, ok, bounds, traces>>

\* The DN of the object at hand, and where the loop goes after it.
Target(t) == Dn(Head(todo[t]))
NextObject(t) ==
  /\ Goto(t, IF Tail(todo[t]) = <<>> THEN "sync" ELSE "probe")
  /\ todo' = [todo EXCEPT ![t] = Tail(@)]

\* _object_exists is a request of its own.
Probe(t) ==
  /\ pc[t] \in {"start", "probe"} /\ ~dry[t]
  /\ Goto(t, IF Target(t) \in ad THEN "modify" ELSE "add")
  /\ UNCHANGED <<world, dep, dry, todo, made, ok, bounds, traces>>

\* The answer to modify is not looked at: the object counts as updated even
\* when it has gone since it was probed.
Modify(t) ==
  /\ pc[t] = "modify"
  /\ NextObject(t)
  /\ made' = [made EXCEPT ![t] = Append(@, Target(t))]
  /\ UNCHANGED <<world, dep, dry, ok, bounds, traces>>

Add(t) ==
  /\ pc[t] = "add"
  /\ Target(t) \notin ad
  /\ ad' = ad \cup {Target(t)}
  /\ creator' = [creator EXCEPT ![Target(t)] = dep[t]]
  /\ made' = [made EXCEPT ![t] = Append(@, Target(t))]
  /\ NextObject(t)
  /\ UNCHANGED <<config, ledger, dep, dry, ok, bounds, filed, marked, removed>>

\* create_failed: the entry exists by now, or the directory refuses it.  The
\* loop goes on with the next object.
AddRefused(t) ==
  /\ pc[t] = "add"
  /\ IF Target(t) \in ad THEN UNCHANGED bounds ELSE Fault
  /\ NextObject(t)
  /\ ok' = [ok EXCEPT ![t] = FALSE]
  /\ UNCHANGED <<world, dep, dry, made, traces>>

\* Mutant: an exception forgets what was created before it.
BadProvisionRaises(t) ==
  /\ pc[t] \in {"probe", "modify", "add"}
  /\ Fault
  /\ Goto(t, "sync")
  /\ todo' = [todo EXCEPT ![t] = <<>>]
  /\ made' = [made EXCEPT ![t] = <<>>]
  /\ ok' = [ok EXCEPT ![t] = FALSE]
  /\ UNCHANGED <<world, dep, dry, traces>>

\* An exception ends the loop; what was created before it is kept.
ProvisionRaises(t) ==
  /\ pc[t] \in {"probe", "modify", "add"}
  /\ Fault
  /\ \/ UNCHANGED <<ad, creator>>
     \/ /\ pc[t] = "add" /\ Target(t) \notin ad
        /\ ad' = ad \cup {Target(t)}
        /\ creator' = [creator EXCEPT ![Target(t)] = 0]
  /\ Goto(t, "sync")
  /\ todo' = [todo EXCEPT ![t] = <<>>]
  /\ ok' = [ok EXCEPT ![t] = FALSE]
  /\ UNCHANGED <<config, ledger, dep, dry, made, filed, marked, removed>>

\* The call ends before its record is filed: the monitoring or the history file
\* cannot be written, or execute_queries raises, as it does when a sync is
\* asked for and Neo4j is not configured.
DeployRaises(t) ==
  /\ pc[t] \in {"sync", "file"}
  /\ Return(t)
  /\ UNCHANGED <<world, bounds, traces>>

\* The newest records within the limit of the store.
Kept(records) == SubSeq(records, 1, IF Len(records) > maxRecords THEN maxRecords
                                    ELSE Len(records))

NewRecord(t) ==
  [id |-> dep[t], provisioned |-> made[t],
   status |-> IF ok[t] /\ made[t] # <<>> /\ ~dry[t] THEN "active" ELSE "plan_only"]

\* history.add under the lock of the store, after a sync that did not raise or
\* without one.
FileRecord(t) ==
  /\ pc[t] \in {"sync", "file"}
  /\ ledger' = Kept(<<NewRecord(t)>> \o ledger)
  /\ filed' = Append(filed, NewRecord(t))
  /\ Return(t)
  /\ UNCHANGED <<config, ad, bounds, marked, creator, removed>>

-----------------------------------------------------------------------------
(***************************************************************************)
(* run_deception_teardown                                                  *)
(***************************************************************************)

\* An id without a record, a record that is torn down already and the dry run
\* of one without objects are answered at once.
TeardownAnswered(t) ==
  /\ pc[t] = "idle"
  /\ UNCHANGED vars

\* history.get finds a record to work on; one without objects is marked without
\* asking the directory.
TeardownCall(t) ==
  /\ pc[t] = "idle"
  /\ \E r \in ToSet(ledger), isDry \in BOOLEAN :
       /\ r.status # "torn_down" \/ isDry
       /\ r.provisioned # <<>> \/ ~isDry
       /\ Goto(t, "delete")
       /\ dep' = [dep EXCEPT ![t] = r.id]
       /\ dry' = [dry EXCEPT ![t] = isDry]
       /\ todo' = [todo EXCEPT ![t] = r.provisioned]
  /\ UNCHANGED <<world, made, ok, bounds, traces>>

\* Mutant: every recorded DN may be deleted.
BadSafeDn(d) == d \in DN

\* _is_safe_dn: the DN lies in the honey OU of the settings.  (Its prefix was
\* put there by the provisioner.)
SafeDn(d) == d.ou = settings.ou

\* preflight fails, or an exception ends the loop: the call fails and the
\* record stays as it is.  The delete at hand may have been carried out.
TeardownRaises(t) ==
  /\ pc[t] = "delete" /\ todo[t] # <<>>
  /\ Fault
  /\ \/ UNCHANGED <<ad, creator>>
     \/ /\ SafeDn(Head(todo[t])) /\ ~dry[t]
        /\ ad' = ad \ {Head(todo[t])}
        /\ creator' = [creator EXCEPT ![Head(todo[t])] = 0]
  /\ Return(t)
  /\ UNCHANGED <<config, ledger, filed, marked, removed>>

\* One object is deleted, or found deletable by a dry run ...
DeleteObject(t) ==
  /\ pc[t] = "delete" /\ todo[t] # <<>>
  /\ SafeDn(Head(todo[t]))
  /\ IF dry[t] THEN UNCHANGED <<ad, creator, removed>>
     ELSE /\ Head(todo[t]) \in ad
          /\ ad' = ad \ {Head(todo[t])}
          /\ creator' = [creator EXCEPT ![Head(todo[t])] = 0]
          /\ removed' = [removed EXCEPT ![dep[t]] = @ \cup {Head(todo[t])}]
  /\ todo' = [todo EXCEPT ![t] = Tail(@)]
  /\ UNCHANGED <<config, ledger, pc, dep, dry, made, ok, bounds, filed, marked>>

\* Mutant: an object that is not deleted does not count as failed.
BadDeleteFails(t) ==
  /\ pc[t] = "delete" /\ todo[t] # <<>>
  /\ ~SafeDn(Head(todo[t])) \/ (~dry[t] /\ Head(todo[t]) \notin ad)
  /\ todo' = [todo EXCEPT ![t] = Tail(@)]
  /\ UNCHANGED <<world, pc, dep, dry, made, ok, bounds, traces>>

\* ... or blocked, or refused by the directory, which has it no longer or will
\* not let it go.  The loop goes on with the next object.
DeleteFails(t) ==
  /\ pc[t] = "delete" /\ todo[t] # <<>>
  /\ \/ ~SafeDn(Head(todo[t])) /\ UNCHANGED bounds
     \/ SafeDn(Head(todo[t])) /\ ~dry[t] /\ Head(todo[t]) \notin ad
          /\ UNCHANGED bounds
     \/ SafeDn(Head(todo[t])) /\ ~dry[t] /\ Fault
  /\ todo' = [todo EXCEPT ![t] = Tail(@)]
  /\ ok' = [ok EXCEPT ![t] = FALSE]
  /\ UNCHANGED <<world, pc, dep, dry, made, traces>>

\* A dry run ends, or a call some of whose objects failed: the record stays.
TeardownKeepsRecord(t) ==
  /\ pc[t] = "delete" /\ todo[t] = <<>>
  /\ dry[t] \/ ~ok[t]
  /\ Return(t)
  /\ UNCHANGED <<world, bounds, traces>>

\* Mutant: the newest record is marked whatever the id.
BadMarked(records, id) ==
  [i \in DOMAIN records |->
     IF i = 1 THEN [records[i] EXCEPT !.status = "torn_down"] ELSE records[i]]

\* The records with that of id marked, the rest as they are.
Marked(records, id) ==
  [i \in DOMAIN records |->
     IF records[i].id = id THEN [records[i] EXCEPT !.status = "torn_down"]
     ELSE records[i]]

\* history.mark_torn_down under the lock of the store, after a live call none
\* of whose objects failed.
MarkTornDown(t) ==
  /\ pc[t] = "delete" /\ todo[t] = <<>>
  /\ ok[t] /\ ~dry[t]
  /\ ledger' = Marked(ledger, dep[t])
  /\ marked' = marked \cup {dep[t]}
  /\ Return(t)
  /\ UNCHANGED <<config, ad, bounds, filed, creator, removed>>

\* The history file cannot be written: the objects are gone, the record stays.
MarkRaises(t) ==
  /\ pc[t] = "delete" /\ todo[t] = <<>>
  /\ ok[t] /\ ~dry[t]
  /\ Return(t)
  /\ UNCHANGED <<world, bounds, traces>>

-----------------------------------------------------------------------------
Deploy(t) ==
  \/ DeployPlan(t) \/ DeployBlocked(t) \/ DeployToDirectory(t)
  \/ PreflightFails(t) \/ DryProvision(t)
  \/ Probe(t) \/ Modify(t) \/ Add(t) \/ AddRefused(t) \/ ProvisionRaises(t)
  \/ DeployRaises(t) \/ FileRecord(t)

Teardown(t) ==
  \/ TeardownAnswered(t) \/ TeardownCall(t) \/ TeardownRaises(t)
  \/ DeleteObject(t) \/ DeleteFails(t)
  \/ TeardownKeepsRecord(t) \/ MarkTornDown(t) \/ MarkRaises(t)

Next == Restart \/ \E t \in Threads : Deploy(t) \/ Teardown(t)

Spec == Init /\ [][Next]_vars

-----------------------------------------------------------------------------
(***************************************************************************)
(* Properties                                                              *)
(***************************************************************************)

Places == {"idle", "start", "probe", "modify", "add", "sync", "file", "delete"}

\* The state has the types the code gives it.
TypeOK ==
  /\ settings \in Settings /\ maxRecords \in Capacities
  /\ ad \subseteq DN
  /\ ledger \in Seq(Record) /\ Len(ledger) <= maxRecords
  /\ pc \in [Threads -> Places]
  /\ dep \in [Threads -> Ids \cup {0}]
  /\ dry \in [Threads -> BOOLEAN]
  /\ \A t \in Threads : todo[t] \in Seq(Names) \cup Seq(DN)
  /\ made \in [Threads -> Seq(DN)]
  /\ ok \in [Threads -> BOOLEAN]
  /\ issued \in 0 .. MaxDeploys /\ faults \in 0 .. MaxFaults
  /\ boots \in 1 .. MaxBoots
  /\ filed \in Seq(Record) /\ marked \subseteq Ids
  /\ creator \in [DN -> Ids \cup {0}]
  /\ removed \in [Ids -> SUBSET DN]

FiledIds == {r.id : r \in ToSet(filed)}

\* The history is what was filed last: concurrent deployments and teardowns
\* lose neither a record nor a mark, and only maxRecords newer records
\* displace one.
LedgerIsFaithful ==
  /\ Len(ledger) = IF Len(filed) > maxRecords THEN maxRecords ELSE Len(filed)
  /\ \A i \in DOMAIN ledger :
       LET r == filed[Len(filed) + 1 - i]
       IN ledger[i] = IF r.id \in marked THEN [r EXCEPT !.status = "torn_down"]
                      ELSE r

\* A record is torn down only when the directory confirmed, to a teardown of
\* that deployment, the deletion of everything the record lists.
TornDownMeansRemoved ==
  \A r \in ToSet(ledger) :
    r.status = "torn_down" => ToSet(r.provisioned) \subseteq removed[r.id]

\* A decoy in the directory that no teardown can find any more got there in
\* one of four ways; in particular a deployment that failed half way, and
\* returned, has recorded what it created in a record that is still open.
OrphansAreExplained ==
  \A d \in ad :
    \/ creator[d] = 0              \* the answer to its creation was lost
    \/ creator[d] \notin FiledIds  \* its deployment is running or was cut short
    \/ \A r \in ToSet(ledger) : r.id # creator[d]  \* its record was displaced
    \/ \E r \in ToSet(ledger) :
         /\ r.id = creator[d] /\ r.status # "torn_down"
         /\ d \in ToSet(r.provisioned)

\* Nothing is deleted outside the honey OU of the settings in force, whatever
\* OU the records of earlier starts name, and nothing is created outside it.
ChangesStayInOu ==
  [][\A d \in (ad \ ad') \cup (ad' \ ad) : d.ou = settings.ou]_vars

\* The directory grows only for a live deployment under settings that allow
\* it, and a dry run, of either kind, changes nothing while it runs.
ChangesAreLive ==
  [][/\ ad' \ ad # {} => settings.enabled /\ settings.compliant
     /\ ad' # ad => \E t \in Threads : pc[t] \in {"add", "delete"} /\ ~dry[t]]_vars
=============================================================================
