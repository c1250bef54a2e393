-------------------------------- MODULE Session --------------------------------
(***************************************************************************)
(* The operator's session: the signed cookie with the connection profile,  *)
(* the process-local vault that keeps its password (app/core/secret_store, *)
(* connection_profile), the handlers of app/api/connection and the test of *)
(* the directory bridge (connection_service, connection_manager).          *)
(*                                                                         *)
(* The session middleware hands every handler a copy of the cookie that    *)
(* came with the request and sends the copy back with the response: of two *)
(* requests of a browser the response that arrives last decides.  Handlers *)
(* run on worker threads; the vault has a lock, a handler has none.  A     *)
(* cookie expires when no response has renewed it for SESSION_MAX_AGE; an  *)
(* entry of the vault does not.                                            *)
(*                                                                         *)
(* A profile stands for the host, port, bind DN, base DN and hypervisor    *)
(* fields of a ConnectionProfile; of the passwords the one of the          *)
(* directory is modelled (the hypervisor's takes the same path).  A use is *)
(* any handler that loads the profile and connects with it: directory      *)
(* import, preflight, deploy, teardown.                                    *)
(***************************************************************************)
EXTENDS Integers, FiniteSets

CONSTANTS
  Threads,          \* worker threads that serve requests
  Browsers,         \* operators' browsers
  NoBrowser,        \* nobody's
  Profiles,         \* connection profiles an operator may submit
  LegacyProfiles,   \* those in cookies from before there was a vault
  NoProfile,        \* a session without a connection profile
  Passwords,        \* passwords an operator may type
  Blank,            \* the empty password
  Absent,           \* there is no entry in the vault
  SettingsProfile,  \* the profile of the LDAP_* settings
  SettingsPassword, \* LDAP_PASSWORD, which may be blank
  Retries,          \* CONNECTION_RETRIES, 3 in the code
  MaxIds,           \* bound: secret ids given out in one behaviour
  MaxRequests       \* bound: requests in one behaviour

\* A profile has an LDAP host or not, and a hypervisor to check or not.
ASSUME ProfileAssumption ==
  /\ \A p \in Profiles \cup {SettingsProfile} :
       p.host \in BOOLEAN /\ p.hypervisor \in BOOLEAN
  /\ LegacyProfiles \subseteq Profiles
  /\ NoProfile \notin Profiles \cup {SettingsProfile}
ASSUME PasswordAssumption ==
  /\ Blank \notin Passwords /\ Absent \notin Passwords \cup {Blank}
  /\ SettingsPassword \in Passwords \cup {Blank}
ASSUME CallerAssumption == NoBrowser \notin Browsers /\ IsFiniteSet(Threads)
ASSUME LimitAssumption ==
  /\ Retries \in Int /\ MaxIds \in Nat /\ MaxRequests \in Nat

VARIABLES
  cookie,   \* the session a browser holds
  vault,    \* _items of the secret store
  ids,      \* secret ids given out so far (0 is no id)
  step,     \* the next step of the call a thread serves
  op,       \* which handler it runs
  who,      \* the browser it answers
  sess,     \* its copy of the session
  form,     \* the profile and password it works with
  probe,    \* outcome of the test so far
  requests, \* requests so far
  typed,    \* passwords typed into a browser
  saved,    \* profile and password last saved for the session of a browser
  lost,     \* the process was restarted since, and the vault lost its entry
  owner,    \* the browser a secret id was given to
  mixed,    \* a browser had two requests under way, or lost a response, or
            \* its cookie while a request was under way
  expired,  \* secret ids of the cookies that expired since the process started
  bound     \* profiles with which a test for the browser bound successfully

calls   == <<step, op, who, sess, form, probe>>
history == <<requests, typed, saved, lost, owner, mixed, expired, bound>>
vars    == <<cookie, vault, ids, calls, history>>

AllProfiles == Profiles \cup {SettingsProfile}
Secrets == Passwords \cup {Blank}
Statuses == {"not_connected", "connected", "degraded", "failed"}

\* The cookie: whether it is authenticated, connection_secret_id, the
\* connection_profile with a password if it is a legacy one, the LDAP line of
\* connection_checklist, bridge_state and the profile both are about.
SessionRecord ==
  [auth : BOOLEAN, id : 0 .. MaxIds, profile : AllProfiles \cup {NoProfile},
   legacy : Secrets, ldap : {"none", "pending", "ok", "error"},
   bridge : Statuses, tested : AllProfiles \cup {NoProfile}]
Empty ==
  [auth |-> FALSE, id |-> 0, profile |-> NoProfile, legacy |-> Blank,
   ldap |-> "none", bridge |-> "not_connected", tested |-> NoProfile]
\* validate_ldap_connection_with_retry: max(1, retries)
MaxAttempts == IF Retries < 1 THEN 1 ELSE Retries

Work == [profile : AllProfiles \cup {NoProfile}, password : Secrets]
NoWork == [profile |-> NoProfile, password |-> Blank]
NoProbe == [attempts |-> 0, ldap |-> FALSE, hypervisor |-> FALSE]

Handlers == {"login", "read", "save", "test", "retest", "disconnect", "use",
             "logout"}
Steps == {"idle", "load", "act", "save", "hypervisor", "bind", "conclude",
          "connect", "respond"}

-----------------------------------------------------------------------------
(***************************************************************************)
(* Secret store and profile                                                *)
(***************************************************************************)

\* put: an entry is made if there is none, a blank password changes nothing.
Put(v, i, p) ==
  [v EXCEPT ![i] = IF p # Blank THEN p ELSE IF @ = Absent THEN Blank ELSE @]

\* get: a missing entry has blank passwords.
Get(i) == IF i = 0 \/ vault[i] = Absent THEN Blank ELSE vault[i]

\* Mutant: every session gets the same id.
BadFresh == 1

\* ensure_secret_id: a random id no other session has.
Fresh == ids + 1

WithId(s) == IF s.id = 0 THEN [s EXCEPT !.id = Fresh] ELSE s

Configured(s) == s.profile # NoProfile /\ s.profile.host

\* load_session_profile: the profile of the session, or that of the settings
\* if the session's has no LDAP host; blank passwords come from the vault.
Loaded(s, fromVault) ==
  IF Configured(s)
  THEN [profile |-> s.profile, password |-> fromVault]
  ELSE [profile |-> SettingsProfile,
        password |-> IF SettingsPassword # Blank THEN SettingsPassword
                                                 ELSE fromVault]

\* Mutant: the form's password is used as it came.
BadMerged(f, stored) == f

\* merge_secrets: a form without a password keeps the stored one.
Merged(f, stored) ==
  IF f.password = Blank THEN [f EXCEPT !.password = stored.password] ELSE f

-----------------------------------------------------------------------------
(***************************************************************************)
(* Bridge status                                                           *)
(***************************************************************************)

\* Mutant: a hypervisor that answers makes the bridge count as connected.
BadBridgeStatus(p, r) ==
  IF ~ p.host THEN "not_connected"
  ELSE IF p.hypervisor /\ r.hypervisor THEN "connected"
  ELSE IF ~ r.ldap THEN "failed"
  ELSE IF p.hypervisor THEN "degraded" ELSE "connected"

\* compute_bridge_status
BridgeStatus(p, r) ==
  IF ~ p.host THEN "not_connected"
  ELSE IF ~ r.ldap THEN "failed"
  ELSE IF p.hypervisor /\ ~ r.hypervisor THEN "degraded" ELSE "connected"

LdapStatus(p, r) ==
  IF ~ p.host THEN "pending" ELSE IF r.ldap THEN "ok" ELSE "error"

\* _directory_ready: what the pages take as a usable directory.
DirectoryReady(s) == s.ldap = "ok" \/ s.bridge \in {"connected", "degraded"}

-----------------------------------------------------------------------------
(***************************************************************************)
(* Requests                                                                *)
(***************************************************************************)

Busy(b) == \E t \in Threads : step[t] # "idle" /\ who[t] = b

Goto(t, s) == step' = [step EXCEPT ![t] = s]

Finish(t) ==
  /\ Goto(t, "idle")
  /\ op' = [op EXCEPT ![t] = "read"]
  /\ sess' = [sess EXCEPT ![t] = Empty]
  /\ form' = [form EXCEPT ![t] = NoWork]
  /\ probe' = [probe EXCEPT ![t] = NoProbe]
  /\ who' = [who EXCEPT ![t] = NoBrowser]

\* The handler of t gives its session an id if it has none.
TakeId(t) ==
  IF sess[t].id = 0
  THEN /\ ids' = Fresh
       /\ owner' = [owner EXCEPT ![Fresh] = who[t]]
  ELSE UNCHANGED <<ids, owner>>

Init ==
  /\ \E legacy \in [Browsers -> {NoWork} \cup [profile : LegacyProfiles, password : Passwords]] :
       /\ cookie = [b \in Browsers |->
                      IF legacy[b] = NoWork THEN Empty
                      ELSE [Empty EXCEPT !.auth = TRUE,
                                         !.profile = legacy[b].profile,
                                         !.legacy = legacy[b].password]]
       /\ typed = [b \in Browsers |-> {legacy[b].password} \ {Blank}]
       /\ saved = legacy
  /\ vault = [i \in 1 .. MaxIds |-> Absent]
  /\ ids = 0
  /\ step = [t \in Threads |-> "idle"]
  /\ op = [t \in Threads |-> "read"]
  /\ who = [t \in Threads |-> NoBrowser]
  /\ sess = [t \in Threads |-> Empty]
  /\ form = [t \in Threads |-> NoWork]
  /\ probe = [t \in Threads |-> NoProbe]
  /\ requests = 0
  /\ lost = [b \in Browsers |-> FALSE]
  /\ owner = [i \in 1 .. MaxIds |-> NoBrowser]
  /\ mixed = [b \in Browsers |-> FALSE]
  /\ expired = {}
  /\ bound = [b \in Browsers |-> {}]

\* Bound: no more calls without a secret id than there are ids left.
IdsSuffice(b) ==
  cookie[b].id = 0 =>
    ids + Cardinality({u \in Threads : step[u] # "idle" /\ sess[u].id = 0}) < MaxIds

\* A request of browser b reaches a worker; f is the submitted form.
Arrive(t, b, h, f) ==
  /\ step[t] = "idle" /\ requests < MaxRequests
  /\ IdsSuffice(b)
  /\ h \in {"login", "logout"} \/ cookie[b].auth
  /\ f # NoWork <=> h \in {"save", "test"}
  /\ Goto(t, IF h \in {"login", "logout", "disconnect"} THEN "act" ELSE "load")
  /\ op' = [op EXCEPT ![t] = h]
  /\ who' = [who EXCEPT ![t] = b]
  /\ sess' = [sess EXCEPT ![t] = cookie[b]]
  /\ form' = [form EXCEPT ![t] = f]
  /\ requests' = requests + 1
  /\ typed' = [typed EXCEPT ![b] = @ \cup ({f.password} \ {Blank})]
  /\ mixed' = [mixed EXCEPT ![b] = @ \/ Busy(b)]
  /\ UNCHANGED <<cookie, vault, ids, probe, saved, lost, owner, expired, bound>>

\* A login that succeeded; a new session gets the profile of the settings.
Login(t) ==
  LET in == [sess[t] EXCEPT !.auth = TRUE, !.bridge = "not_connected"]
      new == WithId(in).id
      b == who[t]
  IN  /\ step[t] = "act" /\ op[t] = "login"
      /\ IF in.profile # NoProfile
         THEN /\ sess' = [sess EXCEPT ![t] = in]
              /\ UNCHANGED <<vault, ids, owner, saved, lost>>
         ELSE /\ TakeId(t)
              /\ vault' = Put(vault, new, SettingsPassword)
              /\ sess' = [sess EXCEPT ![t] =
                            [in EXCEPT !.id = new, !.profile = SettingsProfile]]
              /\ saved' = [saved EXCEPT ![b] = [profile |-> SettingsProfile,
                                               password |-> SettingsPassword]]
              /\ lost' = [lost EXCEPT ![b] = FALSE]
      /\ Goto(t, "respond")
      /\ UNCHANGED <<cookie, op, who, form, probe, requests, typed, mixed, expired, bound>>

\* Mutant: the session is cleared, the vault is not.
BadLogout(t) ==
  /\ step[t] = "act" /\ op[t] = "logout"
  /\ sess' = [sess EXCEPT ![t] = Empty]
  /\ saved' = [saved EXCEPT ![who[t]] = NoWork]
  /\ lost' = [lost EXCEPT ![who[t]] = FALSE]
  /\ Goto(t, "respond")
  /\ UNCHANGED <<cookie, vault, ids, op, who, form, probe,
                 requests, typed, owner, mixed, expired, bound>>

\* logout: clear_session_secrets, then the session is emptied.
Logout(t) ==
  /\ step[t] = "act" /\ op[t] = "logout"
  /\ vault' = IF sess[t].id = 0 THEN vault
              ELSE [vault EXCEPT ![sess[t].id] = Absent]
  /\ sess' = [sess EXCEPT ![t] = Empty]
  /\ saved' = [saved EXCEPT ![who[t]] = NoWork]
  /\ lost' = [lost EXCEPT ![who[t]] = FALSE]
  /\ Goto(t, "respond")
  /\ UNCHANGED <<cookie, ids, op, who, form, probe,
                 requests, typed, owner, mixed, expired, bound>>

\* POST /disconnect clears bridge state and checklist, not the profile.
Disconnect(t) ==
  /\ step[t] = "act" /\ op[t] = "disconnect"
  /\ sess' = [sess EXCEPT ![t].ldap = "none", ![t].bridge = "not_connected"]
  /\ Goto(t, "respond")
  /\ UNCHANGED <<cookie, vault, ids, op, who, form, probe, history>>

\* load_session_profile: an id, a legacy password moved into the vault, blank
\* passwords filled from it; then what the handler does with the profile.
Load(t) ==
  LET new == WithId(sess[t])
      old == sess[t].legacy
      kept == IF old = Blank THEN vault ELSE Put(vault, new.id, old)
      stored == Loaded(sess[t], IF old = Blank THEN Get(sess[t].id) ELSE old)
  IN  /\ step[t] = "load"
      /\ TakeId(t)
      /\ vault' = kept
      /\ sess' = [sess EXCEPT ![t] =
                    IF old = Blank THEN new
                    ELSE [new EXCEPT !.legacy = Blank, !.profile = stored.profile]]
      /\ form' = [form EXCEPT ![t] = IF op[t] \in {"save", "test"}
                                     THEN Merged(@, stored) ELSE stored]
      /\ op' = [op EXCEPT ![t] =
                  IF @ = "retest" /\ stored.profile.host THEN "test" ELSE @]
      /\ Goto(t, CASE op[t] \in {"save", "test"} -> "save"
                   [] op[t] = "retest" /\ stored.profile.host -> "load"
                   [] op[t] = "use" /\ stored.profile.host -> "connect"
                   [] OTHER -> "respond")
      /\ UNCHANGED <<cookie, who, probe, requests, typed, saved, lost, mixed, expired, bound>>

\* save_session_profile: the password into the vault, the rest into the copy
\* of the session.
SaveProfile(t) ==
  LET b == who[t] IN
  /\ vault' = Put(vault, sess[t].id, form[t].password)
  /\ saved' = [saved EXCEPT ![b] = form[t]]
  /\ lost' = [lost EXCEPT ![b] = @ /\ form[t].password = Blank]

\* POST /save, and POST /test before it tests.
Save(t) ==
  /\ step[t] = "save"
  /\ SaveProfile(t)
  /\ sess' = [sess EXCEPT ![t].profile = form[t].profile]
  /\ Goto(t, IF op[t] = "save" THEN "respond" ELSE "hypervisor")
  /\ UNCHANGED <<cookie, ids, op, who, form, probe, requests, typed, owner, mixed, expired, bound>>

\* connect_hypervisor: an exception counts as a failure; without a
\* hypervisor to check the step is skipped as a success.
Hypervisor(t) ==
  /\ step[t] = "hypervisor"
  /\ \E good \in BOOLEAN :
       /\ ~ form[t].profile.hypervisor => good
       /\ probe' = [probe EXCEPT ![t].hypervisor = good]
  /\ Goto(t, IF form[t].profile.host THEN "bind" ELSE "conclude")
  /\ UNCHANGED <<cookie, vault, ids, op, who, sess, form, history>>

\* validate_ldap_connection_with_retry: another attempt after a failed one.
Bind(t) ==
  LET n == probe[t].attempts + 1 IN
  /\ step[t] = "bind"
  /\ \E good \in BOOLEAN :
       /\ probe' = [probe EXCEPT ![t].attempts = n, ![t].ldap = good]
       /\ bound' = [bound EXCEPT ![who[t]] =
                      IF good THEN @ \cup {form[t].profile} ELSE @]
       /\ Goto(t, IF good \/ n >= MaxAttempts THEN "conclude" ELSE "bind")
  /\ UNCHANGED <<cookie, vault, ids, op, who, sess, form,
                 requests, typed, saved, lost, owner, mixed, expired>>

\* The verdict goes into the copy of the session, which is saved once more.
Conclude(t) ==
  LET p == form[t].profile IN
  /\ step[t] = "conclude"
  /\ SaveProfile(t)
  /\ sess' = [sess EXCEPT ![t].profile = p, ![t].tested = p,
                          ![t].ldap = LdapStatus(p, probe[t]),
                          ![t].bridge = BridgeStatus(p, probe[t])]
  /\ Goto(t, "respond")
  /\ UNCHANGED <<cookie, ids, op, who, form, probe, requests, typed, owner, mixed, expired, bound>>

\* A handler that works in the directory with the profile it loaded.
Connect(t) ==
  /\ step[t] = "connect"
  /\ Goto(t, "respond")
  /\ UNCHANGED <<cookie, vault, ids, op, who, sess, form, probe, history>>

\* The response reaches the browser, with the handler's copy of the session.
Respond(t) ==
  /\ step[t] = "respond"
  /\ cookie' = [cookie EXCEPT ![who[t]] = sess[t]]
  /\ Finish(t)
  /\ UNCHANGED <<vault, ids, history>>

\* The response is lost on its way.
LoseResponse(t) ==
  /\ step[t] = "respond"
  /\ mixed' = [mixed EXCEPT ![who[t]] = TRUE]
  /\ Finish(t)
  /\ UNCHANGED <<cookie, vault, ids, requests, typed, saved, lost, owner, expired, bound>>

\* The process stops and starts again: the vault is empty, cookies are not, nor
\* is a legacy password in one.
Restart ==
  /\ vault' = [i \in 1 .. MaxIds |-> Absent]
  /\ lost' = [b \in Browsers |-> cookie[b].id # 0]
  /\ expired' = {}
  /\ mixed' = [b \in Browsers |-> mixed[b] \/ Busy(b)]
  /\ step' = [t \in Threads |-> "idle"]
  /\ op' = [t \in Threads |-> "read"]
  /\ sess' = [t \in Threads |-> Empty]
  /\ form' = [t \in Threads |-> NoWork]
  /\ probe' = [t \in Threads |-> NoProbe]
  /\ who' = [t \in Threads |-> NoBrowser]
  /\ UNCHANGED <<cookie, ids, requests, typed, saved, owner, bound>>

\* SessionMiddleware, max_age: no response has renewed the cookie for so long
\* that the browser drops it, or its signature is too old.  Nobody tells the vault.
Expire(b) ==
  /\ cookie[b] # Empty
  /\ cookie' = [cookie EXCEPT ![b] = Empty]
  /\ expired' = expired \cup ({cookie[b].id} \ {0})
  /\ saved' = [saved EXCEPT ![b] = NoWork]
  /\ lost' = [lost EXCEPT ![b] = FALSE]
  /\ mixed' = [mixed EXCEPT ![b] = @ \/ Busy(b)]
  /\ UNCHANGED <<vault, ids, calls, requests, typed, owner, bound>>

Serve(t) ==
  \/ Login(t) \/ Logout(t) \/ Disconnect(t)
  \/ Load(t) \/ Save(t) \/ Hypervisor(t) \/ Bind(t) \/ Conclude(t)
  \/ Connect(t) \/ Respond(t) \/ LoseResponse(t)

Forms == {NoWork} \cup [profile : Profiles, password : Secrets]

Next ==
  \/ \E t \in Threads :
       \/ \E b \in Browsers, h \in Handlers, f \in Forms : Arrive(t, b, h, f)
       \/ Serve(t)
  \/ Restart
  \/ \E b \in Browsers : Expire(b)

Spec == Init /\ [][Next]_vars

-----------------------------------------------------------------------------
(***************************************************************************)
(* Properties                                                              *)
(***************************************************************************)

\* Type invariant of cookies, vault and calls.
TypeOK ==
  /\ cookie \in [Browsers -> SessionRecord]
  /\ vault \in [1 .. MaxIds -> Secrets \cup {Absent}]
  /\ ids \in 0 .. MaxIds
  /\ step \in [Threads -> Steps]
  /\ op \in [Threads -> Handlers]
  /\ who \in [Threads -> Browsers \cup {NoBrowser}]
  /\ sess \in [Threads -> SessionRecord]
  /\ form \in [Threads -> Work]
  /\ probe \in [Threads -> [attempts : 0 .. MaxAttempts, ldap : BOOLEAN,
                            hypervisor : BOOLEAN]]
  /\ requests \in 0 .. MaxRequests
  /\ typed \in [Browsers -> SUBSET Passwords]
  /\ saved \in [Browsers -> Work]
  /\ lost \in [Browsers -> BOOLEAN]
  /\ owner \in [1 .. MaxIds -> Browsers \cup {NoBrowser}]
  /\ mixed \in [Browsers -> BOOLEAN]
  /\ expired \subseteq 1 .. MaxIds
  /\ bound \in [Browsers -> SUBSET AllProfiles]

\* The vault holds for a session only what its own operator typed, or the
\* password of the settings (secret_store, keyed by ensure_secret_id).
VaultHoldsOwnSecrets ==
  \A i \in 1 .. MaxIds :
    vault[i] # Absent =>
      vault[i] \in typed[owner[i]] \cup {SettingsPassword, Blank}

\* An entry of the vault ends with its session when the operator logs out
\* (clear_session_secrets): what is left without a session is the entry of a
\* cookie that expired, which nothing removes, or that of a browser that had two
\* requests under way, or lost a response: then a late save brings the entry
\* back, or the id is lost.
LogoutTakesTheEntry ==
  \A i \in 1 .. MaxIds :
    vault[i] # Absent =>
      \/ mixed[owner[i]] \/ i \in expired
      \/ cookie[owner[i]].id = i
      \/ \E t \in Threads : step[t] # "idle" /\ sess[t].id = i

\* What a handler should connect with: the pair saved last.  The settings stand
\* in for a profile without a host, with their password if they have one; a
\* legacy password that is moved to the vault takes its place afterwards.
Expected(w) ==
  IF w.profile # NoProfile /\ w.profile.host
  THEN [profile : {w.profile}, password : {w.password}]
  ELSE [profile : {SettingsProfile},
        password : IF SettingsPassword = Blank THEN {w.password}
                                               ELSE {SettingsPassword, w.password}]

\* A browser with one request at a time always connects with the profile and
\* the password it saved last.  A restart leaves it the profile and takes the
\* password: until one is saved again it connects without, or with the one of the
\* settings, never with another (load_session_profile, merge_secrets, the vault).
SequentialUseIsCoherent ==
  \A t \in Threads :
    LET b == who[t]
        left == IF lost[b] THEN [saved[b] EXCEPT !.password = Blank] ELSE saved[b]
    IN  step[t] \in {"bind", "connect"} /\ ~ mixed[b] => form[t] \in Expected(left)

\* The pages take the directory as usable only while the session holds a verdict
\* of a test in which this browser bound, whatever order responses arrive in
\* (compute_bridge_status, build_checklist, _directory_ready).  The verdict is
\* about the profile tested then; a profile saved since does not take it back, and
\* need not have been tested.
ReadyMeansBound ==
  \A b \in Browsers :
    DirectoryReady(cookie[b]) => cookie[b].tested \in bound[b]
=============================================================================
