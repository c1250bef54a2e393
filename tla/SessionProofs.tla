----------------------------- MODULE SessionProofs -----------------------------
(***************************************************************************)
(* Theorems of Session for any number of threads, browsers, profiles,      *)
(* passwords and retries.  Whose password an entry of the vault may hold   *)
(* follows from who was given its secret id (Owned); that there is a new   *)
(* id for every call that still takes one, from counting them (IdsLeft).   *)
(***************************************************************************)
EXTENDS Session, FiniteSetTheorems, TLAPS

\* Calls that may still take a secret id.
Pending == {t \in Threads : step[t] \in {"act", "load"} /\ sess[t].id = 0}

IdsLeft == ids + Cardinality(Pending) <= MaxIds

\* What a call works on at its steps.
Working ==
  \A t \in Threads :
    /\ step[t] = "idle" => sess[t] = Empty /\ form[t] = NoWork /\ probe[t] = NoProbe
    /\ step[t] # "idle" => who[t] \in Browsers
    /\ step[t] = "load" /\ op[t] \in {"save", "test"} => form[t].profile \in AllProfiles
    /\ step[t] \in {"save", "hypervisor", "bind", "conclude"} =>
         sess[t].id # 0 /\ form[t].profile \in AllProfiles
    /\ step[t] \in {"act", "load", "save", "hypervisor"} => probe[t].attempts = 0
    /\ step[t] = "bind" => probe[t].attempts < MaxAttempts

\* A secret id belongs to one browser, whose cookie and calls alone have it.
Owned ==
  /\ \A i \in 1 .. MaxIds : i > ids => vault[i] = Absent
  /\ \A b \in Browsers : cookie[b].id # 0 => cookie[b].id <= ids /\ owner[cookie[b].id] = b
  /\ \A t \in Threads : sess[t].id # 0 => sess[t].id <= ids /\ owner[sess[t].id] = who[t]

Own(b) == typed[b] \cup {SettingsPassword, Blank}

\* Passwords come from the operator who typed them, or from the settings.
OwnSecrets ==
  /\ \A b \in Browsers : cookie[b].legacy \in Own(b)
  /\ \A t \in Threads : sess[t].legacy \in Own(who[t]) /\ form[t].password \in Own(who[t])
  /\ \A i \in 1 .. MaxIds : vault[i] # Absent => vault[i] \in Own(owner[i])

\* A verdict comes from a test, on its way to the cookie too.
Bound ==
  /\ ReadyMeansBound
  /\ \A t \in Threads :
       /\ DirectoryReady(sess[t]) => sess[t].tested \in bound[who[t]]
       /\ probe[t].ldap => /\ step[t] \in {"conclude", "respond"}
                           /\ form[t].profile \in bound[who[t]]

IInv == TypeOK /\ IdsLeft /\ Working /\ Owned /\ OwnSecrets /\ Bound

USE ProfileAssumption, PasswordAssumption, CallerAssumption, LimitAssumption
    DEF calls, history, Goto

-----------------------------------------------------------------------------
(***************************************************************************)
(* Operators                                                               *)
(***************************************************************************)

LEMMA AttemptsPositive == MaxAttempts \in Nat /\ MaxAttempts >= 1
BY DEF MaxAttempts

LEMMA EmptyTyped ==
  /\ Empty \in SessionRecord /\ Empty.id = 0 /\ Empty.legacy = Blank
  /\ ~ DirectoryReady(Empty) /\ NoWork \in Work /\ NoWork.password = Blank
  /\ NoProbe \in [attempts : 0 .. MaxAttempts, ldap : BOOLEAN, hypervisor : BOOLEAN]
  /\ ~ NoProbe.ldap /\ NoProbe.attempts = 0
<1>1. 0 \in 0 .. MaxIds /\ 0 \in 0 .. MaxAttempts
  BY AttemptsPositive
<1>2. Empty \in SessionRecord
  BY <1>1 DEF Empty, SessionRecord, Secrets, Statuses
<1>3. ~ DirectoryReady(Empty)
  BY DEF Empty, DirectoryReady
<1>4. NoProbe \in [attempts : 0 .. MaxAttempts, ldap : BOOLEAN, hypervisor : BOOLEAN]
  BY <1>1 DEF NoProbe
<1>5. QED
  BY <1>2, <1>3, <1>4 DEF Empty, NoWork, Work, Secrets, NoProbe

\* put changes no other entry, and stores nothing but the password or a blank.
LEMMA PutStores ==
  ASSUME NEW v \in [1 .. MaxIds -> Secrets \cup {Absent}], NEW i \in 1 .. MaxIds,
         NEW p \in Secrets
  PROVE  /\ Put(v, i, p) \in [1 .. MaxIds -> Secrets \cup {Absent}]
         /\ \A j \in 1 .. MaxIds : j # i => Put(v, i, p)[j] = v[j]
         /\ Put(v, i, p)[i] \in {p, Blank, v[i]} /\ Put(v, i, p)[i] # Absent
BY DEF Put, Secrets

\* The profile and password a handler loads.
LEMMA LoadedTyped ==
  ASSUME NEW s \in SessionRecord, NEW p \in Secrets
  PROVE  /\ Loaded(s, p) \in Work /\ Loaded(s, p).password \in {p, SettingsPassword}
         /\ Loaded(s, p).profile \in AllProfiles
BY DEF Loaded, Configured, Work, SessionRecord, Secrets, AllProfiles

LEMMA MergedTyped ==
  ASSUME NEW f \in Work, NEW g \in Work
  PROVE  /\ Merged(f, g) \in Work /\ Merged(f, g).password \in {f.password, g.password}
         /\ Merged(f, g).profile = f.profile
BY DEF Merged, Work

-----------------------------------------------------------------------------
(***************************************************************************)
(* Secret ids                                                              *)
(***************************************************************************)

LEMMA FewerPending ==
  ASSUME IdsLeft, ids \in Nat, ids' = ids, Pending' \subseteq Pending
  PROVE  IdsLeft'
<1>1. IsFiniteSet(Pending)
  BY FS_Subset DEF Pending
<1>2. Cardinality(Pending') <= Cardinality(Pending) /\ Cardinality(Pending) \in Nat
      /\ Cardinality(Pending') \in Nat
  BY <1>1, FS_Subset, FS_CardinalityType
<1>3. QED
  BY <1>2 DEF IdsLeft

LEMMA PendingHasId ==
  ASSUME IdsLeft, ids \in Nat, NEW t \in Pending
  PROVE  Fresh \in 1 .. MaxIds
<1>1. IsFiniteSet(Pending) /\ Cardinality(Pending) \in Nat
  BY FS_Subset, FS_CardinalityType DEF Pending
<1>2. Cardinality(Pending) # 0
  BY <1>1, FS_EmptySet
<1>3. QED
  BY <1>1, <1>2 DEF IdsLeft, Fresh

LEMMA TakenOut ==
  ASSUME IdsLeft, ids \in Nat, NEW t \in Pending, ids' = Fresh,
         Pending' \subseteq Pending \ {t}
  PROVE  IdsLeft'
<1>1. IsFiniteSet(Pending) /\ Cardinality(Pending) \in Nat
  BY FS_Subset, FS_CardinalityType DEF Pending
<1>2. IsFiniteSet(Pending \ {t}) /\ Cardinality(Pending \ {t}) = Cardinality(Pending) - 1
  BY <1>1, FS_RemoveElement
<1>3. Cardinality(Pending') <= Cardinality(Pending \ {t}) /\ Cardinality(Pending') \in Nat
  BY <1>2, FS_Subset, FS_CardinalityType
<1>4. QED
  BY <1>1, <1>2, <1>3 DEF IdsLeft, Fresh

-----------------------------------------------------------------------------
(***************************************************************************)
(* The inductive invariant                                                 *)
(***************************************************************************)

LEMMA InitHolds == Init => IInv
<1> SUFFICES ASSUME Init PROVE IInv
  OBVIOUS
<1> DEFINE Legacy == {NoWork} \cup [profile : LegacyProfiles, password : Passwords]
<1>1. PICK legacy \in [Browsers -> Legacy] :
        /\ cookie = [b \in Browsers |->
                       IF legacy[b] = NoWork THEN Empty
                       ELSE [Empty EXCEPT !.auth = TRUE,
                                          !.profile = legacy[b].profile,
                                          !.legacy = legacy[b].password]]
        /\ typed = [b \in Browsers |-> {legacy[b].password} \ {Blank}]
        /\ saved = legacy
  BY DEF Init
<1>2. \A b \in Browsers : legacy[b] \in Work /\ legacy[b].password \in Passwords \cup {Blank}
  <2>1. ASSUME NEW w \in Legacy PROVE w \in Work /\ w.password \in Passwords \cup {Blank}
    <3>1. CASE w = NoWork
      BY <3>1, EmptyTyped
    <3>2. CASE w \in [profile : LegacyProfiles, password : Passwords]
      BY <3>2 DEF Work, Secrets, AllProfiles
    <3>3. QED
      BY <3>1, <3>2
  <2>2. QED
    BY <1>1, <2>1
<1>3. ASSUME NEW b \in Browsers
      PROVE  /\ cookie[b] \in SessionRecord /\ cookie[b].id = 0
             /\ cookie[b].legacy \in Own(b) /\ ~ DirectoryReady(cookie[b])
  <2>1. CASE legacy[b] = NoWork
    BY <1>1, <2>1, EmptyTyped DEF Own
  <2>2. CASE legacy[b] # NoWork
    <3>1. legacy[b] \in [profile : LegacyProfiles, password : Passwords]
      BY <1>1, <2>2
    <3>2. legacy[b].password \in typed[b] /\ legacy[b].password \in Secrets
          /\ legacy[b].profile \in AllProfiles
      BY <1>1, <3>1 DEF Secrets, AllProfiles
    <3>3. cookie[b] = [Empty EXCEPT !.auth = TRUE, !.profile = legacy[b].profile,
                                    !.legacy = legacy[b].password]
      BY <1>1, <2>2
    <3>4. /\ cookie[b] \in SessionRecord /\ cookie[b].id = 0
          /\ cookie[b].legacy = legacy[b].password
      BY <3>2, <3>3, EmptyTyped DEF SessionRecord, Empty
    <3>5. ~ DirectoryReady(cookie[b])
      BY <3>3 DEF DirectoryReady, Empty
    <3>6. QED
      BY <3>2, <3>4, <3>5 DEF Own
  <2>3. QED
    BY <2>1, <2>2
<1>4. TypeOK
  <2>1. cookie \in [Browsers -> SessionRecord] /\ saved \in [Browsers -> Work]
    BY <1>1, <1>2, <1>3
  <2>2. typed \in [Browsers -> SUBSET Passwords]
    BY <1>1, <1>2
  <2>3. /\ sess \in [Threads -> SessionRecord] /\ form \in [Threads -> Work]
        /\ probe \in [Threads -> [attempts : 0 .. MaxAttempts, ldap : BOOLEAN,
                                  hypervisor : BOOLEAN]]
    BY EmptyTyped DEF Init
  <2>4. ids \in 0 .. MaxIds /\ requests \in 0 .. MaxRequests
    <3>1. ids = 0 /\ requests = 0
      BY DEF Init
    <3>2. QED
      BY <3>1
  <2>5. /\ vault \in [1 .. MaxIds -> Secrets \cup {Absent}]
        /\ step \in [Threads -> Steps] /\ op \in [Threads -> Handlers]
        /\ who \in [Threads -> Browsers \cup {NoBrowser}]
        /\ lost \in [Browsers -> BOOLEAN] /\ mixed \in [Browsers -> BOOLEAN]
        /\ owner \in [1 .. MaxIds -> Browsers \cup {NoBrowser}]
        /\ bound \in [Browsers -> SUBSET AllProfiles] /\ expired \subseteq 1 .. MaxIds
    BY DEF Init, Steps, Handlers
  <2>6. QED
    BY <2>1, <2>2, <2>3, <2>4, <2>5 DEF TypeOK
<1>5. IdsLeft
  <2>1. Pending = {}
    BY DEF Init, Pending
  <2>2. ids = 0
    BY DEF Init
  <2>3. QED
    BY <2>1, <2>2, FS_EmptySet DEF IdsLeft
<1>6. \A t \in Threads : step[t] = "idle" /\ sess[t] = Empty /\ form[t] = NoWork
                         /\ probe[t] = NoProbe
  BY DEF Init
<1>7. Working
  BY <1>6, EmptyTyped DEF Working
<1>8. Owned
  BY <1>3, <1>6, EmptyTyped DEF Init, Owned
<1>9. OwnSecrets
  BY <1>3, <1>6, EmptyTyped DEF Init, OwnSecrets, Own
<1>10. Bound
  BY <1>3, <1>6, EmptyTyped DEF Bound, ReadyMeansBound
<1>11. QED
  BY <1>4, <1>5, <1>7, <1>8, <1>9, <1>10 DEF IInv

LEMMA ArriveKeeps ==
  ASSUME IInv, NEW t \in Threads, NEW b \in Browsers, NEW h \in Handlers, NEW f \in Forms,
         Arrive(t, b, h, f)
  PROVE  IInv'
<1>1. /\ f \in Work /\ {f.password} \ {Blank} \subseteq Passwords
      /\ f.password \in {Blank} \cup ({f.password} \ {Blank})
      /\ f # NoWork => f.profile \in AllProfiles
  BY EmptyTyped DEF Forms, Work, Secrets, AllProfiles
<1>2. /\ step[t] = "idle" /\ probe[t] = NoProbe
      /\ cookie[b] \in SessionRecord
  BY DEF Arrive, IInv, TypeOK, Working
<1>3. \E s \in {"act", "load"} : step' = [step EXCEPT ![t] = s]
  BY DEF Arrive
<1>4. /\ \A u \in Threads : u # t => step'[u] = step[u] /\ who'[u] = who[u]
                                     /\ sess'[u] = sess[u] /\ form'[u] = form[u]
      /\ step'[t] \in {"act", "load"} /\ who'[t] = b /\ sess'[t] = cookie[b]
      /\ form'[t] = f /\ probe' = probe
  BY <1>3 DEF Arrive, IInv, TypeOK
<1>5. /\ typed'[b] = typed[b] \cup ({f.password} \ {Blank})
      /\ \A c \in Browsers : c # b => typed'[c] = typed[c]
      /\ \A c : c \notin Browsers => typed'[c] = typed[c]
  BY DEF Arrive, IInv, TypeOK
<1>6. TypeOK'
  <2>1. step' \in [Threads -> Steps]
    BY <1>3 DEF IInv, TypeOK, Steps
  <2>2. typed' \in [Browsers -> SUBSET Passwords]
    BY <1>1 DEF Arrive, IInv, TypeOK
  <2>3. requests' \in 0 .. MaxRequests
    BY DEF Arrive, IInv, TypeOK
  <2>4. mixed' \in [Browsers -> BOOLEAN]
    BY Zenon DEF Arrive, IInv, TypeOK, Busy
  <2>5. QED
    BY <1>1, <1>2, <2>1, <2>2, <2>3, <2>4 DEF Arrive, IInv, TypeOK
<1>7. IdsLeft'
  <2>1. ids \in Nat /\ ids' = ids
    BY DEF Arrive, IInv, TypeOK
  <2>2. CASE cookie[b].id = 0
    <3> DEFINE Q == {u \in Threads : step[u] # "idle" /\ sess[u].id = 0}
    <3>1. IsFiniteSet(Q) /\ Cardinality(Q) \in Nat /\ ids + Cardinality(Q) < MaxIds
      BY <2>2, FS_Subset, FS_CardinalityType DEF Arrive, IdsSuffice
    <3>2. Pending' \subseteq Q \cup {t}
      BY <1>4 DEF Pending
    <3> HIDE DEF Q
    <3>3. IsFiniteSet(Q \cup {t}) /\ Cardinality(Q \cup {t}) <= Cardinality(Q) + 1
          /\ Cardinality(Q \cup {t}) \in Nat
      <4>1. /\ IsFiniteSet(Q \cup {t})
            /\ Cardinality(Q \cup {t}) \in {Cardinality(Q), Cardinality(Q) + 1}
        BY <3>1, FS_AddElement
      <4>2. QED
        BY <3>1, <4>1
    <3>4. Cardinality(Pending') <= Cardinality(Q \cup {t}) /\ Cardinality(Pending') \in Nat
      BY <3>2, <3>3, FS_Subset, FS_CardinalityType
    <3>5. QED
      BY <2>1, <3>1, <3>3, <3>4 DEF IdsLeft
  <2>3. CASE cookie[b].id # 0
    <3>1. Pending' \subseteq Pending
      BY <1>4, <2>3 DEF Pending
    <3>2. QED
      BY <2>1, <3>1, FewerPending DEF IInv
  <2>4. QED
    BY <2>2, <2>3
<1>8. Working'
  <2>1. op'[t] \in {"save", "test"} => f # NoWork
    BY DEF Arrive, IInv, TypeOK
  <2>2. \A u \in Threads : u # t => op'[u] = op[u]
    BY DEF Arrive, IInv, TypeOK
  <2>3. QED
    BY <1>1, <1>2, <1>4, <2>1, <2>2, EmptyTyped DEF IInv, Working
<1>9. Owned'
  BY <1>4 DEF Arrive, IInv, Owned
<1>10. OwnSecrets'
  <2>1. \A c : Own(c) \subseteq Own(c)'
    BY <1>5 DEF Own
  <2>2. f.password \in Own(b)'
    BY <1>1, <1>5 DEF Own
  <2>3. QED
    BY <1>4, <2>1, <2>2 DEF Arrive, IInv, OwnSecrets
<1>11. Bound'
  BY <1>2, <1>4, EmptyTyped DEF Arrive, IInv, Bound, ReadyMeansBound
<1>12. QED
  BY <1>6, <1>7, <1>8, <1>9, <1>10, <1>11 DEF IInv
\* Ids are handed on without a change, or taken by one call alone.
LEMMA IdsOrdered ==
  ASSUME IInv
  PROVE  /\ ids \in Nat
         /\ \A b \in Browsers : cookie[b].id \in 0 .. MaxIds
         /\ \A t \in Threads : sess[t].id \in 0 .. MaxIds
BY DEF IInv, TypeOK, SessionRecord

\* A call takes an id if it has none, and may put a password of its own under it.
LEMMA IdTaken ==
  ASSUME IInv, NEW t \in Threads, TakeId(t), step[t] # "idle",
         step[t] \in {"act", "load"} \/ sess[t].id # 0
  PROVE  /\ WithId(sess[t]) \in SessionRecord /\ WithId(sess[t]).id \in 1 .. MaxIds
         /\ WithId(sess[t]).id <= ids'
         /\ WithId(sess[t]).legacy = sess[t].legacy
         /\ WithId(sess[t]).profile = sess[t].profile
         /\ WithId(sess[t]).tested = sess[t].tested
         /\ DirectoryReady(WithId(sess[t])) => DirectoryReady(sess[t])
         /\ ids' \in 0 .. MaxIds /\ ids <= ids'
         /\ owner' \in [1 .. MaxIds -> Browsers \cup {NoBrowser}]
         /\ owner'[WithId(sess[t]).id] = who[t]
         /\ \A i \in 1 .. MaxIds : i <= ids \/ i # WithId(sess[t]).id => owner'[i] = owner[i]
         /\ \A i \in 1 .. MaxIds : i > ids' => i > ids /\ i # WithId(sess[t]).id
         /\ WithId(sess[t]).id <= ids => owner[WithId(sess[t]).id] = who[t]
<1>1. /\ sess[t] \in SessionRecord /\ ids \in 0 .. MaxIds /\ who[t] \in Browsers
      /\ owner \in [1 .. MaxIds -> Browsers \cup {NoBrowser}]
  BY DEF IInv, TypeOK, Working
<1>2. CASE sess[t].id = 0
  <2>1. t \in Pending
    BY <1>2 DEF Pending
  <2>2. Fresh \in 1 .. MaxIds /\ Fresh = ids + 1
    BY <1>1, <2>1, PendingHasId DEF IInv, Fresh
  <2>3. ids' = Fresh /\ owner' = [owner EXCEPT ![Fresh] = who[t]]
    BY <1>2 DEF TakeId
  <2>4. WithId(sess[t]) = [sess[t] EXCEPT !.id = Fresh]
    BY <1>2 DEF WithId
  <2> HIDE DEF Fresh
  <2>5. /\ WithId(sess[t]) \in SessionRecord /\ WithId(sess[t]).id = Fresh
        /\ WithId(sess[t]).legacy = sess[t].legacy
        /\ WithId(sess[t]).profile = sess[t].profile
        /\ WithId(sess[t]).tested = sess[t].tested
        /\ DirectoryReady(WithId(sess[t])) => DirectoryReady(sess[t])
    <3>1. Fresh \in 0 .. MaxIds
      BY <2>2
    <3>2. QED
      BY <1>1, <2>4, <3>1 DEF SessionRecord, DirectoryReady
  <2>6. QED
    BY <1>1, <2>2, <2>3, <2>5
<1>3. CASE sess[t].id # 0
  <2>1. WithId(sess[t]) = sess[t] /\ ids' = ids /\ owner' = owner
    BY <1>3 DEF WithId, TakeId
  <2>2. sess[t].id \in 1 .. MaxIds
    BY <1>1, <1>3 DEF SessionRecord
  <2>3. sess[t].id <= ids /\ owner[sess[t].id] = who[t]
    BY <1>3 DEF IInv, Owned
  <2>4. QED
    BY <1>1, <2>1, <2>2, <2>3
<1>4. QED
  BY <1>2, <1>3

LEMMA OwnPasswordPut ==
  ASSUME IInv, NEW t \in Threads, TakeId(t), step[t] # "idle",
         step[t] \in {"act", "load"} \/ sess[t].id # 0,
         typed' = typed, NEW p \in Secrets, p \in Own(who[t]),
         vault' = vault \/ vault' = Put(vault, WithId(sess[t]).id, p)
  PROVE  /\ vault' \in [1 .. MaxIds -> Secrets \cup {Absent}]
         /\ \A i \in 1 .. MaxIds : i > ids' => vault'[i] = Absent
         /\ \A i \in 1 .. MaxIds : vault'[i] # Absent => vault'[i] \in Own(owner'[i])
<1> DEFINE n == WithId(sess[t]).id
<1>1. /\ n \in 1 .. MaxIds /\ ids \in 0 .. MaxIds
      /\ owner'[n] = who[t]
      /\ \A i \in 1 .. MaxIds : i <= ids \/ i # n => owner'[i] = owner[i]
      /\ \A i \in 1 .. MaxIds : i > ids' => i > ids /\ i # n
      /\ n <= ids => owner[n] = who[t]
  BY IdTaken DEF IInv, TypeOK
<1>2. /\ vault \in [1 .. MaxIds -> Secrets \cup {Absent}]
      /\ \A i \in 1 .. MaxIds : i > ids => vault[i] = Absent
      /\ \A i \in 1 .. MaxIds : vault[i] # Absent => vault[i] \in Own(owner[i])
  BY DEF IInv, TypeOK, Owned, OwnSecrets
<1>3. CASE vault' = vault
  <2>1. \A i \in 1 .. MaxIds : vault[i] # Absent => owner'[i] = owner[i]
    BY <1>1, <1>2
  <2>2. QED
    BY <1>1, <1>2, <1>3, <2>1
<1>4. CASE vault' = Put(vault, n, p)
  <2> HIDE DEF n
  <2>1. /\ vault' \in [1 .. MaxIds -> Secrets \cup {Absent}]
        /\ \A j \in 1 .. MaxIds : j # n => vault'[j] = vault[j]
        /\ vault'[n] \in {p, Blank, vault[n]} /\ vault'[n] # Absent
    BY <1>1, <1>2, <1>4, PutStores
  <2>2. vault'[n] \in Own(who[t])
    <3>1. vault[n] # Absent => n <= ids /\ vault[n] \in Own(who[t])
      BY <1>1, <1>2
    <3>2. QED
      BY <2>1, <3>1 DEF Own
  <2>3. QED
    BY <1>1, <1>2, <2>1, <2>2
<1>5. QED
  BY <1>3, <1>4

LEMMA LoginKeeps ==
  ASSUME IInv, NEW t \in Threads, Login(t)
  PROVE  IInv'
<1> DEFINE in == [sess[t] EXCEPT !.auth = TRUE, !.bridge = "not_connected"]
           b == who[t]
<1>1. step[t] = "act" /\ sess[t] \in SessionRecord /\ b \in Browsers
  BY DEF Login, IInv, TypeOK, Working
<1>2. /\ in \in SessionRecord /\ in.id = sess[t].id /\ in.legacy = sess[t].legacy
      /\ in.profile = sess[t].profile /\ in.tested = sess[t].tested
      /\ DirectoryReady(in) => DirectoryReady(sess[t])
  BY <1>1 DEF SessionRecord, Statuses, DirectoryReady
<1>3. \A u \in Threads : step'[u] = IF u = t THEN "respond" ELSE step[u]
  BY DEF Login, IInv, TypeOK
<1>4. UNCHANGED <<cookie, op, who, form, probe, requests, typed, mixed, expired, bound>>
  BY DEF Login
<1>5. CASE in.profile # NoProfile
  <2>1. sess' = [sess EXCEPT ![t] = in] /\ UNCHANGED <<vault, ids, owner, saved, lost>>
    BY <1>5 DEF Login
  <2>2. \A u \in Threads : sess'[u] = IF u = t THEN in ELSE sess[u]
    BY <2>1 DEF IInv, TypeOK
  <2> HIDE DEF in
  <2>3. TypeOK'
    BY <1>2, <1>4, <2>1 DEF Login, IInv, TypeOK, Steps
  <2>4. IdsLeft'
    <3>1. Pending' \subseteq Pending
      BY <1>3, <2>2 DEF Pending
    <3>2. QED
      BY <2>1, <3>1, FewerPending DEF IInv, TypeOK
  <2>5. Working'
    BY <1>1, <1>3, <1>4, <2>2 DEF IInv, Working
  <2>6. Owned' /\ OwnSecrets'
    BY <1>2, <1>4, <2>1, <2>2 DEF IInv, Owned, OwnSecrets, Own
  <2>7. Bound'
    BY <1>1, <1>2, <1>3, <1>4, <2>2 DEF IInv, Bound, ReadyMeansBound
  <2>8. QED
    BY <2>3, <2>4, <2>5, <2>6, <2>7 DEF IInv
<1>6. CASE in.profile = NoProfile
  <2> DEFINE n == WithId(sess[t]).id
             out == [in EXCEPT !.id = n, !.profile = SettingsProfile]
  <2>1. WithId(in).id = n
    BY <1>1, <1>2 DEF WithId, SessionRecord
  <2>2. /\ TakeId(t) /\ vault' = Put(vault, n, SettingsPassword)
        /\ sess' = [sess EXCEPT ![t] = out]
        /\ saved' = [saved EXCEPT ![b] = [profile |-> SettingsProfile,
                                         password |-> SettingsPassword]]
        /\ lost' = [lost EXCEPT ![b] = FALSE]
    BY <1>6, <2>1 DEF Login
  <2>3. /\ n \in 1 .. MaxIds /\ n <= ids' /\ ids' \in 0 .. MaxIds /\ ids <= ids'
        /\ owner' \in [1 .. MaxIds -> Browsers \cup {NoBrowser}]
        /\ owner'[n] = b
        /\ \A i \in 1 .. MaxIds : i <= ids => owner'[i] = owner[i]
    BY <1>1, <2>2, IdTaken
  <2>4. /\ vault' \in [1 .. MaxIds -> Secrets \cup {Absent}]
        /\ \A i \in 1 .. MaxIds : i > ids' => vault'[i] = Absent
        /\ \A i \in 1 .. MaxIds : vault'[i] # Absent => vault'[i] \in Own(owner'[i])
    <3>1. SettingsPassword \in Secrets /\ SettingsPassword \in Own(b)
      BY DEF Secrets, Own
    <3>2. QED
      BY <1>1, <1>4, <2>2, <3>1, OwnPasswordPut
  <2>5. /\ out \in SessionRecord /\ out.id = n /\ out.legacy = sess[t].legacy
        /\ out.tested = sess[t].tested
        /\ DirectoryReady(out) => DirectoryReady(sess[t])
    <3>1. n \in 0 .. MaxIds /\ SettingsProfile \in AllProfiles
      BY <2>3 DEF AllProfiles
    <3> HIDE DEF n
    <3>2. QED
      BY <1>1, <1>2, <3>1 DEF SessionRecord, Statuses, DirectoryReady
  <2> HIDE DEF in, n, out
  <2>6. \A u \in Threads : sess'[u] = IF u = t THEN out ELSE sess[u]
    BY <2>2 DEF IInv, TypeOK
  <2>7. TypeOK'
    <3>1. saved' \in [Browsers -> Work] /\ lost' \in [Browsers -> BOOLEAN]
      BY <1>1, <2>2 DEF IInv, TypeOK, Work, AllProfiles, Secrets
    <3>2. sess' \in [Threads -> SessionRecord] /\ step' \in [Threads -> Steps]
      BY <2>2, <2>5 DEF Login, IInv, TypeOK, Steps
    <3>3. QED
      BY <1>4, <2>3, <2>4, <3>1, <3>2 DEF IInv, TypeOK
  <2>8. IdsLeft'
    <3>1. Pending' \subseteq Pending \ {t}
      BY <1>3, <2>6 DEF Pending
    <3>2. CASE sess[t].id = 0
      BY <1>1, <2>2, <3>1, <3>2, TakenOut DEF IInv, TypeOK, TakeId, Pending
    <3>3. CASE sess[t].id # 0
      BY <2>2, <3>1, <3>3, FewerPending DEF IInv, TypeOK, TakeId
    <3>4. QED
      BY <3>2, <3>3
  <2>9. Working'
    BY <1>1, <1>3, <1>4, <2>6 DEF IInv, Working
  <2>10. Owned'
    BY <1>4, <2>3, <2>4, <2>5, <2>6, IdsOrdered DEF IInv, Owned
  <2>11. OwnSecrets'
    BY <1>4, <2>4, <2>5, <2>6 DEF IInv, OwnSecrets, Own
  <2>12. Bound'
    <3>1. ReadyMeansBound'
      BY <1>4 DEF IInv, Bound, ReadyMeansBound
    <3>2. \A u \in Threads : DirectoryReady(sess'[u]) => sess'[u].tested \in bound'[who'[u]]
      BY <1>4, <2>5, <2>6 DEF IInv, Bound
    <3>3. \A u \in Threads : probe'[u].ldap => u # t /\ step'[u] = step[u]
      BY <1>1, <1>3, <1>4 DEF IInv, Bound
    <3>4. QED
      BY <1>4, <3>1, <3>2, <3>3 DEF IInv, Bound
  <2>13. QED
    BY <2>7, <2>8, <2>9, <2>10, <2>11, <2>12 DEF IInv
<1>7. QED
  BY <1>5, <1>6
LEMMA LogoutKeeps ==
  ASSUME IInv, NEW t \in Threads, Logout(t)
  PROVE  IInv'
<1>1. step[t] = "act" /\ sess[t].id \in 0 .. MaxIds /\ who[t] \in Browsers
  BY IdsOrdered DEF Logout, IInv, Working
<1>2. /\ sess' = [sess EXCEPT ![t] = Empty]
      /\ UNCHANGED <<cookie, ids, op, who, form, probe, requests, typed, owner, mixed, expired,
                     bound>>
  BY DEF Logout
<1>3. \A u \in Threads : /\ step'[u] = IF u = t THEN "respond" ELSE step[u]
                         /\ sess'[u] = IF u = t THEN Empty ELSE sess[u]
  BY DEF Logout, IInv, TypeOK
<1>4. /\ vault' \in [1 .. MaxIds -> Secrets \cup {Absent}]
      /\ \A i \in 1 .. MaxIds : vault'[i] \in {vault[i], Absent}
  BY DEF Logout, IInv, TypeOK
<1>5. TypeOK'
  <2>1. saved' \in [Browsers -> Work] /\ lost' \in [Browsers -> BOOLEAN]
        /\ step' \in [Threads -> Steps]
    BY EmptyTyped DEF Logout, IInv, TypeOK, Steps
  <2>2. sess' \in [Threads -> SessionRecord]
    BY <1>2, EmptyTyped DEF IInv, TypeOK
  <2>3. QED
    BY <1>2, <1>4, <2>1, <2>2 DEF IInv, TypeOK
<1>6. IdsLeft'
  <2>1. Pending' \subseteq Pending
    BY <1>3 DEF Pending
  <2>2. QED
    BY <1>2, <2>1, FewerPending DEF IInv, TypeOK
<1>7. Working'
  BY <1>1, <1>2, <1>3 DEF IInv, Working
<1>8. Owned' /\ OwnSecrets'
  BY <1>2, <1>3, <1>4, EmptyTyped DEF IInv, Owned, OwnSecrets, Own
<1>9. Bound'
  BY <1>1, <1>2, <1>3, EmptyTyped DEF IInv, Bound, ReadyMeansBound
<1>10. QED
  BY <1>5, <1>6, <1>7, <1>8, <1>9 DEF IInv

LEMMA DisconnectKeeps ==
  ASSUME IInv, NEW t \in Threads, Disconnect(t)
  PROVE  IInv'
<1> DEFINE out == [sess[t] EXCEPT !.ldap = "none", !.bridge = "not_connected"]
<1>1. step[t] = "act" /\ sess[t] \in SessionRecord
  BY DEF Disconnect, IInv, TypeOK
<1>2. /\ out \in SessionRecord /\ out.id = sess[t].id /\ out.legacy = sess[t].legacy
      /\ ~ DirectoryReady(out)
  BY <1>1 DEF SessionRecord, Statuses, DirectoryReady
<1>3. /\ sess' = [sess EXCEPT ![t] = out] /\ step' = [step EXCEPT ![t] = "respond"]
      /\ UNCHANGED <<cookie, vault, ids, op, who, form, probe, requests, typed, saved, lost,
                     owner, mixed, expired, bound>>
  BY <1>1 DEF Disconnect, IInv, TypeOK
<1> HIDE DEF out
<1>4. \A u \in Threads : /\ step'[u] = IF u = t THEN "respond" ELSE step[u]
                         /\ sess'[u] = IF u = t THEN out ELSE sess[u]
  BY <1>3 DEF IInv, TypeOK
<1>5. TypeOK'
  BY <1>2, <1>3 DEF IInv, TypeOK, Steps
<1>6. IdsLeft'
  <2>1. Pending' \subseteq Pending
    BY <1>4 DEF Pending
  <2>2. QED
    BY <1>3, <2>1, FewerPending DEF IInv, TypeOK
<1>7. Working'
  BY <1>1, <1>3, <1>4 DEF IInv, Working
<1>8. Owned' /\ OwnSecrets'
  BY <1>2, <1>3, <1>4 DEF IInv, Owned, OwnSecrets, Own
<1>9. Bound'
  BY <1>1, <1>2, <1>3, <1>4 DEF IInv, Bound, ReadyMeansBound
<1>10. QED
  BY <1>5, <1>6, <1>7, <1>8, <1>9 DEF IInv

LEMMA LoadKeeps ==
  ASSUME IInv, NEW t \in Threads, Load(t)
  PROVE  IInv'
<1> DEFINE new == WithId(sess[t])
           old == sess[t].legacy
           got == IF old = Blank THEN Get(sess[t].id) ELSE old
           stored == Loaded(sess[t], got)
           out == IF old = Blank THEN new
                  ELSE [new EXCEPT !.legacy = Blank, !.profile = stored.profile]
           f == IF op[t] \in {"save", "test"} THEN Merged(form[t], stored) ELSE stored
<1>1. /\ step[t] = "load" /\ sess[t] \in SessionRecord /\ who[t] \in Browsers
      /\ form[t] \in Work /\ form[t].password \in Own(who[t])
      /\ old \in Secrets /\ old \in Own(who[t])
  BY DEF Load, IInv, TypeOK, Working, OwnSecrets, SessionRecord
<1>2. /\ TakeId(t) /\ vault' = IF old = Blank THEN vault ELSE Put(vault, new.id, old)
      /\ sess' = [sess EXCEPT ![t] = out] /\ form' = [form EXCEPT ![t] = f]
      /\ UNCHANGED <<cookie, who, probe, requests, typed, saved, lost, mixed, expired,
                     bound>>
  BY DEF Load
<1>3. \E s \in {"save", "load", "connect", "respond"} : step' = [step EXCEPT ![t] = s]
  BY Zenon DEF Load
<1>4. op' \in [Threads -> Handlers]
  <2>1. \E h \in Handlers : op' = [op EXCEPT ![t] = h]
    BY DEF Load, IInv, TypeOK, Handlers
  <2>2. QED
    BY <2>1 DEF IInv, TypeOK
<1>5. got \in Secrets /\ got \in Own(who[t])
  <2>1. CASE old # Blank
    BY <1>1, <2>1
  <2>2. CASE old = Blank /\ (sess[t].id = 0 \/ vault[sess[t].id] = Absent)
    BY <2>2 DEF Get, Secrets, Own
  <2>3. CASE old = Blank /\ sess[t].id # 0 /\ vault[sess[t].id] # Absent
    <3>1. sess[t].id \in 1 .. MaxIds /\ owner[sess[t].id] = who[t]
      BY <2>3, IdsOrdered DEF IInv, Owned
    <3>2. vault[sess[t].id] \in Secrets /\ vault[sess[t].id] \in Own(who[t])
      BY <2>3, <3>1 DEF IInv, TypeOK, OwnSecrets
    <3>3. QED
      BY <2>3, <3>2 DEF Get
  <2>4. QED
    BY <2>1, <2>2, <2>3
<1> HIDE DEF got
<1>6. /\ stored \in Work /\ stored.password \in Own(who[t])
      /\ stored.profile \in AllProfiles
  <2>1. /\ stored \in Work /\ stored.password \in {got, SettingsPassword}
        /\ stored.profile \in AllProfiles
    BY <1>1, <1>5, LoadedTyped
  <2>2. QED
    BY <1>5, <2>1 DEF Own
<1> HIDE DEF stored
<1>7. f \in Work /\ f.password \in Own(who[t]) /\ f.profile \in AllProfiles
  <2>1. op[t] \in {"save", "test"} => form[t].profile \in AllProfiles
    BY <1>1 DEF IInv, Working
  <2>2. QED
    BY <1>1, <1>6, <2>1, MergedTyped
<1> HIDE DEF f
<1>8. /\ new \in SessionRecord /\ new.id \in 1 .. MaxIds /\ new.id <= ids'
      /\ new.legacy = old /\ new.tested = sess[t].tested
      /\ DirectoryReady(new) => DirectoryReady(sess[t])
      /\ ids' \in 0 .. MaxIds /\ ids <= ids'
      /\ owner' \in [1 .. MaxIds -> Browsers \cup {NoBrowser}]
      /\ owner'[new.id] = who[t]
      /\ \A i \in 1 .. MaxIds : i <= ids => owner'[i] = owner[i]
  BY <1>1, <1>2, IdTaken
<1>9. /\ vault' \in [1 .. MaxIds -> Secrets \cup {Absent}]
      /\ \A i \in 1 .. MaxIds : i > ids' => vault'[i] = Absent
      /\ \A i \in 1 .. MaxIds : vault'[i] # Absent => vault'[i] \in Own(owner'[i])
  BY <1>1, <1>2, OwnPasswordPut
<1> HIDE DEF new
<1>10. /\ out \in SessionRecord /\ out.id = new.id /\ out.legacy = Blank
       /\ out.tested = sess[t].tested
       /\ DirectoryReady(out) => DirectoryReady(sess[t])
  BY <1>6, <1>8 DEF SessionRecord, DirectoryReady, Work, Secrets
<1> HIDE DEF out, old
<1>11. \A u \in Threads : /\ u # t => step'[u] = step[u]
                          /\ sess'[u] = IF u = t THEN out ELSE sess[u]
                          /\ form'[u] = IF u = t THEN f ELSE form[u]
  BY <1>2, <1>3 DEF IInv, TypeOK
<1>12. step'[t] \in {"save", "load", "connect", "respond"}
  BY <1>3 DEF IInv, TypeOK
<1>13. TypeOK'
  <2>1. step' \in [Threads -> Steps]
    BY <1>3 DEF IInv, TypeOK, Steps
  <2>2. sess' \in [Threads -> SessionRecord] /\ form' \in [Threads -> Work]
    BY <1>2, <1>7, <1>10 DEF IInv, TypeOK
  <2>3. QED
    BY <1>2, <1>4, <1>8, <1>9, <2>1, <2>2 DEF IInv, TypeOK
<1>14. IdsLeft'
  <2>1. Pending' \subseteq Pending \ {t}
    BY <1>8, <1>10, <1>11 DEF Pending
  <2>2. CASE sess[t].id = 0
    BY <1>1, <1>2, <2>1, <2>2, TakenOut DEF IInv, TypeOK, TakeId, Pending
  <2>3. CASE sess[t].id # 0
    BY <1>2, <2>1, <2>3, FewerPending DEF IInv, TypeOK, TakeId
  <2>4. QED
    BY <2>2, <2>3
<1>15. Working'
  <2>1. \A u \in Threads : u # t => op'[u] = op[u]
    BY DEF Load, IInv, TypeOK
  <2>2. QED
    BY <1>1, <1>2, <1>7, <1>8, <1>10, <1>11, <1>12, <2>1 DEF IInv, Working
<1>16. Owned'
  <2>1. \A b \in Browsers :
          cookie'[b].id # 0 => cookie'[b].id <= ids' /\ owner'[cookie'[b].id] = b
    BY <1>2, <1>8, IdsOrdered DEF IInv, Owned
  <2>2. ASSUME NEW u \in Threads, sess'[u].id # 0
        PROVE  sess'[u].id <= ids' /\ owner'[sess'[u].id] = who'[u]
    <3>1. CASE u = t
      BY <1>2, <1>8, <1>10, <1>11, <3>1
    <3>2. CASE u # t
      BY <1>2, <1>8, <1>11, <2>2, <3>2, IdsOrdered DEF IInv, Owned
    <3>3. QED
      BY <3>1, <3>2
  <2>3. QED
    BY <1>9, <2>1, <2>2 DEF Owned
<1>17. OwnSecrets'
  <2>1. \A b : Own(b)' = Own(b)
    BY <1>2 DEF Own
  <2>2. Blank \in Own(who[t])
    BY DEF Own
  <2>3. QED
    BY <1>2, <1>7, <1>9, <1>10, <1>11, <2>1, <2>2 DEF IInv, OwnSecrets
<1>18. Bound'
  <2>1. ReadyMeansBound'
    BY <1>2 DEF IInv, Bound, ReadyMeansBound
  <2>2. \A u \in Threads : DirectoryReady(sess'[u]) => sess'[u].tested \in bound'[who'[u]]
    BY <1>2, <1>10, <1>11 DEF IInv, Bound
  <2>3. \A u \in Threads : probe'[u].ldap => u # t /\ step'[u] = step[u] /\ form'[u] = form[u]
    BY <1>1, <1>2, <1>11 DEF IInv, Bound
  <2>4. QED
    BY <1>2, <2>1, <2>2, <2>3 DEF IInv, Bound
<1>19. QED
  BY <1>13, <1>14, <1>15, <1>16, <1>17, <1>18 DEF IInv
\* save_session_profile puts the password of the call under its id.
LEMMA ProfileSaved ==
  ASSUME IInv, NEW t \in Threads, SaveProfile(t), step[t] \in {"save", "conclude"},
         UNCHANGED <<ids, owner, typed>>
  PROVE  /\ vault' \in [1 .. MaxIds -> Secrets \cup {Absent}]
         /\ \A i \in 1 .. MaxIds : i > ids' => vault'[i] = Absent
         /\ \A i \in 1 .. MaxIds : vault'[i] # Absent => vault'[i] \in Own(owner'[i])
         /\ saved' \in [Browsers -> Work] /\ lost' \in [Browsers -> BOOLEAN]
<1>1. /\ sess[t].id # 0 /\ form[t].password \in Own(who[t]) /\ form[t].password \in Secrets
      /\ form[t] \in Work /\ who[t] \in Browsers
  BY DEF IInv, Working, OwnSecrets, TypeOK, Work
<1>2. TakeId(t) /\ WithId(sess[t]) = sess[t]
  BY <1>1 DEF TakeId, WithId
<1>3. vault' = Put(vault, WithId(sess[t]).id, form[t].password)
  BY <1>2 DEF SaveProfile
<1>4. saved' \in [Browsers -> Work]
  BY <1>1 DEF SaveProfile, IInv, TypeOK
<1>5. lost' \in [Browsers -> BOOLEAN]
  BY <1>1, Zenon DEF SaveProfile, IInv, TypeOK
<1>6. QED
  BY <1>1, <1>2, <1>3, <1>4, <1>5, OwnPasswordPut

LEMMA SaveKeeps ==
  ASSUME IInv, NEW t \in Threads, Save(t)
  PROVE  IInv'
<1> DEFINE out == [sess[t] EXCEPT !.profile = form[t].profile]
<1>1. /\ step[t] = "save" /\ sess[t] \in SessionRecord /\ form[t] \in Work /\ sess[t].id # 0
      /\ form[t].profile \in AllProfiles \cup {NoProfile}
  BY DEF Save, IInv, TypeOK, Working, Work
<1>2. /\ out \in SessionRecord /\ out.id = sess[t].id /\ out.legacy = sess[t].legacy
      /\ out.tested = sess[t].tested
      /\ DirectoryReady(out) => DirectoryReady(sess[t])
  BY <1>1 DEF SessionRecord, DirectoryReady
<1>3. /\ sess' = [sess EXCEPT ![t] = out] /\ SaveProfile(t)
      /\ UNCHANGED <<cookie, ids, op, who, form, probe, requests, typed, owner, mixed, expired,
                     bound>>
  BY <1>1 DEF Save, SessionRecord, IInv, TypeOK
<1>4. \E s \in {"respond", "hypervisor"} : step' = [step EXCEPT ![t] = s]
  BY DEF Save
<1> HIDE DEF out
<1>5. \A u \in Threads : /\ u # t => step'[u] = step[u]
                         /\ sess'[u] = IF u = t THEN out ELSE sess[u]
  BY <1>3, <1>4 DEF IInv, TypeOK
<1>6. step'[t] \in {"respond", "hypervisor"}
  BY <1>4 DEF IInv, TypeOK
<1>7. /\ vault' \in [1 .. MaxIds -> Secrets \cup {Absent}]
      /\ \A i \in 1 .. MaxIds : i > ids' => vault'[i] = Absent
      /\ \A i \in 1 .. MaxIds : vault'[i] # Absent => vault'[i] \in Own(owner'[i])
      /\ saved' \in [Browsers -> Work] /\ lost' \in [Browsers -> BOOLEAN]
  BY <1>1, <1>3, ProfileSaved
<1>8. TypeOK'
  <2>1. step' \in [Threads -> Steps] /\ sess' \in [Threads -> SessionRecord]
    BY <1>2, <1>3, <1>4 DEF IInv, TypeOK, Steps
  <2>2. QED
    BY <1>3, <1>7, <2>1 DEF IInv, TypeOK
<1>9. IdsLeft'
  <2>1. Pending' \subseteq Pending
    BY <1>5, <1>6 DEF Pending
  <2>2. QED
    BY <1>3, <2>1, FewerPending DEF IInv, TypeOK
<1>10. Working'
  BY <1>1, <1>2, <1>3, <1>5, <1>6 DEF IInv, Working
<1>11. Owned'
  BY <1>2, <1>3, <1>5, <1>7 DEF IInv, Owned
<1>12. OwnSecrets'
  BY <1>2, <1>3, <1>5, <1>7 DEF IInv, OwnSecrets, Own
<1>13. Bound'
  <2>1. \A u \in Threads : DirectoryReady(sess'[u]) => sess'[u].tested \in bound'[who'[u]]
    BY <1>2, <1>3, <1>5 DEF IInv, Bound
  <2>2. \A u \in Threads : probe'[u].ldap => u # t /\ step'[u] = step[u]
    BY <1>1, <1>3, <1>5 DEF IInv, Bound
  <2>3. QED
    BY <1>3, <2>1, <2>2 DEF IInv, Bound, ReadyMeansBound
<1>14. QED
  BY <1>8, <1>9, <1>10, <1>11, <1>12, <1>13 DEF IInv

LEMMA ConcludeKeeps ==
  ASSUME IInv, NEW t \in Threads, Conclude(t)
  PROVE  IInv'
<1> DEFINE p == form[t].profile
           out == [sess[t] EXCEPT !.profile = p, !.tested = p,
                                  !.ldap = LdapStatus(p, probe[t]),
                                  !.bridge = BridgeStatus(p, probe[t])]
<1>1. /\ step[t] = "conclude" /\ sess[t] \in SessionRecord /\ sess[t].id # 0
      /\ p \in AllProfiles \cup {NoProfile}
  BY DEF Conclude, IInv, TypeOK, Working, Work
<1>2. /\ LdapStatus(p, probe[t]) \in {"none", "pending", "ok", "error"}
      /\ BridgeStatus(p, probe[t]) \in Statuses
      /\ LdapStatus(p, probe[t]) = "ok" => probe[t].ldap
      /\ BridgeStatus(p, probe[t]) \in {"connected", "degraded"} => probe[t].ldap
  BY DEF LdapStatus, BridgeStatus, Statuses
<1>3. /\ out \in SessionRecord /\ out.id = sess[t].id /\ out.legacy = sess[t].legacy
      /\ out.tested = p /\ out.ldap = LdapStatus(p, probe[t])
      /\ out.bridge = BridgeStatus(p, probe[t])
  BY <1>1, <1>2 DEF SessionRecord
<1>4. /\ sess' = [sess EXCEPT ![t] = out] /\ SaveProfile(t)
      /\ step' = [step EXCEPT ![t] = "respond"]
      /\ UNCHANGED <<cookie, ids, op, who, form, probe, requests, typed, owner, mixed, expired,
                     bound>>
  BY <1>1 DEF Conclude, SessionRecord, IInv, TypeOK
<1>5. DirectoryReady(out) => out.tested \in bound[who[t]]
  <2>1. DirectoryReady(out) => probe[t].ldap
    BY <1>2, <1>3 DEF DirectoryReady
  <2>2. QED
    BY <1>3, <2>1 DEF IInv, Bound
<1> HIDE DEF out, p
<1>6. \A u \in Threads : /\ step'[u] = IF u = t THEN "respond" ELSE step[u]
                         /\ sess'[u] = IF u = t THEN out ELSE sess[u]
  BY <1>4 DEF IInv, TypeOK
<1>7. /\ vault' \in [1 .. MaxIds -> Secrets \cup {Absent}]
      /\ \A i \in 1 .. MaxIds : i > ids' => vault'[i] = Absent
      /\ \A i \in 1 .. MaxIds : vault'[i] # Absent => vault'[i] \in Own(owner'[i])
      /\ saved' \in [Browsers -> Work] /\ lost' \in [Browsers -> BOOLEAN]
  BY <1>1, <1>4, ProfileSaved
<1>8. TypeOK'
  <2>1. step' \in [Threads -> Steps] /\ sess' \in [Threads -> SessionRecord]
    BY <1>3, <1>4 DEF IInv, TypeOK, Steps
  <2>2. QED
    BY <1>4, <1>7, <2>1 DEF IInv, TypeOK
<1>9. IdsLeft'
  <2>1. Pending' \subseteq Pending
    BY <1>6 DEF Pending
  <2>2. QED
    BY <1>4, <2>1, FewerPending DEF IInv, TypeOK
<1>10. Working'
  BY <1>1, <1>4, <1>6 DEF IInv, Working
<1>11. Owned'
  BY <1>3, <1>4, <1>6, <1>7 DEF IInv, Owned
<1>12. OwnSecrets'
  BY <1>3, <1>4, <1>6, <1>7 DEF IInv, OwnSecrets, Own
<1>13. Bound'
  <2>1. \A u \in Threads : DirectoryReady(sess'[u]) => sess'[u].tested \in bound'[who'[u]]
    BY <1>4, <1>5, <1>6 DEF IInv, Bound
  <2>2. \A u \in Threads : probe'[u].ldap => step'[u] \in {"conclude", "respond"}
                                             /\ form'[u].profile \in bound'[who'[u]]
    BY <1>4, <1>6 DEF IInv, Bound
  <2>3. QED
    BY <1>4, <2>1, <2>2 DEF IInv, Bound, ReadyMeansBound
<1>14. QED
  BY <1>8, <1>9, <1>10, <1>11, <1>12, <1>13 DEF IInv
LEMMA HypervisorKeeps ==
  ASSUME IInv, NEW t \in Threads, Hypervisor(t)
  PROVE  IInv'
<1>1. PICK good \in BOOLEAN : probe' = [probe EXCEPT ![t].hypervisor = good]
  BY DEF Hypervisor
<1>2. \E s \in {"bind", "conclude"} : step' = [step EXCEPT ![t] = s]
  BY DEF Hypervisor
<1>3. /\ step[t] = "hypervisor" /\ ~ probe[t].ldap /\ probe[t].attempts = 0
      /\ UNCHANGED <<cookie, vault, ids, op, who, sess, form, history>>
  BY DEF Hypervisor, IInv, Working, Bound
<1>4. /\ \A u \in Threads : u # t => step'[u] = step[u] /\ probe'[u] = probe[u]
      /\ step'[t] \in {"bind", "conclude"} /\ ~ probe'[t].ldap /\ probe'[t].attempts = 0
  BY <1>1, <1>2, <1>3 DEF IInv, TypeOK
<1>5. TypeOK'
  <2>1. step' \in [Threads -> Steps]
    BY <1>2 DEF IInv, TypeOK, Steps
  <2>2. probe' \in [Threads -> [attempts : 0 .. MaxAttempts, ldap : BOOLEAN,
                                hypervisor : BOOLEAN]]
    <3>1. [probe[t] EXCEPT !.hypervisor = good] \in
            [attempts : 0 .. MaxAttempts, ldap : BOOLEAN, hypervisor : BOOLEAN]
      <4>1. probe[t] \in [attempts : 0 .. MaxAttempts, ldap : BOOLEAN, hypervisor : BOOLEAN]
        BY DEF IInv, TypeOK
      <4>2. QED
        BY <4>1
    <3>2. QED
      BY <1>1, <3>1 DEF IInv, TypeOK
  <2>3. QED
    BY <1>3, <2>1, <2>2 DEF IInv, TypeOK
<1>6. IdsLeft'
  <2>1. Pending' \subseteq Pending
    BY <1>3, <1>4 DEF Pending
  <2>2. QED
    BY <1>3, <2>1, FewerPending DEF IInv, TypeOK
<1>7. Working'
  BY <1>3, <1>4, AttemptsPositive DEF IInv, Working
<1>8. Owned' /\ OwnSecrets'
  BY <1>3 DEF IInv, Owned, OwnSecrets, Own
<1>9. Bound'
  BY <1>3, <1>4 DEF IInv, Bound, ReadyMeansBound
<1>10. QED
  BY <1>5, <1>6, <1>7, <1>8, <1>9 DEF IInv

LEMMA BindKeeps ==
  ASSUME IInv, NEW t \in Threads, Bind(t)
  PROVE  IInv'
<1> DEFINE n == probe[t].attempts + 1
<1>1. PICK good \in BOOLEAN :
        /\ probe' = [probe EXCEPT ![t].attempts = n, ![t].ldap = good]
        /\ bound' = [bound EXCEPT ![who[t]] = IF good THEN @ \cup {form[t].profile} ELSE @]
        /\ step' = [step EXCEPT ![t] = IF good \/ n >= MaxAttempts THEN "conclude" ELSE "bind"]
  BY DEF Bind
<1>2. /\ step[t] = "bind" /\ ~ probe[t].ldap /\ probe[t].attempts < MaxAttempts
      /\ who[t] \in Browsers /\ probe[t].attempts \in 0 .. MaxAttempts
      /\ form[t].profile \in AllProfiles
      /\ UNCHANGED <<cookie, vault, ids, op, who, sess, form, requests, typed, saved, lost,
                     owner, mixed, expired>>
  BY DEF Bind, IInv, TypeOK, Working, Bound
<1>3. n \in 0 .. MaxAttempts
  BY <1>2, AttemptsPositive
<1>4. /\ \A u \in Threads : u # t => step'[u] = step[u] /\ probe'[u] = probe[u]
      /\ step'[t] \in {"bind", "conclude"} /\ probe'[t].attempts = n
      /\ probe'[t].ldap => good
      /\ good => step'[t] = "conclude"
      /\ step'[t] = "bind" => ~ (n >= MaxAttempts)
  BY <1>1 DEF IInv, TypeOK
<1>5. /\ \A b \in Browsers : bound[b] \subseteq bound'[b]
      /\ good => form[t].profile \in bound'[who[t]]
  BY <1>1, <1>2 DEF IInv, TypeOK
<1>6. TypeOK'
  <2>1. step' \in [Threads -> Steps]
    BY <1>1 DEF IInv, TypeOK, Steps
  <2>2. probe' \in [Threads -> [attempts : 0 .. MaxAttempts, ldap : BOOLEAN,
                                hypervisor : BOOLEAN]]
    <3>1. [probe[t] EXCEPT !.attempts = n, !.ldap = good] \in
            [attempts : 0 .. MaxAttempts, ldap : BOOLEAN, hypervisor : BOOLEAN]
      <4>1. probe[t] \in [attempts : 0 .. MaxAttempts, ldap : BOOLEAN, hypervisor : BOOLEAN]
        BY DEF IInv, TypeOK
      <4> HIDE DEF n
      <4>2. QED
        BY <1>3, <4>1
    <3>2. probe' = [probe EXCEPT ![t] = [probe[t] EXCEPT !.attempts = n, !.ldap = good]]
      BY <1>1 DEF IInv, TypeOK
    <3>3. QED
      BY <3>1, <3>2 DEF IInv, TypeOK
  <2>3. bound' \in [Browsers -> SUBSET AllProfiles]
    BY <1>1, <1>2 DEF IInv, TypeOK
  <2>4. QED
    BY <1>2, <2>1, <2>2, <2>3 DEF IInv, TypeOK
<1>7. IdsLeft'
  <2>1. Pending' \subseteq Pending
    BY <1>2, <1>4 DEF Pending
  <2>2. QED
    BY <1>2, <2>1, FewerPending DEF IInv, TypeOK
<1>8. Working'
  BY <1>2, <1>3, <1>4, AttemptsPositive DEF IInv, Working
<1>9. Owned' /\ OwnSecrets'
  BY <1>2 DEF IInv, Owned, OwnSecrets, Own
<1>10. Bound'
  <2>1. ReadyMeansBound'
    BY <1>2, <1>5 DEF IInv, Bound, ReadyMeansBound
  <2>2. \A u \in Threads : DirectoryReady(sess[u]) \/ probe[u].ldap => who[u] \in Browsers
    BY EmptyTyped DEF IInv, Working
  <2>3. \A u \in Threads : DirectoryReady(sess'[u]) => sess'[u].tested \in bound'[who'[u]]
    BY <1>2, <1>5, <2>2 DEF IInv, Bound
  <2>4. ASSUME NEW u \in Threads, probe'[u].ldap
        PROVE  step'[u] \in {"conclude", "respond"} /\ form'[u].profile \in bound'[who'[u]]
    <3>1. CASE u = t
      BY <1>2, <1>4, <1>5, <2>4, <3>1
    <3>2. CASE u # t
      BY <1>2, <1>4, <1>5, <2>2, <2>4, <3>2 DEF IInv, Bound
    <3>3. QED
      BY <3>1, <3>2
  <2>5. QED
    BY <2>1, <2>3, <2>4 DEF Bound
<1>11. QED
  BY <1>6, <1>7, <1>8, <1>9, <1>10 DEF IInv

LEMMA ConnectKeeps ==
  ASSUME IInv, NEW t \in Threads, Connect(t)
  PROVE  IInv'
<1>1. /\ step[t] = "connect" /\ step' = [step EXCEPT ![t] = "respond"]
      /\ UNCHANGED <<cookie, vault, ids, op, who, sess, form, probe, history>>
  BY DEF Connect
<1>2. \A u \in Threads : step'[u] = IF u = t THEN "respond" ELSE step[u]
  BY <1>1 DEF IInv, TypeOK
<1>3. TypeOK'
  BY <1>1 DEF IInv, TypeOK, Steps
<1>4. IdsLeft'
  <2>1. Pending' \subseteq Pending
    BY <1>1, <1>2 DEF Pending
  <2>2. QED
    BY <1>1, <2>1, FewerPending DEF IInv, TypeOK
<1>5. Working'
  BY <1>1, <1>2 DEF IInv, Working
<1>6. Owned' /\ OwnSecrets' /\ Bound'
  BY <1>1, <1>2 DEF IInv, Owned, OwnSecrets, Own, Bound, ReadyMeansBound
<1>7. QED
  BY <1>3, <1>4, <1>5, <1>6 DEF IInv

\* Calls that end, with their response or without, leave nothing behind.
LEMMA AnswerKeeps ==
  ASSUME IInv, NEW t \in Threads, Respond(t) \/ LoseResponse(t)
  PROVE  IInv'
<1>1. /\ step[t] = "respond" /\ who[t] \in Browsers /\ sess[t] \in SessionRecord
      /\ Finish(t) /\ UNCHANGED <<vault, ids, requests, typed, saved, lost, owner, expired,
                                     bound>>
  BY DEF Respond, LoseResponse, IInv, TypeOK, Working
<1>2. \A b \in Browsers : cookie'[b] = cookie[b] \/ (b = who[t] /\ cookie'[b] = sess[t])
  BY <1>1 DEF Respond, LoseResponse, IInv, TypeOK
<1>3. \A u \in Threads :
        /\ u # t => /\ step'[u] = step[u] /\ sess'[u] = sess[u] /\ form'[u] = form[u]
                    /\ probe'[u] = probe[u] /\ who'[u] = who[u] /\ op'[u] = op[u]
        /\ u = t => /\ step'[u] = "idle" /\ sess'[u] = Empty /\ form'[u] = NoWork
                    /\ probe'[u] = NoProbe /\ who'[u] = NoBrowser
  BY <1>1 DEF Finish, IInv, TypeOK
<1>4. TypeOK'
  <2>1. cookie' \in [Browsers -> SessionRecord] /\ mixed' \in [Browsers -> BOOLEAN]
    BY <1>1 DEF Respond, LoseResponse, IInv, TypeOK
  <2>2. /\ sess' \in [Threads -> SessionRecord] /\ form' \in [Threads -> Work]
        /\ probe' \in [Threads -> [attempts : 0 .. MaxAttempts, ldap : BOOLEAN,
                                   hypervisor : BOOLEAN]]
    BY <1>1, EmptyTyped DEF Finish, IInv, TypeOK
  <2>3. /\ step' \in [Threads -> Steps] /\ op' \in [Threads -> Handlers]
        /\ who' \in [Threads -> Browsers \cup {NoBrowser}]
    BY <1>1 DEF Finish, IInv, TypeOK, Steps, Handlers
  <2>4. QED
    BY <1>1, <2>1, <2>2, <2>3 DEF IInv, TypeOK
<1>5. IdsLeft'
  <2>1. Pending' \subseteq Pending
    BY <1>3 DEF Pending
  <2>2. QED
    BY <1>1, <2>1, FewerPending DEF IInv, TypeOK
<1>6. Working'
  BY <1>3, EmptyTyped DEF IInv, Working
<1>7. Owned'
  BY <1>1, <1>2, <1>3, EmptyTyped DEF IInv, Owned
<1>8. OwnSecrets'
  BY <1>1, <1>2, <1>3, EmptyTyped DEF IInv, OwnSecrets, Own
<1>9. Bound'
  BY <1>1, <1>2, <1>3, EmptyTyped DEF IInv, Bound, ReadyMeansBound
<1>10. QED
  BY <1>4, <1>5, <1>6, <1>7, <1>8, <1>9 DEF IInv

LEMMA RestartKeeps ==
  ASSUME IInv, Restart
  PROVE  IInv'
<1>1. /\ \A u \in Threads : /\ step'[u] = "idle" /\ sess'[u] = Empty /\ form'[u] = NoWork
                            /\ probe'[u] = NoProbe
      /\ \A i \in 1 .. MaxIds : vault'[i] = Absent
      /\ UNCHANGED <<cookie, ids, requests, typed, saved, owner, bound>>
  BY DEF Restart
<1>2. TypeOK'
  <2>1. /\ sess' \in [Threads -> SessionRecord] /\ form' \in [Threads -> Work]
        /\ probe' \in [Threads -> [attempts : 0 .. MaxAttempts, ldap : BOOLEAN,
                                   hypervisor : BOOLEAN]]
    BY EmptyTyped DEF Restart
  <2>2. /\ step' \in [Threads -> Steps] /\ op' \in [Threads -> Handlers]
        /\ who' \in [Threads -> Browsers \cup {NoBrowser}]
        /\ vault' \in [1 .. MaxIds -> Secrets \cup {Absent}]
    BY DEF Restart, Steps, Handlers
  <2>3. lost' \in [Browsers -> BOOLEAN] /\ expired' \subseteq 1 .. MaxIds
    BY DEF Restart
  <2>4. mixed' \in [Browsers -> BOOLEAN]
    BY Zenon DEF Restart, IInv, TypeOK, Busy
  <2>5. QED
    BY <1>1, <2>1, <2>2, <2>3, <2>4 DEF IInv, TypeOK
<1>3. IdsLeft'
  <2>1. Pending' \subseteq Pending
    BY <1>1 DEF Pending
  <2>2. QED
    BY <1>1, <2>1, FewerPending DEF IInv, TypeOK
<1>4. Working'
  BY <1>1, EmptyTyped DEF Working
<1>5. Owned' /\ OwnSecrets'
  BY <1>1, EmptyTyped DEF IInv, Owned, OwnSecrets, Own
<1>6. Bound'
  BY <1>1, EmptyTyped DEF IInv, Bound, ReadyMeansBound
<1>7. QED
  BY <1>2, <1>3, <1>4, <1>5, <1>6 DEF IInv

\* A cookie that expires leaves a browser without a session.
LEMMA ExpireKeeps ==
  ASSUME IInv, NEW b \in Browsers, Expire(b)
  PROVE  IInv'
<1>1. /\ cookie' = [cookie EXCEPT ![b] = Empty]
      /\ UNCHANGED <<vault, ids, calls, requests, typed, owner, bound>>
  BY DEF Expire
<1>2. \A c \in Browsers : cookie'[c] = IF c = b THEN Empty ELSE cookie[c]
  BY <1>1 DEF IInv, TypeOK
<1>3. TypeOK'
  <2>1. cookie' \in [Browsers -> SessionRecord]
    BY <1>1, EmptyTyped DEF IInv, TypeOK
  <2>2. expired' \subseteq 1 .. MaxIds
    <3>1. cookie[b].id \in 0 .. MaxIds /\ expired \subseteq 1 .. MaxIds
      BY IdsOrdered DEF IInv, TypeOK
    <3>2. expired' = expired \cup ({cookie[b].id} \ {0})
      BY DEF Expire
    <3>3. {cookie[b].id} \ {0} \subseteq 1 .. MaxIds
      BY <3>1
    <3>4. QED
      BY <3>1, <3>2, <3>3
  <2>3. saved' \in [Browsers -> Work] /\ lost' \in [Browsers -> BOOLEAN]
    BY EmptyTyped DEF Expire, IInv, TypeOK
  <2>4. mixed' \in [Browsers -> BOOLEAN]
    BY Zenon DEF Expire, IInv, TypeOK, Busy
  <2>5. QED
    BY <1>1, <2>1, <2>2, <2>3, <2>4 DEF IInv, TypeOK
<1>4. IdsLeft'
  <2>1. Pending' \subseteq Pending
    BY <1>1 DEF Pending
  <2>2. QED
    BY <1>1, <2>1, FewerPending DEF IInv, TypeOK
<1>5. Working'
  BY <1>1 DEF IInv, Working
<1>6. Owned' /\ OwnSecrets'
  BY <1>1, <1>2, EmptyTyped DEF IInv, Owned, OwnSecrets, Own
<1>7. Bound'
  BY <1>1, <1>2, EmptyTyped DEF IInv, Bound, ReadyMeansBound
<1>8. QED
  BY <1>3, <1>4, <1>5, <1>6, <1>7 DEF IInv

LEMMA StepKeeps == ASSUME IInv, [Next]_vars PROVE IInv'
<1>1. CASE UNCHANGED vars
  <2>1. TypeOK'
    BY <1>1 DEF vars, IInv, TypeOK
  <2>2. Pending' = Pending
    BY <1>1 DEF vars, Pending
  <2>3. QED
    BY <1>1, <2>1, <2>2 DEF vars, IInv, IdsLeft, Working, Owned, OwnSecrets, Own, Bound,
                            ReadyMeansBound
<1>2. CASE Restart
  BY <1>2, RestartKeeps
<1>3. CASE \E t \in Threads :
             \E b \in Browsers, h \in Handlers, f \in Forms : Arrive(t, b, h, f)
  BY <1>3, ArriveKeeps
<1>4. CASE \E t \in Threads : Serve(t)
  BY <1>4, LoginKeeps, LogoutKeeps, DisconnectKeeps, LoadKeeps, SaveKeeps, HypervisorKeeps,
     BindKeeps, ConcludeKeeps, ConnectKeeps, AnswerKeeps DEF Serve
<1>5. CASE \E b \in Browsers : Expire(b)
  BY <1>5, ExpireKeeps
<1>6. QED
  BY <1>1, <1>2, <1>3, <1>4, <1>5 DEF Next

-----------------------------------------------------------------------------
(***************************************************************************)
(* Theorems                                                                *)
(***************************************************************************)

\* The types hold; no more attempts are made than configured, and no call asks for
\* a secret id beyond those counted for it.
THEOREM TypeCorrect == Spec => []TypeOK
<1>1. QED
  BY InitHolds, StepKeeps, PTL DEF Spec, IInv

\* Whatever order calls run and responses arrive in, the vault holds for a session only
\* what its own operator typed, or the password of the settings (ensure_secret_id, put).
THEOREM OwnSecretsOnly == Spec => []VaultHoldsOwnSecrets
<1>1. IInv => VaultHoldsOwnSecrets
  <2> SUFFICES ASSUME IInv PROVE VaultHoldsOwnSecrets
    OBVIOUS
  <2>1. QED
    BY DEF IInv, OwnSecrets, Own, VaultHoldsOwnSecrets
<1>2. QED
  BY InitHolds, StepKeeps, <1>1, PTL DEF Spec

\* The pages take the directory as usable only if a test of this browser bound with the
\* profile that was tested when the verdict was reached (compute_bridge_status,
\* build_checklist); the profile shown now may be one saved since.
THEOREM ReadyIsTested == Spec => []ReadyMeansBound
<1>1. IInv => ReadyMeansBound
  BY DEF IInv, Bound
<1>2. QED
  BY InitHolds, StepKeeps, <1>1, PTL DEF Spec

-----------------------------------------------------------------------------
(***************************************************************************)
(* Browsers that keep their requests apart.  The session such a browser    *)
(* holds, in its cookie or in the copy of its only call, agrees with what  *)
(* it saved last (Apart).                                                  *)
(***************************************************************************)

\* The password a session record leads to.
Kept(s) == IF s.legacy # Blank THEN s.legacy ELSE Get(s.id)

HasHost(p) == p # NoProfile /\ p.host

\* What is left of the pair that b saved last.
Left(b) == IF lost[b] THEN [saved[b] EXCEPT !.password = Blank] ELSE saved[b]

\* Session record s of browser b agrees with what b saved last.
Agrees(b, s) ==
  /\ s.auth <=> s.profile # NoProfile
  /\ ~ s.auth => s.id = 0 /\ s.legacy = Blank
  /\ s.id # 0 => s.legacy = Blank
  /\ \A i \in 1 .. MaxIds :
       vault[i] # Absent /\ owner[i] = b => s.id = i \/ i \in expired
  /\ IF HasHost(saved[b].profile) THEN s.profile = saved[b].profile
                                  ELSE HasHost(s.profile) => s.profile = SettingsProfile
  /\ Kept(s) = IF lost[b] THEN Blank ELSE saved[b].password
  /\ lost[b] => s.id # 0

\* A pair the browser b expects to be used.
IsExpected(b, f) == f \in Expected(Left(b))

\* What the call of t has prepared.
Prepared(t) ==
  /\ step[t] \in {"load", "save", "hypervisor", "bind", "conclude", "connect"} =>
       sess[t].auth
  /\ step[t] \in {"save", "hypervisor", "bind", "conclude", "connect"} =>
       sess[t].legacy = Blank
  /\ step[t] = "save" /\ form[t].password = Blank => Kept(sess[t]) = Blank
  /\ step[t] \in {"hypervisor", "bind", "conclude"} =>
       saved[who[t]] = form[t] /\ (lost[who[t]] => form[t].password = Blank)
  /\ step[t] = "bind" => form[t].profile.host
  /\ step[t] = "connect" => IsExpected(who[t], form[t])

\* A browser that keeps its requests apart has one call at most, and what the call,
\* or without one the cookie, holds agrees with what was saved last.
Apart ==
  \A b \in Browsers :
    ~ mixed[b] =>
      /\ \A t, u \in Threads :
           step[t] # "idle" /\ step[u] # "idle" /\ who[t] = b /\ who[u] = b => t = u
      /\ \A t \in Threads :
           step[t] # "idle" /\ who[t] = b => Agrees(b, sess[t]) /\ Prepared(t)
      /\ ~ Busy(b) => Agrees(b, cookie[b])

\* Every id that was given out has an owner.
Given == \A i \in 1 .. MaxIds : i <= ids => owner[i] \in Browsers

-----------------------------------------------------------------------------
(***************************************************************************)
(* What a call may change                                                  *)
(***************************************************************************)

LEMMA InitApart == Init => Apart /\ Given
<1> SUFFICES ASSUME Init PROVE Apart /\ Given
  OBVIOUS
<1>1. PICK legacy \in [Browsers -> {NoWork} \cup [profile : LegacyProfiles, password : Passwords]] :
        /\ cookie = [b \in Browsers |->
                       IF legacy[b] = NoWork THEN Empty
                       ELSE [Empty EXCEPT !.auth = TRUE,
                                          !.profile = legacy[b].profile,
                                          !.legacy = legacy[b].password]]
        /\ saved = legacy
  BY DEF Init
<1>2. /\ \A t \in Threads : step[t] = "idle"
      /\ \A i \in 1 .. MaxIds : vault[i] = Absent
      /\ ids = 0 /\ \A b \in Browsers : ~ lost[b]
  BY DEF Init
<1>3. ASSUME NEW b \in Browsers PROVE Agrees(b, cookie[b])
  <2>1. CASE legacy[b] = NoWork
    <3>1. cookie[b] = Empty /\ saved[b] = NoWork
      BY <1>1, <2>1
    <3>2. /\ ~ Empty.auth /\ Empty.id = 0 /\ Empty.profile = NoProfile /\ Empty.legacy = Blank
          /\ NoWork.profile = NoProfile /\ NoWork.password = Blank
      BY DEF Empty, NoWork
    <3>3. Kept(Empty) = Blank
      BY <3>2 DEF Kept, Get
    <3>4. QED
      BY <1>2, <3>1, <3>2, <3>3 DEF Agrees, HasHost
  <2>2. CASE legacy[b] # NoWork
    <3>1. legacy[b] \in [profile : LegacyProfiles, password : Passwords]
      BY <2>2
    <3>2. /\ cookie[b].auth /\ cookie[b].id = 0 /\ cookie[b].profile = legacy[b].profile
          /\ cookie[b].legacy = legacy[b].password
          /\ legacy[b].password # Blank /\ legacy[b].profile # NoProfile
          /\ saved[b] = legacy[b]
      BY <1>1, <2>2, <3>1 DEF Empty
    <3>3. QED
      BY <1>2, <3>2 DEF Agrees, Kept, HasHost
  <2>3. QED
    BY <2>1, <2>2
<1>4. Given
  BY <1>2 DEF Given
<1>5. QED
  BY <1>2, <1>3, <1>4 DEF Apart

\* The only call of a browser.
LEMMA OnlyCall ==
  ASSUME IInv, Apart, NEW t \in Threads, step[t] # "idle"
  PROVE  /\ who[t] \in Browsers
         /\ ~ mixed[who[t]] => /\ Agrees(who[t], sess[t]) /\ Prepared(t)
                               /\ \A u \in Threads \ {t} : step[u] = "idle" \/ who[u] # who[t]
BY DEF IInv, Working, Apart

LEMMA SameAgrees ==
  ASSUME NEW b, NEW s, NEW r, Agrees(b, s), UNCHANGED <<vault, owner, saved, lost, expired>>,
         r.auth = s.auth, r.id = s.id, r.profile = s.profile, r.legacy = s.legacy
  PROVE  Agrees(b, r)'
BY DEF Agrees, Kept, Get

\* What a call does for its browser does not concern another one.
LEMMA CallKeepsApart ==
  ASSUME IInv, Apart, NEW t \in Threads, step[t] # "idle", step'[t] # "idle",
         UNCHANGED <<cookie, who, mixed, expired>>,
         \A u \in Threads \ {t} :
           step'[u] = step[u] /\ sess'[u] = sess[u] /\ form'[u] = form[u],
         \A c \in Browsers \ {who[t]} : saved'[c] = saved[c] /\ lost'[c] = lost[c],
         \A i \in 1 .. MaxIds :
           i <= ids /\ owner[i] # who[t] => vault'[i] = vault[i] /\ owner'[i] = owner[i],
         \A i \in 1 .. MaxIds :
           vault'[i] # Absent /\ owner'[i] # who[t] => i <= ids /\ owner[i] # who[t],
         ~ mixed[who[t]] => Agrees(who[t], sess[t])' /\ Prepared(t)'
  PROVE  Apart'
<1> SUFFICES ASSUME NEW c \in Browsers, ~ mixed[c]
             PROVE  /\ \A u, v \in Threads :
                         step'[u] # "idle" /\ step'[v] # "idle" /\ who'[u] = c /\ who'[v] = c
                         => u = v
                    /\ \A u \in Threads :
                         step'[u] # "idle" /\ who'[u] = c =>
                           Agrees(c, sess[u])' /\ Prepared(u)'
                    /\ ~ Busy(c)' => Agrees(c, cookie[c])'
  BY DEF Apart
<1>1. \A u, v \in Threads :
        step'[u] # "idle" /\ step'[v] # "idle" /\ who'[u] = c /\ who'[v] = c => u = v
  BY DEF Apart
<1>2. CASE c = who[t]
  <2>1. Busy(c)'
    BY <1>2 DEF Busy
  <2>2. \A u \in Threads : step'[u] # "idle" /\ who'[u] = c => u = t
    BY <1>1, <1>2
  <2>3. QED
    BY <1>1, <1>2, <2>1, <2>2
<1>3. CASE c # who[t]
  <2>1. ASSUME NEW u \in Threads, step'[u] # "idle", who'[u] = c
        PROVE  Agrees(c, sess[u])' /\ Prepared(u)'
    <3>1. /\ u # t /\ step[u] # "idle" /\ who[u] = c /\ Agrees(c, sess[u]) /\ Prepared(u)
          /\ step'[u] = step[u] /\ sess'[u] = sess[u] /\ form'[u] = form[u]
      BY <1>3, <2>1 DEF Apart
    <3>2. /\ sess[u].id \in 0 .. MaxIds
          /\ sess[u].id # 0 => sess[u].id <= ids /\ owner[sess[u].id] = c
      BY <3>1, IdsOrdered DEF IInv, Owned
    <3> DEFINE s == sess[u]
    <3>3. Agrees(c, s) /\ s.id \in 0 .. MaxIds /\ (s.id # 0 => s.id <= ids /\ owner[s.id] = c)
      BY <3>1, <3>2
    <3>4. /\ vault'[s.id] = vault[s.id] \/ s.id = 0
          /\ \A i \in 1 .. MaxIds : vault'[i] # Absent /\ owner'[i] = c => s.id = i \/ i \in expired
      BY <1>3, <3>3 DEF Agrees
    <3>5. saved'[c] = saved[c] /\ lost'[c] = lost[c] /\ s' = s
      BY <1>3, <3>1
    <3> HIDE DEF s
    <3>6. Kept(s)' = Kept(s)
      BY <3>4, <3>5 DEF Kept, Get
    <3>7. Agrees(c, s)'
      BY <3>3, <3>4, <3>5, <3>6 DEF Agrees
    <3>8. Prepared(u)'
      BY <2>1, <3>1, <3>5, <3>6 DEF Prepared, IsExpected, Left, s
    <3>9. QED
      BY <3>7, <3>8 DEF s
  <2>2. ASSUME ~ Busy(c)' PROVE Agrees(c, cookie[c])'
    <3>1. Agrees(c, cookie[c])
      BY <1>3, <2>2 DEF Apart, Busy
    <3> DEFINE s == cookie[c]
    <3>2. s.id \in 0 .. MaxIds /\ (s.id # 0 => s.id <= ids /\ owner[s.id] = c)
      BY IdsOrdered DEF IInv, Owned
    <3>3. /\ vault'[s.id] = vault[s.id] \/ s.id = 0
          /\ \A i \in 1 .. MaxIds : vault'[i] # Absent /\ owner'[i] = c => s.id = i \/ i \in expired
      BY <1>3, <3>1, <3>2 DEF Agrees
    <3>4. saved'[c] = saved[c] /\ lost'[c] = lost[c] /\ s' = s
      BY <1>3
    <3> HIDE DEF s
    <3>5. Kept(s)' = Kept(s)
      BY <3>3, <3>4 DEF Kept, Get
    <3>6. Agrees(c, s)'
      BY <3>1, <3>3, <3>4, <3>5 DEF Agrees, s
    <3>7. QED
      BY <3>6 DEF s
  <2>3. QED
    BY <1>1, <2>1, <2>2
<1>4. QED
  BY <1>2, <1>3

-----------------------------------------------------------------------------
(***************************************************************************)
(* The handlers                                                            *)
(***************************************************************************)

\* A handler that leaves vault and ids alone.
LEMMA QuietCall ==
  ASSUME IInv, Apart, NEW t \in Threads, step[t] # "idle", step'[t] # "idle",
         UNCHANGED <<cookie, vault, ids, owner, saved, lost, who, mixed, expired>>,
         \A u \in Threads \ {t} :
           step'[u] = step[u] /\ sess'[u] = sess[u] /\ form'[u] = form[u],
         sess'[t].auth = sess[t].auth, sess'[t].id = sess[t].id,
         sess'[t].profile = sess[t].profile, sess'[t].legacy = sess[t].legacy,
         ~ mixed[who[t]] => Prepared(t)'
  PROVE  Apart'
<1>1. ~ mixed[who[t]] => Agrees(who[t], sess[t])'
  <2> SUFFICES ASSUME ~ mixed[who[t]] PROVE Agrees(who[t], sess[t])'
    OBVIOUS
  <2>1. Agrees(who[t], sess[t])
    BY OnlyCall
  <2>2. Kept(sess[t])' = Kept(sess[t])
    BY DEF Kept, Get
  <2>3. QED
    BY <2>1, <2>2 DEF Agrees
<1>2. \A i \in 1 .. MaxIds : vault'[i] # Absent => i <= ids
  <2>1. ids \in Nat
    BY IdsOrdered
  <2>2. QED
    BY <2>1 DEF IInv, Owned
<1>3. QED
  BY <1>1, <1>2, CallKeepsApart

LEMMA DisconnectApart ==
  ASSUME IInv, Apart, NEW t \in Threads, Disconnect(t)
  PROVE  Apart'
<1>1. step[t] = "act" /\ sess[t] \in SessionRecord
  BY DEF Disconnect, IInv, TypeOK
<1>2. /\ UNCHANGED <<cookie, vault, ids, owner, saved, lost, who, mixed, expired, form>>
      /\ step' = [step EXCEPT ![t] = "respond"]
      /\ sess' = [sess EXCEPT ![t] = [@ EXCEPT !.ldap = "none", !.bridge = "not_connected"]]
  BY <1>1 DEF Disconnect, IInv, TypeOK
<1>3. /\ step'[t] = "respond"
      /\ \A u \in Threads \ {t} : step'[u] = step[u] /\ sess'[u] = sess[u]
  BY <1>2 DEF IInv, TypeOK
<1>4. sess'[t] = [sess[t] EXCEPT !.ldap = "none", !.bridge = "not_connected"]
  BY <1>2 DEF IInv, TypeOK
<1>5. /\ sess'[t].auth = sess[t].auth /\ sess'[t].id = sess[t].id
      /\ sess'[t].profile = sess[t].profile /\ sess'[t].legacy = sess[t].legacy
  BY <1>1, <1>4 DEF SessionRecord
<1>6. Prepared(t)'
  BY <1>3 DEF Prepared
<1>7. QED
  BY <1>1, <1>2, <1>3, <1>5, <1>6, QuietCall

LEMMA TestApart ==
  ASSUME IInv, Apart, NEW t \in Threads, Hypervisor(t) \/ Bind(t)
  PROVE  Apart'
<1>1. /\ step[t] \in {"hypervisor", "bind"}
      /\ UNCHANGED <<cookie, vault, ids, owner, saved, lost, who, mixed, expired, form, sess>>
  BY DEF Hypervisor, Bind
<1>2. \E s \in {"bind", "conclude"} :
        /\ step' = [step EXCEPT ![t] = s]
        /\ s = "bind" => step[t] = "bind" \/ form[t].profile.host
  <2>1. CASE Hypervisor(t)
    BY <2>1 DEF Hypervisor
  <2>2. CASE Bind(t)
    BY <2>2 DEF Bind
  <2>3. QED
    BY <2>1, <2>2
<1>3. /\ step'[t] \in {"bind", "conclude"}
      /\ step'[t] = "bind" => step[t] = "bind" \/ form[t].profile.host
      /\ \A u \in Threads \ {t} : step'[u] = step[u]
  BY <1>2 DEF IInv, TypeOK
<1>4. ~ mixed[who[t]] => Prepared(t)'
  BY <1>1, <1>3, OnlyCall DEF Prepared
<1>5. QED
  BY <1>1, <1>3, <1>4, QuietCall

LEMMA ConnectApart ==
  ASSUME IInv, Apart, NEW t \in Threads, Connect(t)
  PROVE  Apart'
<1>1. /\ step[t] = "connect" /\ step' = [step EXCEPT ![t] = "respond"]
      /\ UNCHANGED <<cookie, vault, ids, owner, saved, lost, who, mixed, expired, form, sess>>
  BY DEF Connect
<1>2. step'[t] = "respond" /\ \A u \in Threads \ {t} : step'[u] = step[u]
  BY <1>1 DEF IInv, TypeOK
<1>3. Prepared(t)'
  BY <1>2 DEF Prepared
<1>4. QED
  BY <1>1, <1>2, <1>3, QuietCall

\* The entry a call puts is its own, and no other changes.
LEMMA PutByCall ==
  ASSUME IInv, NEW t \in Threads, TakeId(t), step[t] # "idle",
         step[t] \in {"act", "load"} \/ sess[t].id # 0, NEW p \in Secrets,
         NEW n, n = WithId(sess[t]).id,
         vault' = vault \/ vault' = Put(vault, n, p)
  PROVE  /\ n \in 1 .. MaxIds /\ owner'[n] = who[t]
         /\ sess[t].id # 0 => n = sess[t].id
         /\ sess[t].id = 0 => vault[n] = Absent
         /\ \A i \in 1 .. MaxIds :
              i <= ids /\ owner[i] # who[t] => vault'[i] = vault[i] /\ owner'[i] = owner[i]
         /\ \A i \in 1 .. MaxIds :
              vault'[i] # Absent /\ owner'[i] # who[t] => i <= ids /\ owner[i] # who[t]
         /\ (\A i \in 1 .. MaxIds :
               vault[i] # Absent /\ owner[i] = who[t] => sess[t].id = i \/ i \in expired) =>
              \A i \in 1 .. MaxIds :
                vault'[i] # Absent /\ owner'[i] = who[t] => n = i \/ i \in expired
<1>1. /\ n \in 1 .. MaxIds /\ ids \in Nat /\ owner'[n] = who[t]
      /\ \A i \in 1 .. MaxIds : i <= ids \/ i # n => owner'[i] = owner[i]
      /\ n <= ids => owner[n] = who[t]
  BY IdTaken, IdsOrdered
<1>2. /\ sess[t].id # 0 => n = sess[t].id
      /\ sess[t].id = 0 => n = ids + 1
  <2>1. sess[t] \in SessionRecord
    BY DEF IInv, TypeOK
  <2>2. CASE sess[t].id = 0
    BY <2>1, <2>2 DEF WithId, Fresh, SessionRecord
  <2>3. CASE sess[t].id # 0
    BY <2>3 DEF WithId
  <2>4. QED
    BY <2>2, <2>3
<1>3. \A i \in 1 .. MaxIds : vault[i] # Absent => i <= ids
  BY <1>1 DEF IInv, Owned
<1>4. sess[t].id = 0 => vault[n] = Absent
  BY <1>1, <1>2, <1>3
<1>5. \A i \in 1 .. MaxIds : i # n => vault'[i] = vault[i]
  BY DEF Put, IInv, TypeOK
<1>6. \A i \in 1 .. MaxIds :
        i <= ids /\ owner[i] # who[t] => vault'[i] = vault[i] /\ owner'[i] = owner[i]
  BY <1>1, <1>5
<1>7. \A i \in 1 .. MaxIds :
        vault'[i] # Absent /\ owner'[i] # who[t] => i <= ids /\ owner[i] # who[t]
  BY <1>1, <1>3, <1>5
<1>8. ASSUME \A i \in 1 .. MaxIds :
               vault[i] # Absent /\ owner[i] = who[t] => sess[t].id = i \/ i \in expired,
             NEW i \in 1 .. MaxIds, vault'[i] # Absent, owner'[i] = who[t], n # i,
             i \notin expired
      PROVE  FALSE
  <2>1. vault[i] # Absent /\ owner[i] = who[t]
    BY <1>1, <1>3, <1>5, <1>8
  <2>2. sess[t].id = i /\ i # 0
    BY <1>8, <2>1
  <2>3. QED
    BY <1>2, <1>8, <2>2
<1>9. QED
  BY <1>1, <1>2, <1>4, <1>6, <1>7, <1>8

LEMMA LogoutApart ==
  ASSUME IInv, Apart, NEW t \in Threads, Logout(t)
  PROVE  Apart'
<1>1. /\ step[t] = "act" /\ sess[t].id \in 0 .. MaxIds /\ who[t] \in Browsers
      /\ sess' = [sess EXCEPT ![t] = Empty]
      /\ step' = [step EXCEPT ![t] = "respond"]
      /\ saved' = [saved EXCEPT ![who[t]] = NoWork]
      /\ lost' = [lost EXCEPT ![who[t]] = FALSE]
      /\ UNCHANGED <<cookie, ids, owner, who, mixed, expired, form>>
  BY IdsOrdered DEF Logout, IInv, Working
<1>2. /\ step'[t] = "respond" /\ sess'[t] = Empty /\ saved'[who[t]] = NoWork /\ ~ lost'[who[t]]
      /\ \A u \in Threads \ {t} : step'[u] = step[u] /\ sess'[u] = sess[u]
      /\ \A c \in Browsers \ {who[t]} : saved'[c] = saved[c] /\ lost'[c] = lost[c]
  BY <1>1 DEF IInv, TypeOK
<1>3. /\ \A i \in 1 .. MaxIds : vault'[i] = IF i = sess[t].id THEN Absent ELSE vault[i]
      /\ \A i \in 1 .. MaxIds : vault[i] # Absent => i <= ids
      /\ sess[t].id # 0 => owner[sess[t].id] = who[t]
  <2>1. \A i \in 1 .. MaxIds : vault'[i] = IF i = sess[t].id THEN Absent ELSE vault[i]
    BY DEF Logout, IInv, TypeOK
  <2>2. \A i \in 1 .. MaxIds : vault[i] # Absent => i <= ids
    BY IdsOrdered DEF IInv, Owned
  <2>3. sess[t].id # 0 => owner[sess[t].id] = who[t]
    BY DEF IInv, Owned
  <2>4. QED
    BY <2>1, <2>2, <2>3
<1>4. ~ mixed[who[t]] => Agrees(who[t], sess[t])' /\ Prepared(t)'
  <2> SUFFICES ASSUME ~ mixed[who[t]] PROVE Agrees(who[t], sess[t])' /\ Prepared(t)'
    OBVIOUS
  <2>1. \A i \in 1 .. MaxIds :
          vault[i] # Absent /\ owner[i] = who[t] => sess[t].id = i \/ i \in expired
    BY <1>1, OnlyCall DEF Agrees
  <2>2. \A i \in 1 .. MaxIds : vault'[i] # Absent /\ owner'[i] = who'[t] => i \in expired'
    BY <1>1, <1>3, <2>1
  <2>3. /\ ~ Empty.auth /\ Empty.id = 0 /\ Empty.profile = NoProfile /\ Empty.legacy = Blank
        /\ NoWork.profile = NoProfile /\ NoWork.password = Blank
    BY DEF Empty, NoWork
  <2>4. Kept(sess[t])' = Blank
    BY <1>2, <2>3 DEF Kept, Get
  <2>5. Agrees(who[t], sess[t])'
    BY <1>1, <1>2, <2>2, <2>3, <2>4 DEF Agrees, HasHost
  <2>6. Prepared(t)'
    BY <1>2 DEF Prepared
  <2>7. QED
    BY <2>5, <2>6
<1>5. /\ \A i \in 1 .. MaxIds :
           i <= ids /\ owner[i] # who[t] => vault'[i] = vault[i] /\ owner'[i] = owner[i]
      /\ \A i \in 1 .. MaxIds :
           vault'[i] # Absent /\ owner'[i] # who[t] => i <= ids /\ owner[i] # who[t]
  BY <1>1, <1>3
<1>6. /\ step'[t] # "idle" /\ step[t] # "idle" /\ UNCHANGED <<cookie, who, mixed, expired>>
      /\ \A u \in Threads \ {t} :
           step'[u] = step[u] /\ sess'[u] = sess[u] /\ form'[u] = form[u]
  BY <1>1, <1>2
<1>7. QED
  BY <1>2, <1>4, <1>5, <1>6, CallKeepsApart

LEMMA LoginApart ==
  ASSUME IInv, Apart, NEW t \in Threads, Login(t)
  PROVE  Apart'
<1> DEFINE in == [sess[t] EXCEPT !.auth = TRUE, !.bridge = "not_connected"]
           b == who[t]
<1>1. step[t] = "act" /\ sess[t] \in SessionRecord /\ b \in Browsers
  BY DEF Login, IInv, TypeOK, Working
<1>2. /\ in \in SessionRecord /\ in.auth /\ in.id = sess[t].id
      /\ in.legacy = sess[t].legacy /\ in.profile = sess[t].profile
  BY <1>1 DEF SessionRecord, Statuses
<1>3. /\ step'[t] = "respond" /\ \A u \in Threads \ {t} : step'[u] = step[u]
      /\ UNCHANGED <<cookie, who, form, mixed, expired>>
  BY DEF Login, IInv, TypeOK
<1>4. Prepared(t)'
  BY <1>3 DEF Prepared
<1>5. CASE in.profile # NoProfile
  <2>1. sess' = [sess EXCEPT ![t] = in] /\ UNCHANGED <<vault, ids, owner, saved, lost>>
    BY <1>5 DEF Login
  <2>2. sess'[t] = in /\ \A u \in Threads \ {t} : sess'[u] = sess[u]
    BY <2>1 DEF IInv, TypeOK
  <2> HIDE DEF in
  <2>3. ~ mixed[b] => Agrees(b, sess[t])'
    <3> SUFFICES ASSUME ~ mixed[b] PROVE Agrees(b, sess[t])'
      OBVIOUS
    <3>1. Agrees(b, sess[t])
      BY <1>1, OnlyCall
    <3>2. Kept(sess[t])' = Kept(sess[t])
      BY <1>2, <2>1, <2>2 DEF Kept, Get
    <3>3. QED
      BY <1>2, <1>3, <1>5, <2>1, <2>2, <3>1, <3>2 DEF Agrees
  <2>4. \A i \in 1 .. MaxIds : vault'[i] # Absent => i <= ids
    BY <2>1, IdsOrdered DEF IInv, Owned
  <2>5. QED
    BY <1>1, <1>3, <1>4, <2>1, <2>2, <2>3, <2>4, CallKeepsApart
<1>6. CASE in.profile = NoProfile
  <2> DEFINE n == WithId(sess[t]).id
             out == [in EXCEPT !.id = n, !.profile = SettingsProfile]
  <2>1. WithId(in).id = n
    BY <1>1, <1>2 DEF WithId, SessionRecord
  <2>2. /\ TakeId(t) /\ vault' = Put(vault, n, SettingsPassword)
        /\ sess' = [sess EXCEPT ![t] = out]
        /\ saved' = [saved EXCEPT ![b] = [profile |-> SettingsProfile,
                                         password |-> SettingsPassword]]
        /\ lost' = [lost EXCEPT ![b] = FALSE]
    BY <1>6, <2>1 DEF Login
  <2>3. SettingsPassword \in Secrets
    BY DEF Secrets
  <2>4. /\ n \in 1 .. MaxIds /\ owner'[n] = b
        /\ sess[t].id = 0 => vault[n] = Absent
        /\ \A i \in 1 .. MaxIds :
             i <= ids /\ owner[i] # b => vault'[i] = vault[i] /\ owner'[i] = owner[i]
        /\ \A i \in 1 .. MaxIds :
             vault'[i] # Absent /\ owner'[i] # b => i <= ids /\ owner[i] # b
        /\ (\A i \in 1 .. MaxIds :
              vault[i] # Absent /\ owner[i] = b => sess[t].id = i \/ i \in expired) =>
             \A i \in 1 .. MaxIds :
               vault'[i] # Absent /\ owner'[i] = b => n = i \/ i \in expired
    BY <1>1, <2>2, <2>3, PutByCall
  <2>5. out.auth /\ out.id = n /\ out.profile = SettingsProfile /\ out.legacy = sess[t].legacy
    BY <1>1, <1>2 DEF SessionRecord
  <2> HIDE DEF in, n, out
  <2>6. /\ sess'[t] = out /\ \A u \in Threads \ {t} : sess'[u] = sess[u]
        /\ saved'[b].profile = SettingsProfile /\ saved'[b].password = SettingsPassword
        /\ ~ lost'[b]
        /\ \A c \in Browsers \ {b} : saved'[c] = saved[c] /\ lost'[c] = lost[c]
    BY <1>1, <2>2 DEF IInv, TypeOK
  <2>7. ~ mixed[b] => Agrees(b, sess[t])'
    <3> SUFFICES ASSUME ~ mixed[b] PROVE Agrees(b, sess[t])'
      OBVIOUS
    <3>1. Agrees(b, sess[t])
      BY <1>1, OnlyCall
    <3>2. sess[t].id = 0 /\ sess[t].legacy = Blank
      BY <1>2, <1>6, <3>1 DEF Agrees
    <3>3. vault'[n] = SettingsPassword
      BY <2>2, <2>4, <3>2 DEF Put, IInv, TypeOK
    <3>4. Kept(sess[t])' = SettingsPassword
      BY <2>3, <2>4, <2>5, <2>6, <3>2, <3>3 DEF Kept, Get, Secrets
    <3>5. SettingsProfile # NoProfile
      OBVIOUS
    <3>6. /\ sess'[t].auth /\ sess'[t].profile = SettingsProfile /\ sess'[t].id = n
          /\ sess'[t].legacy = Blank /\ n # 0
      BY <2>4, <2>5, <2>6, <3>2
    <3>7. \A i \in 1 .. MaxIds : vault'[i] # Absent /\ owner'[i] = b => n = i \/ i \in expired
      BY <2>4, <3>1 DEF Agrees
    <3>8. b' = b /\ expired' = expired
      BY <1>3
    <3> HIDE DEF b
    <3>9. QED
      BY <2>6, <3>4, <3>5, <3>6, <3>7, <3>8 DEF Agrees, HasHost
  <2>8. QED
    BY <1>1, <1>3, <1>4, <2>4, <2>6, <2>7, CallKeepsApart
<1>7. QED
  BY <1>5, <1>6

\* save_session_profile leads to the password that is now the saved one, also if it is
\* blank and put changes nothing.
LEMMA SavedAgrees ==
  ASSUME IInv, Apart, NEW t \in Threads, SaveProfile(t), step[t] \in {"save", "conclude"},
         UNCHANGED <<cookie, ids, who, form, owner, mixed, expired>>, step'[t] # "idle",
         \A u \in Threads \ {t} : step'[u] = step[u] /\ sess'[u] = sess[u],
         sess'[t].auth = sess[t].auth, sess'[t].id = sess[t].id,
         sess'[t].legacy = sess[t].legacy, sess'[t].profile = form[t].profile,
         ~ mixed[who[t]] /\ saved'[who[t]] = form[t]
           /\ (lost'[who[t]] => form[t].password = Blank) => Prepared(t)'
  PROVE  Apart'
<1> DEFINE b == who[t]
           i == sess[t].id
           f == form[t]
<1>1. /\ i # 0 /\ f \in Work /\ f.profile \in AllProfiles /\ f.profile # NoProfile
      /\ f.password \in Secrets /\ b \in Browsers
  BY DEF IInv, Working, TypeOK, Work, AllProfiles
<1>2. TakeId(t) /\ WithId(sess[t]) = sess[t]
  BY <1>1 DEF TakeId, WithId
<1>3. /\ vault' = Put(vault, i, f.password) /\ i = WithId(sess[t]).id
      /\ saved' = [saved EXCEPT ![b] = f] /\ lost' = [lost EXCEPT ![b] = @ /\ f.password = Blank]
  BY <1>2 DEF SaveProfile
<1>4. /\ i \in 1 .. MaxIds
      /\ \A j \in 1 .. MaxIds :
           j <= ids /\ owner[j] # b => vault'[j] = vault[j] /\ owner'[j] = owner[j]
      /\ \A j \in 1 .. MaxIds :
           vault'[j] # Absent /\ owner'[j] # b => j <= ids /\ owner[j] # b
      /\ (\A j \in 1 .. MaxIds :
            vault[j] # Absent /\ owner[j] = b => sess[t].id = j \/ j \in expired) =>
           \A j \in 1 .. MaxIds :
             vault'[j] # Absent /\ owner'[j] = b => i = j \/ j \in expired
  BY <1>1, <1>2, <1>3, PutByCall
<1>5. /\ saved'[b] = f /\ (lost'[b] => f.password = Blank)
      /\ \A c \in Browsers \ {b} : saved'[c] = saved[c] /\ lost'[c] = lost[c]
  BY <1>1, <1>3 DEF IInv, TypeOK
<1>6. ~ mixed[b] => Agrees(b, sess[t])'
  <2> SUFFICES ASSUME ~ mixed[b] PROVE Agrees(b, sess[t])'
    OBVIOUS
  <2>1. Agrees(b, sess[t]) /\ Prepared(t)
    BY OnlyCall
  <2>2. sess[t].auth /\ sess[t].legacy = Blank
    BY <2>1 DEF Prepared
  <2>3. f.password = Blank => Kept(sess[t]) = Blank
    BY <2>1 DEF Prepared, Agrees
  <2>4. Kept(sess[t]) = IF vault[i] = Absent THEN Blank ELSE vault[i]
    BY <1>1, <2>2 DEF Kept, Get
  <2>5. vault'[i] = IF f.password # Blank THEN f.password
                    ELSE IF vault[i] = Absent THEN Blank ELSE vault[i]
    BY <1>3, <1>4 DEF Put, IInv, TypeOK
  <2>6. vault'[i] = f.password
    BY <2>3, <2>4, <2>5
  <2> HIDE DEF i, f
  <2>7. Kept(sess[t])' = f.password
    <3>1. f.password # Absent
      BY <1>1 DEF Secrets
    <3>2. QED
      BY <1>1, <2>2, <2>6, <3>1 DEF Kept, Get, i
  <2>8. /\ sess'[t].auth /\ sess'[t].profile = f.profile /\ sess'[t].id = i
    BY <2>2 DEF f, i
  <2>9. QED
    BY <1>1, <1>4, <1>5, <2>1, <2>7, <2>8 DEF Agrees
<1>7. QED
  BY <1>1, <1>4, <1>5, <1>6, CallKeepsApart

LEMMA SaveApart ==
  ASSUME IInv, Apart, NEW t \in Threads, Save(t) \/ Conclude(t)
  PROVE  Apart'
<1>1. /\ step[t] \in {"save", "conclude"} /\ sess[t] \in SessionRecord /\ SaveProfile(t)
      /\ UNCHANGED <<cookie, ids, who, form, owner, mixed, expired>>
  BY DEF Save, Conclude, IInv, TypeOK
<1>2. \E x \in {"respond", "hypervisor"} : step' = [step EXCEPT ![t] = x]
  BY DEF Save, Conclude
<1>3. PICK r : /\ sess' = [sess EXCEPT ![t] = r]
               /\ r.auth = sess[t].auth /\ r.id = sess[t].id
               /\ r.legacy = sess[t].legacy /\ r.profile = form[t].profile
  <2> DEFINE p == form[t].profile
             x == [sess[t] EXCEPT !.profile = p]
             y == [sess[t] EXCEPT !.profile = p, !.tested = p,
                                  !.ldap = LdapStatus(p, probe[t]),
                                  !.bridge = BridgeStatus(p, probe[t])]
  <2>1. sess' = [sess EXCEPT ![t] = x] \/ sess' = [sess EXCEPT ![t] = y]
    BY <1>1 DEF Save, Conclude, SessionRecord, IInv, TypeOK
  <2>2. /\ x.auth = sess[t].auth /\ x.id = sess[t].id
        /\ x.legacy = sess[t].legacy /\ x.profile = p
    BY <1>1 DEF SessionRecord
  <2>3. /\ y.auth = sess[t].auth /\ y.id = sess[t].id
        /\ y.legacy = sess[t].legacy /\ y.profile = p
    BY <1>1 DEF SessionRecord
  <2> HIDE DEF x, y
  <2>4. QED
    BY <2>1, <2>2, <2>3
<1>4. /\ step'[t] \in {"respond", "hypervisor"} /\ sess'[t] = r
      /\ \A u \in Threads \ {t} : step'[u] = step[u] /\ sess'[u] = sess[u]
  BY <1>2, <1>3 DEF IInv, TypeOK
<1>5. ASSUME ~ mixed[who[t]], saved'[who[t]] = form[t],
             lost'[who[t]] => form[t].password = Blank
      PROVE  Prepared(t)'
  <2>1. sess[t].auth /\ sess[t].legacy = Blank
    BY <1>1, <1>5, OnlyCall DEF Prepared
  <2>2. QED
    BY <1>1, <1>3, <1>4, <1>5, <2>1 DEF Prepared
<1>6. QED
  BY <1>1, <1>3, <1>4, <1>5, SavedAgrees

\* What load_session_profile returns for a session that agrees with what was saved last.
LEMMA LoadedExpected ==
  ASSUME NEW b, NEW s, Agrees(b, s)
  PROVE  /\ IsExpected(b, Loaded(s, Kept(s)))
         /\ Loaded(s, Kept(s)).password = Blank => Kept(s) = Blank
         /\ HasHost(s.profile) => Loaded(s, Kept(s)).profile = s.profile
         /\ ~ HasHost(s.profile) => Loaded(s, Kept(s)).profile = SettingsProfile
<1> DEFINE k == Kept(s)
           w == Left(b)
<1>1. Configured(s) <=> HasHost(s.profile)
  BY DEF Configured, HasHost
<1>2. k = w.password /\ w.profile = saved[b].profile
  BY DEF Agrees, Left
<1>3. /\ HasHost(w.profile) => s.profile = w.profile
      /\ ~ HasHost(w.profile) => (HasHost(s.profile) => s.profile = SettingsProfile)
  BY <1>2 DEF Agrees
<1> HIDE DEF k, w
<1>4. Loaded(s, k) =
        IF HasHost(s.profile) THEN [profile |-> s.profile, password |-> k]
        ELSE [profile |-> SettingsProfile,
              password |-> IF SettingsPassword # Blank THEN SettingsPassword ELSE k]
  BY <1>1 DEF Loaded
<1>5. Loaded(s, k) \in Expected(w)
  <2>1. CASE HasHost(w.profile)
    BY <1>2, <1>3, <1>4, <2>1 DEF Expected, HasHost
  <2>2. CASE ~ HasHost(w.profile)
    <3>1. PICK q : /\ Loaded(s, k) = [profile |-> SettingsProfile, password |-> q]
                   /\ q = k \/ (SettingsPassword # Blank /\ q = SettingsPassword)
      <4>1. CASE HasHost(s.profile)
        <5>1. s.profile = SettingsProfile
          BY <1>3, <2>2, <4>1
        <5>2. Loaded(s, k) = [profile |-> SettingsProfile, password |-> k]
          BY <1>4, <4>1, <5>1
        <5>3. QED
          BY <5>2
      <4>2. CASE ~ HasHost(s.profile)
        <5>1. CASE SettingsPassword = Blank
          BY <1>4, <4>2, <5>1
        <5>2. CASE SettingsPassword # Blank
          BY <1>4, <4>2, <5>2
        <5>3. QED
          BY <5>1, <5>2
      <4>3. QED
        BY <4>1, <4>2
    <3>2. Expected(w) = [profile : {SettingsProfile},
                         password : IF SettingsPassword = Blank THEN {k}
                                    ELSE {SettingsPassword, k}]
      BY <1>2, <2>2 DEF Expected, HasHost
    <3>3. q \in IF SettingsPassword = Blank THEN {k} ELSE {SettingsPassword, k}
      BY <3>1
    <3>4. QED
      BY <3>1, <3>2, <3>3
  <2>3. QED
    BY <2>1, <2>2
<1>6. QED
  BY <1>4, <1>5 DEF IsExpected, k, w

LEMMA LoadApart ==
  ASSUME IInv, Apart, NEW t \in Threads, Load(t)
  PROVE  Apart'
<1> DEFINE s == sess[t]
           b == who[t]
           n == WithId(s).id
           stored == Loaded(s, Kept(s))
           out == IF s.legacy = Blank THEN WithId(s)
                  ELSE [WithId(s) EXCEPT !.legacy = Blank, !.profile = stored.profile]
           f == IF op[t] \in {"save", "test"} THEN Merged(form[t], stored) ELSE stored
<1>1. step[t] = "load" /\ s \in SessionRecord /\ b \in Browsers /\ s.legacy \in Secrets
  BY DEF Load, IInv, TypeOK, Working, SessionRecord
<1>2. Kept(s) = IF s.legacy = Blank THEN Get(s.id) ELSE s.legacy
  BY DEF Kept
<1>3. /\ TakeId(t) /\ vault' = IF s.legacy = Blank THEN vault ELSE Put(vault, n, s.legacy)
      /\ sess' = [sess EXCEPT ![t] = out] /\ form' = [form EXCEPT ![t] = f]
      /\ UNCHANGED <<cookie, who, saved, lost, mixed, expired>>
  BY <1>2 DEF Load
<1>4. \E x \in {"save", "load", "connect", "respond"} :
        /\ step' = [step EXCEPT ![t] = x]
        /\ x = "save" => op[t] \in {"save", "test"}
        /\ x = "connect" => op[t] = "use"
  BY DEF Load
<1>5. /\ n \in 1 .. MaxIds /\ owner'[n] = b
      /\ s.id # 0 => n = s.id
      /\ s.id = 0 => vault[n] = Absent
      /\ \A i \in 1 .. MaxIds :
           i <= ids /\ owner[i] # b => vault'[i] = vault[i] /\ owner'[i] = owner[i]
      /\ \A i \in 1 .. MaxIds :
           vault'[i] # Absent /\ owner'[i] # b => i <= ids /\ owner[i] # b
      /\ (\A i \in 1 .. MaxIds :
            vault[i] # Absent /\ owner[i] = b => s.id = i \/ i \in expired) =>
           \A i \in 1 .. MaxIds :
             vault'[i] # Absent /\ owner'[i] = b => n = i \/ i \in expired
  BY <1>1, <1>3, PutByCall
<1>6. WithId(s) \in SessionRecord /\ WithId(s).legacy = s.legacy /\ WithId(s).profile = s.profile
      /\ WithId(s).auth = s.auth
  <2>1. /\ WithId(s) \in SessionRecord /\ WithId(s).legacy = s.legacy
        /\ WithId(s).profile = s.profile
    BY <1>1, <1>3, IdTaken
  <2>2. WithId(s).auth = s.auth
    BY <1>1 DEF WithId, SessionRecord
  <2>3. QED
    BY <2>1, <2>2
<1>7. /\ out.auth = s.auth /\ out.id = n /\ out.legacy = Blank
      /\ out.profile = IF s.legacy = Blank THEN s.profile ELSE stored.profile
  BY <1>6 DEF SessionRecord
<1> HIDE DEF out, n
<1>8. /\ step'[t] \in {"save", "load", "connect", "respond"}
      /\ step'[t] = "save" => op[t] \in {"save", "test"}
      /\ step'[t] = "connect" => op[t] = "use"
      /\ sess'[t] = out /\ form'[t] = f
      /\ \A u \in Threads \ {t} :
           step'[u] = step[u] /\ sess'[u] = sess[u] /\ form'[u] = form[u]
  BY <1>3, <1>4 DEF IInv, TypeOK
<1>9. ASSUME ~ mixed[b] PROVE Agrees(b, sess[t])' /\ Prepared(t)'
  <2>1. Agrees(b, s) /\ s.auth /\ s.profile # NoProfile
    BY <1>1, <1>9, OnlyCall DEF Prepared, Agrees
  <2>2. /\ IsExpected(b, stored)
        /\ stored.password = Blank => Kept(s) = Blank
        /\ HasHost(s.profile) => stored.profile = s.profile
        /\ ~ HasHost(s.profile) => stored.profile = SettingsProfile
    BY <2>1, LoadedExpected
  <2> HIDE DEF stored
  <2>3. Kept(sess[t])' = Kept(s)
    <3>1. Kept(sess[t])' = IF vault'[n] = Absent THEN Blank ELSE vault'[n]
      BY <1>5, <1>7, <1>8 DEF Kept, Get
    <3>2. CASE s.legacy = Blank
      BY <1>3, <1>5, <3>1, <3>2 DEF Kept, Get
    <3>3. CASE s.legacy # Blank
      <4>1. vault'[n] = s.legacy /\ s.legacy # Absent
        BY <1>1, <1>3, <1>5, <3>3 DEF Put, IInv, TypeOK, Secrets
      <4>2. QED
        BY <3>1, <3>3, <4>1 DEF Kept
    <3>4. QED
      BY <3>2, <3>3
  <2>4. /\ out.profile # NoProfile
        /\ IF HasHost(saved[b].profile) THEN out.profile = saved[b].profile
                                        ELSE HasHost(out.profile) => out.profile = SettingsProfile
    BY <1>7, <2>1, <2>2 DEF Agrees
  <2>5. Agrees(b, sess[t])'
    <3>1. /\ sess'[t].auth /\ sess'[t].profile = out.profile /\ sess'[t].id = n
          /\ sess'[t].legacy = Blank
          /\ saved' = saved /\ lost' = lost /\ expired' = expired /\ b' = b
      BY <1>3, <1>7, <1>8, <2>1
    <3>2. \A i \in 1 .. MaxIds : vault'[i] # Absent /\ owner'[i] = b' =>
            sess'[t].id = i \/ i \in expired'
      BY <1>5, <2>1, <3>1 DEF Agrees
    <3>3. Kept(sess[t])' = IF lost'[b'] THEN Blank ELSE saved'[b'].password
      BY <2>1, <2>3, <3>1 DEF Agrees
    <3>4. /\ sess'[t].profile # NoProfile
          /\ IF HasHost(saved'[b'].profile)
             THEN sess'[t].profile = saved'[b'].profile
             ELSE HasHost(sess'[t].profile) => sess'[t].profile = SettingsProfile
      BY <2>4, <3>1
    <3>5. n # 0
      BY <1>5
    <3>6. QED
      BY <3>1, <3>2, <3>3, <3>4, <3>5 DEF Agrees, HasHost
  <2>6. step'[t] = "save" /\ form'[t].password = Blank => Kept(sess[t])' = Blank
    <3>1. step'[t] = "save" /\ form'[t].password = Blank => stored.password = Blank
      <4>1. form[t] \in Work
        BY DEF IInv, TypeOK
      <4>2. Merged(form[t], stored).password = Blank => stored.password = Blank
        BY <4>1 DEF Merged, Work
      <4>3. QED
        BY <1>8, <4>2
    <3>2. QED
      BY <2>2, <2>3, <3>1
  <2>7. step'[t] = "connect" => IsExpected(who[t], form[t])'
    BY <1>3, <1>8, <2>2 DEF IsExpected, Left
  <2>8. QED
    BY <1>7, <1>8, <2>1, <2>5, <2>6, <2>7 DEF Prepared
<1>10. QED
  BY <1>1, <1>3, <1>5, <1>8, <1>9, CallKeepsApart

-----------------------------------------------------------------------------
(***************************************************************************)
(* Requests and responses                                                  *)
(***************************************************************************)

LEMMA ArriveApart ==
  ASSUME IInv, Apart, NEW t \in Threads, NEW b \in Browsers, NEW h \in Handlers, NEW f \in Forms,
         Arrive(t, b, h, f)
  PROVE  Apart'
<1>1. /\ step[t] = "idle" /\ UNCHANGED <<cookie, vault, ids, saved, lost, owner, expired>>
      /\ \A c \in Browsers : ~ mixed'[c] => ~ mixed[c]
      /\ ~ mixed'[b] => ~ Busy(b)
  BY DEF Arrive, IInv, TypeOK
<1>2. /\ step'[t] \in {"act", "load"} /\ who'[t] = b /\ sess'[t] = cookie[b]
      /\ step'[t] = "load" => cookie[b].auth
      /\ \A u \in Threads \ {t} : /\ step'[u] = step[u] /\ who'[u] = who[u]
                                 /\ sess'[u] = sess[u] /\ form'[u] = form[u]
  BY DEF Arrive, IInv, TypeOK
<1>3. ASSUME NEW c \in Browsers, ~ mixed'[c]
      PROVE  /\ \A u, v \in Threads :
                   step'[u] # "idle" /\ step'[v] # "idle" /\ who'[u] = c /\ who'[v] = c => u = v
             /\ \A u \in Threads :
                   step'[u] # "idle" /\ who'[u] = c => Agrees(c, sess[u])' /\ Prepared(u)'
             /\ ~ Busy(c)' => Agrees(c, cookie[c])'
  <2>1. CASE c = b
    <3>1. /\ Agrees(b, cookie[b]) /\ \A u \in Threads : step[u] = "idle" \/ who[u] # b
      BY <1>1, <1>3, <2>1 DEF Apart, Busy
    <3>2. \A u \in Threads : step'[u] # "idle" /\ who'[u] = c => u = t
      BY <1>2, <2>1, <3>1
    <3>3. Busy(c)'
      BY <1>2, <2>1 DEF Busy
    <3>4. Kept(sess[t])' = Kept(cookie[b])
      BY <1>1, <1>2 DEF Kept, Get
    <3>5. Agrees(c, sess[t])'
      BY <1>1, <1>2, <2>1, <3>1, <3>4 DEF Agrees
    <3>6. Prepared(t)'
      BY <1>2 DEF Prepared
    <3>7. QED
      BY <3>2, <3>3, <3>5, <3>6
  <2>2. CASE c # b
    <3>1. /\ \A u \in Threads : step'[u] # "idle" /\ who'[u] = c => u # t
          /\ ~ mixed[c]
      BY <1>1, <1>2, <1>3, <2>2
    <3>2. \A u, v \in Threads :
            step'[u] # "idle" /\ step'[v] # "idle" /\ who'[u] = c /\ who'[v] = c => u = v
      BY <1>2, <3>1 DEF Apart
    <3>3. ASSUME NEW u \in Threads, step'[u] # "idle", who'[u] = c
          PROVE  Agrees(c, sess[u])' /\ Prepared(u)'
      <4>1. /\ Agrees(c, sess[u]) /\ Prepared(u) /\ step'[u] = step[u] /\ who'[u] = who[u]
            /\ sess'[u] = sess[u] /\ form'[u] = form[u]
        BY <1>2, <3>1, <3>3 DEF Apart
      <4>2. Kept(sess[u])' = Kept(sess[u])
        BY <1>1, <4>1 DEF Kept, Get
      <4>3. QED
        BY <1>1, <4>1, <4>2 DEF Agrees, Prepared, IsExpected, Left
    <3>4. ASSUME ~ Busy(c)' PROVE Agrees(c, cookie[c])'
      <4>1. ~ Busy(c)
        BY <1>1, <1>2, <3>4 DEF Busy
      <4>2. Agrees(c, cookie[c])
        BY <3>1, <4>1 DEF Apart
      <4>3. Kept(cookie[c])' = Kept(cookie[c])
        BY <1>1 DEF Kept, Get
      <4>4. QED
        BY <1>1, <4>2, <4>3 DEF Agrees
    <3>5. QED
      BY <3>2, <3>3, <3>4
  <2>3. QED
    BY <2>1, <2>2
<1>4. QED
  BY <1>3 DEF Apart

LEMMA AnswerApart ==
  ASSUME IInv, Apart, NEW t \in Threads, Respond(t) \/ LoseResponse(t)
  PROVE  Apart'
<1>1. /\ step[t] = "respond" /\ who[t] \in Browsers
      /\ Finish(t) /\ UNCHANGED <<vault, ids, saved, lost, owner, expired>>
  BY DEF Respond, LoseResponse, IInv, TypeOK, Working
<1>2. /\ \A c \in Browsers \ {who[t]} : cookie'[c] = cookie[c] /\ mixed'[c] = mixed[c]
      /\ ~ mixed'[who[t]] => ~ mixed[who[t]] /\ cookie'[who[t]] = sess[t]
  BY <1>1 DEF Respond, LoseResponse, IInv, TypeOK
<1>3. /\ step'[t] = "idle"
      /\ \A u \in Threads \ {t} : /\ step'[u] = step[u] /\ who'[u] = who[u]
                                 /\ sess'[u] = sess[u] /\ form'[u] = form[u]
  BY <1>1 DEF Finish, IInv, TypeOK
<1>4. ASSUME NEW c \in Browsers, ~ mixed'[c]
      PROVE  /\ \A u, v \in Threads :
                   step'[u] # "idle" /\ step'[v] # "idle" /\ who'[u] = c /\ who'[v] = c => u = v
             /\ \A u \in Threads :
                   step'[u] # "idle" /\ who'[u] = c => Agrees(c, sess[u])' /\ Prepared(u)'
             /\ ~ Busy(c)' => Agrees(c, cookie[c])'
  <2>1. ~ mixed[c]
    BY <1>2, <1>4
  <2>2. \A u, v \in Threads :
          step'[u] # "idle" /\ step'[v] # "idle" /\ who'[u] = c /\ who'[v] = c => u = v
    BY <1>3, <2>1 DEF Apart
  <2>3. ASSUME NEW u \in Threads, step'[u] # "idle", who'[u] = c
        PROVE  Agrees(c, sess[u])' /\ Prepared(u)'
    <3>1. /\ Agrees(c, sess[u]) /\ Prepared(u) /\ step'[u] = step[u] /\ who'[u] = who[u]
          /\ sess'[u] = sess[u] /\ form'[u] = form[u]
      BY <1>3, <2>1, <2>3 DEF Apart
    <3>2. Kept(sess[u])' = Kept(sess[u])
      BY <1>1, <3>1 DEF Kept, Get
    <3>3. QED
      BY <1>1, <3>1, <3>2 DEF Agrees, Prepared, IsExpected, Left
  <2>4. Agrees(c, cookie[c])' \/ Busy(c)'
    <3>1. CASE c = who[t]
      <4>1. Agrees(c, sess[t]) /\ cookie'[c] = sess[t]
        BY <1>1, <1>2, <1>4, <3>1, OnlyCall
      <4>2. Kept(cookie[c])' = Kept(sess[t])
        BY <1>1, <4>1 DEF Kept, Get
      <4>3. QED
        BY <1>1, <4>1, <4>2 DEF Agrees
    <3>2. CASE c # who[t] /\ ~ Busy(c)'
      <4>1. ~ Busy(c) /\ cookie'[c] = cookie[c]
        BY <1>2, <1>3, <3>2 DEF Busy
      <4>2. Agrees(c, cookie[c])
        BY <2>1, <4>1 DEF Apart
      <4>3. Kept(cookie[c])' = Kept(cookie[c])
        BY <1>1, <4>1 DEF Kept, Get
      <4>4. QED
        BY <1>1, <4>1, <4>2, <4>3 DEF Agrees
    <3>3. QED
      BY <3>1, <3>2
  <2>5. QED
    BY <2>2, <2>3, <2>4
<1>5. QED
  BY <1>4 DEF Apart

\* After a restart passwords of the vault are missing; legacy ones are not.
LEMMA RestartApart ==
  ASSUME IInv, Apart, Restart
  PROVE  Apart'
<1>1. /\ \A t \in Threads : step'[t] = "idle"
      /\ \A i \in 1 .. MaxIds : vault'[i] = Absent
      /\ \A c \in Browsers : /\ lost'[c] <=> cookie[c].id # 0
                             /\ ~ mixed'[c] => ~ mixed[c] /\ ~ Busy(c)
      /\ UNCHANGED <<cookie, saved, owner>>
  BY DEF Restart
<1>2. ASSUME NEW c \in Browsers, ~ mixed'[c] PROVE Agrees(c, cookie[c])'
  <2>1. Agrees(c, cookie[c]) /\ cookie[c].id \in 0 .. MaxIds
    BY <1>1, <1>2, IdsOrdered DEF Apart
  <2>2. Kept(cookie[c])' = cookie[c].legacy
    BY <1>1, <2>1 DEF Kept, Get
  <2>3. Kept(cookie[c])' = IF lost'[c] THEN Blank ELSE saved'[c].password
    <3>1. CASE cookie[c].id = 0
      BY <1>1, <2>1, <2>2, <3>1 DEF Agrees, Kept, Get
    <3>2. CASE cookie[c].id # 0
      BY <1>1, <2>1, <2>2, <3>2 DEF Agrees
    <3>3. QED
      BY <3>1, <3>2
  <2>4. QED
    BY <1>1, <2>1, <2>3 DEF Agrees
<1>3. QED
  BY <1>1, <1>2 DEF Apart

\* An expired session has saved nothing; its entry counts as expired.
LEMMA ExpireApart ==
  ASSUME IInv, Apart, NEW b \in Browsers, Expire(b)
  PROVE  Apart'
<1>1. /\ UNCHANGED <<vault, owner, step, who, sess, form>>
      /\ expired' = expired \cup ({cookie[b].id} \ {0})
      /\ cookie'[b] = Empty /\ saved'[b] = NoWork /\ ~ lost'[b]
      /\ \A c \in Browsers \ {b} : /\ cookie'[c] = cookie[c] /\ mixed'[c] = mixed[c]
                                   /\ saved'[c] = saved[c] /\ lost'[c] = lost[c]
  BY DEF Expire, IInv, TypeOK
<1>2. ~ mixed'[b] => ~ mixed[b] /\ ~ Busy(b)
  BY DEF Expire, IInv, TypeOK
<1>3. \A c : Busy(c)' <=> Busy(c)
  BY <1>1 DEF Busy
<1>4. \A s : Kept(s)' = Kept(s)
  <2>1. TAKE s
  <2>2. QED
    BY <1>1 DEF Kept, Get
<1>5. ~ mixed'[b] => ~ Busy(b) /\ Agrees(b, cookie[b])'
  <2> SUFFICES ASSUME ~ mixed'[b] PROVE Agrees(b, cookie[b])'
    BY <1>2
  <2>1. Agrees(b, cookie[b])
    BY <1>2 DEF Apart
  <2>2. \A i \in 1 .. MaxIds : vault'[i] # Absent /\ owner'[i] = b => i \in expired'
    BY <1>1, <2>1 DEF Agrees
  <2>3. /\ ~ Empty.auth /\ Empty.id = 0 /\ Empty.profile = NoProfile /\ Empty.legacy = Blank
        /\ NoWork.profile = NoProfile /\ NoWork.password = Blank
    BY DEF Empty, NoWork
  <2>4. Kept(cookie[b])' = Blank
    BY <1>1, <2>3 DEF Kept, Get
  <2>5. QED
    BY <1>1, <2>2, <2>3, <2>4 DEF Agrees, HasHost
<1>6. ASSUME NEW c \in Browsers, ~ mixed'[c]
      PROVE  /\ \A u, v \in Threads :
                   step'[u] # "idle" /\ step'[v] # "idle" /\ who'[u] = c /\ who'[v] = c => u = v
             /\ \A u \in Threads :
                   step'[u] # "idle" /\ who'[u] = c => Agrees(c, sess[u])' /\ Prepared(u)'
             /\ ~ Busy(c)' => Agrees(c, cookie[c])'
  <2>1. CASE c = b
    <3>1. \A u \in Threads : ~ (step'[u] # "idle" /\ who'[u] = c)
      BY <1>1, <1>5, <1>6, <2>1 DEF Busy
    <3>2. QED
      BY <1>5, <1>6, <2>1, <3>1
  <2>2. CASE c # b
    <3>1. ~ mixed[c] /\ saved'[c] = saved[c] /\ lost'[c] = lost[c] /\ cookie'[c] = cookie[c]
      BY <1>1, <1>6, <2>2
    <3>2. \A u, v \in Threads :
            step'[u] # "idle" /\ step'[v] # "idle" /\ who'[u] = c /\ who'[v] = c => u = v
      BY <1>1, <3>1 DEF Apart
    <3>3. ASSUME NEW u \in Threads, step'[u] # "idle", who'[u] = c
          PROVE  Agrees(c, sess[u])' /\ Prepared(u)'
      <4>1. Agrees(c, sess[u]) /\ Prepared(u) /\ who[u] = c /\ sess'[u] = sess[u]
        BY <1>1, <3>1, <3>3 DEF Apart
      <4>2. Agrees(c, sess[u])'
        BY <1>1, <1>4, <2>2, <3>1, <4>1 DEF Agrees
      <4>3. Prepared(u)'
        BY <1>1, <1>4, <3>1, <4>1 DEF Prepared, IsExpected, Left
      <4>4. QED
        BY <4>2, <4>3
    <3>4. ASSUME ~ Busy(c)' PROVE Agrees(c, cookie[c])'
      <4>1. Agrees(c, cookie[c])
        BY <1>3, <3>1, <3>4 DEF Apart
      <4>2. QED
        BY <1>1, <1>4, <2>2, <3>1, <4>1 DEF Agrees
    <3>5. QED
      BY <3>2, <3>3, <3>4
  <2>3. QED
    BY <2>1, <2>2
<1>7. QED
  BY <1>6 DEF Apart

LEMMA StepKeepsApart == ASSUME IInv, Apart, [Next]_vars PROVE Apart'
<1>1. CASE UNCHANGED vars
  <2>1. \A b : Busy(b)' <=> Busy(b)
    BY <1>1 DEF vars, Busy
  <2>2. QED
    BY <1>1, <2>1 DEF vars, Apart, Agrees, Prepared, IsExpected, Left, Kept, Get
<1>2. CASE Restart
  BY <1>2, RestartApart
<1>3. CASE \E t \in Threads :
             \E b \in Browsers, h \in Handlers, f \in Forms : Arrive(t, b, h, f)
  BY <1>3, ArriveApart
<1>4. CASE \E t \in Threads : Serve(t)
  BY <1>4, LoginApart, LogoutApart, DisconnectApart, LoadApart, SaveApart, TestApart,
     ConnectApart, AnswerApart DEF Serve
<1>5. CASE \E b \in Browsers : Expire(b)
  BY <1>5, ExpireApart
<1>6. QED
  BY <1>1, <1>2, <1>3, <1>4, <1>5 DEF Next

LEMMA StepKeepsGiven == ASSUME IInv, Given, [Next]_vars PROVE Given'
<1>1. CASE ids' = ids /\ owner' = owner
  BY <1>1 DEF Given
<1>2. CASE \E t \in Threads : TakeId(t) /\ step[t] # "idle"
  <2>1. PICK t \in Threads : TakeId(t) /\ step[t] # "idle"
    BY <1>2
  <2>2. /\ who[t] \in Browsers /\ ids \in Nat
        /\ owner \in [1 .. MaxIds -> Browsers \cup {NoBrowser}]
    BY <2>1 DEF IInv, TypeOK, Working
  <2>3. CASE sess[t].id = 0
    BY <2>1, <2>2, <2>3 DEF TakeId, Fresh, Given
  <2>4. CASE sess[t].id # 0
    BY <2>1, <2>4 DEF TakeId, Given
  <2>5. QED
    BY <2>3, <2>4
<1>3. QED
  <2>1. ASSUME NEW t \in Threads, Serve(t)
        PROVE  (ids' = ids /\ owner' = owner) \/ (TakeId(t) /\ step[t] # "idle")
    BY <2>1 DEF Serve, Login, Logout, Disconnect, Load, Save, Hypervisor, Bind, Conclude,
                Connect, Respond, LoseResponse
  <2>2. QED
    BY <1>1, <1>2, <2>1 DEF Next, vars, Arrive, Restart, Expire

-----------------------------------------------------------------------------
(***************************************************************************)
(* Theorems                                                                *)
(***************************************************************************)

\* A logout ends the entry of the vault with the session, for a browser that keeps its
\* requests apart and gets their responses, however the calls of other browsers interleave:
\* only an entry whose cookie expired is left (clear_session_secrets, ensure_secret_id).
THEOREM LogoutEndsEntries == Spec => []LogoutTakesTheEntry
<1>1. IInv /\ Apart /\ Given => LogoutTakesTheEntry
  <2> SUFFICES ASSUME IInv, Apart, Given,
                      NEW i \in 1 .. MaxIds, vault[i] # Absent, ~ mixed[owner[i]],
                      i \notin expired
               PROVE  \/ cookie[owner[i]].id = i
                      \/ \E t \in Threads : step[t] # "idle" /\ sess[t].id = i
    BY DEF LogoutTakesTheEntry
  <2>1. owner[i] \in Browsers
    BY IdsOrdered DEF IInv, Owned, Given
  <2>2. CASE Busy(owner[i])
    BY <2>1, <2>2 DEF Busy, Apart, Agrees
  <2>3. CASE ~ Busy(owner[i])
    BY <2>1, <2>3 DEF Apart, Agrees
  <2>4. QED
    BY <2>2, <2>3
<1>2. IInv /\ Apart /\ Given /\ [Next]_vars => IInv' /\ Apart' /\ Given'
  BY StepKeeps, StepKeepsApart, StepKeepsGiven
<1>3. QED
  BY InitHolds, InitApart, <1>1, <1>2, PTL DEF Spec

\* A browser that keeps its requests apart always works with the profile and the password
\* it saved last; after a restart, until it saves a password again, with the profile and a
\* blank password or that of the settings, never with another one
\* (load_session_profile, merge_secrets, save_session_profile).
THEOREM UseIsCoherent == Spec => []SequentialUseIsCoherent
<1>1. IInv /\ Apart => SequentialUseIsCoherent
  <2> SUFFICES ASSUME IInv, Apart, NEW t \in Threads, step[t] \in {"bind", "connect"},
                      ~ mixed[who[t]]
               PROVE  IsExpected(who[t], form[t])
    BY DEF SequentialUseIsCoherent, IsExpected, Left
  <2>1. Prepared(t)
    BY OnlyCall
  <2>2. CASE step[t] = "connect"
    BY <2>1, <2>2 DEF Prepared
  <2>3. CASE step[t] = "bind"
    <3>1. /\ saved[who[t]] = form[t] /\ form[t].profile.host /\ form[t] \in Work
          /\ form[t].profile \in AllProfiles
          /\ lost[who[t]] => form[t].password = Blank
      BY <2>1, <2>3 DEF Prepared, IInv, TypeOK, Working
    <3>2. form[t].profile # NoProfile
      BY <3>1 DEF AllProfiles
    <3>3. Left(who[t]) = form[t]
      BY <3>1 DEF Left, Work
    <3>4. form[t] \in Expected(form[t])
      BY <3>1, <3>2 DEF Expected, Work
    <3>5. QED
      BY <3>3, <3>4 DEF IsExpected
  <2>4. QED
    BY <2>2, <2>3
<1>2. IInv /\ Apart /\ [Next]_vars => IInv' /\ Apart'
  BY StepKeeps, StepKeepsApart
<1>3. QED
  BY InitHolds, InitApart, <1>1, <1>2, PTL DEF Spec
=============================================================================
