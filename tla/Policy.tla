--------------------------------- MODULE Policy ---------------------------------
(***************************************************************************)
(* The settings and what depends on them: the guards at startup            *)
(* (app/core/config), the policy gate before live writes to the directory  *)
(* (app/core/policy), the stamping of names and the provisioner's own      *)
(* prefix and OU rules (app/core/ad_provisioner, deception_service).       *)
(*                                                                         *)
(* Three pieces of code decide what a safe name is: stamp_provision_names, *)
(* the gate, and the provisioner, which also decides at teardown, perhaps  *)
(* after the console was restarted with other settings.                    *)
(*                                                                         *)
(* A name is a sequence of tokens: the prefixes put before it and the name *)
(* the deception engine chose.  One directory object is followed.          *)
(***************************************************************************)
EXTENDS Integers, Sequences, FiniteSets

CONSTANTS
  Prefixes,      \* values of AD_HONEY_NAME_PREFIX that are not empty
  NoPrefix,      \* the empty one
  DefaultPrefix, \* "hw_"
  Odd,           \* prefixes with a character that names lose when cleaned
  Mangled,       \* such a prefix, cleaned
  Escaped,       \* prefixes with a character that a DN escapes, and what
                 \* _is_safe_dn then reads of them: a function
  Names,         \* names of the deception engine
  Exact,         \* <<token, prefix>>: the token begins with the prefix
  Folded,        \* ... or would if letters had no case
  Modes,         \* values of CONSOLE_AUTH_MODE, as sets
  Units,         \* organizational units AD_HONEY_OU may name
  Under,         \* <<unit, unit>>: the first is the second or below it
  NoUnit,        \* AD_HONEY_OU is empty
  Nothing        \* there is no object

Tokens == Names \cup Prefixes \cup {Mangled} \cup {Escaped[p] : p \in DOMAIN Escaped}

ASSUME TokenAssumption ==
  /\ DefaultPrefix \in Prefixes \ Odd /\ Odd \subseteq Prefixes
  /\ NoPrefix \notin Prefixes
  /\ DOMAIN Escaped \subseteq Odd \* cleaning drops what a DN escapes
  /\ Names \cap Odd = {} \* the names of the engine lose nothing
  /\ Exact \subseteq Folded
  /\ Folded \subseteq Tokens \X Prefixes
  /\ \A p \in Odd : <<Mangled, p>> \notin Folded
  /\ \A p \in Prefixes : <<p, p>> \in Exact
ASSUME ModeAssumption == Modes \subseteq SUBSET {"env", "ldap"}
ASSUME UnitAssumption ==
  /\ NoUnit \notin Units
  /\ Under \subseteq Units \X Units /\ \A u \in Units : <<u, u>> \in Under

VARIABLES
  settings, \* the environment the console runs with
  up,       \* it passed the guards at startup
  made      \* the object in the directory: its name, the name in its DN, the
            \* name the graph, the monitoring and the history know, and the
            \* settings of the time

vars == <<settings, up, made>>

\* "basics" stands for the three independent checks of APP_DEBUG, the Neo4j
\* password and the ingest token.
Values ==
  [production |-> BOOLEAN, enforce |-> BOOLEAN, basics |-> BOOLEAN,
   secret |-> {"default", "short", "long"}, admin |-> {"default", "own"},
   modes |-> Modes, ldapHost |-> BOOLEAN,
   ou |-> Units \cup {NoUnit}, provision |-> BOOLEAN,
   require |-> BOOLEAN, prefix |-> Prefixes \cup {NoPrefix}]

Settings ==
  [production : Values.production, enforce : Values.enforce, basics : Values.basics,
   secret : Values.secret, admin : Values.admin, modes : Values.modes,
   ldapHost : Values.ldapHost, ou : Values.ou, provision : Values.provision,
   require : Values.require, prefix : Values.prefix]
Naming == [ou : Values.ou, require : Values.require, prefix : Values.prefix]

-----------------------------------------------------------------------------
(***************************************************************************)
(* Startup guards                                                          *)
(***************************************************************************)

\* enforce_startup_guards; the default secrets have 31 characters or fewer.
InsecureDefaults(s) ==
  s.enforce /\ (s.admin = "default" \/ s.secret = "default")

\* Mutant: the honey OU is not asked for.
BadProductionGaps(s) ==
  /\ s.production
  /\ \/ ~ s.basics
     \/ s.secret # "long"
     \/ s.admin = "default" /\ "env" \in s.modes
     \/ "ldap" \in s.modes /\ ~ s.ldapHost

\* enforce_production_guards
ProductionGaps(s) ==
  /\ s.production
  /\ \/ ~ s.basics
     \/ s.secret # "long"
     \/ s.admin = "default" /\ "env" \in s.modes
     \/ s.provision /\ s.ou = NoUnit
     \/ "ldap" \in s.modes /\ ~ s.ldapHost

Starts(s) == ~ InsecureDefaults(s) /\ ~ ProductionGaps(s)

-----------------------------------------------------------------------------
(***************************************************************************)
(* Names                                                                   *)
(***************************************************************************)

Begins(n, p) == <<Head(n), p>> \in Exact
BeginsFolded(n, p) == <<Head(n), p>> \in Folded

\* Characters that a common name may not have are dropped.
Cleaned(n) == [i \in DOMAIN n |-> IF n[i] \in Odd THEN Mangled ELSE n[i]]

\* Mutant: the prefix is put before every name.
BadEnsurePrefix(n, require, p) ==
  IF require /\ p # NoPrefix THEN <<p>> \o Cleaned(n) ELSE Cleaned(n)

\* _ensure_prefix
EnsurePrefix(n, require, p) ==
  IF require /\ p # NoPrefix /\ ~ BeginsFolded(Cleaned(n), p)
  THEN <<p>> \o Cleaned(n)
  ELSE Cleaned(n)

\* Mutant: names are stamped with the default prefix.
BadStamped(s, n) == EnsurePrefix(<<n>>, TRUE, DefaultPrefix)

\* stamp_provision_names: whether the settings require the prefix or not.
Stamped(s, n) == EnsurePrefix(<<n>>, TRUE, s.prefix)

\* provision_objects cleans and prefixes the stamped name once more.
DirectoryName(s, n) == EnsurePrefix(Stamped(s, n), s.require, s.prefix)

\* _escape_cn puts a backslash before the special characters of a DN; the DN
\* keeps the name in this form, and so do the deployment's records.
EscapeCn(n) ==
  [i \in DOMAIN n |-> IF n[i] \in DOMAIN Escaped THEN Escaped[n[i]] ELSE n[i]]

-----------------------------------------------------------------------------
(***************************************************************************)
(* Policy                                                                  *)
(***************************************************************************)

\* What evaluate takes as the prefix: an empty one is the default one.
PolicyPrefix(s) == IF s.prefix = NoPrefix THEN DefaultPrefix ELSE s.prefix

\* Mutant: names are not looked at.
BadFails(s, names, live) == IF s.ou = NoUnit /\ live THEN {"honey_ou"} ELSE {}

\* The checks of evaluate that fail for a plan with these names; the other
\* five checks only inform or warn.
Fails(s, names, live) ==
  (IF s.ou = NoUnit /\ live THEN {"honey_ou"} ELSE {})
  \cup (IF s.require /\ \E n \in names : ~ Begins(n, PolicyPrefix(s))
        THEN {"object_names"} ELSE {})

\* gate_provision blocks live writes only.
Blocked(s, names) == Fails(s, names, TRUE) # {}

\* Mutant: letters have a case at teardown.
BadSafe(s, o) ==
  /\ <<o.with.ou, s.ou>> \in Under
  /\ ~ s.require \/ s.prefix = NoPrefix \/ Begins(o.cn, s.prefix)

\* _is_safe_dn: the object is under the honey OU, and the name as the DN has it,
\* escaped, begins with the prefix, which is not.
Safe(s, o) ==
  /\ <<o.with.ou, s.ou>> \in Under
  /\ ~ s.require \/ s.prefix = NoPrefix \/ BeginsFolded(o.cn, s.prefix)

-----------------------------------------------------------------------------
(***************************************************************************)
(* The console                                                             *)
(***************************************************************************)

Init ==
  /\ settings \in Settings
  /\ up = FALSE
  /\ made = Nothing

Start ==
  /\ ~ up /\ Starts(settings)
  /\ up' = TRUE
  /\ UNCHANGED <<settings, made>>

\* The operator stops the console and edits a setting.
Edit ==
  /\ \E f \in DOMAIN Values :
       \E v \in Values[f] : settings' = [settings EXCEPT ![f] = v]
  /\ up' = FALSE
  /\ UNCHANGED made

\* A live deployment of a plan with name n, with the feature on, the gate
\* passed and a preflight that found the OU; the entry is created or updated.
Deploy(n) ==
  /\ up /\ made = Nothing
  /\ settings.provision
  /\ ~ Blocked(settings, {Stamped(settings, n)})
  /\ settings.ou # NoUnit
  /\ made' = [name |-> DirectoryName(settings, n),
              cn |-> EscapeCn(DirectoryName(settings, n)),
              known |-> Stamped(settings, n),
              with |-> [ou |-> settings.ou, require |-> settings.require,
                        prefix |-> settings.prefix]]
  /\ UNCHANGED <<settings, up>>

\* Teardown of the object, under the settings of the day.
Teardown ==
  /\ up /\ made # Nothing
  /\ settings.ou # NoUnit
  /\ Safe(settings, made)
  /\ made' = Nothing
  /\ UNCHANGED <<settings, up>>

Next == Start \/ Edit \/ (\E n \in Names : Deploy(n)) \/ Teardown

Spec == Init /\ [][Next]_vars

-----------------------------------------------------------------------------
(***************************************************************************)
(* Properties                                                              *)
(***************************************************************************)

\* Type invariant; a name gets two prefixes at most.
TypeOK ==
  /\ settings \in Settings /\ up \in BOOLEAN
  /\ made # Nothing =>
       /\ made.with \in Naming
       /\ made.name \in Seq(Tokens) /\ Len(made.name) \in 1 .. 3
       /\ made.cn \in Seq(Tokens) /\ Len(made.cn) = Len(made.name)
       /\ made.known \in Seq(Tokens) /\ Len(made.known) \in 1 .. 2

\* A production console that started with provisioning on is never blocked for
\* want of a honey OU (enforce_production_guards and evaluate agree).
ProductionHasItsUnit ==
  up /\ settings.production /\ settings.provision =>
    \A n \in Names : "honey_ou" \notin Fails(settings, {Stamped(settings, n)}, TRUE)

\* "Redeploy so names are stamped with ...": the names a deployment has stamped
\* pass the gate, but for an empty prefix (which the stamp takes as none and
\* the gate as the default), and for names that have the prefix in another case
\* (which the stamp leaves alone and the gate refuses).
StampedNamesPass ==
  \A n \in Names :
    "object_names" \in Fails(settings, {Stamped(settings, n)}, TRUE) =>
      \/ settings.prefix = NoPrefix
      \/ <<n, settings.prefix>> \in Folded \ Exact

\* The entry has the name by which graph, monitoring and history know it, so
\* that events about it are recognised, unless the prefix loses a character
\* when it is cleaned for a second time.
DirectoryKnowsTheName ==
  made # Nothing => made.name = made.known \/ made.with.prefix \in Odd

\* With AD_REQUIRE_NAME_PREFIX every entry of a live write is marked: by the
\* configured prefix, or with none configured by the default one ("AD writes
\* require ... a naming prefix").
LiveWritesAreMarked ==
  made # Nothing /\ made.with.require => BeginsFolded(made.name, PolicyPrefix(made.with))

\* Teardown refuses an entry of its own only after the settings were edited: the
\* OU or the prefix, or the requirement while the prefix is an odd one.  The
\* exception is a prefix that a DN escapes: the entry is then stored under a
\* name in which _is_safe_dn does not find the prefix, and is refused at once.
RefusedOnlyAfterEdit ==
  made # Nothing /\ ~ Safe(settings, made) =>
    \/ settings.ou # made.with.ou
    \/ settings.prefix # made.with.prefix
    \/ settings.require # made.with.require /\ settings.prefix \in Odd
    \/ made.cn # made.name
=============================================================================
