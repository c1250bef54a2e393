----------------------------- MODULE PolicyProofs -----------------------------
(***************************************************************************)
(* Theorems of Policy for every set of names, prefixes and units.  The     *)
(* inductive invariant says of the object in the directory how its names   *)
(* were made and that the gate let them pass; the properties follow from   *)
(* what the three rules for names do to them.                              *)
(***************************************************************************)
EXTENDS Policy, SequenceTheorems, TLAPS

\* The object was written by a deployment that passed the gate.
Written ==
  made # Nothing =>
    /\ made.with \in Naming /\ made.with.ou # NoUnit
    /\ \E n \in Names :
         /\ made.known = Stamped(made.with, n)
         /\ made.name = DirectoryName(made.with, n)
         /\ made.cn = EscapeCn(made.name)
         /\ made.with.require => Begins(made.known, PolicyPrefix(made.with))

\* The console runs with settings that passed the guards at startup.
Admitted == up => Starts(settings)

IInv == settings \in Settings /\ up \in BOOLEAN /\ Written /\ Admitted

USE TokenAssumption, UnitAssumption

-----------------------------------------------------------------------------
(***************************************************************************)
(* What the rules do to a name                                             *)
(***************************************************************************)

\* Cleaning changes nothing in a name without odd tokens, and no length.
LEMMA CleanedName ==
  ASSUME NEW n \in Seq(Tokens)
  PROVE  /\ Cleaned(n) \in Seq(Tokens) /\ Len(Cleaned(n)) = Len(n)
         /\ (\A i \in 1 .. Len(n) : n[i] \notin Odd) => Cleaned(n) = n
         /\ n # <<>> => Head(Cleaned(n)) = IF Head(n) \in Odd THEN Mangled ELSE Head(n)
<1>1. DOMAIN n = 1 .. Len(n) /\ Len(n) \in Nat
  OBVIOUS
<1>2. Cleaned(n) = [i \in 1 .. Len(n) |-> IF n[i] \in Odd THEN Mangled ELSE n[i]]
  BY <1>1 DEF Cleaned
<1>3. \A i \in 1 .. Len(n) : (IF n[i] \in Odd THEN Mangled ELSE n[i]) \in Tokens
  BY DEF Tokens
<1>4. Cleaned(n) \in Seq(Tokens) /\ Len(Cleaned(n)) = Len(n)
  BY <1>2, <1>3
<1>5. ASSUME \A i \in 1 .. Len(n) : n[i] \notin Odd PROVE Cleaned(n) = n
  <2>1. \A i \in 1 .. Len(n) : Cleaned(n)[i] = n[i]
    BY <1>2, <1>5
  <2>2. QED
    BY <1>4, <2>1
<1>6. n # <<>> => Head(Cleaned(n)) = IF Head(n) \in Odd THEN Mangled ELSE Head(n)
  BY <1>1, <1>2, <1>4
<1>7. QED
  BY <1>4, <1>5, <1>6

\* Escaping keeps the length of a name.
LEMMA EscapedName ==
  ASSUME NEW n \in Seq(Tokens)
  PROVE  EscapeCn(n) \in Seq(Tokens) /\ Len(EscapeCn(n)) = Len(n)
<1>1. DOMAIN n = 1 .. Len(n) /\ Len(n) \in Nat
  OBVIOUS
<1>2. EscapeCn(n) =
        [i \in 1 .. Len(n) |-> IF n[i] \in DOMAIN Escaped THEN Escaped[n[i]] ELSE n[i]]
  BY <1>1 DEF EscapeCn
<1>3. \A i \in 1 .. Len(n) :
        (IF n[i] \in DOMAIN Escaped THEN Escaped[n[i]] ELSE n[i]) \in Tokens
  BY DEF Tokens
<1>4. QED
  BY <1>1, <1>2, <1>3

LEMMA Pair == ASSUME NEW a, NEW b PROVE <<a>> \o <<b>> = <<a, b>>
<1>1. <<a>> \in Seq({a, b}) /\ <<b>> \in Seq({a, b}) /\ <<a, b>> \in Seq({a, b})
  OBVIOUS
<1>2. /\ <<a>> \o <<b>> \in Seq({a, b}) /\ Len(<<a>> \o <<b>>) = Len(<<a, b>>)
      /\ \A i \in 1 .. Len(<<a>> \o <<b>>) : (<<a>> \o <<b>>)[i] = <<a, b>>[i]
  BY <1>1
<1>3. QED
  BY <1>1, <1>2, SeqEqual

\* A prefixed name begins with the prefix, letters having no case.
LEMMA PrefixedName ==
  ASSUME NEW n \in Seq(Tokens), n # <<>>, NEW r \in BOOLEAN,
         NEW p \in Prefixes \cup {NoPrefix}
  PROVE  /\ EnsurePrefix(n, r, p) \in Seq(Tokens)
         /\ Len(EnsurePrefix(n, r, p)) \in {Len(n), Len(n) + 1}
         /\ r /\ p # NoPrefix => BeginsFolded(EnsurePrefix(n, r, p), p)
<1>1. Cleaned(n) \in Seq(Tokens) /\ Len(Cleaned(n)) = Len(n) /\ Len(n) \in Nat
  BY CleanedName
<1>2. CASE r /\ p # NoPrefix /\ ~ BeginsFolded(Cleaned(n), p)
  <2>1. EnsurePrefix(n, r, p) = <<p>> \o Cleaned(n)
    BY <1>2 DEF EnsurePrefix
  <2>2. p \in Tokens /\ <<p, p>> \in Folded
    BY <1>2 DEF Tokens
  <2>3. /\ <<p>> \o Cleaned(n) \in Seq(Tokens)
        /\ Len(<<p>> \o Cleaned(n)) = Len(n) + 1
        /\ Head(<<p>> \o Cleaned(n)) = p
    BY <1>1, <2>2
  <2>4. QED
    BY <1>1, <2>1, <2>2, <2>3 DEF BeginsFolded
<1>3. CASE ~ (r /\ p # NoPrefix /\ ~ BeginsFolded(Cleaned(n), p))
  BY <1>1, <1>3 DEF EnsurePrefix
<1>4. QED
  BY <1>2, <1>3

\* The two forms of a stamped name of the engine.
LEMMA StampedName ==
  ASSUME NEW n \in Names, NEW s, s.prefix \in Prefixes \cup {NoPrefix}
  PROVE  \/ Stamped(s, n) = <<n>> /\ (s.prefix # NoPrefix => <<n, s.prefix>> \in Folded)
         \/ Stamped(s, n) = <<s.prefix, n>> /\ s.prefix # NoPrefix
<1>1. <<n>> \in Seq(Tokens) /\ \A i \in 1 .. Len(<<n>>) : <<n>>[i] \notin Odd
  BY DEF Tokens
<1>2. Cleaned(<<n>>) = <<n>>
  BY <1>1, CleanedName
<1>3. Stamped(s, n) = IF s.prefix # NoPrefix /\ <<n, s.prefix>> \notin Folded
                      THEN <<s.prefix>> \o <<n>> ELSE <<n>>
  BY <1>2 DEF Stamped, EnsurePrefix, BeginsFolded
<1>4. <<s.prefix>> \o <<n>> = <<s.prefix, n>>
  BY Pair
<1>5. QED
  BY <1>3, <1>4

\* Types and lengths of the two names of an object.
LEMMA NameTypes ==
  ASSUME NEW n \in Names, NEW s, s.prefix \in Prefixes \cup {NoPrefix},
         s.require \in BOOLEAN
  PROVE  /\ Stamped(s, n) \in Seq(Tokens) /\ Len(Stamped(s, n)) \in 1 .. 2
         /\ DirectoryName(s, n) \in Seq(Tokens) /\ Len(DirectoryName(s, n)) \in 1 .. 3
         /\ s.require /\ s.prefix # NoPrefix =>
              BeginsFolded(DirectoryName(s, n), s.prefix)
<1>1. <<n>> \in Seq(Tokens) /\ <<n>> # <<>> /\ Len(<<n>>) = 1
  BY DEF Tokens
<1>2. Stamped(s, n) \in Seq(Tokens) /\ Len(Stamped(s, n)) \in 1 .. 2
  <2>1. /\ EnsurePrefix(<<n>>, TRUE, s.prefix) \in Seq(Tokens)
        /\ Len(EnsurePrefix(<<n>>, TRUE, s.prefix)) \in {Len(<<n>>), Len(<<n>>) + 1}
    BY <1>1, PrefixedName, Zenon
  <2>2. /\ Stamped(s, n) \in Seq(Tokens)
        /\ Len(Stamped(s, n)) \in {Len(<<n>>), Len(<<n>>) + 1}
    BY <2>1, Zenon DEF Stamped
  <2>3. QED
    BY <1>1, <2>2
<1>3. Stamped(s, n) # <<>>
  BY <1>2
<1>4. /\ DirectoryName(s, n) \in Seq(Tokens)
      /\ Len(DirectoryName(s, n)) \in {Len(Stamped(s, n)), Len(Stamped(s, n)) + 1}
      /\ s.require /\ s.prefix # NoPrefix =>
           BeginsFolded(DirectoryName(s, n), s.prefix)
  BY <1>2, <1>3, PrefixedName DEF DirectoryName
<1>5. Len(DirectoryName(s, n)) \in 1 .. 3
  <2>1. \A k, l \in Int : k \in 1 .. 2 /\ l \in {k, k + 1} => l \in 1 .. 3
    OBVIOUS
  <2>2. Len(Stamped(s, n)) \in Int /\ Len(DirectoryName(s, n)) \in Int
    BY <1>2, <1>4, LenProperties
  <2>3. QED
    BY <1>2, <1>4, <2>1, <2>2
<1>6. QED
  BY <1>2, <1>4, <1>5

\* Without an odd prefix the second pass over a name changes nothing.
LEMMA SecondPass ==
  ASSUME NEW n \in Names, NEW s, s.prefix \in Prefixes \cup {NoPrefix},
         s.prefix \notin Odd
  PROVE  DirectoryName(s, n) = Stamped(s, n)
<1>1. CASE /\ Stamped(s, n) = <<n>>
           /\ s.prefix # NoPrefix => <<n, s.prefix>> \in Folded
  <2>1. <<n>> \in Seq(Tokens) /\ \A i \in 1 .. Len(<<n>>) : <<n>>[i] \notin Odd
    BY DEF Tokens
  <2>2. Cleaned(<<n>>) = <<n>>
    BY <2>1, CleanedName
  <2>3. QED
    BY <1>1, <2>2 DEF DirectoryName, EnsurePrefix, BeginsFolded
<1>2. CASE Stamped(s, n) = <<s.prefix, n>> /\ s.prefix # NoPrefix
  <2>1. /\ <<s.prefix, n>> \in Seq(Tokens)
        /\ \A i \in 1 .. Len(<<s.prefix, n>>) : <<s.prefix, n>>[i] \notin Odd
    BY <1>2 DEF Tokens
  <2>2. Cleaned(<<s.prefix, n>>) = <<s.prefix, n>>
    BY <2>1, CleanedName
  <2>3. <<s.prefix, s.prefix>> \in Folded
    BY <1>2
  <2>4. QED
    BY <1>2, <2>2, <2>3 DEF DirectoryName, EnsurePrefix, BeginsFolded
<1>3. QED
  BY <1>1, <1>2, StampedName

-----------------------------------------------------------------------------
(***************************************************************************)
(* The invariant                                                           *)
(***************************************************************************)

LEMMA SettingsFields ==
  ASSUME NEW s \in Settings
  PROVE  /\ s.prefix \in Prefixes \cup {NoPrefix} /\ s.require \in BOOLEAN
         /\ s.ou \in Units \cup {NoUnit}
         /\ [ou |-> s.ou, require |-> s.require, prefix |-> s.prefix] \in Naming
BY DEF Settings, Naming, Values

\* One setting is edited at a time.
LEMMA EditType ==
  ASSUME settings \in Settings, NEW f \in DOMAIN Values, NEW v \in Values[f]
  PROVE  [settings EXCEPT ![f] = v] \in Settings
<1>1. f \in {"production", "enforce", "basics", "secret", "admin", "modes",
             "ldapHost", "ou", "provision", "require", "prefix"}
  BY DEF Values
<1>2. CASE f = "production"
  BY <1>2 DEF Settings, Values
<1>3. CASE f = "enforce"
  BY <1>3 DEF Settings, Values
<1>4. CASE f = "basics"
  BY <1>4 DEF Settings, Values
<1>5. CASE f = "secret"
  BY <1>5 DEF Settings, Values
<1>6. CASE f = "admin"
  BY <1>6 DEF Settings, Values
<1>7. CASE f = "modes"
  BY <1>7 DEF Settings, Values
<1>8. CASE f = "ldapHost"
  BY <1>8 DEF Settings, Values
<1>9. CASE f = "ou"
  BY <1>9 DEF Settings, Values
<1>10. CASE f = "provision"
  BY <1>10 DEF Settings, Values
<1>11. CASE f = "require"
  BY <1>11 DEF Settings, Values
<1>12. CASE f = "prefix"
  BY <1>12 DEF Settings, Values
<1>13. QED
  BY <1>1, <1>2, <1>3, <1>4, <1>5, <1>6, <1>7, <1>8, <1>9, <1>10, <1>11, <1>12

\* A deployment writes what the gate let pass.
LEMMA DeployWritten ==
  ASSUME settings \in Settings, NEW n \in Names, Deploy(n)
  PROVE  Written'
<1> DEFINE w == [ou |-> settings.ou, require |-> settings.require,
                 prefix |-> settings.prefix]
<1>1. w \in Naming /\ w.ou # NoUnit
  BY SettingsFields DEF Deploy
<1>2. /\ Stamped(w, n) = Stamped(settings, n)
      /\ DirectoryName(w, n) = DirectoryName(settings, n)
      /\ PolicyPrefix(w) = PolicyPrefix(settings)
  BY DEF Stamped, DirectoryName, PolicyPrefix
<1>3. w.require => Begins(Stamped(settings, n), PolicyPrefix(settings))
  BY DEF Deploy, Blocked, Fails
<1>4. /\ made'.with = w /\ made'.known = Stamped(settings, n)
      /\ made'.name = DirectoryName(settings, n)
      /\ made'.cn = EscapeCn(DirectoryName(settings, n))
  BY DEF Deploy
<1> HIDE DEF w
<1>5. QED
  BY <1>1, <1>2, <1>3, <1>4 DEF Written

LEMMA Inductive == Spec => []IInv
<1>1. Init => IInv
  BY DEF Init, IInv, Written, Admitted
<1>2. IInv /\ [Next]_vars => IInv'
  <2> SUFFICES ASSUME IInv, [Next]_vars PROVE IInv'
    OBVIOUS
  <2>1. CASE Start
    BY <2>1 DEF Start, IInv, Written, Admitted
  <2>2. CASE Edit
    <3>1. PICK f \in DOMAIN Values : \E v \in Values[f] : settings' = [settings EXCEPT ![f] = v]
      BY <2>2 DEF Edit
    <3>2. settings' \in Settings
      <4>1. PICK v \in Values[f] : settings' = [settings EXCEPT ![f] = v]
        BY <3>1
      <4>2. settings \in Settings
        BY DEF IInv
      <4>3. [settings EXCEPT ![f] = v] \in Settings
        BY <4>2, EditType
      <4>4. QED
        BY <4>1, <4>3
    <3>3. QED
      BY <2>2, <3>2 DEF Edit, IInv, Written, Admitted
  <2>3. ASSUME NEW n \in Names, Deploy(n) PROVE IInv'
    <3>1. Written'
      BY <2>3, DeployWritten DEF IInv
    <3>2. QED
      BY <2>3, <3>1 DEF Deploy, IInv, Admitted
  <2>4. CASE Teardown
    BY <2>4 DEF Teardown, IInv, Written, Admitted
  <2>5. CASE UNCHANGED vars
    BY <2>5 DEF vars, IInv, Written, Admitted
  <2>6. QED
    BY <2>1, <2>2, <2>3, <2>4, <2>5 DEF Next
<1>3. QED
  BY <1>1, <1>2, PTL DEF Spec

-----------------------------------------------------------------------------
(***************************************************************************)
(* The properties                                                          *)
(***************************************************************************)

LEMMA NamingFields ==
  ASSUME NEW w \in Naming
  PROVE  /\ w.prefix \in Prefixes \cup {NoPrefix} /\ w.require \in BOOLEAN
         /\ w.ou \in Units \cup {NoUnit}
BY DEF Naming, Values

\* Settings, state and names have their types; prefixes never pile up.
THEOREM TypeCorrect == Spec => []TypeOK
<1>1. ASSUME IInv, made # Nothing
      PROVE  /\ made.with \in Naming
             /\ made.name \in Seq(Tokens) /\ Len(made.name) \in 1 .. 3
             /\ made.known \in Seq(Tokens) /\ Len(made.known) \in 1 .. 2
             /\ made.cn \in Seq(Tokens) /\ Len(made.cn) = Len(made.name)
  <2>1. PICK n \in Names :
          /\ made.known = Stamped(made.with, n)
          /\ made.name = DirectoryName(made.with, n)
          /\ made.cn = EscapeCn(made.name)
    BY <1>1 DEF IInv, Written
  <2>2. made.with \in Naming
    BY <1>1 DEF IInv, Written
  <2>3. /\ made.name \in Seq(Tokens) /\ Len(made.name) \in 1 .. 3
        /\ made.known \in Seq(Tokens) /\ Len(made.known) \in 1 .. 2
    BY <2>1, <2>2, NameTypes, NamingFields
  <2>4. made.cn \in Seq(Tokens) /\ Len(made.cn) = Len(made.name)
    BY <2>1, <2>3, EscapedName
  <2>5. QED
    BY <2>2, <2>3, <2>4
<1>2. IInv => TypeOK
  BY <1>1 DEF IInv, TypeOK
<1>3. QED
  BY <1>2, Inductive, PTL

\* The guards at startup and the gate agree about the honey OU in production.
THEOREM ProductionUnit == Spec => []ProductionHasItsUnit
<1>1. IInv => ProductionHasItsUnit
  BY DEF IInv, Admitted, Starts, ProductionGaps, ProductionHasItsUnit, Fails
<1>2. QED
  BY <1>1, Inductive, PTL

\* What the stamp makes passes the gate, up to the two cases named.
THEOREM StampAndGate == Spec => []StampedNamesPass
<1>1. ASSUME IInv, NEW n \in Names, settings.prefix # NoPrefix,
             ~ Begins(Stamped(settings, n), settings.prefix)
      PROVE  <<n, settings.prefix>> \in Folded \ Exact
  <2>1. settings.prefix \in Prefixes
    BY <1>1, SettingsFields DEF IInv
  <2>2. CASE Stamped(settings, n) = <<settings.prefix, n>>
    BY <1>1, <2>1, <2>2 DEF Begins
  <2>3. CASE Stamped(settings, n) = <<n>> /\ <<n, settings.prefix>> \in Folded
    BY <1>1, <2>3 DEF Begins
  <2>4. QED
    BY <1>1, <2>1, <2>2, <2>3, StampedName
<1>2. IInv => StampedNamesPass
  BY <1>1 DEF StampedNamesPass, Fails, PolicyPrefix
<1>3. QED
  BY <1>2, Inductive, PTL

\* The directory entry has the name that the rest of the console knows.
THEOREM OneName == Spec => []DirectoryKnowsTheName
<1>1. IInv => DirectoryKnowsTheName
  BY SecondPass, NamingFields DEF IInv, Written, DirectoryKnowsTheName
<1>2. QED
  BY <1>1, Inductive, PTL

\* Whatever the settings, a live write that requires the prefix has it.
THEOREM WritesMarked == Spec => []LiveWritesAreMarked
<1>1. ASSUME IInv, made # Nothing, made.with.require
      PROVE  BeginsFolded(made.name, PolicyPrefix(made.with))
  <2>1. PICK n \in Names :
          /\ made.known = Stamped(made.with, n)
          /\ made.name = DirectoryName(made.with, n)
          /\ Begins(made.known, PolicyPrefix(made.with))
    BY <1>1 DEF IInv, Written
  <2>2. made.with \in Naming
    BY <1>1 DEF IInv, Written
  <2>3. CASE made.with.prefix = NoPrefix
    <3>1. DirectoryName(made.with, n) = Stamped(made.with, n)
      BY <2>2, <2>3, SecondPass, NamingFields
    <3>2. QED
      BY <2>1, <3>1 DEF Begins, BeginsFolded
  <2>4. CASE made.with.prefix # NoPrefix
    BY <1>1, <2>1, <2>2, <2>4, NameTypes, NamingFields DEF PolicyPrefix
  <2>5. QED
    BY <2>3, <2>4
<1>2. IInv => LiveWritesAreMarked
  BY <1>1 DEF LiveWritesAreMarked
<1>3. QED
  BY <1>2, Inductive, PTL

\* Under the settings it was written with an entry can be torn down, if its DN
\* has its name as it is.
THEOREM OwnTeardown == Spec => []RefusedOnlyAfterEdit
<1>1. ASSUME IInv, made # Nothing, settings.ou = made.with.ou,
             settings.prefix = made.with.prefix, made.cn = made.name,
             settings.require = made.with.require \/ settings.prefix \notin Odd
      PROVE  Safe(settings, made)
  <2>1. PICK n \in Names :
          /\ made.known = Stamped(made.with, n)
          /\ made.name = DirectoryName(made.with, n)
    BY <1>1 DEF IInv, Written
  <2>2. made.with \in Naming /\ made.with.ou # NoUnit
    BY <1>1 DEF IInv, Written
  <2>3. <<made.with.ou, settings.ou>> \in Under
    BY <1>1, <2>2, NamingFields
  <2>4. ASSUME settings.require, settings.prefix # NoPrefix
        PROVE  BeginsFolded(made.name, settings.prefix)
    <3>1. CASE made.with.require
      BY <1>1, <2>1, <2>2, <2>4, <3>1, NameTypes, NamingFields
    <3>2. CASE settings.prefix \notin Odd
      <4>1. made.name = Stamped(made.with, n)
        BY <1>1, <2>1, <2>2, <3>2, SecondPass, NamingFields
      <4>2. <<settings.prefix, settings.prefix>> \in Folded
        BY <1>1, <2>2, <2>4, NamingFields
      <4>3. CASE Stamped(made.with, n) = <<n>> /\ <<n, settings.prefix>> \in Folded
        BY <4>1, <4>3 DEF BeginsFolded
      <4>4. CASE Stamped(made.with, n) = <<settings.prefix, n>>
        BY <4>1, <4>2, <4>4 DEF BeginsFolded
      <4>5. QED
        BY <1>1, <2>2, <2>4, <4>3, <4>4, StampedName, NamingFields
    <3>3. QED
      BY <1>1, <2>4, <3>1, <3>2
  <2>5. QED
    BY <1>1, <2>3, <2>4 DEF Safe
<1>2. IInv => RefusedOnlyAfterEdit
  BY <1>1, Zenon DEF RefusedOnlyAfterEdit
<1>3. QED
  BY <1>2, Inductive, PTL
=============================================================================
