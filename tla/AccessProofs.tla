----------------------------- MODULE AccessProofs -----------------------------
(***************************************************************************)
(* Theorems of Access for every number of threads, every limit, window and *)
(* staleness of clocks, and every set of passwords:                        *)
(*   Inv1  types, and that only acceptable passwords are being written     *)
(*   Inv2  a reset that was reported stands in the file, or the file is    *)
(*         being written, or a write was cut short                         *)
(*   Inv3  a full bucket whose wait runs has its room when the wait ends   *)
(*   Inv4  the logins let through in a time, and those on their way past a *)
(*         full bucket, stay within what its entries of that time allow    *)
(***************************************************************************)
EXTENDS Access, FiniteSetTheorems, SequenceTheorems, WellFoundedInduction, TLAPS

Ages == 0 .. OldAge

Writing == \A t \in Threads : step[t] \in {"truncate", "write"} => pw[t] \in Passwords

Inv1 == TypeOK /\ Writing

Inv2 ==
  confirmed # Nobody /\ ~ cut =>
    file \in Passwords \/ \E t \in Threads : step[t] = "write"

\* While a wait runs, a bucket that is full and whose oldest entry still counts
\* has that entry leave the window within the wait.
Inv3 ==
  /\ promise >= -1
  /\ promise >= 0 /\ Len(bucket["login"]) = MaxAttempts
       /\ bucket["login"][1] <= Window
     => bucket["login"][1] + promise > Window

USE PasswordAssumption, LimitAssumption

-----------------------------------------------------------------------------
(***************************************************************************)
(* The limiter                                                             *)
(***************************************************************************)

LEMMA MinOfNats ==
  ASSUME NEW S, S \subseteq Nat, S # {}
  PROVE  Min(S) \in S /\ \A y \in S : Min(S) <= y
<1> DEFINE R == OpToRel(<, Nat)
<1>1. IsWellFoundedOn(R, Nat)
  BY NatLessThanWellFounded
<1>2. \A x, y \in Nat : <<y, x>> \in R <=> y < x
  BY DEF OpToRel
<1> HIDE DEF R
<1>3. PICK x \in S : \A y \in S : ~ (<<y, x>> \in R)
  BY <1>1, WFMin
<1>4. \A y \in S : ~ (y < x)
  BY <1>2, <1>3, Zenon
<1>5. \A y \in S : x <= y
  BY <1>4
<1>6. QED
  BY <1>5 DEF Min

\* The longer of one tick and the time the oldest entry has left.
LEMMA MaxWithOne ==
  ASSUME NEW x \in Int
  PROVE  Max({1, x}) \in Int /\ Max({1, x}) >= 1 /\ Max({1, x}) >= x
<1>1. CASE x >= 1
  <2>1. \A y \in {1, x} : x >= y
    BY <1>1
  <2>2. Max({1, x}) \in {1, x} /\ \A y \in {1, x} : Max({1, x}) >= y
    BY <2>1 DEF Max
  <2>3. QED
    BY <2>2
<1>2. CASE 1 >= x
  <2>1. \A y \in {1, x} : 1 >= y
    BY <1>2
  <2>2. Max({1, x}) \in {1, x} /\ \A y \in {1, x} : Max({1, x}) >= y
    BY <2>1 DEF Max
  <2>3. QED
    BY <2>2
<1>3. QED
  BY <1>1, <1>2

\* Pruning takes entries away, and only if the oldest is outside the window.
LEMMA PrunedBucket ==
  ASSUME NEW b \in Seq(Ages), NEW l \in Nat
  PROVE  /\ Pruned(b, l) \in Seq(Ages) /\ Len(Pruned(b, l)) <= Len(b)
         /\ Len(Pruned(b, l)) = Len(b) /\ b # <<>> =>
              Pruned(b, l) = b /\ b[1] <= Window + l
<1> DEFINE fresh == {i \in DOMAIN b : b[i] <= Window + l}
<1>1. DOMAIN b = 1 .. Len(b) /\ Len(b) \in Nat /\ \A i \in 1 .. Len(b) : b[i] \in Ages
  OBVIOUS
<1>2. Pruned(b, l) = IF fresh = {} THEN <<>> ELSE SubSeq(b, Min(fresh), Len(b))
  BY DEF Pruned
<1>3. \A i \in fresh : i \in 1 .. Len(b) /\ b[i] <= Window + l
  BY <1>1
<1> HIDE DEF fresh
<1>4. CASE fresh = {}
  <2>1. Pruned(b, l) = <<>>
    BY <1>2, <1>4
  <2>2. QED
    BY <1>1, <2>1
<1>5. CASE fresh # {}
  <2>1. fresh \subseteq Nat
    BY <1>1, <1>3
  <2>2. Min(fresh) \in 1 .. Len(b) /\ b[Min(fresh)] <= Window + l
    BY <1>3, <1>5, <2>1, MinOfNats
  <2> DEFINE m == Min(fresh)
             s == SubSeq(b, m, Len(b))
  <2>3. Pruned(b, l) = s /\ m \in 1 .. Len(b)
    BY <1>2, <1>5, <2>2
  <2> HIDE DEF m
  <2>4. /\ s \in Seq(Ages) /\ Len(s) = Len(b) - m + 1
        /\ \A i \in 1 .. Len(b) - m + 1 : s[i] = b[m + i - 1]
    BY <1>1, <2>3
  <2>5. CASE m = 1
    <3>1. \A i \in 1 .. Len(s) : s[i] = b[i]
      BY <1>1, <2>4, <2>5
    <3>2. s = b
      BY <1>1, <2>4, <2>5, <3>1, SeqEqual
    <3>3. b[1] <= Window + l
      BY <2>2, <2>5 DEF m
    <3>4. QED
      BY <1>1, <2>3, <3>2, <3>3
  <2>6. CASE m # 1
    BY <1>1, <2>3, <2>4, <2>6
  <2>7. QED
    BY <2>5, <2>6
<1>6. QED
  BY <1>4, <1>5

\* A hit adds at most one entry, and none to a full bucket.
LEMMA RecordedBucket ==
  ASSUME NEW b \in Seq(Ages), Len(b) <= MaxAttempts, NEW l \in 0 .. MaxLag
  PROVE  Recorded(b, l) \in Seq(Ages) /\ Len(Recorded(b, l)) <= MaxAttempts
<1>1. /\ Pruned(b, l) \in Seq(Ages) /\ Len(Pruned(b, l)) <= Len(b)
      /\ Len(Pruned(b, l)) \in Nat /\ Len(b) \in Nat
  BY PrunedBucket
<1>2. l \in Ages
  BY DEF Ages, OldAge
<1>3. CASE Full(Pruned(b, l))
  BY <1>1, <1>3 DEF Recorded
<1>4. CASE ~ Full(Pruned(b, l))
  <2>1. Len(Pruned(b, l)) < MaxAttempts
    BY <1>1, <1>4 DEF Full
  <2>2. Recorded(b, l) = Append(Pruned(b, l), l)
    BY <1>4 DEF Recorded
  <2>3. QED
    BY <1>1, <1>2, <2>1, <2>2
<1>5. QED
  BY <1>3, <1>4

-----------------------------------------------------------------------------
(***************************************************************************)
(* Types                                                                   *)
(***************************************************************************)

LEMMA NoTriesType == NoTries \in [0 .. Window -> Nat]
BY DEF NoTries

LEMMA InitInv1 == Init => Inv1
<1> SUFFICES ASSUME Init PROVE Inv1
  OBVIOUS
<1>1. bucket \in [Keys -> Seq(0 .. OldAge)] /\ \A k \in Keys : Len(bucket[k]) <= MaxAttempts
  BY DEF Init
<1>2. /\ step \in [Threads -> Steps] /\ key \in [Threads -> Keys]
      /\ pw \in [Threads -> Passwords \cup {Squeezed, Nobody}]
      /\ lag \in [Threads -> 0 .. MaxLag]
  BY DEF Init, Steps, Keys
<1>3. /\ tries \in [0 .. Window -> Nat] /\ promise \in Int
      /\ file \in Passwords \cup {NoFile, TornFile} /\ tokens \subseteq 0 .. TokenTtl
      /\ confirmed \in Passwords \cup {Nobody} /\ cut \in BOOLEAN
  <2>1. tries = NoTries /\ promise = -1
    BY DEF Init
  <2>2. file = NoFile /\ tokens = {} /\ confirmed = Nobody /\ cut = FALSE
    BY DEF Init
  <2>3. tries \in [0 .. Window -> Nat]
    BY <2>1, NoTriesType, Zenon
  <2>4. promise \in Int
    BY <2>1
  <2>5. QED
    BY <2>2, <2>3, <2>4
<1>4. Writing
  BY DEF Init, Writing
<1>5. QED
  BY <1>1, <1>2, <1>3, <1>4 DEF Inv1, TypeOK

\* The types of the limiters and of the calls are preserved by a new bucket.
LEMMA BucketType ==
  ASSUME TypeOK, NEW k \in Keys, NEW b \in Seq(Ages), Len(b) <= MaxAttempts,
         bucket' = [bucket EXCEPT ![k] = b]
  PROVE  /\ bucket' \in [Keys -> Seq(0 .. OldAge)]
         /\ \A j \in Keys : Len(bucket'[j]) <= MaxAttempts
BY DEF TypeOK, Ages

\* The end of a call, and a step of it that writes no password.
LEMMA ReturnType ==
  ASSUME Inv1, NEW t \in Threads, Return(t)
  PROVE  /\ step' \in [Threads -> Steps] /\ key' \in [Threads -> Keys]
         /\ pw' \in [Threads -> Passwords \cup {Squeezed, Nobody}]
         /\ lag' \in [Threads -> 0 .. MaxLag]
         /\ Writing'
<1>1. \A u \in Threads : step'[u] = (IF u = t THEN "idle" ELSE step[u])
                       /\ (u # t => pw'[u] = pw[u])
  BY DEF Return, Goto, Inv1, TypeOK
<1>2. Writing'
  BY <1>1 DEF Writing, Inv1
<1>3. QED
  BY <1>2 DEF Return, Goto, Inv1, TypeOK, Steps, Keys

LEMMA GotoType ==
  ASSUME Inv1, NEW t \in Threads, NEW s \in Steps, Goto(t, s),
         s \in {"truncate", "write"} => pw'[t] \in Passwords,
         \A u \in Threads : u # t => pw'[u] = pw[u]
  PROVE  step' \in [Threads -> Steps] /\ Writing'
<1>1. \A u \in Threads : step'[u] = IF u = t THEN s ELSE step[u]
  BY DEF Goto, Inv1, TypeOK
<1>2. QED
  BY <1>1 DEF Goto, Inv1, TypeOK, Writing

\* The answer to a full bucket.
LEMMA RetryType ==
  ASSUME NEW b \in Seq(Ages), NEW l \in Nat, Full(b)
  PROVE  /\ RetryAfter(b, l) \in Int /\ RetryAfter(b, l) >= 1
         /\ b[1] \in Nat /\ b[1] + RetryAfter(b, l) > Window
<1>1. Len(b) \in Nat /\ Len(b) >= MaxAttempts
  BY DEF Full
<1>2. b[1] \in Ages
  BY <1>1
<1>3. b[1] \in Nat
  BY <1>2 DEF Ages, OldAge
<1>4. Window - (b[1] - l) + 1 \in Int
  BY <1>3
<1>5. /\ RetryAfter(b, l) \in Int /\ RetryAfter(b, l) >= 1
      /\ RetryAfter(b, l) >= Window - (b[1] - l) + 1
  BY <1>4, MaxWithOne DEF RetryAfter
<1>6. QED
  BY <1>3, <1>5

LEMMA ServeInv1 == ASSUME Inv1, NEW t \in Threads, Serve(t) PROVE Inv1'
<1> USE DEF Inv1
<1>0. \A k \in Keys : bucket[k] \in Seq(Ages) /\ Len(bucket[k]) <= MaxAttempts
  BY DEF TypeOK, Ages
<1>1. key[t] \in Keys /\ lag[t] \in 0 .. MaxLag /\ \A l \in 0 .. lag[t] : l \in 0 .. MaxLag
  BY DEF TypeOK
<1>2. CASE Admit(t)
  <2>1. PICK l \in 0 .. lag[t] :
          bucket' = [bucket EXCEPT ![key[t]] = Pruned(bucket[key[t]], l)]
    BY <1>2 DEF Admit
  <2>2. /\ Pruned(bucket[key[t]], l) \in Seq(Ages)
        /\ Len(Pruned(bucket[key[t]], l)) <= MaxAttempts
    <3>1. l \in Nat
      BY <1>1
    <3>2. /\ Pruned(bucket[key[t]], l) \in Seq(Ages)
          /\ Len(Pruned(bucket[key[t]], l)) <= Len(bucket[key[t]])
      BY <1>0, <1>1, <3>1, PrunedBucket
    <3>3. Len(bucket[key[t]]) <= MaxAttempts /\ Len(bucket[key[t]]) \in Nat
      BY <1>0, <1>1
    <3>4. QED
      BY <3>2, <3>3
  <2>3. /\ bucket' \in [Keys -> Seq(0 .. OldAge)]
        /\ \A j \in Keys : Len(bucket'[j]) <= MaxAttempts
    BY <1>1, <2>1, <2>2, BucketType
  <2>4. QED
    BY <1>2, <2>3 DEF Admit, Goto, TypeOK, Writing, Steps, secrets
<1>3. CASE Refuse(t)
  <2>1. PICK l \in 0 .. lag[t] :
          /\ Full(Pruned(bucket[key[t]], l))
          /\ bucket' = [bucket EXCEPT ![key[t]] = Pruned(bucket[key[t]], l)]
          /\ promise' \in {promise, RetryAfter(Pruned(bucket[key[t]], l), l)}
    BY <1>3 DEF Refuse
  <2>2. l \in Nat
    BY <1>1
  <2>3. /\ Pruned(bucket[key[t]], l) \in Seq(Ages)
        /\ Len(Pruned(bucket[key[t]], l)) <= MaxAttempts
    <3>1. /\ Pruned(bucket[key[t]], l) \in Seq(Ages)
          /\ Len(Pruned(bucket[key[t]], l)) <= Len(bucket[key[t]])
      BY <1>0, <1>1, <2>2, PrunedBucket
    <3>2. Len(bucket[key[t]]) <= MaxAttempts /\ Len(bucket[key[t]]) \in Nat
      BY <1>0, <1>1
    <3>3. QED
      BY <3>1, <3>2
  <2>4. /\ bucket' \in [Keys -> Seq(0 .. OldAge)]
        /\ \A j \in Keys : Len(bucket'[j]) <= MaxAttempts
    BY <1>1, <2>1, <2>3, BucketType
  <2>5. promise' \in Int
    BY <2>1, <2>2, <2>3, RetryType DEF TypeOK
  <2>6. QED
    BY <1>3, <2>4, <2>5 DEF Refuse, Return, Goto, TypeOK, Writing, Steps, Keys, secrets
<1>4. CASE Hit(t)
  <2>1. PICK l \in 0 .. lag[t] :
          bucket' = [bucket EXCEPT ![key[t]] = Recorded(bucket[key[t]], l)]
    BY <1>4 DEF Hit, TypeOK
  <2>2. /\ bucket' \in [Keys -> Seq(0 .. OldAge)]
        /\ \A j \in Keys : Len(bucket'[j]) <= MaxAttempts
    BY <1>0, <1>1, <2>1, RecordedBucket, BucketType
  <2>3. tries' \in [0 .. Window -> Nat] /\ promise' \in Int
    <3>1. tries \in [0 .. Window -> Nat] /\ promise \in Int
      BY DEF TypeOK
    <3>2. \/ UNCHANGED <<tries, promise>>
          \/ tries' = [a \in 0 .. Window |-> tries[a] + 1] /\ promise' = -1
      BY <1>4 DEF Hit
    <3>3. QED
      BY <3>1, <3>2
  <2>4. step' \in [Threads -> Steps] /\ Writing'
    <3>1. Goto(t, "verify") \/ Goto(t, "mail")
      BY <1>4 DEF Hit
    <3>2. pw' = pw /\ "verify" \in Steps /\ "mail" \in Steps
      BY <1>4 DEF Hit, Steps
    <3>3. QED
      BY <3>1, <3>2, GotoType
  <2>5. lag' \in [Threads -> 0 .. MaxLag] /\ UNCHANGED <<secrets, key, pw>>
    BY <1>4 DEF Hit, TypeOK
  <2>6. QED
    BY <2>2, <2>3, <2>4, <2>5 DEF TypeOK, secrets
<1>5. CASE Verify(t)
  <2>1. step' \in [Threads -> Steps]
    <3>1. Verdict(pw[t]) \in {"opened", "fallback", "no"}
      BY DEF Verdict
    <3>2. QED
      BY <1>5, <3>1 DEF Verify, Goto, TypeOK, Steps
  <2>2. pw' = [pw EXCEPT ![t] = Nobody]
    BY <1>5 DEF Verify
  <2>3. \A u \in Threads : step'[u] \in {"truncate", "write"} => u # t /\ step'[u] = step[u]
    <3>1. Verdict(pw[t]) \in {"opened", "fallback", "no"}
      BY DEF Verdict
    <3>2. QED
      BY <1>5, <3>1 DEF Verify, Goto, TypeOK
  <2>4. Writing'
    BY <2>2, <2>3 DEF Writing, TypeOK
  <2>5. QED
    BY <1>5, <2>1, <2>2, <2>4 DEF Verify, TypeOK, limiter, secrets
<1>6. CASE Welcome(t)
  <2>1. /\ bucket' \in [Keys -> Seq(0 .. OldAge)]
        /\ \A j \in Keys : Len(bucket'[j]) <= MaxAttempts
    <3>1. <<>> \in Seq(Ages) /\ Len(<<>>) <= MaxAttempts /\ "login" \in Keys
      BY DEF Keys
    <3>2. bucket' = [bucket EXCEPT !["login"] = <<>>]
      BY <1>6 DEF Welcome
    <3>3. QED
      BY <3>1, <3>2, BucketType
  <2>2. tries' = NoTries /\ promise' = -1 /\ Return(t) /\ UNCHANGED secrets
    BY <1>6 DEF Welcome
  <2>3. tries' \in [0 .. Window -> Nat]
    BY <2>2, NoTriesType, Zenon
  <2>4. /\ step' \in [Threads -> Steps] /\ key' \in [Threads -> Keys]
        /\ pw' \in [Threads -> Passwords \cup {Squeezed, Nobody}]
        /\ lag' \in [Threads -> 0 .. MaxLag]
        /\ Writing'
    BY <2>2, ReturnType
  <2>5. promise' \in Int
    BY <2>2
  <2>6. QED
    BY <2>1, <2>2, <2>3, <2>4, <2>5 DEF TypeOK, secrets
<1>7. CASE Mail(t)
  <2>1. tokens' \subseteq 0 .. TokenTtl
    <3>1. tokens' = tokens \/ tokens' = tokens \cup {0}
      BY <1>7 DEF Mail, SendEmail
    <3>2. 0 \in 0 .. TokenTtl /\ tokens \subseteq 0 .. TokenTtl
      BY DEF TypeOK
    <3>3. QED
      BY <3>1, <3>2
  <2>2. QED
    BY <1>7, <2>1, ReturnType DEF Mail, TypeOK, limiter
<1>8. CASE Truncate(t)
  <2>1. pw[t] \in Passwords
    BY <1>8 DEF Truncate, Writing
  <2>2. pw' = pw /\ Goto(t, "write") /\ "write" \in Steps
    BY <1>8 DEF Truncate, Steps
  <2>3. step' \in [Threads -> Steps] /\ Writing'
    BY <2>1, <2>2, GotoType
  <2>4. QED
    BY <1>8, <2>3 DEF Truncate, TypeOK, limiter
<1>9. CASE Write(t)
  <2>1. pw[t] \in Passwords
    BY <1>9 DEF Write, Writing
  <2>2. QED
    BY <1>9, <2>1, ReturnType DEF Write, TypeOK, limiter
<1>10. QED
  BY <1>2, <1>3, <1>4, <1>5, <1>6, <1>7, <1>8, <1>9 DEF Serve

LEMMA StepInv1 == Inv1 /\ [Next]_vars => Inv1'
<1> SUFFICES ASSUME Inv1, [Next]_vars PROVE Inv1'
  OBVIOUS
<1> USE DEF Inv1
<1>1. ASSUME NEW t \in Threads, NEW p \in Passwords, Login(t, p) PROVE Inv1'
  <2>1. Normalized(p) \in Passwords \cup {Squeezed, Nobody}
    BY DEF Normalized
  <2>2. /\ Goto(t, "check") /\ "check" \in Steps
        /\ pw' = [pw EXCEPT ![t] = Normalized(p)]
    BY <1>1 DEF Login, Steps
  <2>3. \A u \in Threads : u # t => pw'[u] = pw[u]
    BY <2>2 DEF TypeOK
  <2>4. step' \in [Threads -> Steps] /\ Writing'
    BY <2>2, <2>3, GotoType
  <2>5. QED
    BY <1>1, <2>1, <2>2, <2>4 DEF Login, TypeOK, limiter, secrets
<1>2. ASSUME NEW t \in Threads, NEW p \in Passwords, Reset(t, p) PROVE Inv1'
  <2>1. /\ Goto(t, "truncate") /\ "truncate" \in Steps
        /\ pw' = [pw EXCEPT ![t] = p]
    BY <1>2 DEF Reset, Steps
  <2>2. pw'[t] = p /\ \A u \in Threads : u # t => pw'[u] = pw[u]
    BY <2>1 DEF TypeOK
  <2>3. step' \in [Threads -> Steps] /\ Writing'
    BY <2>1, <2>2, GotoType
  <2>4. QED
    BY <1>2, <2>1, <2>3 DEF Reset, TypeOK, limiter, secrets
<1>3. ASSUME NEW t \in Threads, Forgot(t) PROVE Inv1'
  <2>1. Goto(t, "check") /\ "check" \in Steps /\ pw' = pw
    BY <1>3 DEF Forgot, Steps
  <2>2. step' \in [Threads -> Steps] /\ Writing'
    BY <2>1, GotoType
  <2>3. QED
    BY <1>3, <2>2 DEF Forgot, TypeOK, limiter, secrets, Keys
<1>4. CASE Tick
  <2>1. /\ bucket' \in [Keys -> Seq(0 .. OldAge)]
        /\ \A k \in Keys : Len(bucket'[k]) <= MaxAttempts
    <3>1. ASSUME NEW k \in Keys
          PROVE  bucket'[k] \in Seq(0 .. OldAge) /\ Len(bucket'[k]) <= MaxAttempts
      <4>1. /\ bucket[k] \in Seq(Ages) /\ Len(bucket[k]) <= MaxAttempts
            /\ Len(bucket[k]) \in Nat /\ DOMAIN bucket[k] = 1 .. Len(bucket[k])
        BY DEF TypeOK, Ages
      <4>2. \A i \in 1 .. Len(bucket[k]) : Older(bucket[k][i]) \in 0 .. OldAge
        BY <4>1 DEF Older, Ages, OldAge
      <4>3. bucket'[k] = [i \in 1 .. Len(bucket[k]) |-> Older(bucket[k][i])]
        BY <1>4, <4>1 DEF Tick
      <4>4. QED
        BY <4>1, <4>2, <4>3
    <3>2. DOMAIN bucket' = Keys /\ bucket' = [k \in Keys |-> bucket'[k]]
      BY <1>4 DEF Tick
    <3>3. QED
      BY <3>1, <3>2
  <2>2. tokens' \subseteq 0 .. TokenTtl
    BY <1>4 DEF Tick, StillValid, TypeOK
  <2>3. lag' \in [Threads -> 0 .. MaxLag]
    BY <1>4 DEF Tick, TypeOK
  <2>4. tries' \in [0 .. Window -> Nat]
    BY <1>4 DEF Tick, TypeOK
  <2>5. promise' \in Int
    BY <1>4 DEF Tick, TypeOK
  <2>6. UNCHANGED <<file, confirmed, cut, step, key, pw>>
    BY <1>4 DEF Tick
  <2>7. QED
    BY <2>1, <2>2, <2>3, <2>4, <2>5, <2>6 DEF TypeOK, Writing
<1>5. CASE Restart
  <2>1. /\ bucket' \in [Keys -> Seq(0 .. OldAge)]
        /\ \A k \in Keys : Len(bucket'[k]) <= MaxAttempts
    BY <1>5 DEF Restart
  <2>2. /\ step' \in [Threads -> Steps] /\ key' \in [Threads -> Keys]
        /\ pw' \in [Threads -> Passwords \cup {Squeezed, Nobody}]
        /\ lag' \in [Threads -> 0 .. MaxLag]
        /\ \A t \in Threads : step'[t] = "idle"
    BY <1>5 DEF Restart, NoCalls, Steps, Keys
  <2>3. /\ tries' \in [0 .. Window -> Nat] /\ promise' \in Int /\ cut' \in BOOLEAN
        /\ UNCHANGED <<file, tokens, confirmed>>
    BY <1>5 DEF Restart, NoTries, TypeOK
  <2>4. QED
    BY <2>1, <2>2, <2>3 DEF TypeOK, Writing
<1>6. CASE UNCHANGED vars
  BY <1>6 DEF vars, limiter, secrets, calls, TypeOK, Writing
<1>7. QED
  BY <1>1, <1>2, <1>3, <1>4, <1>5, <1>6, ServeInv1 DEF Next

\* Types, and that a bucket never holds more than max_attempts entries.
THEOREM TypeCorrect == Spec => []TypeOK
<1>1. Inv1 => TypeOK
  BY DEF Inv1
<1>2. QED
  BY <1>1, InitInv1, StepInv1, PTL DEF Spec

-----------------------------------------------------------------------------
(***************************************************************************)
(* The password file                                                       *)
(***************************************************************************)

LEMMA StepInv2 == Inv1 /\ Inv2 /\ [Next]_vars => Inv2'
<1> SUFFICES ASSUME Inv1, Inv2, [Next]_vars PROVE Inv2'
  OBVIOUS
\* A step that leaves the file alone and ends no write.
<1>1. ASSUME UNCHANGED <<file, confirmed, cut>>,
             \A t \in Threads : step[t] = "write" => step'[t] = "write"
      PROVE  Inv2'
  BY <1>1 DEF Inv2
<1>2. ASSUME NEW t \in Threads, Truncate(t) PROVE Inv2'
  <2>1. step'[t] = "write"
    BY <1>2 DEF Truncate, Goto, Inv1, TypeOK
  <2>2. QED
    BY <2>1 DEF Inv2
<1>3. ASSUME NEW t \in Threads, Write(t) PROVE Inv2'
  BY <1>3 DEF Write, Inv1, Writing, Inv2
<1>4. CASE Restart
  <2>1. /\ file' = file /\ confirmed' = confirmed
        /\ ~ cut' => ~ cut /\ \A t \in Threads : step[t] # "write"
    BY <1>4 DEF Restart
  <2>2. QED
    BY <2>1 DEF Inv2
<1>5. CASE Tick
  BY <1>5, <1>1 DEF Tick
<1>6. ASSUME NEW t \in Threads, NEW p \in Passwords, Login(t, p) \/ Reset(t, p)
      PROVE  Inv2'
  <2>1. \A u \in Threads : step[u] = "write" => step'[u] = "write"
    BY <1>6 DEF Login, Reset, Goto, Inv1, TypeOK
  <2>2. QED
    BY <1>1, <1>6, <2>1 DEF Login, Reset, secrets
<1>7. ASSUME NEW t \in Threads,
             \/ Forgot(t) \/ Admit(t) \/ Refuse(t) \/ Hit(t) \/ Verify(t)
             \/ Welcome(t) \/ Mail(t)
      PROVE  Inv2'
  <2>1. \A u \in Threads : step[u] = "write" => step'[u] = "write"
    BY <1>7 DEF Forgot, Admit, Refuse, Hit, Verify, Welcome, Mail, Return, Goto,
                Inv1, TypeOK
  <2>2. UNCHANGED <<file, confirmed, cut>>
    BY <1>7 DEF Forgot, Admit, Refuse, Hit, Verify, Welcome, Mail, secrets
  <2>3. QED
    BY <1>1, <2>1, <2>2
<1>8. CASE UNCHANGED vars
  BY <1>1, <1>8 DEF vars, secrets, calls
<1>9. QED
  BY <1>2, <1>3, <1>4, <1>5, <1>6, <1>7, <1>8 DEF Next, Serve

\* After a reset that was reported as done the password of the settings opens
\* the console only during or after a write of the file that was not finished.
THEOREM OldPassword == Spec => OldPasswordIsOut
<1>1. Init => Inv2
  BY DEF Init, Inv2
<1>2. ASSUME Inv1, Inv2, [Next]_vars, NEW t \in Threads,
             step[t] = "verify", step'[t] = "fallback"
      PROVE  confirmed = Nobody \/ cut \/ \E u \in Threads : step[u] = "write"
  <2>1. Verify(t)
    <3>1. \A u \in Threads : u # t /\ Serve(u) => step'[t] = step[t]
      <4>1. ASSUME NEW u \in Threads, u # t, NEW s, Goto(u, s) PROVE step'[t] = step[t]
        BY <4>1 DEF Goto, Inv1, TypeOK
      <4>2. ASSUME NEW u \in Threads, Serve(u) PROVE \E s : Goto(u, s)
        <5>1. Verify(u) => \E s : Goto(u, s)
          BY DEF Verify
        <5>2. Hit(u) => \E s : Goto(u, s)
          BY DEF Hit
        <5>3. Admit(u) \/ Refuse(u) \/ Welcome(u) \/ Mail(u) \/ Truncate(u) \/ Write(u)
                => \E s : Goto(u, s)
          BY DEF Admit, Refuse, Welcome, Mail, Truncate, Write, Return
        <5>4. QED
          BY <4>2, <5>1, <5>2, <5>3 DEF Serve
      <4>3. QED
        BY <4>1, <4>2
    <3>2. Serve(t) => Verify(t)
      BY <1>2 DEF Serve, Admit, Refuse, Hit, Welcome, Mail, Truncate, Write
    <3>3. \A u \in Threads, p \in Passwords :
            Login(u, p) \/ Reset(u, p) \/ Forgot(u) => step'[t] # "fallback"
      BY <1>2 DEF Login, Reset, Forgot, Goto, Inv1, TypeOK
    <3>4. ASSUME NEW u \in Threads, Forgot(u) PROVE step'[t] # "fallback"
      BY <1>2, <3>4 DEF Forgot, Goto, Inv1, TypeOK
    <3>5. Tick \/ UNCHANGED vars => step'[t] = step[t]
      BY DEF Tick, vars, calls
    <3>6. Restart => step'[t] = "idle"
      BY DEF Restart, NoCalls
    <3>7. QED
      BY <1>2, <3>1, <3>2, <3>3, <3>4, <3>5, <3>6 DEF Next
  <2>2. file \notin Passwords
    <3>1. CASE file \in Passwords
      <4>1. Verdict(pw[t]) # "fallback"
        BY <3>1 DEF Verdict
      <4>2. PICK s \in {Verdict(pw[t]), "opened", "idle", "no"} : Goto(t, s)
        BY <2>1 DEF Verify
      <4>3. step'[t] = s
        BY <1>2, <4>2 DEF Goto, Inv1, TypeOK
      <4>4. QED
        BY <1>2, <4>1, <4>2, <4>3
    <3>2. QED
      BY <3>1
  <2>3. QED
    BY <1>2, <2>2 DEF Inv2
<1>3. Inv1 /\ Inv2 /\ [Next]_vars =>
        [\A t \in Threads :
           step[t] = "verify" /\ step'[t] = "fallback" =>
             \/ confirmed = Nobody
             \/ cut
             \/ \E u \in Threads : step[u] = "write"]_vars
  BY <1>2
<1>4. QED
  BY <1>1, <1>3, InitInv1, StepInv1, StepInv2, PTL DEF Spec, OldPasswordIsOut

-----------------------------------------------------------------------------
(***************************************************************************)
(* The wait a client is told                                               *)
(***************************************************************************)

LEMMA StepInv3 == Inv1 /\ Inv3 /\ [Next]_vars => Inv3'
<1> SUFFICES ASSUME Inv1, Inv3, [Next]_vars PROVE Inv3'
  OBVIOUS
<1> DEFINE b == bucket["login"]
<1>0. /\ b \in Seq(Ages) /\ Len(b) <= MaxAttempts /\ Len(b) \in Nat /\ promise \in Int
      /\ bucket \in [Keys -> Seq(Ages)] /\ "login" \in Keys
  BY DEF Inv1, TypeOK, Ages, Keys
<1>1. ASSUME promise' = -1 PROVE Inv3'
  BY <1>1 DEF Inv3
<1>2. ASSUME promise' = promise, bucket'["login"] = b PROVE Inv3'
  BY <1>2 DEF Inv3
\* Pruning either leaves the bucket alone or makes room in it.
<1>3. ASSUME NEW l \in Nat, bucket'["login"] = Pruned(b, l), promise' = promise
      PROVE  Inv3'
  <2>1. /\ Len(Pruned(b, l)) <= Len(b) /\ Pruned(b, l) \in Seq(Ages)
        /\ Len(Pruned(b, l)) = Len(b) /\ b # <<>> => Pruned(b, l) = b
    BY <1>0, PrunedBucket
  <2>2. Len(Pruned(b, l)) \in Nat
    BY <2>1
  <2>3. CASE Len(Pruned(b, l)) = MaxAttempts
    <3>1. Len(b) = MaxAttempts /\ b # <<>>
      BY <1>0, <2>1, <2>2, <2>3
    <3>2. Pruned(b, l) = b
      BY <2>1, <2>3, <3>1
    <3>3. QED
      BY <1>2, <1>3, <3>2
  <2>4. CASE Len(Pruned(b, l)) # MaxAttempts
    BY <1>3, <2>4 DEF Inv3
  <2>5. QED
    BY <2>3, <2>4
<1>4. ASSUME NEW t \in Threads, Admit(t) PROVE Inv3'
  <2>1. PICK l \in 0 .. lag[t] :
          bucket' = [bucket EXCEPT ![key[t]] = Pruned(bucket[key[t]], l)]
    BY <1>4 DEF Admit
  <2>2. l \in Nat /\ promise' = promise
    BY <1>4 DEF Admit, Inv1, TypeOK
  <2>3. CASE key[t] = "login"
    BY <1>0, <1>3, <2>1, <2>2, <2>3
  <2>4. CASE key[t] # "login"
    BY <1>0, <1>2, <2>1, <2>2, <2>4
  <2>5. QED
    BY <2>3, <2>4
<1>5. ASSUME NEW t \in Threads, Refuse(t) PROVE Inv3'
  <2>1. PICK l \in 0 .. lag[t] :
          LET p == Pruned(bucket[key[t]], l)
              r == RetryAfter(p, l)
          IN  /\ Full(p)
              /\ bucket' = [bucket EXCEPT ![key[t]] = p]
              /\ promise' = IF key[t] = "login" /\ (promise = -1 \/ r < promise)
                            THEN r ELSE promise
    BY <1>5 DEF Refuse
  <2>2. l \in Nat
    BY DEF Inv1, TypeOK
  <2>3. CASE key[t] = "login"
    <3> DEFINE p == Pruned(b, l)
               r == RetryAfter(p, l)
    <3>1. /\ Full(p) /\ bucket'["login"] = p
          /\ promise' = r \/ promise' = promise
      BY <1>0, <2>1, <2>3
    <3>2. p \in Seq(Ages)
      BY <1>0, <2>2, PrunedBucket
    <3>3. r \in Int /\ r >= 1 /\ p[1] \in Nat /\ p[1] + r > Window
      BY <2>2, <3>1, <3>2, RetryType
    <3>4. CASE promise' = r
      BY <3>1, <3>3, <3>4 DEF Inv3
    <3>5. CASE promise' = promise
      BY <1>3, <2>2, <3>1, <3>5
    <3>6. QED
      BY <3>1, <3>4, <3>5
  <2>4. CASE key[t] # "login"
    BY <1>0, <1>2, <2>1, <2>4
  <2>5. QED
    BY <2>3, <2>4
<1>6. ASSUME NEW t \in Threads, Hit(t) PROVE Inv3'
  <2>1. CASE key[t] = "login"
    BY <1>1, <1>6, <2>1 DEF Hit
  <2>2. CASE key[t] # "login"
    BY <1>0, <1>2, <1>6, <2>2 DEF Hit
  <2>3. QED
    BY <2>1, <2>2
<1>7. ASSUME NEW t \in Threads, Welcome(t) PROVE Inv3'
  BY <1>1, <1>7 DEF Welcome
<1>8. CASE Restart
  BY <1>1, <1>8 DEF Restart
<1>9. CASE Tick
  <2>1. /\ bucket'["login"] = [i \in DOMAIN b |-> Older(b[i])]
        /\ promise' = IF promise > 0 THEN promise - 1 ELSE promise
    BY <1>0, <1>9 DEF Tick
  <2>2. Len(bucket'["login"]) = Len(b)
    BY <1>0, <2>1
  <2>3. CASE /\ promise' >= 0 /\ Len(bucket'["login"]) = MaxAttempts
             /\ bucket'["login"][1] <= Window
    <3>0. Len(b) >= 1
      BY <2>2, <2>3
    <3>1. 1 \in DOMAIN b /\ b[1] \in Ages /\ b[1] \in Nat
      <4>1. 1 \in DOMAIN b /\ b[1] \in Ages
        BY <1>0, <3>0
      <4>2. QED
        BY <4>1 DEF Ages, OldAge
    <3>2. bucket'["login"][1] = Older(b[1])
      BY <2>1, <3>1
    <3>3. b[1] <= Window /\ bucket'["login"][1] = b[1] + 1
      BY <2>3, <3>1, <3>2 DEF Older, Ages, OldAge
    <3>4. promise >= 0 /\ b[1] + promise > Window
      BY <1>0, <2>1, <2>2, <2>3, <3>3 DEF Inv3
    <3>5. QED
      BY <1>0, <2>1, <3>1, <3>3, <3>4 DEF Inv3
  <2>4. QED
    BY <1>0, <2>1, <2>3 DEF Inv3
<1>10. ASSUME NEW t \in Threads, NEW p \in Passwords,
              \/ Login(t, p) \/ Reset(t, p) \/ Verify(t) \/ Truncate(t) \/ Write(t)
       PROVE  Inv3'
  BY <1>2, <1>10 DEF Login, Reset, Verify, Truncate, Write, limiter
<1>11. ASSUME NEW t \in Threads, Forgot(t) \/ Mail(t) PROVE Inv3'
  BY <1>2, <1>11 DEF Forgot, Mail, limiter
<1>12. CASE UNCHANGED vars
  BY <1>2, <1>12 DEF vars, limiter
<1>13. EnvPassword \in Passwords
  OBVIOUS
<1>14. QED
  BY <1>4, <1>5, <1>6, <1>7, <1>8, <1>9, <1>10, <1>11, <1>12, <1>13 DEF Next, Serve

\* A client that waits as long as it was told finds room, however stale the
\* clock behind the answer was, if no other attempt was counted meanwhile.
THEOREM WaitSuffices == Spec => []RetryAfterSuffices
<1>1. Init => Inv3
  BY DEF Init, Inv3
<1>2. Inv1 /\ Inv3 => RetryAfterSuffices
  <2> SUFFICES ASSUME Inv1, Inv3, promise = 0, Full(Pruned(bucket["login"], 0))
               PROVE  FALSE
    BY DEF RetryAfterSuffices
  <2> DEFINE b == bucket["login"]
  <2>1. b \in Seq(Ages) /\ Len(b) <= MaxAttempts /\ Len(b) \in Nat
    BY DEF Inv1, TypeOK, Ages, Keys
  <2>2. /\ Pruned(b, 0) \in Seq(Ages) /\ Len(Pruned(b, 0)) <= Len(b)
        /\ Len(Pruned(b, 0)) = Len(b) /\ b # <<>> => b[1] <= Window + 0
    BY <2>1, PrunedBucket
  <2>3. Len(Pruned(b, 0)) >= MaxAttempts /\ Len(Pruned(b, 0)) \in Nat
    BY <2>2 DEF Full
  <2>4. Len(b) = MaxAttempts /\ Len(Pruned(b, 0)) = Len(b) /\ b # <<>>
    BY <2>1, <2>2, <2>3
  <2>5. b[1] \in Nat /\ b[1] <= Window
    <3>1. b[1] \in Ages
      BY <2>1, <2>4
    <3>2. b[1] \in Nat
      BY <3>1 DEF Ages, OldAge
    <3>3. QED
      BY <2>2, <2>4, <3>2
  <2>6. QED
    BY <2>4, <2>5 DEF Inv3
<1>3. QED
  BY <1>1, <1>2, InitInv1, StepInv1, StepInv3, PTL DEF Spec
-----------------------------------------------------------------------------
(***************************************************************************)
(* The attempts let through in a window                                    *)
(***************************************************************************)

\* The entries of a bucket that are at most so old.
Young(b, age) == {i \in DOMAIN b : b[i] <= age}

LEMMA YoungEntries ==
  ASSUME NEW b \in Seq(Ages), NEW age \in Nat
  PROVE  /\ IsFiniteSet(Young(b, age)) /\ Cardinality(Young(b, age)) \in Nat
         /\ Cardinality(Young(b, age)) <= Len(b)
<1>1. Young(b, age) \in SUBSET (1 .. Len(b)) /\ Len(b) \in Nat
  BY DEF Young
<1>2. IsFiniteSet(1 .. Len(b)) /\ Cardinality(1 .. Len(b)) = Len(b)
  BY <1>1, FS_Interval
<1>3. QED
  BY <1>1, <1>2, FS_Subset, FS_CardinalityType

\* What is inside the window outlives the pruning.
LEMMA PrunedKeepsYoung ==
  ASSUME NEW b \in Seq(Ages), NEW l \in Nat, NEW age \in Nat, age <= Window
  PROVE  Cardinality(Young(b, age)) <= Cardinality(Young(Pruned(b, l), age))
<1> DEFINE fresh == {i \in DOMAIN b : b[i] <= Window + l}
           p == Pruned(b, l)
<1>1. /\ DOMAIN b = 1 .. Len(b) /\ Len(b) \in Nat
      /\ \A i \in 1 .. Len(b) : b[i] \in Ages /\ b[i] \in Nat
  BY DEF Ages, OldAge
<1>2. Pruned(b, l) = IF fresh = {} THEN <<>> ELSE SubSeq(b, Min(fresh), Len(b))
  BY DEF Pruned
<1>3. Young(b, age) \subseteq fresh
  BY <1>1 DEF Young
<1>4. p \in Seq(Ages)
  BY PrunedBucket
<1>5. IsFiniteSet(Young(p, age)) /\ Cardinality(Young(p, age)) \in Nat
  BY <1>4, YoungEntries
<1>6. fresh \subseteq 1 .. Len(b)
  BY <1>1
<1> HIDE DEF fresh
<1>7. CASE fresh = {}
  <2>1. Young(b, age) = {}
    BY <1>3, <1>7
  <2>2. Cardinality(Young(b, age)) = 0
    BY <2>1, FS_EmptySet
  <2>3. QED
    BY <1>5, <2>2
<1>8. CASE fresh # {}
  <2> DEFINE m == Min(fresh)
  <2>1. m \in 1 .. Len(b) /\ \A i \in fresh : m <= i
    <3>1. fresh \subseteq Nat
      BY <1>1, <1>6
    <3>2. m \in fresh /\ \A i \in fresh : m <= i
      BY <1>8, <3>1, MinOfNats
    <3>3. QED
      BY <1>6, <3>2
  <2>2. p = SubSeq(b, m, Len(b))
    BY <1>2, <1>8
  <2> HIDE DEF m, p
  <2>3. /\ DOMAIN p = 1 .. Len(b) - m + 1
        /\ \A i \in 1 .. Len(b) - m + 1 : p[i] = b[m + i - 1]
    BY <1>1, <2>1, <2>2
  <2> DEFINE f == [i \in Young(b, age) |-> i - m + 1]
  <2>4. ASSUME NEW i \in Young(b, age) PROVE i \in Nat /\ i - m + 1 \in Young(p, age)
    <3>1. i \in 1 .. Len(b) /\ m <= i /\ b[i] <= age
      BY <1>1, <1>3, <2>1 DEF Young
    <3>2. i - m + 1 \in 1 .. Len(b) - m + 1
      BY <1>1, <2>1, <3>1
    <3>3. m + (i - m + 1) - 1 = i
      BY <2>1, <3>1
    <3>4. p[i - m + 1] = b[i]
      BY <2>3, <3>2, <3>3
    <3>5. QED
      BY <2>3, <3>1, <3>2, <3>4 DEF Young
  <2>5. f \in [Young(b, age) -> Young(p, age)]
    BY <2>4
  <2>6. \A i, j \in Young(b, age) : f[i] = f[j] => i = j
    <3>1. \A i, j \in Young(b, age) : i - m + 1 = j - m + 1 => i = j
      BY <2>1, <2>4
    <3>2. QED
      BY <3>1
  <2> HIDE DEF f
  <2>7. f \in Injection(Young(b, age), Young(p, age))
    BY <2>5, <2>6 DEF Injection, IsInjective
  <2>8. QED
    BY <1>5, <2>7, FS_Injection DEF p
<1>9. QED
  BY <1>7, <1>8

LEMMA AppendedIsYoung ==
  ASSUME NEW b \in Seq(Ages), NEW age \in Nat, NEW l \in Ages, l <= age
  PROVE  Cardinality(Young(Append(b, l), age)) = Cardinality(Young(b, age)) + 1
<1>1. /\ DOMAIN b = 1 .. Len(b) /\ Len(b) \in Nat
      /\ DOMAIN Append(b, l) = 1 .. Len(b) + 1
      /\ \A i \in 1 .. Len(b) : Append(b, l)[i] = b[i]
      /\ Append(b, l)[Len(b) + 1] = l
  OBVIOUS
<1>2. Young(Append(b, l), age) = Young(b, age) \cup {Len(b) + 1}
  BY <1>1 DEF Young
<1>3. Len(b) + 1 \notin Young(b, age) /\ IsFiniteSet(Young(b, age))
  BY <1>1, YoungEntries DEF Young
<1>4. QED
  BY <1>2, <1>3, FS_AddElement

Workers == Cardinality(Threads)

\* The logins that the limiter lets through in `age' ticks: for each entry one
\* per worker, and one less than there are workers of those that found room
\* before.
Allowed(b, age) == Workers * Cardinality(Young(b, age + MaxLag)) + Workers - 1

LEMMA WorkersAre == IsFiniteSet(Threads) /\ Workers \in Nat /\ Workers >= 1
BY ThreadAssumption, FS_CardinalityType, FS_EmptySet DEF Workers

LEMMA Products ==
  ASSUME NEW w \in Nat, NEW x \in Nat, NEW y \in Nat, x <= y
  PROVE  w * x \in Nat /\ w * x <= w * y /\ w * (x + 1) = w * x + w
<1>1. PICK d \in Nat : y = x + d
  <2>1. y - x \in Nat /\ y = x + (y - x)
    OBVIOUS
  <2>2. QED
    BY <2>1
<1>2. w * y = w * x + w * d
  BY <1>1
<1>3. w * d \in Nat /\ w * x \in Nat
  OBVIOUS
<1>4. w * (x + 1) = w * x + w
  OBVIOUS
<1>5. QED
  BY <1>2, <1>3, <1>4

LEMMA MoreIsAllowed ==
  ASSUME NEW b \in Seq(Ages), NEW c \in Seq(Ages), NEW age \in Nat, NEW old \in Nat,
         Cardinality(Young(b, old + MaxLag)) <= Cardinality(Young(c, age + MaxLag))
  PROVE  /\ Allowed(b, old) \in Int /\ Allowed(c, age) \in Int
         /\ Allowed(c, age) >= Allowed(b, old) /\ Allowed(b, old) >= Workers - 1
<1> DEFINE x == Cardinality(Young(b, old + MaxLag))
           y == Cardinality(Young(c, age + MaxLag))
<1>1. x \in Nat /\ y \in Nat
  <2>1. old + MaxLag \in Nat /\ age + MaxLag \in Nat
    OBVIOUS
  <2>2. QED
    BY <2>1, YoungEntries
<1>2. x <= y /\ Workers \in Nat
  BY WorkersAre
<1>3. Allowed(b, old) = Workers * x + Workers - 1 /\ Allowed(c, age) = Workers * y + Workers - 1
  BY DEF Allowed
<1> HIDE DEF x, y
<1>4. Workers * x \in Nat /\ Workers * y \in Nat /\ Workers * x <= Workers * y
  BY <1>1, <1>2, Products
<1>5. QED
  BY <1>2, <1>3, <1>4

LEMMA PrunedAllows ==
  ASSUME NEW b \in Seq(Ages), NEW l \in Nat, NEW age \in Nat, age + MaxLag <= Window
  PROVE  /\ Allowed(b, age) \in Int /\ Allowed(Pruned(b, l), age) \in Int
         /\ Allowed(Pruned(b, l), age) >= Allowed(b, age) /\ Allowed(b, age) >= Workers - 1
<1>1. Pruned(b, l) \in Seq(Ages)
  BY PrunedBucket
<1>2. Cardinality(Young(b, age + MaxLag)) <= Cardinality(Young(Pruned(b, l), age + MaxLag))
  BY PrunedKeepsYoung
<1>3. QED
  BY <1>1, <1>2, MoreIsAllowed

LEMMA AppendAllows ==
  ASSUME NEW b \in Seq(Ages), NEW l \in 0 .. MaxLag, NEW age \in Nat
  PROVE  Allowed(b, age) \in Int /\ Allowed(Append(b, l), age) = Allowed(b, age) + Workers
<1> DEFINE x == Cardinality(Young(b, age + MaxLag))
<1>1. x \in Nat /\ Workers \in Nat
  BY YoungEntries, WorkersAre
<1>2. l \in Ages /\ l <= age + MaxLag /\ age + MaxLag \in Nat
  BY DEF Ages, OldAge
<1>3. Cardinality(Young(Append(b, l), age + MaxLag)) = x + 1
  BY <1>2, AppendedIsYoung
<1>4. /\ Allowed(b, age) = Workers * x + Workers - 1
      /\ Allowed(Append(b, l), age) = Workers * (x + 1) + Workers - 1
  BY <1>3 DEF Allowed
<1> HIDE DEF x
<1>5. Workers * x \in Nat /\ Workers * (x + 1) = Workers * x + Workers
  BY <1>1, Products
<1>6. QED
  BY <1>1, <1>4, <1>5

\* Logins that found room and are not counted yet.
Admitted == {t \in Threads : step[t] = "hit" /\ key[t] = "login"}

\* A full bucket leaves as many attempts as calls were let past it, and of
\* those one less than there are threads.
Inv4 ==
  LET b == bucket["login"]
      waiting == IF Full(b) THEN Cardinality(Admitted) ELSE 0
  IN  /\ waiting < Workers
      /\ \A a \in 0 .. Window - MaxLag : tries[a] + waiting <= Allowed(b, a)

LEMMA AdmittedAre ==
  ASSUME NEW S \in SUBSET Threads
  PROVE  IsFiniteSet(S) /\ Cardinality(S) \in Nat /\ Cardinality(S) <= Workers
BY WorkersAre, FS_Subset, FS_CardinalityType DEF Workers

\* Nothing is let through, and the bucket forgets nothing of the window: it may
\* get room, but not be full with more logins past it than before.
LEMMA BudgetKept ==
  ASSUME Inv1, Inv4, bucket'["login"] \in Seq(Ages),
         Full(bucket'["login"]) =>
           /\ Full(bucket["login"])
           /\ Cardinality(Admitted') <= Cardinality(Admitted),
         tries' = tries,
         \A a \in 0 .. Window - MaxLag :
           Allowed(bucket'["login"], a) \in Int /\ Allowed(bucket["login"], a) \in Int
             /\ Allowed(bucket'["login"], a) >= Allowed(bucket["login"], a)
  PROVE  Inv4'
<1> DEFINE v == IF Full(bucket["login"]) THEN Cardinality(Admitted) ELSE 0
           w == IF Full(bucket'["login"]) THEN Cardinality(Admitted') ELSE 0
<1>1. v \in Nat /\ w \in Nat /\ w <= v
  <2>1. Admitted \in SUBSET Threads /\ Admitted' \in SUBSET Threads
    BY DEF Admitted
  <2>2. Cardinality(Admitted) \in Nat /\ Cardinality(Admitted') \in Nat
    BY <2>1, AdmittedAre
  <2>3. QED
    BY <2>2
<1>2. v < Workers /\ \A a \in 0 .. Window - MaxLag : tries[a] + v <= Allowed(bucket["login"], a)
  BY DEF Inv4
<1>3. Inv4' <=> /\ w < Workers
                /\ \A a \in 0 .. Window - MaxLag : tries'[a] + w <= Allowed(bucket'["login"], a)
  BY DEF Inv4
<1> HIDE DEF v, w
<1>4. w < Workers
  BY <1>1, <1>2, WorkersAre
<1>5. ASSUME NEW a \in 0 .. Window - MaxLag
      PROVE  tries'[a] + w <= Allowed(bucket'["login"], a)
  <2>1. a \in 0 .. Window /\ tries'[a] = tries[a] /\ tries[a] \in Nat
    BY DEF Inv1, TypeOK
  <2>2. QED
    BY <1>1, <1>2, <2>1
<1>6. QED
  BY <1>3, <1>4, <1>5

\* Pruning makes room or leaves the bucket alone.
LEMMA PrunedBudget ==
  ASSUME Inv1, Inv4, NEW l \in Nat, tries' = tries,
         bucket'["login"] \in {bucket["login"], Pruned(bucket["login"], l)},
         Full(bucket'["login"]) => Admitted' = Admitted
  PROVE  Inv4'
<1> DEFINE b == bucket["login"]
           c == bucket'["login"]
<1>1. b \in Seq(Ages) /\ Len(b) \in Nat
  BY DEF Inv1, TypeOK, Ages, Keys
<1>2. Pruned(b, l) \in Seq(Ages) /\ Len(Pruned(b, l)) <= Len(b) /\ Len(Pruned(b, l)) \in Nat
  BY <1>1, PrunedBucket
<1>3. c \in Seq(Ages) /\ (Full(c) => Full(b))
  BY <1>1, <1>2 DEF Full
<1>4. \A a \in 0 .. Window - MaxLag :
        Allowed(c, a) \in Int /\ Allowed(b, a) \in Int /\ Allowed(c, a) >= Allowed(b, a)
  <2> SUFFICES ASSUME NEW a \in 0 .. Window - MaxLag
               PROVE  Allowed(c, a) \in Int /\ Allowed(b, a) \in Int /\ Allowed(c, a) >= Allowed(b, a)
    OBVIOUS
  <2>1. a \in Nat /\ a + MaxLag <= Window
    OBVIOUS
  <2> HIDE DEF b, c
  <2>2. /\ Allowed(b, a) \in Int /\ Allowed(Pruned(b, l), a) \in Int
        /\ Allowed(Pruned(b, l), a) >= Allowed(b, a)
    BY <1>1, <2>1, PrunedAllows
  <2>3. c \in {b, Pruned(b, l)}
    BY DEF b, c
  <2>4. QED
    BY <2>2, <2>3
<1>5. Full(c) => Cardinality(Admitted') <= Cardinality(Admitted)
  <2>1. Cardinality(Admitted) \in Nat
    BY AdmittedAre DEF Admitted
  <2>2. QED
    BY <2>1
<1>6. QED
  BY <1>3, <1>4, <1>5, BudgetKept

\* An attempt is counted by the limiter, or one of those let past it is over.
LEMMA HitBudget ==
  ASSUME Inv1, Inv4, NEW t \in Threads, Hit(t), key[t] = "login"
  PROVE  Inv4'
<1> DEFINE b == bucket["login"]
           c == bucket'["login"]
<1>1. PICK l \in 0 .. lag[t] : c = Recorded(b, l)
  BY DEF Hit, Inv1, TypeOK, Keys
<1>2. l \in 0 .. MaxLag /\ l \in Nat /\ l \in Ages
  BY DEF Inv1, TypeOK, Ages, OldAge
<1>3. b \in Seq(Ages) /\ Len(b) \in Nat
  BY DEF Inv1, TypeOK, Ages, Keys
<1> DEFINE p == Pruned(b, l)
<1>4. p \in Seq(Ages) /\ Len(p) <= Len(b) /\ Len(p) \in Nat
  BY <1>2, <1>3, PrunedBucket
<1>5. c = IF Full(p) THEN p ELSE Append(p, l)
  BY <1>1 DEF Recorded
<1>6. Admitted' = Admitted \ {t} /\ t \in Admitted
  <2>1. step[t] = "hit" /\ step' = [step EXCEPT ![t] = "verify"] /\ key' = key
    BY DEF Hit, Goto
  <2>2. QED
    BY <2>1 DEF Admitted, Inv1, TypeOK
<1> DEFINE n == Cardinality(Admitted)
<1>7. n \in Nat /\ n <= Workers /\ Cardinality(Admitted') = n - 1 /\ n >= 1
  <2>1. IsFiniteSet(Admitted) /\ Cardinality(Admitted) \in Nat /\ Cardinality(Admitted) <= Workers
    BY AdmittedAre DEF Admitted
  <2>2. Cardinality(Admitted') = Cardinality(Admitted) - 1
    BY <1>6, <2>1, FS_RemoveElement
  <2>3. Cardinality(Admitted) # 0
    BY <1>6, <2>1, FS_EmptySet
  <2>4. QED
    BY <2>1, <2>2, <2>3
<1> DEFINE v == IF Full(b) THEN n ELSE 0
           w == IF Full(c) THEN Cardinality(Admitted') ELSE 0
<1>8. v < Workers /\ \A a \in 0 .. Window - MaxLag : tries[a] + v <= Allowed(b, a)
  BY DEF Inv4
<1>9. Inv4' <=> /\ w < Workers
                /\ \A a \in 0 .. Window - MaxLag : tries'[a] + w <= Allowed(c, a)
  BY DEF Inv4
<1>10. Full(p) => Full(b)
  BY <1>3, <1>4 DEF Full
<1>11. w \in Nat /\ w <= n - 1 /\ v \in Nat /\ (Full(b) => v = n)
  BY <1>7
<1> HIDE DEF b, c, p, n, v, w
<1>12. w < Workers
  BY <1>7, <1>11, WorkersAre
<1>13. ASSUME NEW a \in 0 .. Window - MaxLag
       PROVE  tries'[a] + w <= Allowed(c, a)
  <2>1. a \in Nat /\ a + MaxLag <= Window /\ a \in 0 .. Window
    OBVIOUS
  <2>2. tries'[a] = tries[a] + 1 /\ tries[a] \in Nat
    BY <2>1 DEF Hit, Inv1, TypeOK
  <2>3. /\ Allowed(b, a) \in Int /\ Allowed(p, a) \in Int
        /\ Allowed(p, a) >= Allowed(b, a)
    BY <1>2, <1>3, <2>1, PrunedAllows DEF p
  <2>4. tries[a] + v <= Allowed(b, a)
    BY <1>8
  <2>5. CASE Full(p)
    <3>1. v = n /\ c = p
      BY <1>5, <1>10, <1>11, <2>5
    <3>2. QED
      BY <1>7, <1>11, <2>2, <2>3, <2>4, <3>1
  <2>6. CASE ~ Full(p)
    <3>1. Allowed(c, a) = Allowed(p, a) + Workers
      BY <1>2, <1>4, <1>5, <2>1, <2>6, AppendAllows
    <3>2. QED
      BY <1>7, <1>11, <2>2, <2>3, <2>4, <3>1, WorkersAre
  <2>7. QED
    BY <2>5, <2>6
<1>14. QED
  BY <1>9, <1>12, <1>13

\* One less than there are threads may always have found room before.
LEMMA AlwaysAllowed ==
  ASSUME NEW b \in Seq(Ages), NEW age \in Nat
  PROVE  Allowed(b, age) \in Int /\ Allowed(b, age) >= Workers - 1
<1>1. age + MaxLag \in Nat
  OBVIOUS
<1>2. Cardinality(Young(b, age + MaxLag)) \in Nat
  BY <1>1, YoungEntries
<1>3. Cardinality(Young(b, age + MaxLag)) <= Cardinality(Young(b, age + MaxLag))
  BY <1>2
<1>4. QED
  BY <1>3, MoreIsAllowed

\* The limiter is empty.
LEMMA EmptyBudget ==
  ASSUME bucket'["login"] = <<>>, tries' = NoTries
  PROVE  Inv4'
<1>1. <<>> \in Seq(Ages) /\ ~ Full(<<>>)
  BY DEF Full
<1>2. ASSUME NEW a \in 0 .. Window - MaxLag
      PROVE  tries'[a] = 0 /\ Allowed(<<>>, a) \in Int /\ Allowed(<<>>, a) >= 0
  <2>1. a \in Nat /\ a \in 0 .. Window
    OBVIOUS
  <2>2. tries'[a] = 0
    BY <2>1 DEF NoTries
  <2>4. Allowed(<<>>, a) \in Int /\ Allowed(<<>>, a) >= Workers - 1
    BY <1>1, <2>1, AlwaysAllowed
  <2>5. QED
    BY <2>2, <2>4, WorkersAre
<1>3. QED
  BY <1>1, <1>2, WorkersAre DEF Inv4

\* What was let through in `a' ticks is, a tick later, what was in `a + 1'.
LEMMA TickBudget ==
  ASSUME Inv1, Inv4, Tick
  PROVE  Inv4'
<1> DEFINE b == bucket["login"]
           c == bucket'["login"]
           v == IF Full(b) THEN Cardinality(Admitted) ELSE 0
<1>1. b \in Seq(Ages) /\ Len(b) \in Nat /\ DOMAIN b = 1 .. Len(b)
  BY DEF Inv1, TypeOK, Ages, Keys
<1>2. c = [i \in 1 .. Len(b) |-> Older(b[i])]
  BY <1>1 DEF Tick, Keys
<1>3. \A i \in 1 .. Len(b) : b[i] \in 0 .. OldAge /\ Older(b[i]) \in 0 .. OldAge
  BY <1>1 DEF Older, Ages, OldAge
<1>4. c \in Seq(Ages) /\ Len(c) = Len(b) /\ DOMAIN c = DOMAIN b
  BY <1>1, <1>2, <1>3 DEF Ages
<1>5. (Full(c) <=> Full(b)) /\ Admitted' = Admitted
  BY <1>4 DEF Full, Tick, Admitted
<1>6. v < Workers /\ \A a \in 0 .. Window - MaxLag : tries[a] + v <= Allowed(b, a)
  BY DEF Inv4
<1>7. Inv4' <=> /\ v < Workers
                /\ \A a \in 0 .. Window - MaxLag : tries'[a] + v <= Allowed(c, a)
  BY <1>5 DEF Inv4
<1>8. v \in Nat
  BY AdmittedAre DEF Admitted
<1> HIDE DEF b, c, v
<1>9. ASSUME NEW a \in 0 .. Window - MaxLag
      PROVE  tries'[a] + v <= Allowed(c, a)
  <2>1. a \in Nat /\ a \in 0 .. Window
    OBVIOUS
  <2>2. tries'[a] = IF a = 0 THEN 0 ELSE tries[a - 1]
    BY <2>1 DEF Tick
  <2>3. CASE a = 0
    <3>1. tries'[a] = 0
      BY <2>2, <2>3
    <3>3. Allowed(c, a) \in Int /\ Allowed(c, a) >= Workers - 1
      BY <1>4, <2>1, AlwaysAllowed
    <3>4. QED
      BY <1>6, <1>8, <3>1, <3>3, WorkersAre
  <2>4. CASE a # 0
    <3> DEFINE z == a - 1
    <3>1. z \in 0 .. Window - MaxLag /\ z \in Nat /\ a = z + 1 /\ z \in 0 .. Window
      BY <2>1, <2>4
    <3>2. tries'[a] = tries[z] /\ tries[z] \in Nat
      BY <2>2, <2>4, <3>1 DEF Inv1, TypeOK
    <3> HIDE DEF z
    <3>3. tries[z] + v <= Allowed(b, z)
      BY <1>6, <3>1
    <3>4. Young(b, z + MaxLag) \subseteq Young(c, a + MaxLag)
      <4>1. \A i \in 1 .. Len(b) : b[i] <= z + MaxLag => Older(b[i]) <= a + MaxLag
        BY <1>3, <3>1 DEF Older, OldAge
      <4>2. QED
        BY <1>1, <1>2, <4>1 DEF Young
    <3>5. IsFiniteSet(Young(c, a + MaxLag))
      <4>1. a + MaxLag \in Nat
        BY <2>1
      <4>2. QED
        BY <1>4, <4>1, YoungEntries
    <3>6. Cardinality(Young(b, z + MaxLag)) <= Cardinality(Young(c, a + MaxLag))
      BY <3>4, <3>5, FS_Subset
    <3>7. /\ Allowed(b, z) \in Int /\ Allowed(c, a) \in Int
          /\ Allowed(c, a) >= Allowed(b, z)
      BY <1>1, <1>4, <2>1, <3>1, <3>6, MoreIsAllowed
    <3>8. QED
      BY <1>8, <3>2, <3>3, <3>7
  <2>5. QED
    BY <2>3, <2>4
<1>10. QED
  BY <1>6, <1>7, <1>9

LEMMA StepInv4 == Inv1 /\ Inv4 /\ [Next]_vars => Inv4'
<1> SUFFICES ASSUME Inv1, Inv4, [Next]_vars PROVE Inv4'
  OBVIOUS
<1>0. /\ bucket \in [Keys -> Seq(Ages)] /\ "login" \in Keys
      /\ step \in [Threads -> Steps] /\ key \in [Threads -> Keys]
  BY DEF Inv1, TypeOK, Ages, Keys
\* A step that the limiter of the logins does not see.
<1>1. ASSUME bucket'["login"] = bucket["login"], tries' = tries, Admitted' = Admitted PROVE Inv4'
  BY <1>1, PrunedBudget
<1>2. ASSUME NEW t \in Threads, NEW p \in Passwords, Login(t, p) \/ Reset(t, p) PROVE Inv4'
  <2>1. Admitted' = Admitted
    BY <1>0, <1>2 DEF Login, Reset, Goto, Admitted
  <2>2. QED
    BY <1>1, <1>2, <2>1 DEF Login, Reset, limiter
<1>3. ASSUME NEW t \in Threads, Forgot(t) PROVE Inv4'
  <2>1. Admitted' = Admitted
    BY <1>0, <1>3 DEF Forgot, Goto, Admitted
  <2>2. QED
    BY <1>1, <1>3, <2>1 DEF Forgot, limiter
<1>4. ASSUME NEW t \in Threads, Verify(t) \/ Mail(t) \/ Truncate(t) \/ Write(t) PROVE Inv4'
  <2>1. step[t] # "hit" /\ step'[t] # "hit" /\ \A u \in Threads \ {t} : step'[u] = step[u] /\ key'[u] = key[u]
    <3>1. Verify(t) => \E s \in {"opened", "fallback", "idle"} : Goto(t, s) /\ key' = key
      BY DEF Verify, Verdict
    <3>2. Mail(t) \/ Write(t) => Return(t)
      BY DEF Mail, Write
    <3>3. Truncate(t) => Goto(t, "write") /\ key' = key
      BY DEF Truncate
    <3>4. step[t] # "hit"
      BY <1>4 DEF Verify, Mail, Truncate, Write
    <3>5. QED
      BY <1>0, <1>4, <3>1, <3>2, <3>3, <3>4 DEF Goto, Return
  <2>2. Admitted' = Admitted
    BY <2>1 DEF Admitted
  <2>3. QED
    BY <1>1, <1>4, <2>2 DEF Verify, Mail, Truncate, Write, limiter
<1>5. ASSUME NEW t \in Threads, Admit(t) PROVE Inv4'
  <2>1. PICK l \in 0 .. lag[t] :
          /\ ~ Full(Pruned(bucket[key[t]], l))
          /\ bucket' = [bucket EXCEPT ![key[t]] = Pruned(bucket[key[t]], l)]
    BY <1>5 DEF Admit
  <2>2. l \in Nat /\ tries' = tries
    BY <1>5 DEF Admit, Inv1, TypeOK
  <2>3. CASE key[t] = "login"
    <3>1. bucket'["login"] = Pruned(bucket["login"], l) /\ ~ Full(bucket'["login"])
      BY <1>0, <2>1, <2>3
    <3>2. QED
      BY <2>2, <3>1, PrunedBudget
  <2>4. CASE key[t] # "login"
    <3>1. bucket'["login"] = bucket["login"]
      BY <1>0, <2>1, <2>4
    <3>2. Admitted' = Admitted
      BY <1>0, <1>5, <2>4 DEF Admit, Goto, Admitted
    <3>3. QED
      BY <1>1, <2>2, <3>1, <3>2
  <2>5. QED
    BY <2>3, <2>4
<1>6. ASSUME NEW t \in Threads, Refuse(t) PROVE Inv4'
  <2>1. PICK l \in 0 .. lag[t] : bucket' = [bucket EXCEPT ![key[t]] = Pruned(bucket[key[t]], l)]
    BY <1>6 DEF Refuse
  <2>2. l \in Nat /\ tries' = tries
    BY <1>6 DEF Refuse, Inv1, TypeOK
  <2>3. Admitted' = Admitted
    <3>1. step[t] = "check" /\ Return(t)
      BY <1>6 DEF Refuse
    <3>2. QED
      BY <1>0, <3>1 DEF Return, Goto, Admitted
  <2>4. bucket'["login"] \in {bucket["login"], Pruned(bucket["login"], l)}
    BY <1>0, <2>1
  <2>5. QED
    BY <2>2, <2>3, <2>4, PrunedBudget
<1>7. ASSUME NEW t \in Threads, Hit(t) PROVE Inv4'
  <2>1. CASE key[t] = "login"
    BY <1>7, <2>1, HitBudget
  <2>2. CASE key[t] # "login"
    <3>1. bucket'["login"] = bucket["login"] /\ tries' = tries
      BY <1>0, <1>7, <2>2 DEF Hit
    <3>2. Admitted' = Admitted
      BY <1>0, <1>7, <2>2 DEF Hit, Goto, Admitted
    <3>3. QED
      BY <1>1, <3>1, <3>2
  <2>3. QED
    BY <2>1, <2>2
<1>8. ASSUME NEW t \in Threads, Welcome(t) PROVE Inv4'
  <2>1. bucket'["login"] = <<>> /\ tries' = NoTries
    BY <1>0, <1>8 DEF Welcome
  <2>2. QED
    BY <2>1, EmptyBudget
<1>9. CASE Restart
  <2>1. bucket'["login"] = <<>> /\ tries' = NoTries
    BY <1>0, <1>9 DEF Restart
  <2>2. QED
    BY <2>1, EmptyBudget
<1>10. CASE Tick
  BY <1>10, TickBudget
<1>11. CASE UNCHANGED vars
  BY <1>1, <1>11 DEF vars, limiter, calls, Admitted
<1>12. QED
  BY <1>2, <1>3, <1>4, <1>5, <1>6, <1>7, <1>8, <1>9, <1>10, <1>11 DEF Next, Serve

LEMMA InitInv4 == Init => Inv4
<1> SUFFICES ASSUME Init PROVE Inv4
  OBVIOUS
<1>1. bucket["login"] = <<>> /\ tries = NoTries
  BY DEF Init, Keys
<1>2. <<>> \in Seq(Ages) /\ ~ Full(<<>>)
  BY DEF Full
<1>3. ASSUME NEW a \in 0 .. Window - MaxLag
      PROVE  tries[a] = 0 /\ Allowed(<<>>, a) \in Int /\ Allowed(<<>>, a) >= 0
  <2>1. a \in Nat /\ a \in 0 .. Window /\ a + MaxLag \in Nat
    OBVIOUS
  <2>2. tries[a] = 0
    BY <1>1, <2>1 DEF NoTries
  <2>4. Allowed(<<>>, a) \in Int /\ Allowed(<<>>, a) >= Workers - 1
    BY <1>2, <2>1, AlwaysAllowed
  <2>5. QED
    BY <2>2, <2>4, WorkersAre
<1>4. QED
  BY <1>1, <1>2, <1>3, WorkersAre DEF Inv4

\* However many logins pass check() before hit() counts one, and however stale
\* their clocks are: in a window, less the staleness, no more than the limit for
\* every worker thread are let through, and one less than that many again.
THEOREM AttemptsBounded == Spec => []AttemptsAreBounded
<1>1. Inv1 /\ Inv4 => AttemptsAreBounded
  <2> SUFFICES ASSUME Inv1, Inv4, MaxLag <= Window
               PROVE  tries[Window - MaxLag] <= MaxAttempts * Workers + Workers - 1
    BY DEF AttemptsAreBounded, Workers
  <2> DEFINE b == bucket["login"]
             a == Window - MaxLag
             y == Cardinality(Young(b, Window))
  <2>1. b \in Seq(Ages) /\ Len(b) <= MaxAttempts /\ Len(b) \in Nat
    BY DEF Inv1, TypeOK, Ages, Keys
  <2>2. y \in Nat /\ y <= MaxAttempts
    <3>1. y \in Nat /\ y <= Len(b)
      BY <2>1, YoungEntries
    <3>2. QED
      BY <2>1, <3>1
  <2>3. a \in 0 .. Window - MaxLag /\ a + MaxLag = Window /\ a \in 0 .. Window
    OBVIOUS
  <2>4. Allowed(b, a) = Workers * y + Workers - 1
    BY <2>3 DEF Allowed
  <2>5. tries[a] \in Nat /\ tries[a] <= Allowed(b, a)
    <3>1. tries[a] \in Nat
      BY <2>3 DEF Inv1, TypeOK
    <3>2. Cardinality(Admitted) \in Nat
      BY AdmittedAre DEF Admitted
    <3>3. PICK w \in Nat : tries[a] + w <= Allowed(b, a)
      BY <2>3, <3>2 DEF Inv4
    <3> HIDE DEF y
    <3>4. Workers * y \in Nat /\ Workers \in Nat
      BY <2>2, WorkersAre
    <3>5. QED
      BY <2>4, <3>1, <3>3, <3>4
  <2> HIDE DEF y
  <2>6. Workers * y \in Nat /\ Workers * y <= Workers * MaxAttempts /\ Workers \in Nat
    BY <2>2, Products, WorkersAre
  <2>7. Workers * MaxAttempts = MaxAttempts * Workers /\ MaxAttempts * Workers \in Nat
    BY <2>6
  <2>8. QED
    BY <2>4, <2>5, <2>6, <2>7
<1>2. QED
  BY <1>1, InitInv1, StepInv1, InitInv4, StepInv4, PTL DEF Spec
=============================================================================
