-------------------------------- MODULE Access --------------------------------
(***************************************************************************)
(* Entering the console: the login form (app/main login_submit), the       *)
(* sliding-window limiter before it (app/core/rate_limit), the check of    *)
(* the password (app/core/console_auth, console_credentials) and the       *)
(* recovery of a forgotten password by mail (app/core/password_reset).     *)
(*                                                                         *)
(* Requests run on worker threads.  The limiter's check and hit are two    *)
(* calls, each under the limiter's lock and each with a clock read before  *)
(* the lock is taken.  The password file is emptied and then written; the  *)
(* process may stop in between, and a login may read it in between.        *)
(*                                                                         *)
(* Time is kept as ages: a tick makes everything one unit older, and what  *)
(* is too old to matter stays at one largest age.  A clock read n ticks    *)
(* ago makes an entry look n units younger.                                *)
(*                                                                         *)
(* One client address is modelled (other addresses have buckets of their   *)
(* own) and one user name.  Forms refused by their length or by a second   *)
(* field that differs change nothing and are left out.                     *)
(***************************************************************************)
EXTENDS Integers, Sequences, FiniteSets, FiniteSetsExt

CONSTANTS
  Threads,     \* worker threads that serve requests
  Passwords,   \* passwords of twelve characters or more
  EnvPassword, \* ADMIN_PASSWORD of the settings
  Spaced,      \* the passwords that contain white space
  Squeezed,    \* such a password without its white space
  NoFile,      \* there is no data/admin_password.json
  TornFile,    \* the file is there and cannot be parsed
  Nobody,      \* no password
  Modes,       \* CONSOLE_AUTH_MODE
  MaxAttempts, \* LOGIN_RATE_LIMIT, 5 in the code
  Window,      \* LOGIN_RATE_WINDOW_SECONDS, 60 in the code
  TokenTtl,    \* PASSWORD_RESET_TTL_SECONDS, 3600 in the code
  MaxLag       \* bound: ticks between reading the clock and taking the lock

ASSUME ThreadAssumption == IsFiniteSet(Threads) /\ Threads # {}
ASSUME PasswordAssumption ==
  /\ EnvPassword \in Passwords /\ Spaced \subseteq Passwords
  /\ {Squeezed, NoFile, TornFile, Nobody} \cap Passwords = {}
  /\ NoFile # TornFile
ASSUME ModeAssumption == Modes \subseteq {"env", "ldap"} /\ Modes # {}
ASSUME LimitAssumption ==
  /\ MaxAttempts \in Nat \ {0} /\ Window \in Nat \ {0}
  /\ TokenTtl \in Nat /\ MaxLag \in Nat

VARIABLES
  bucket,    \* _hits of the two limiters, an entry being the age of a hit
  file,      \* data/admin_password.json: a password, NoFile or TornFile
  tokens,    \* ages of the reset tokens mailed, while they are valid
  step,      \* the next step of the call a thread serves
  key,       \* the limiter the call is subject to
  pw,        \* the password the call was given
  lag,       \* ticks since the call read the clock
  tries,     \* for a number of ticks up to a window: the logins let through
             \* in that time, since the login limiter was last emptied
  promise,   \* ticks left of the shortest Retry-After the login limiter gave
             \* since its last hit, -1 if there is none
  confirmed, \* the password of the last reset reported as done
  cut        \* the last write of the password file was cut short

limiter == <<bucket, tries, promise>>
secrets == <<file, tokens, confirmed, cut>>
calls   == <<step, key, pw, lag>>
vars    == <<limiter, secrets, calls>>

Keys == {"login", "forgot"}
Steps == {"idle", "check", "hit", "verify", "opened", "fallback", "mail",
          "truncate", "write"}
OldAge == Window + MaxLag + 1
NoTries == [a \in 0 .. Window |-> 0]

-----------------------------------------------------------------------------
(***************************************************************************)
(* SlidingWindowRateLimiter                                                *)
(***************************************************************************)

\* Mutant: entries never leave the bucket.
BadPruned(b, l) == b

\* _prune drops entries from the left until one is inside the window.
Pruned(b, l) ==
  LET fresh == {i \in DOMAIN b : b[i] <= Window + l}
  IN  IF fresh = {} THEN <<>> ELSE SubSeq(b, Min(fresh), Len(b))

\* Mutant: one attempt too many.
BadFull(b) == Len(b) > MaxAttempts

Full(b) == Len(b) >= MaxAttempts

\* Mutant: the wait ends when the oldest entry is exactly a window old.
BadRetryAfter(b, l) == Max({1, Window - (b[1] - l)})

RetryAfter(b, l) == Max({1, Window - (b[1] - l) + 1})

\* hit(): the bucket is pruned, and the attempt recorded unless it is full.
Recorded(b, l) ==
  LET p == Pruned(b, l) IN IF Full(p) THEN p ELSE Append(p, l)

-----------------------------------------------------------------------------
(***************************************************************************)
(* Calls                                                                   *)
(***************************************************************************)

NoCalls ==
  /\ step' = [t \in Threads |-> "idle"]
  /\ key' = [t \in Threads |-> "login"]
  /\ pw' = [t \in Threads |-> Nobody]
  /\ lag' = [t \in Threads |-> 0]

Goto(t, s) == step' = [step EXCEPT ![t] = s]

\* The call of t is over.
Return(t) ==
  /\ Goto(t, "idle")
  /\ key' = [key EXCEPT ![t] = "login"]
  /\ pw' = [pw EXCEPT ![t] = Nobody]
  /\ lag' = [lag EXCEPT ![t] = 0]

\* login_submit removes all white space from what was typed.
Normalized(p) == IF p \in Spaced THEN Squeezed ELSE p

Init ==
  /\ bucket = [k \in Keys |-> <<>>]
  /\ file = NoFile
  /\ tokens = {}
  /\ step = [t \in Threads |-> "idle"]
  /\ key = [t \in Threads |-> "login"]
  /\ pw = [t \in Threads |-> Nobody]
  /\ lag = [t \in Threads |-> 0]
  /\ tries = NoTries
  /\ promise = -1
  /\ confirmed = Nobody
  /\ cut = FALSE

\* POST /login with password p
Login(t, p) ==
  /\ step[t] = "idle"
  /\ Goto(t, "check")
  /\ pw' = [pw EXCEPT ![t] = Normalized(p)]
  /\ UNCHANGED <<limiter, secrets, key, lag>>

\* POST /forgot-password
Forgot(t) ==
  /\ step[t] = "idle"
  /\ Goto(t, "check")
  /\ key' = [key EXCEPT ![t] = "forgot"]
  /\ UNCHANGED <<limiter, secrets, pw, lag>>

\* check() finds room: the call goes on to hit(), which reads the clock anew.
Admit(t) ==
  /\ step[t] = "check"
  /\ \E l \in 0 .. lag[t] :
       LET b == Pruned(bucket[key[t]], l)
       IN  /\ ~ Full(b)
           /\ bucket' = [bucket EXCEPT ![key[t]] = b]
  /\ Goto(t, "hit")
  /\ lag' = [lag EXCEPT ![t] = 0]
  /\ UNCHANGED <<tries, promise, secrets, key, pw>>

\* check() finds the bucket full: 429 with a Retry-After.
Refuse(t) ==
  /\ step[t] = "check"
  /\ \E l \in 0 .. lag[t] :
       LET b == Pruned(bucket[key[t]], l)
           r == RetryAfter(b, l)
       IN  /\ Full(b)
           /\ bucket' = [bucket EXCEPT ![key[t]] = b]
           /\ promise' = IF key[t] = "login" /\ (promise = -1 \/ r < promise)
                         THEN r ELSE promise
  /\ Return(t)
  /\ UNCHANGED <<tries, secrets>>

\* hit() counts the attempt if it can; its answer is not looked at.
Hit(t) ==
  /\ step[t] = "hit"
  /\ \E l \in 0 .. lag[t] :
       bucket' = [bucket EXCEPT ![key[t]] = Recorded(@, l)]
  /\ IF key[t] = "login"
     THEN /\ tries' = [a \in 0 .. Window |-> tries[a] + 1]
          /\ promise' = -1
          /\ Goto(t, "verify")
     ELSE /\ UNCHANGED <<tries, promise>>
          /\ Goto(t, "mail")
  /\ lag' = [lag EXCEPT ![t] = 0]
  /\ UNCHANGED <<secrets, key, pw>>

\* Mutant: the environment's password stays good beside a stored one.
BadVerdict(p) ==
  IF p = file THEN "opened" ELSE IF p = EnvPassword THEN "fallback" ELSE "no"

\* verify_env_admin_password: a stored password replaces the environment's; a
\* file that cannot be read counts as none.
Verdict(p) ==
  IF file \in Passwords
  THEN IF p = file THEN "opened" ELSE "no"
  ELSE IF p = EnvPassword THEN "fallback" ELSE "no"

\* authenticate_console: the environment's password first, then a bind.
Verify(t) ==
  /\ step[t] = "verify"
  /\ LET v == IF "env" \in Modes THEN Verdict(pw[t]) ELSE "no"
     IN  \/ v # "no" /\ Goto(t, v)
         \/ v = "no" /\ "ldap" \in Modes /\ Goto(t, "opened")
         \/ v = "no" /\ Goto(t, "idle")
  /\ pw' = [pw EXCEPT ![t] = Nobody]
  /\ UNCHANGED <<limiter, secrets, key, lag>>

\* A login that succeeded empties the bucket of its address.
Welcome(t) ==
  /\ step[t] \in {"opened", "fallback"}
  /\ bucket' = [bucket EXCEPT !["login"] = <<>>]
  /\ tries' = NoTries
  /\ promise' = -1
  /\ Return(t)
  /\ UNCHANGED secrets

\* send_email: the mail leaves, with an answer or without, or it does not.
SendEmail == tokens' \in {tokens, tokens \cup {0}}

\* request_password_reset: a mail only to the address of the settings, and only
\* if the console knows a password of its own.
Mail(t) ==
  /\ step[t] = "mail"
  /\ IF "env" \in Modes THEN SendEmail ELSE UNCHANGED tokens
  /\ Return(t)
  /\ UNCHANGED <<limiter, file, confirmed, cut>>

\* validate_new_password compares with the password of the settings.
Acceptable(p) == p # EnvPassword

\* POST /reset-password: the token is valid, whether it was used before or
\* not, and the password is acceptable.
Reset(t, p) ==
  /\ step[t] = "idle"
  /\ tokens # {}
  /\ Acceptable(p)
  /\ Goto(t, "truncate")
  /\ pw' = [pw EXCEPT ![t] = p]
  /\ UNCHANGED <<limiter, secrets, key, lag>>

\* write_text opens the file, which empties it ...
Truncate(t) ==
  /\ step[t] = "truncate"
  /\ file' = TornFile
  /\ Goto(t, "write")
  /\ UNCHANGED <<limiter, tokens, confirmed, cut, key, pw, lag>>

\* ... and then writes the salted hash, all of which have one length.
Write(t) ==
  /\ step[t] = "write"
  /\ file' = pw[t]
  /\ confirmed' = pw[t]
  /\ cut' = FALSE
  /\ Return(t)
  /\ UNCHANGED <<limiter, tokens>>

-----------------------------------------------------------------------------
(***************************************************************************)
(* Time and restarts                                                       *)
(***************************************************************************)

\* verify_reset_token: a token is good until it is older than its ttl.
StillValid(ages) == {a + 1 : a \in {b \in ages : b < TokenTtl}}

Older(a) == IF a < OldAge THEN a + 1 ELSE a

Tick ==
  /\ \A t \in Threads : step[t] \in {"check", "hit"} => lag[t] < MaxLag
  /\ bucket' = [k \in Keys |-> [i \in DOMAIN bucket[k] |-> Older(bucket[k][i])]]
  /\ tokens' = StillValid(tokens)
  /\ lag' = [t \in Threads |->
               IF step[t] \in {"check", "hit"} THEN lag[t] + 1 ELSE lag[t]]
  /\ tries' = [a \in 0 .. Window |-> IF a = 0 THEN 0 ELSE tries[a - 1]]
  /\ promise' = IF promise > 0 THEN promise - 1 ELSE promise
  /\ UNCHANGED <<file, confirmed, cut, step, key, pw>>

\* The process stops and starts again: the limiters are new, the password
\* file is as it was, and mailed tokens are still good.
Restart ==
  /\ bucket' = [k \in Keys |-> <<>>]
  /\ tries' = NoTries
  /\ promise' = -1
  /\ cut' = (cut \/ \E t \in Threads : step[t] = "write")
  /\ NoCalls
  /\ UNCHANGED <<file, tokens, confirmed>>

Serve(t) ==
  \/ Admit(t) \/ Refuse(t) \/ Hit(t) \/ Verify(t) \/ Welcome(t) \/ Mail(t)
  \/ Truncate(t) \/ Write(t)

Next ==
  \/ \E t \in Threads :
       \/ \E p \in Passwords : Login(t, p) \/ Reset(t, p)
       \/ Forgot(t)
       \/ Serve(t)
  \/ Tick
  \/ Restart

Spec == Init /\ [][Next]_vars

\* Threads run and time goes on.
FairSpec == Spec /\ WF_vars(Tick) /\ \A t \in Threads : WF_vars(Serve(t))

-----------------------------------------------------------------------------
(***************************************************************************)
(* Properties                                                              *)
(***************************************************************************)

\* Type invariant of the limiters, the password file and the calls; a bucket
\* never holds more than max_attempts entries (rate_limit.hit).
TypeOK ==
  /\ bucket \in [Keys -> Seq(0 .. OldAge)]
  /\ \A k \in Keys : Len(bucket[k]) <= MaxAttempts
  /\ file \in Passwords \cup {NoFile, TornFile}
  /\ tokens \subseteq 0 .. TokenTtl
  /\ step \in [Threads -> Steps]
  /\ key \in [Threads -> Keys]
  /\ pw \in [Threads -> Passwords \cup {Squeezed, Nobody}]
  /\ lag \in [Threads -> 0 .. MaxLag]
  /\ tries \in [0 .. Window -> Nat]
  /\ promise \in Int
  /\ confirmed \in Passwords \cup {Nobody}
  /\ cut \in BOOLEAN

\* However many logins pass check() before any of them is counted by hit(),
\* and however stale their clocks are, the attempts let through in a window
\* (less the largest staleness of a clock) stay below a bound that the number
\* of worker threads sets (login_submit: check, then hit, whose answer is
\* dropped).
AttemptsAreBounded ==
  LET workers == Cardinality(Threads)
  IN  MaxLag <= Window =>
        tries[Window - MaxLag] <= MaxAttempts * workers + workers - 1

\* A client that was told to wait finds room after that time, unless another
\* attempt was counted meanwhile (rate_limit.check, retry_after).
RetryAfterSuffices ==
  promise = 0 => ~ Full(Pruned(bucket["login"], 0))

\* Once a reset was reported as done, the password of the settings opens the
\* console only while the file is being written again, or after such a write
\* was cut short (_read_store returns None and verify falls back).
OldPasswordIsOut ==
  [][\A t \in Threads :
       step[t] = "verify" /\ step'[t] = "fallback" =>
         \/ confirmed = Nobody
         \/ cut
         \/ \E u \in Threads : step[u] = "write"]_vars

\* No sequence of attempts, refused ones included, locks an address out for
\* good: again and again there is room (the window slides).
RoomRecurs == []<>(~ Full(Pruned(bucket["login"], 0)))

\* "Your password has been updated. You can sign in now." (complete_password_
\* reset): the password a reset stored opens the console when it is typed in.
ConfirmedPasswordOpens ==
  file \in Passwords /\ file = confirmed => Verdict(Normalized(file)) = "opened"
=============================================================================
