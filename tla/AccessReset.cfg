SPECIFICATION Spec
CONSTANTS
  Threads = {t1, t2}
  Passwords = {env, new, spaced}
  EnvPassword = env
  Spaced = {spaced}
  Squeezed = squeezed
  NoFile = NoFile
  TornFile = TornFile
  Nobody = Nobody
  Modes = {"env", "ldap"}
  MaxAttempts = 1
  Window = 2
  TokenTtl = 0
  MaxLag = 1
INVARIANT ConfirmedPasswordOpens
