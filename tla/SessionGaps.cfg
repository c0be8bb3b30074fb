\* Two threads, a store of one: racing logins outgrow any slack.
\* The code does not keep this.
SPECIFICATION Spec
CONSTANTS
  Tokens = {s1, s2, s3, s4}
  Wallets = {alice}
  TTL = 1
  MaxTime = 0
  Threads = {t1, t2}
  MaxSessions = 1
INVARIANT
  OvershootIsBounded
