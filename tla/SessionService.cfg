\* Two threads, four tokens of two wallets for a store of two: every interleaving of the
\* service's methods.
SPECIFICATION MCSpec
CONSTANTS
  Tokens = {s1, s2, s3, s4}
  Wallets = {alice, bob}
  TTL = 1
  MaxTime = 3
  Threads = {t1, t2}
  MaxSessions = 2
SYMMETRY Interchangeable
PROPERTIES
  ImplementsLives
  LimitIsJust
