\* Two threads race for two challenges of two services; the clock may go back.
SPECIFICATION Spec
CONSTANTS
  Nonces = {n1, n2}
  Wallets = {w1, w2}
  Threads = {t1, t2}
  Domains = {d1, d2}
  NoChallenge = NoChallenge
  Nobody = Nobody
  Garbage = Garbage
  MaxChallenges = 1
  MaxPerWallet = 1
  TTL = 1
  Skew = 1
  MaxClock = 2
  MaxBack = 2
SYMMETRY Interchangeable
\* The threads stop when the nonces have run out: the bound, not the code.
CHECK_DEADLOCK FALSE
INVARIANTS
  SingleUse
PROPERTIES
  OnlyTheSignerLogsIn
  ImplementsTokens
