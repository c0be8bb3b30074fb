\* The store at its limits: three nonces for a store of two, one per wallet.
SPECIFICATION Spec
CONSTANTS
  Nonces = {n1, n2, n3}
  Wallets = {w1, w2}
  Threads = {t1, t2}
  Domains = {d1}
  NoChallenge = NoChallenge
  Nobody = Nobody
  Garbage = Garbage
  MaxChallenges = 2
  MaxPerWallet = 1
  TTL = 1
  Skew = 0
  MaxClock = 2
  MaxBack = 0
SYMMETRY Interchangeable
\* The threads stop when the nonces have run out: the bound, not the code.
CHECK_DEADLOCK FALSE
INVARIANTS
  StoreIsBounded
PROPERTIES
  LimitsAreJust
