\* The index by wallet after an eviction made by the same wallet.
\* The code does not keep these: leave one in to see how.
SPECIFICATION Spec
CONSTANTS
  Nonces = {n1, n2, n3}
  Wallets = {w1, w2}
  Threads = {t1}
  Domains = {d1}
  NoChallenge = NoChallenge
  Nobody = Nobody
  Garbage = Garbage
  MaxChallenges = 1
  MaxPerWallet = 2
  TTL = 1
  Skew = 0
  MaxClock = 1
  MaxBack = 0
SYMMETRY Interchangeable
\* The threads stop when the nonces have run out: the bound, not the code.
CHECK_DEADLOCK FALSE
INVARIANTS
  IndexIsBounded
  LiveForCountsOutstanding
