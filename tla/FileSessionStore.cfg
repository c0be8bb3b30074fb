\* One process that may die or fail at any step: the command line, one at a time.
SPECIFICATION Spec
CONSTANTS
  Tokens = {s1, s2, s3}
  Wallets = {alice, bob}
  TTL = 1
  MaxTime = 2
  Processes = {p1}
  MaxSessions = 2
  Absent = Absent
  Empty = Empty
  Garbled = Garbled
\* Tokens are used once, so a small instance runs out of them.
CHECK_DEADLOCK FALSE
SYMMETRY Interchangeable
INVARIANTS
  WritesAreAtomic
  FileIsBounded
PROPERTY
  ImplementsLives
