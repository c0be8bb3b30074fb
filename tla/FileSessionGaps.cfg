\* Two processes on one file with one name for the temporary.
\* The code does not keep these: leave one in to see how.
SPECIFICATION Spec
CONSTANTS
  Tokens = {s1, s2}
  Wallets = {alice}
  TTL = 1
  MaxTime = 0
  Processes = {p1, p2}
  MaxSessions = 2
  Absent = Absent
  Empty = Empty
  Garbled = Garbled
\* Tokens are used once, so a small instance runs out of them.
CHECK_DEADLOCK FALSE
SYMMETRY Interchangeable
INVARIANTS
  NeverTorn
  EndedIsNotResurrected
