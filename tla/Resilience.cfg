\* Two callers, two attempts each, a breaker that opens after two failures.
SPECIFICATION FairCallSpec
CONSTANTS
  Callers = {c1, c2}
  Threshold = 2
  Cooldown = 2
  Attempts = 2
  MaxDelay = 3
  Budget = 3
  OpTimeout = 2
  Never = Never
INVARIANTS
  OverrunIsOneOperation
PROPERTIES
  OpensOnlyOnARun
  EveryCallReturns
  RecoveryIsNoticed
