\* Three-point bars, at most four rounds, hits of one and three; FairSpec, which
\* the safety properties need not, lets the same run decide every match.
SPECIFICATION FairSpec
CONSTANTS
  StartingBP = 3
  MaxRounds = 4
  MaxSouls = 2
  MinDamage = 1
  BurnDamage = 1
  BurnDuration = 2
  ChillDuration = 2
  Hits = {1, 3}
  Arenas <- MCArenas
  Undecided = Undecided
\* A decided match is over.
CHECK_DEADLOCK FALSE
INVARIANTS
  VerdictMatchesBars
  PreviousTrailsOneRound
  BurnLastsAsDesigned
  NoFirstMoverAdvantage
PROPERTY
  DuelEnds
