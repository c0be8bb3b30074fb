\* The duel of Duel.cfg with bars of four, against two sentences of the design.
\* The code does not keep these: leave one in to see how.
SPECIFICATION Spec
CONSTANTS
  StartingBP = 4
  MaxRounds = 4
  MaxSouls = 2
  MinDamage = 1
  BurnDamage = 1
  BurnDuration = 2
  ChillDuration = 2
  Hits = {1, 3}
  Arenas <- MCArenas
  Undecided = Undecided
\* A decided match is over.
CHECK_DEADLOCK FALSE
INVARIANTS
  ChillLastsAsDesigned
  DoubleKnockoutGoesToTheLeader
