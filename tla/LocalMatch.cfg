\* The numbers of balance.py and the content files, over words of 32 values.
SPECIFICATION LocalSpec
CONSTANTS
  StartingBP = 100
  MaxRounds = 30
  MaxSouls = 3
  MinDamage = 1
  BurnDamage = 4
  BurnDuration = 3
  ChillDuration = 2
  Hits <- MCHits
  Arenas <- MCArenas
  Undecided = Undecided
  Battlefields <- MCBattlefields
  Ranks <- MCRanks
  BaseDamage = 6000
  AttackPerPower <- MCAttack
  CutPerGuard <- MCCut
  ChillPenalty = 80
  StanceAdvantage = 140
  StanceDisadvantage = 68
  ElementAdvantage = 130
  ElementDisadvantage = 80
  Mask = 31
  Tape <- MCTape
  Start <- MCStart
  StatMinimum = 4
  StatMaximum = 18
  StatBudget = 30
  Lineups <- MCLineups
  Games = 2
  VarianceLow = 900
  VarianceHigh = 1100
\* The command line ends when its commands are done.
CHECK_DEADLOCK FALSE
INVARIANTS
  LocalTypeOK
  DrawnFightersAreLegal
  ReplaysExactly
  AgentsCannotPeek
