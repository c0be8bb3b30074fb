------------------------------- MODULE MCDuel -------------------------------
\* Short bars and few rounds, on arenas that cover every soul effect and hazard.
EXTENDS Duel

MCArenas ==
  { [cost |-> 1, effect |-> "mend", magnitude |-> 2, hazard |-> "burn"],
    [cost |-> 1, effect |-> "purge", magnitude |-> 1, hazard |-> "burn"],
    [cost |-> 1, effect |-> "veil", magnitude |-> 50, hazard |-> "none"],
    [cost |-> 1, effect |-> "ruin", magnitude |-> 2, hazard |-> "chill"],
    [cost |-> 2, effect |-> "rewind", magnitude |-> 0, hazard |-> "chill"] }
=============================================================================
