---------------------------- MODULE MCLocalMatch ----------------------------
\* The game's own numbers and battlefields over 32-valued words.
EXTENDS LocalMatch

\* Every word once, in an order of no significance.
MCTape == [i \in 1 .. 32 |-> (i * (2 * i + 13) + 7) % 32]
MCStart == [n \in 0 .. 3 |->
  [match |-> 3 * n, hazards |-> n + 6, a |-> 5 * n + 2, b |-> 7 * n + 3, opponent |-> 2 * n + 1]]

Arena(element, bonus, chance, hazard, cost, effect, magnitude) ==
  [element |-> element, bonus |-> bonus, chance |-> chance, hazard |-> hazard,
   cost |-> cost, effect |-> effect, magnitude |-> magnitude]
BlazingRift == Arena("fire", 115, 20, "burn", 2, "purge", 12)
TideOfTrials == Arena("water", 115, 10, "chill", 2, "mend", 14)
Whisperwind == Arena("wind", 115, 0, "none", 2, "veil", 65)
Tenebris == Arena("shadow", 120, 14, "chill", 2, "ruin", 18)
Chronos == Arena("time", 115, 8, "chill", 3, "rewind", 0)
Aurora == Arena("light", 115, 6, "burn", 2, "mend", 18)
MCBattlefields == {BlazingRift, TideOfTrials, Whisperwind, Tenebris, Chronos, Aurora}
MCArenas == {Rules(b) : b \in MCBattlefields}

MCRanks == << [points |-> 0, percent |-> 100], [points |-> 150, percent |-> 102],
              [points |-> 300, percent |-> 105], [points |-> 500, percent |-> 108],
              [points |-> 750, percent |-> 111], [points |-> 1000, percent |-> 114],
              [points |-> 1500, percent |-> 118] >>

MCHits == 1 .. 99
MCAttack == [strike |-> 1215, guard |-> 495, focus |-> 630]
MCCut == [strike |-> 302, guard |-> 715, focus |-> 495]

Starter == [element |-> "wind", power |-> 10, guard |-> 10, points |-> 0]
Brute == [element |-> "water", power |-> 18, guard |-> 4, points |-> 1500]
Wall == [element |-> "shadow", power |-> 4, guard |-> 18, points |-> 0]
Pairs == { [s \in Sides |-> IF s = "A" THEN Starter ELSE Brute],
           [s \in Sides |-> IF s = "A" THEN Wall ELSE Starter] }

Agent2(a, b) == [s \in Sides |-> IF s = "A" THEN a ELSE b]
Run(kind, seed, b, fighters, agents, lines) ==
  [kind |-> kind, seed |-> seed, battlefield |-> b, fighters |-> fighters,
   agents |-> agents, prompts |-> lines]

\* Every pair of agents, watched or tallied on two of the arenas by one seed.
Watched ==
  { <<Run(k, n, b, f, Agent2(x, y), 0), Run(l, n, c, f, Agent2(x, y), 0)>> :
      k \in {"watch", "tally"}, l \in {"watch", "tally"}, n \in {0, 1},
      b \in MCBattlefields, c \in {Tenebris, Aurora}, f \in Pairs,
      x \in AgentNames, y \in AgentNames }
\* A person who types a few lines, twice against the same agent.
Played ==
  { <<Run("play", 2, b, f, Agent2("random", y), 4), Run("play", 2, b, f, Agent2("random", y), 2)>> :
      b \in {BlazingRift, Tenebris}, f \in Pairs, y \in AgentNames }
MCLineups ==
  Watched \cup Played
    \cup { <<Run("fighter", 0, BlazingRift, CHOOSE f \in Pairs : TRUE, Agent2("random", "random"), 0)>> }
=============================================================================
