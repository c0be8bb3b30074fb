------------------------------- MODULE Damage -------------------------------
(***************************************************************************)
(* What Duel leaves open of a round: compute_damage on the fighters, the   *)
(* stances and the arena, in fixed point.  Amounts are in thousandths,     *)
(* multipliers in percent, and each stage drops what is below a            *)
(* thousandth, where the program keeps a double.                           *)
(***************************************************************************)
EXTENDS Duel, Sequences

CONSTANTS Battlefields,     \* what the loader returns
          Ranks,            \* the same, ascending by points
          BaseDamage,       \* BASE_DAMAGE, in thousandths
          AttackPerPower,   \* stance -> POWER_SCALING * STANCE_ATTACK
          CutPerGuard,      \* stance -> GUARD_SCALING * STANCE_DEFENCE
          ChillPenalty,
          StanceAdvantage, StanceDisadvantage,
          ElementAdvantage, ElementDisadvantage

Stances == <<"strike", "guard", "focus">>
StanceNames == {"strike", "guard", "focus"}
Elements == {"fire", "water", "wind", "light", "shadow", "time"}

Fighter == [element : Elements, power : Nat, guard : Nat, points : Nat]
\* hazard_effect may be any identifier: "unknown" stands for all that no status
\* is called.  A match on such an arena would end with the ValueError of inflict in
\* its first bite; DuelConstants, which Arenas has to meet, leaves those out.
Battlefield == [cost : 1 .. 5, effect : {"mend", "purge", "veil", "ruin", "rewind"},
                magnitude : 0 .. 100, hazard : {"none", "burn", "chill", "unknown"},
                element : Elements, bonus : 100 .. 200, chance : 0 .. 50]

\* The part of a battlefield that Duel reads.
Rules(b) == [cost |-> b.cost, effect |-> b.effect, magnitude |-> b.magnitude, hazard |-> b.hazard]

MostPoints == 1000000
Rank == [points : 0 .. MostPoints, percent : 100 .. 150]

\* The checks across files of load_content_from.
Loads ==
  /\ \A e \in Elements : \E b \in Battlefields : {c \in Battlefields : c.element = e} = {b}
  /\ Ranks \in Seq(Rank) /\ Ranks # <<>> /\ Ranks[1].points = 0
  /\ \A i, j \in DOMAIN Ranks :
       i < j => Ranks[i].points < Ranks[j].points /\ Ranks[i].percent <= Ranks[j].percent

ASSUME DamageConstants ==
  /\ Battlefields \subseteq Battlefield /\ Loads
  /\ Arenas = {Rules(b) : b \in Battlefields}
  /\ {BaseDamage, ChillPenalty, StanceAdvantage, StanceDisadvantage,
      ElementAdvantage, ElementDisadvantage} \subseteq Nat
  /\ {AttackPerPower, CutPerGuard} \subseteq [StanceNames -> Nat]

-----------------------------------------------------------------------------
\* _BEATS and _STANCE_BEATS.
Beats == [fire |-> "wind", wind |-> "water", water |-> "fire",
          light |-> "shadow", shadow |-> "time", time |-> "light"]
StanceBeats == [strike |-> "focus", focus |-> "guard", guard |-> "strike"]

MatchupPercent(beats, mine, theirs, advantage, disadvantage) ==
  IF beats[mine] = theirs THEN advantage
  ELSE IF beats[theirs] = mine THEN disadvantage ELSE 100

\* rank_for: the last rank whose threshold has been reached.
RankFor(points) ==
  LET earned == {i \in DOMAIN Ranks : i = 1 \/ Ranks[i].points <= points}
  IN  Ranks[CHOOSE i \in earned : \A j \in earned : j <= i]

Percent(amount, percent) == (amount * percent) \div 100

\* To the nearest point, ties to even, as round() does.
Rounded(amount) ==
  LET whole == amount \div 1000
      rest == amount % 1000
  IN  IF rest > 500 \/ (rest = 500 /\ whole % 2 = 1) THEN whole + 1 ELSE whole

NoFloor(points) == points
AtLeastMinDamage(points) == IF points < MinDamage THEN MinDamage ELSE points

\* variance is in thousandths, as between() draws it.
ComputeDamage(attacker, attackerStance, chilled, defender, defenderStance, b, variance) ==
  LET base == BaseDamage + attacker.power * AttackPerPower[attackerStance]
      status == Percent(base, IF chilled THEN ChillPenalty ELSE 100)
      stance == Percent(status, MatchupPercent(StanceBeats, attackerStance, defenderStance,
                                               StanceAdvantage, StanceDisadvantage))
      element == Percent(stance, MatchupPercent(Beats, attacker.element, defender.element,
                                                ElementAdvantage, ElementDisadvantage))
      attuned100 == Percent(element, IF attacker.element = b.element THEN b.bonus ELSE 100)
      ranked == Percent(attuned100, RankFor(attacker.points).percent)
      spread == (ranked * variance) \div 1000
      cut == defender.guard * CutPerGuard[defenderStance]
  IN  AtLeastMinDamage(Rounded(spread - cut))
=============================================================================
