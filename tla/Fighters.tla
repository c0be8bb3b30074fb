------------------------------ MODULE Fighters ------------------------------
(***************************************************************************)
(* How derive_fighter splits a mint's stat budget: every stat starts at    *)
(* the minimum, the archetype's positive biases are added in order, and    *)
(* what is left goes out a point at a time to stats that still have room.  *)
(*                                                                         *)
(* The hash of the mint settles the archetype and each of those draws, so  *)
(* over all mints every draw of a positive weight happens: the archetype   *)
(* is any triple of biases the schema lets through, each point goes to any *)
(* candidate.                                                              *)
(***************************************************************************)
EXTENDS Integers

CONSTANTS StatMinimum, StatMaximum, StatBudget

Stats == 1 .. 3       \* power, guard, focus

ASSUME FighterConstants ==
  /\ {StatMinimum, StatMaximum, StatBudget} \subseteq Nat
  /\ StatMinimum <= StatMaximum
  /\ 3 * StatMinimum <= StatBudget /\ StatBudget <= 3 * StatMaximum

\* The biases that Supremacy.parse accepts.
Archetypes == {b \in [Stats -> -6 .. 6] : b[1] + b[2] + b[3] = 0}

VARIABLES bias,       \* the archetype's
          stats, remaining,
          nudged      \* the stats whose bias has been applied are 1 .. nudged

drawVars == <<bias, stats, remaining, nudged>>

Least(x, y) == IF x <= y THEN x ELSE y

DrawInit ==
  /\ bias \in Archetypes
  /\ stats = [i \in Stats |-> StatMinimum]
  /\ remaining = StatBudget - 3 * StatMinimum
  /\ nudged = 0

\* "clamped so it can never break the bounds".
Step(b, left, room) == Least(Least(b, left), room)

Nudge ==
  /\ nudged < 3
  /\ nudged' = nudged + 1
  /\ LET i == nudged + 1
         step == IF bias[i] > 0 THEN Step(bias[i], remaining, StatMaximum - stats[i]) ELSE 0
     IN  /\ stats' = [stats EXCEPT ![i] = @ + step]
         /\ remaining' = remaining - step
  /\ UNCHANGED bias

AnyStat == Stats
Candidates == {i \in Stats : stats[i] < StatMaximum}

\* The weight of a candidate has a floor of 1, so the point may go to any.
Weight(i) == IF i \notin Candidates THEN 0 ELSE IF bias[i] > -3 THEN 4 + bias[i] ELSE 1

GivePoint ==
  /\ nudged = 3
  /\ remaining > 0
  /\ \E i \in Candidates : stats' = [stats EXCEPT ![i] = @ + 1]
  /\ remaining' = remaining - 1
  /\ UNCHANGED <<bias, nudged>>

Drawn == nudged = 3 /\ remaining = 0

DrawNext == Nudge \/ GivePoint
DrawSpec == DrawInit /\ [][DrawNext]_drawVars

-----------------------------------------------------------------------------
\* Whatever archetype and whatever the hash: the draw never finds three full
\* stats with points left, and the fighter it ends with passes __post_init__:
\* the whole budget, each stat in its bounds.
DrawnFightersAreLegal ==
  /\ remaining > 0 => Candidates # {}
  /\ \A i \in Stats : stats[i] \in StatMinimum .. StatMaximum
  /\ Drawn => stats[1] + stats[2] + stats[3] = StatBudget
=============================================================================
