------------------------------- MODULE Agents -------------------------------
(***************************************************************************)
(* The built-in agents: decide as a function of the view and of the words  *)
(* the agent has taken from its own stream.  It returns the decision and   *)
(* the words taken after it.                                               *)
(***************************************************************************)
EXTENDS Damage, Rng

AgentNames == {"random", "aggressive", "defensive", "adaptive"}

\* MatchView: what one side may see; history is the opponent's stances.
View(fighters, history, s) ==
  [you |-> fighters[s], opponent |-> fighters[Other(s)],
   bp |-> st[s].bp, opponentBP |-> st[Other(s)].bp, souls |-> st[s].souls,
   cost |-> arena.cost, canSpend |-> st[s].souls >= arena.cost,
   history |-> history[Other(s)]]

Decided(stance, spend, taken) == [stance |-> stance, spend |-> spend, taken |-> taken]

DecideRandom(view, stream, taken) ==
  LET draw == Choice(stream, taken, Stances)
  IN  Decided(draw.value, view.canSpend, draw.taken)

DecideAggressive(view, stream, taken) ==
  LET asks == 2 * view.bp < view.opponentBP /\ ~view.canSpend
      saves == Chance(stream, taken, 50)
      guards == Chance(stream, IF asks THEN saves.taken ELSE taken, 15)
  IN  IF asks /\ saves.value THEN Decided("focus", FALSE, saves.taken)
      ELSE Decided(IF guards.value THEN "guard" ELSE "strike", view.canSpend, guards.taken)

FinishThreshold == 34
DecideDefensive(view, stream, taken) ==
  LET presses == Chance(stream, taken, 40)
  IN  IF view.canSpend THEN Decided("guard", TRUE, taken)
      ELSE IF view.opponentBP <= FinishThreshold THEN Decided("strike", FALSE, taken)
      ELSE IF view.souls < view.cost THEN Decided("focus", FALSE, taken)
      ELSE Decided(IF presses.value THEN "strike" ELSE "guard", FALSE, presses.taken)

\* _COUNTER.
Counter == [strike |-> "guard", guard |-> "focus", focus |-> "strike"]

\* The stances played most in the last five rounds, by name.
Tied(history) ==
  LET from == IF Len(history) > 5 THEN Len(history) - 4 ELSE 1
      times(x) == Cardinality({i \in from .. Len(history) : history[i] = x})
      most(x) == IF \A y \in StanceNames : times(y) <= times(x) THEN <<x>> ELSE <<>>
  IN  most("focus") \o most("guard") \o most("strike")

DecideAdaptive(view, stream, taken) ==
  LET noise == Chance(stream, taken, 30)
      reads == view.history # <<>> /\ ~noise.value
      before == IF view.history = <<>> THEN taken ELSE noise.taken
      whim == Choice(stream, before, Stances)
      tied == Tied(view.history)
      pick == IF Len(tied) = 1 THEN [value |-> tied[1], taken |-> before]
              ELSE Choice(stream, before, tied)
      counter == Counter[pick.value]
      outmatched == Beats[view.opponent.element] = view.you.element
  IN  IF ~reads THEN Decided(whim.value, view.canSpend, whim.taken)
      ELSE Decided(IF outmatched /\ counter = "strike" THEN "focus" ELSE counter,
                   view.canSpend, pick.taken)

\* build_agent, then decide.
Decide(agent, view, stream, taken) ==
  CASE agent = "random" -> DecideRandom(view, stream, taken)
    [] agent = "aggressive" -> DecideAggressive(view, stream, taken)
    [] agent = "defensive" -> DecideDefensive(view, stream, taken)
    [] agent = "adaptive" -> DecideAdaptive(view, stream, taken)
=============================================================================
