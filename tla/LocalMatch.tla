----------------------------- MODULE LocalMatch -----------------------------
(***************************************************************************)
(* The duels of the command line: play asks a person for side A and an     *)
(* agent for side B, watch asks two agents, watch --rounds plays them      *)
(* without narration and builds both anew for every round, fighter only    *)
(* shows the fighter of a mint.                                            *)
(*                                                                         *)
(* Every roll is drawn from a stream of the match's seed, so a round is    *)
(* one deterministic step of Duel once the two decisions are known.  Two   *)
(* commands are run one after the other and the histories log and earlier  *)
(* keep what each match was made of, to be compared.                       *)
(***************************************************************************)
EXTENDS Agents, Fighters

CONSTANTS Lineups,          \* sequences of commands
          Games,            \* watch --rounds
          VarianceLow, VarianceHigh   \* 1 -+ DAMAGE_VARIANCE, in thousandths

Labels == {"match", "hazards", "a", "b", "opponent", "narration"}
Kinds == {"play", "watch", "tally", "fighter"}

\* prompts: how many lines a person's input holds.
Command == [kind : Kinds, seed : Nat, battlefield : Battlefields, fighters : [Sides -> Fighter],
            agents : [Sides -> AgentNames], prompts : Nat]
ASSUME LocalConstants ==
  /\ Lineups \subseteq Seq(Command) \ {<<>>}
  /\ Games \in Nat \ {0}
  /\ {VarianceLow, VarianceHigh} \subseteq Nat
  \* Every stream that a match may read enters the tape somewhere.
  /\ \A line \in Lineups : \A i \in DOMAIN line : \A g \in 0 .. Games - 1 :
       \A l \in Labels \ {"narration"} : Start[line[i].seed + g][l] \in Nat

VARIABLES cmd, todo,     \* the command in progress, those after it
          game,          \* index of a tally's match
          taken,         \* label -> words drawn from that stream
          plays,         \* _history: side -> stances
          armed,         \* decide's spend, at the prompt
          prompts,       \* lines read from the input
          quit,         \* the person has quit this match
          log,           \* history: what each round of this match was made of
          earlier        \* history: the match before

localVars == <<vars, drawVars, cmd, todo, game, taken, plays, armed, prompts, quit, log, earlier>>

NoMatch == [cmd |-> "none", game |-> -1, log |-> <<>>]

Seed == cmd.seed + game
Stream(label) == Start[Seed][label]

-----------------------------------------------------------------------------
Attuned(c) == {s \in Sides : c.fighters[s].element = c.battlefield.element}
NothingTaken == [l \in Labels |-> 0]
NothingPlayed == [s \in Sides |-> <<>>]

LocalInit ==
  /\ \E line \in Lineups : cmd = Head(line) /\ todo = Tail(line)
  /\ game = 0
  /\ prompts = 0
  /\ arena = Rules(cmd.battlefield) /\ attuned = Attuned(cmd)
  /\ Init
  /\ taken = NothingTaken
  /\ plays = NothingPlayed
  /\ armed = FALSE
  /\ quit = FALSE
  /\ log = <<>>
  /\ bias \in IF cmd.kind = "fighter" THEN Archetypes ELSE {CHOOSE b \in Archetypes : TRUE}
  /\ DrawInit
  /\ earlier = NoMatch

-----------------------------------------------------------------------------
OpponentLabel(s) == IF cmd.kind = "play" THEN "opponent" ELSE IF s = "A" THEN "a" ELSE "b"

\* A tally builds its agents for every single decision.
TakenBy(s) == IF cmd.kind = "tally" THEN 0 ELSE taken[OpponentLabel(s)]

DecidesOn(s, history) ==
  Decide(cmd.agents[s], View(cmd.fighters, history, s), Stream(OpponentLabel(s)), TakenBy(s))
AgentDecides(s) == DecidesOn(s, plays)

\* The rolls of one round: a word for each hit from the match's own stream ...
VarianceWord(k) == Word(Stream("match"), taken["match"] + k)
Hit(c, d, s, word) ==
  ComputeDamage(cmd.fighters[s], d[s].stance,
                cmd.battlefield.hazard = "chill" /\ c[s].left > 0,
                cmd.fighters[Other(s)], d[Other(s)].stance, cmd.battlefield,
                Between(word, VarianceLow, VarianceHigh))
HitsOf(c, d) == [s \in Sides |-> Hit(c, d, s, VarianceWord(IF s = "A" THEN 0 ELSE 1))]

\* ... and a chance for each exposed side from the hazards' stream, A first.
HazardRolls(struck) ==
  LET roll(s, k) == IF s \in Exposed(struck)
                    THEN Chance(Stream("hazards"), k, cmd.battlefield.chance)
                    ELSE [value |-> FALSE, taken |-> k]
      a == roll("A", taken["hazards"])
      b == roll("B", a.taken)
  IN  [bitten |-> {s \in Sides : (s = "A" /\ a.value) \/ (s = "B" /\ b.value)}, taken |-> b.taken]

\* render_events picks a line for every hit and every soul spent.
Lines(d) == IF cmd.kind = "tally" THEN 0
            ELSE 2 + Cardinality({s \in Sides : Pays(st, s, d)}) * (IF arena.effect = "ruin" THEN 2 ELSE 1)

MatchWordsWithLines(d) == 2 + Lines(d)
\* Two variances are all a round takes from the match's own stream.
MatchWords(d) == 2

\* byAgent: taken, with what the agents have drawn in this round.
TakeWords(d, rolls, byAgent) ==
  taken' = [byAgent EXCEPT !["match"] = @ + MatchWords(d), !["hazards"] = rolls.taken,
                           !["narration"] = @ + Lines(d)]

\* submit, on the decisions of both sides.
PlayRound(d, byAgent) ==
  \E duel \in {[s \in Sides |-> [focus |-> d[s].stance = "focus", spend |-> d[s].spend]]} :
  \E hit \in {HitsOf(SoulActions(AtRoundStart, duel), d)} :
  \E struck \in {BeforeHazards(duel, hit)} :
  \E rolls \in {HazardRolls(struck)} :
    /\ Resolve(duel, struck, rolls.bitten)
    /\ TakeWords(duel, rolls, byAgent)
    /\ plays' = [s \in Sides |-> Append(plays[s], d[s].stance)]
    /\ log' = Append(log, [d |-> d, words |-> <<VarianceWord(0), VarianceWord(1)>>,
                           hit |-> hit, bitten |-> rolls.bitten, end |-> st'])
    /\ armed' = FALSE

Decision(x) == [stance |-> x.stance, spend |-> x.spend]

\* watch and watch --rounds: one pass of the loop.
Watch ==
  /\ cmd.kind \in {"watch", "tally"}
  /\ outcome = Undecided
  /\ \E a \in {AgentDecides("A")} : \E b \in {AgentDecides("B")} :
       PlayRound([s \in Sides |-> Decision(IF s = "A" THEN a ELSE b)],
                 [taken EXCEPT !["a"] = a.taken, !["b"] = b.taken])
  /\ UNCHANGED <<cmd, todo, game, prompts, quit, earlier, drawVars>>

AtPrompt == cmd.kind = "play" /\ outcome = Undecided /\ ~quit

CommitOn(stance, history) ==
  \E b \in {DecidesOn("B", history)} :
    PlayRound([s \in Sides |-> IF s = "A" THEN [stance |-> stance, spend |-> armed] ELSE Decision(b)],
              [taken EXCEPT !["opponent"] = b.taken])

CommitRecordedFirst(stance) == CommitOn(stance, [plays EXCEPT !["A"] = Append(@, stance)])
\* A person's decision ends decide; the agent decides on a view of its own.
Commit(stance) == CommitOn(stance, plays)

CanArm == st["A"].souls >= arena.cost
TypeSoul ==
  /\ AtPrompt /\ prompts < cmd.prompts
  /\ armed' = (armed \/ CanArm)
  /\ prompts' = prompts + 1
  /\ UNCHANGED <<vars, cmd, todo, game, taken, plays, quit, log, earlier, drawVars>>

TypeStance(stance) ==
  /\ AtPrompt /\ prompts < cmd.prompts
  /\ prompts' = prompts + 1
  /\ Commit(stance)
  /\ UNCHANGED <<cmd, todo, game, quit, earlier, drawVars>>

TypeQuit ==
  /\ AtPrompt /\ prompts < cmd.prompts
  /\ quit' = TRUE
  /\ prompts' = prompts + 1
  /\ UNCHANGED <<vars, cmd, todo, game, taken, plays, armed, log, earlier, drawVars>>

\* EOFError: guarding, with the soul that was readied.
EndOfInput ==
  /\ AtPrompt /\ prompts >= cmd.prompts
  /\ Commit("guard")
  /\ UNCHANGED <<cmd, todo, game, prompts, quit, earlier, drawVars>>

\* fighter: derive one and show it.
Derive ==
  /\ cmd.kind = "fighter"
  /\ DrawNext
  /\ UNCHANGED <<vars, cmd, todo, game, taken, plays, armed, prompts, quit, log, earlier>>

\* Match.create, and the narrator and the agents made beside it.
Create(c) ==
  /\ arena' = Rules(c.battlefield)
  /\ attuned' = Attuned(c)
  /\ st' = [s \in Sides |-> [bp |-> StartingBP, souls |-> 0, left |-> 0, prev |-> StartingBP]]
  /\ round' = 0
  /\ roundStart' = [s \in Sides |-> StartingBP]
  /\ outcome' = Undecided
  /\ barLog' = [r \in 0 .. MaxRounds |-> [s \in Sides |-> StartingBP]]
  /\ felt' = [s \in Sides |-> 0]
  /\ spells' = {}
  /\ taken' = NothingTaken
  /\ plays' = NothingPlayed
  /\ armed' = FALSE
  /\ quit' = FALSE
  /\ log' = <<>>
  /\ earlier' = [cmd |-> cmd, game |-> game, log |-> log]

MatchIsOver == outcome # Undecided \/ quit
NextGame ==
  /\ cmd.kind = "tally" /\ outcome # Undecided /\ game + 1 < Games
  /\ game' = game + 1
  /\ Create(cmd)
  /\ UNCHANGED <<cmd, todo, prompts, drawVars>>

NextCommand ==
  /\ MatchIsOver /\ (cmd.kind = "tally" => game + 1 = Games)
  /\ todo # <<>>
  /\ cmd' = Head(todo)
  /\ todo' = Tail(todo)
  /\ game' = 0
  /\ prompts' = 0
  /\ Create(Head(todo))
  /\ UNCHANGED drawVars

LocalNext ==
  \/ Watch
  \/ TypeSoul \/ TypeQuit \/ EndOfInput
  \/ \E i \in DOMAIN Stances : TypeStance(Stances[i])
  \/ Derive
  \/ NextGame \/ NextCommand

LocalSpec == LocalInit /\ [][LocalNext]_localVars

-----------------------------------------------------------------------------
\* The damage of the real content stays within the hits Duel assumes, and the
\* state of the match is one of Duel's.
LocalTypeOK ==
  /\ TypeOK
  /\ log # <<>> => \A s \in Sides : log[Len(log)].hit[s] \in Hits
  /\ taken \in [Labels -> Nat]
  /\ stats \in [Stats -> Nat] /\ remaining \in Nat /\ nudged \in 0 .. 3

SameSeed == earlier.game >= 0 /\ earlier.cmd.seed + earlier.game = Seed
SameMatch ==
  /\ SameSeed
  /\ earlier.cmd.battlefield = cmd.battlefield
  /\ earlier.cmd.fighters = cmd.fighters
SameAgents == earlier.cmd.kind = cmd.kind /\ earlier.cmd.agents = cmd.agents

\* The rounds of this match that the one before also had.
Shared == 1 .. IF Len(log) <= Len(earlier.log) THEN Len(log) ELSE Len(earlier.log)
SameRoundsBefore(r) == \A q \in 1 .. r - 1 : log[q] = earlier.log[q]

\* "seed fully determines every roll in it": a seed has one series of damage
\* rolls, on every arena and for every way of playing it, as hazards, agents and
\* narration never shift it; and two matches of one seed, fighters and arena whose
\* players decided alike had the same hits, hazards and bars, whoever they were.
ReplaysExactly ==
  /\ SameSeed => \A r \in Shared : log[r].words = earlier.log[r].words
  /\ SameMatch => \A r \in Shared :
       (SameRoundsBefore(r) /\ log[r].d = earlier.log[r].d) => log[r] = earlier.log[r]

\* "An agent handed a view cannot see the future": what the agent against a
\* person does in a round depends on the rounds before, not on the stance the
\* person picks in it.
AgentsCannotPeek ==
  (SameMatch /\ SameAgents) => \A r \in Shared :
    SameRoundsBefore(r) => log[r].d["B"] = earlier.log[r].d["B"]

\* "A uniform integer in [0, bound)" (RNG.below): of the words it accepts, every
\* stat with room gets its point from a number in proportion to its weight.  The
\* code does not keep it: the limit lets one word too many through, which always
\* goes to the first candidate.
PointsAreProportional ==
  (cmd.kind = "fighter" /\ nudged = 3 /\ remaining > 0) =>
    LET weights == <<Weight(1), Weight(2), Weight(3)>>
        total == Weight(1) + Weight(2) + Weight(3)
        words(i) == Cardinality({w \in 0 .. Limit(total) : WeightedChoice(w % total, weights) = i})
    IN  \A i, j \in Candidates : words(i) * Weight(j) = words(j) * Weight(i)

\* "Agent versus agent. The same loop": a tally's match is the one watch shows.
TallyIsTheWatchedMatch ==
  (SameMatch /\ earlier.cmd.agents = cmd.agents /\ {earlier.cmd.kind, cmd.kind} = {"watch", "tally"})
    => \A r \in Shared : log[r] = earlier.log[r]
=============================================================================
