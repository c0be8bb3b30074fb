-------------------------------- MODULE Duel --------------------------------
(***************************************************************************)
(* The match engine: Match.submit resolves one round from both sides'      *)
(* simultaneous decisions, play() repeats it until there is an outcome.    *)
(*                                                                         *)
(* submit is one synchronous call, so a round is one step; its stages are  *)
(* functions from the two combatant states to the two combatant states,    *)
(* composed in the order of the code.  The damage formula is abstracted to *)
(* what the rules rely on: some value of Hits, none below MinDamage.  Only *)
(* the arena's hazard ever inflicts a status, so one counter of the rounds *)
(* left stands for the dictionary of statuses.                             *)
(***************************************************************************)
EXTENDS Integers

CONSTANTS StartingBP,     \* STARTING_BP
          MaxRounds,      \* MAX_ROUNDS
          MaxSouls,       \* MAX_SOULS
          MinDamage,      \* MIN_DAMAGE
          BurnDamage,     \* BURN_DAMAGE_PER_ROUND
          BurnDuration, ChillDuration,
          Hits,           \* what compute_damage can return
          Arenas,         \* the battlefields a match may be played on
          Undecided       \* outcome of a match that is not over

\* The hazards are those that inflict knows.  The comment on KNOWN_STATUSES has
\* the loader check that; nothing does (see Battlefield in Damage), so this is an
\* assumption on the content, and it holds of the battlefields in the repository.
ASSUME DuelConstants ==
  /\ {StartingBP, MaxRounds, MinDamage} \subseteq Nat \ {0}
  /\ {MaxSouls, BurnDamage, BurnDuration, ChillDuration} \subseteq Nat
  /\ Hits \subseteq {h \in Nat : h >= MinDamage}
  /\ Arenas \subseteq [cost : Nat \ {0}, effect : {"mend", "purge", "veil", "ruin", "rewind"},
                       magnitude : Nat, hazard : {"none", "burn", "chill"}]

Sides == {"A", "B"}
Other(s) == IF s = "A" THEN "B" ELSE "A"

Decisions == [Sides -> [focus : BOOLEAN, spend : BOOLEAN]]

Combatant == [bp : 0 .. StartingBP, souls : 0 .. MaxSouls, left : Nat, prev : 0 .. StartingBP]

Outcomes == [winner : Sides \cup {"nobody"}, rounds : Nat,
             reason : {"knockout", "double knockout", "round limit"}]
ASSUME UndecidedIsNone == Undecided \notin Outcomes

VARIABLES arena,       \* the battlefield of this match
          attuned,     \* the sides whose element is the arena's
          st,          \* side -> CombatantState
          round,       \* rounds played
          roundStart,  \* _round_start_bp
          outcome,
          barLog,      \* history: round -> the bars at its start
          felt,        \* history: side -> rounds the present infliction was felt
          spells       \* history: how many rounds each finished infliction was felt

vars == <<arena, attuned, st, round, roundStart, outcome, barLog, felt, spells>>

-----------------------------------------------------------------------------
\* with_bp: the bar stays in [0, STARTING_BP].
Clamp(x) == IF x < 0 THEN 0 ELSE IF x > StartingBP THEN StartingBP ELSE x
WithBP(c, bp) == [c EXCEPT !.bp = Clamp(bp)]
IsDown(c) == c.bp <= 0

\* Nearest integer to h * percent / 100, ties to even, as round() does.
RoundedPercent(h, percent) ==
  LET whole == (h * percent) \div 100
      rest == (h * percent) % 100
  IN  IF rest > 50 \/ (rest = 50 /\ whole % 2 = 1) THEN whole + 1 ELSE whole

PreviousIsPresent(s) == st[s].bp
\* What a new round makes the rewind target: the bar one full round back.
PreviousBP(s) == roundStart[s]
AtRoundStart == [s \in Sides |-> [st[s] EXCEPT !.prev = PreviousBP(s)]]

Pays(c, s, d) == d[s].spend /\ c[s].souls >= arena.cost

\* One side's soul action; a request it cannot pay is dropped.
SoulAction(c, s, d) ==
  LET paid == [c[s] EXCEPT !.souls = @ - arena.cost]
      o == Other(s)
  IN  IF ~Pays(c, s, d) THEN c
      ELSE CASE arena.effect = "mend" -> [c EXCEPT ![s] = WithBP(paid, paid.bp + arena.magnitude)]
             [] arena.effect = "purge" ->
                  [c EXCEPT ![s] = WithBP([paid EXCEPT !.left = 0], paid.bp + arena.magnitude)]
             [] arena.effect = "veil" -> [c EXCEPT ![s] = paid]
             [] arena.effect = "ruin" ->
                  [c EXCEPT ![s] = paid, ![o] = WithBP(c[o], c[o].bp - arena.magnitude)]
             [] arena.effect = "rewind" -> [c EXCEPT ![s] = WithBP(paid, paid.prev)]

\* Each side acts on the state it had before the other did: a ruin that lands
\* on a side that also spends is overwritten.
SoulActionsFromSnapshot(c, d) ==
  LET first == SoulAction(c, "A", d)
  IN  [first EXCEPT !["B"] = IF Pays(c, "B", d) THEN SoulAction(c, "B", d)["B"] ELSE @,
                    !["A"] = IF Pays(c, "B", d) /\ arena.effect = "ruin"
                             THEN WithBP(first["A"], first["A"].bp - arena.magnitude) ELSE @]
SoulActions(c, d) == SoulAction(SoulAction(c, "A", d), "B", d)

Veiled(c, d) == {s \in Sides : Pays(c, s, d) /\ arena.effect = "veil" /\ arena.magnitude > 0}

Softened(h) ==
  LET p == IF arena.magnitude > 100 THEN 0 ELSE 100 - arena.magnitude
      r == RoundedPercent(h, p)
  IN  IF r < MinDamage THEN MinDamage ELSE r

\* Both strike at once: hit[s] is what s deals to the other side.
Strike(c, veiled, hit) ==
  [s \in Sides |->
     LET h == hit[Other(s)]
     IN  WithBP(c[s], c[s].bp - (IF s \in veiled THEN Softened(h) ELSE h))]

Exposed(c) == {s \in Sides : arena.hazard # "none" /\ s \notin attuned /\ ~IsDown(c[s])}

StackedLeft(left, duration) == left + duration
\* inflict: refreshed, not stacked.
RefreshedLeft(left, duration) == IF left > duration THEN left ELSE duration

Duration == IF arena.hazard = "burn" THEN BurnDuration ELSE ChillDuration
Inflict(c, bitten) ==
  [s \in Sides |-> IF s \in bitten
                   THEN [c[s] EXCEPT !.left = RefreshedLeft(@, Duration)] ELSE c[s]]

\* apply_status_tick.
Tick(c) ==
  [s \in Sides |->
     IF c[s].left <= 0 THEN c[s]
     ELSE LET ticked == [c[s] EXCEPT !.left = @ - 1]
          IN  IF arena.hazard = "burn" THEN WithBP(ticked, ticked.bp - BurnDamage) ELSE ticked]

\* _award_souls: FOCUS buys a soul, up to the cap.
Award(c, d) ==
  [s \in Sides |-> IF d[s].focus /\ c[s].souls < MaxSouls
                   THEN [c[s] EXCEPT !.souls = @ + 1] ELSE c[s]]

AheadOrLevelA(a, b) == IF a >= b THEN "A" ELSE "B"
Ahead(a, b) == IF a > b THEN "A" ELSE IF b > a THEN "B" ELSE "nobody"

RoundLimit(r) == r >= MaxRounds

\* _check_end.  A double knockout goes to the greater previous_bp.
Verdict(c, r) ==
  LET down == {s \in Sides : IsDown(c[s])}
  IN  IF down = Sides
        THEN [winner |-> Ahead(c["A"].prev, c["B"].prev), rounds |-> r, reason |-> "double knockout"]
      ELSE IF down # {}
        THEN [winner |-> Other(CHOOSE s \in Sides : s \in down), rounds |-> r, reason |-> "knockout"]
      ELSE IF RoundLimit(r)
        THEN [winner |-> Ahead(c["A"].bp, c["B"].bp), rounds |-> r, reason |-> "round limit"]
      ELSE Undecided

-----------------------------------------------------------------------------
Init ==
  /\ arena \in Arenas
  /\ attuned \in SUBSET Sides
  /\ st = [s \in Sides |-> [bp |-> StartingBP, souls |-> 0, left |-> 0, prev |-> StartingBP]]
  /\ round = 0
  /\ roundStart = [s \in Sides |-> StartingBP]
  /\ outcome = Undecided
  /\ barLog = [r \in 0 .. MaxRounds |-> [s \in Sides |-> StartingBP]]
  /\ felt = [s \in Sides |-> 0]
  /\ spells = {}

RoundStuck(r) == r
NextRound(r) == r + 1

\* The stages of a round up to the hazard rolls, and after them.
BeforeHazards(d, hit) ==
  LET opened == AtRoundStart
  IN  Strike(SoulActions(opened, d), Veiled(opened, d), hit)
AfterHazards(struck, d, bitten) == Award(Tick(Inflict(struck, bitten)), d)

\* History: an infliction is felt by a burn's tick, or by a strike made while
\* chilled; a new roll or a purge starts the count again.
Feel(d, struck, bitten) ==
  LET purged == {s \in Sides : Pays(st, s, d) /\ arena.effect = "purge"}
      weak(s) == IF arena.hazard = "chill" /\ st[s].left > 0 /\ s \notin purged THEN 1 ELSE 0
      burns(s) == IF arena.hazard = "burn" /\ (struck[s].left > 0 \/ s \in bitten) THEN 1 ELSE 0
      count(s) == (IF s \in bitten \cup purged THEN 0 ELSE felt[s] + weak(s)) + burns(s)
      ends(s) == struck[s].left = 1 /\ s \notin bitten
  IN  /\ felt' = [s \in Sides |-> IF ends(s) THEN 0 ELSE count(s)]
      /\ spells' = spells \cup {count(s) : s \in {x \in Sides : ends(x)}}

\* What submit assigns, once the strikes and the hazard rolls are known.
Resolve(d, struck, bitten) ==
  /\ outcome = Undecided
  /\ round' = NextRound(round)
  /\ st' = AfterHazards(struck, d, bitten)
  /\ outcome' = Verdict(st', round')
  /\ Feel(d, struck, bitten)
  /\ roundStart' = [s \in Sides |-> st[s].bp]
  /\ barLog' = [barLog EXCEPT ![round'] = [s \in Sides |-> st[s].bp]]
  /\ UNCHANGED <<arena, attuned>>

Submit(d, hit) ==
  /\ outcome = Undecided
  /\ \E struck \in {BeforeHazards(d, hit)} :
       \E bitten \in SUBSET Exposed(struck) : Resolve(d, struck, bitten)

Next == \E d \in Decisions, hit \in [Sides -> Hits] : Submit(d, hit)

Spec == Init /\ [][Next]_vars
\* play() keeps asking and submitting while the match is not over.
FairSpec == Spec /\ WF_vars(Next)

-----------------------------------------------------------------------------
TypeOK ==
  /\ arena \in Arenas
  /\ attuned \in SUBSET Sides
  /\ st \in [Sides -> Combatant]
  /\ round \in Nat
  /\ roundStart \in [Sides -> 0 .. StartingBP]
  /\ outcome \in Outcomes \cup {Undecided}

\* The verdict is what the bars show.  No match goes on with a fighter down, a
\* knockout goes to the only one standing, the limit to the longer bar.  When
\* both fall in one round, earlier bars decide: the side that led when the round
\* before the last one began wins, and nobody only if they were level then.
\* _check_end calls that "the BP each side held at the start of the round", which
\* is one round later: see DoubleKnockoutGoesToTheLeader.
VerdictMatchesBars ==
  LET bp(s) == st[s].bp
      before(s) == barLog[round - 1][s]
  IN  IF outcome = Undecided THEN \A s \in Sides : bp(s) > 0
      ELSE /\ outcome.reason = "double knockout" <=> \A s \in Sides : bp(s) = 0
           /\ outcome.reason = "double knockout" =>
                \A s \in Sides : outcome.winner = s <=> before(s) > before(Other(s))
           /\ outcome.reason = "knockout" =>
                \E s \in Sides : outcome.winner = s /\ bp(s) > 0 /\ bp(Other(s)) = 0
           /\ outcome.reason = "round limit" =>
                /\ \A s \in Sides : bp(s) > 0
                /\ \A s \in Sides : outcome.winner = s <=> bp(s) > bp(Other(s))

\* No match outlives MAX_ROUNDS, and one that is open has a round left.
EndsByTheLimit == round <= MaxRounds /\ (outcome = Undecided => round < MaxRounds)

\* "previous_bp must trail by a full round, not by zero": what REWIND restores
\* is the bar at the start of the round before the one just played.
PreviousTrailsOneRound ==
  round > 0 => \A s \in Sides : st[s].prev = barLog[round - 1][s]

Mirrored(v) == IF v = Undecided \/ v.winner = "nobody" THEN v
               ELSE [v EXCEPT !.winner = Other(@)]
Swap(f) == [s \in Sides |-> f[Other(s)]]
\* "Sequential resolution would silently advantage whoever the loop happened to
\* visit first": swapping the decisions and the rolls of two fighters that are
\* level swaps the result of the round.
NoFirstMoverAdvantage ==
  (outcome = Undecided /\ st["A"] = st["B"] /\ roundStart["A"] = roundStart["B"]) =>
    \A d \in Decisions, hit \in [Sides -> Hits] :
      \E struck \in {BeforeHazards(d, hit)} : \E mirror \in {BeforeHazards(Swap(d), Swap(hit))} :
        \A bitten \in SUBSET Exposed(struck) :
          \E end \in {AfterHazards(struck, d, bitten)} :
            /\ AfterHazards(mirror, Swap(d), {Other(s) : s \in bitten}) = Swap(end)
            /\ Mirrored(Verdict(Swap(end), round + 1)) = Verdict(end, round + 1)

\* A burn that runs its course bites in exactly BURN_DURATION rounds, however
\* often it was refreshed before: refresh, not stack.
BurnLastsAsDesigned == arena.hazard = "burn" => spells \subseteq {BurnDuration}

\* The design gives chill two rounds of weakened attacks.
ChillLastsAsDesigned == arena.hazard = "chill" => spells \subseteq {ChillDuration}

\* "The tiebreak is the BP each side held at the *start* of the round: whoever
\* was winning takes it" (_check_end, and docs/GAME_DESIGN.md: "at the start of
\* that round").  The code does not keep it: previous_bp is the bar one full round
\* earlier, so a side that took the lead in between loses.
DoubleKnockoutGoesToTheLeader ==
  (outcome # Undecided /\ outcome.reason = "double knockout") =>
    outcome.winner = Ahead(barLog[round]["A"], barLog[round]["B"])

\* Whatever the agents choose and the dice roll, every match is decided.
DuelEnds == <>(outcome # Undecided)
=============================================================================
