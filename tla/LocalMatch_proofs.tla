-------------------------- MODULE LocalMatch_proofs --------------------------
(***************************************************************************)
(* Theorems about the match engine: about Duel for every arena, every set  *)
(* of hits and every value of the balance constants, about Fighters for    *)
(* all budgets and bounds that fit together and all archetypes, and about  *)
(* LocalMatch for every lineup, content, tape of words and set of seeds.   *)
(***************************************************************************)
EXTENDS LocalMatch, FiniteSetTheorems, SequenceTheorems, WellFoundedInduction, TLAPS

Pair == [Sides -> Combatant]
ArenaType == arena \in [cost : Nat \ {0}, effect : {"mend", "purge", "veil", "ruin", "rewind"},
                        magnitude : Nat, hazard : {"none", "burn", "chill"}]

\* No path writes a bar outside [0, STARTING_BP].
LEMMA ClampedBar ==
  ASSUME NEW c \in Combatant, NEW x \in Int
  PROVE  WithBP(c, x) \in Combatant /\ WithBP(c, x).prev = c.prev
  BY DuelConstants DEF WithBP, Clamp, Combatant

\* A veiled hit is still a number of points, never below MinDamage.
LEMMA SoftenedHit ==
  ASSUME ArenaType, NEW h \in Nat
  PROVE  Softened(h) \in Int /\ Softened(h) >= MinDamage
  <1> DEFINE p == IF arena.magnitude > 100 THEN 0 ELSE 100 - arena.magnitude
  <1>1. p \in Nat
    BY DEF ArenaType
  <1>2. h * p \in Int
    BY <1>1
  <1>3. RoundedPercent(h, p) \in Int
    <2> HIDE DEF p
    <2> QED BY <1>2 DEF RoundedPercent
  <1> QED BY <1>3, DuelConstants DEF Softened

LEMMA SoulActionType ==
  ASSUME ArenaType, NEW c \in Pair, NEW s \in Sides, NEW d \in Decisions
  PROVE  /\ SoulAction(c, s, d) \in Pair
         /\ \A x \in Sides : SoulAction(c, s, d)[x].prev = c[x].prev
  <1> DEFINE paid == [c[s] EXCEPT !.souls = @ - arena.cost]
             o == Other(s)
             m == arena.magnitude
  <1>0. o \in Sides /\ o # s
    BY DEF Other, Sides
  <1>1. CASE ~Pays(c, s, d)
    BY <1>1 DEF SoulAction
  <1>2. CASE Pays(c, s, d)
    <2>1. paid \in Combatant /\ paid.prev = c[s].prev
      BY <1>2, DuelConstants DEF Pays, ArenaType, Pair, Combatant
    <2>2. [paid EXCEPT !.left = 0] \in Combatant /\ [paid EXCEPT !.left = 0].prev = c[s].prev
      BY <2>1 DEF Combatant
    <2>3. /\ paid.bp + m \in Int /\ paid.prev \in Int /\ m \in Nat
          /\ c[o] \in Combatant /\ c[o].bp - m \in Int
      BY <1>0, <2>1, DuelConstants DEF Combatant, ArenaType, Pair
    <2>4. CASE arena.effect = "mend"
      <3>1. SoulAction(c, s, d) = [c EXCEPT ![s] = WithBP(paid, paid.bp + m)]
        BY <1>2, <2>4 DEF SoulAction
      <3> HIDE DEF paid, m
      <3> QED BY <2>1, <2>3, <3>1, ClampedBar DEF Pair
    <2>5. CASE arena.effect = "purge"
      <3>1. SoulAction(c, s, d) = [c EXCEPT ![s] = WithBP([paid EXCEPT !.left = 0], paid.bp + m)]
        BY <1>2, <2>5 DEF SoulAction
      <3> HIDE DEF paid, m
      <3> QED BY <2>2, <2>3, <3>1, ClampedBar DEF Pair
    <2>6. CASE arena.effect = "veil"
      <3>1. SoulAction(c, s, d) = [c EXCEPT ![s] = paid]
        BY <1>2, <2>6 DEF SoulAction
      <3> HIDE DEF paid, m
      <3> QED BY <2>1, <3>1 DEF Pair
    <2>7. CASE arena.effect = "ruin"
      <3>1. SoulAction(c, s, d) = [c EXCEPT ![s] = paid, ![o] = WithBP(c[o], c[o].bp - m)]
        BY <1>2, <2>7 DEF SoulAction
      <3>2. PICK v \in Combatant : v = WithBP(c[o], c[o].bp - m) /\ v.prev = c[o].prev
        BY <2>3, ClampedBar
      <3>3. PICK u \in Combatant : u = paid /\ u.prev = c[s].prev
        BY <2>1
      <3> HIDE DEF paid, m, o
      <3>4. SoulAction(c, s, d) = [c EXCEPT ![s] = u, ![o] = v]
        BY <3>1, <3>2, <3>3
      <3> QED BY <1>0, <3>2, <3>3, <3>4 DEF Pair
    <2>8. CASE arena.effect = "rewind"
      <3>1. SoulAction(c, s, d) = [c EXCEPT ![s] = WithBP(paid, paid.prev)]
        BY <1>2, <2>8 DEF SoulAction
      <3> HIDE DEF paid, m
      <3> QED BY <2>1, <2>3, <3>1, ClampedBar DEF Pair
    <2> QED BY <2>4, <2>5, <2>6, <2>7, <2>8 DEF ArenaType
  <1> QED BY <1>1, <1>2

LEMMA StrikeType ==
  ASSUME ArenaType, NEW c \in Pair, NEW veiled, NEW hit \in [Sides -> Hits]
  PROVE  /\ Strike(c, veiled, hit) \in Pair
         /\ \A x \in Sides : Strike(c, veiled, hit)[x].prev = c[x].prev
  <1> SUFFICES ASSUME NEW s \in Sides
               PROVE  /\ Strike(c, veiled, hit)[s] \in Combatant
                      /\ Strike(c, veiled, hit)[s].prev = c[s].prev
    BY DEF Strike, Pair
  <1> DEFINE h == hit[Other(s)]
             loss == IF s \in veiled THEN Softened(h) ELSE h
  <1>1. h \in Nat
    BY DuelConstants DEF Other, Sides
  <1>2. loss \in Int
    BY <1>1, SoftenedHit
  <1>3. c[s].bp - loss \in Int /\ c[s] \in Combatant
    BY <1>2, DuelConstants DEF Pair, Combatant
  <1>4. Strike(c, veiled, hit)[s] = WithBP(c[s], c[s].bp - loss)
    BY DEF Strike
  <1> HIDE DEF loss
  <1> QED BY <1>3, <1>4, ClampedBar

LEMMA InflictType ==
  ASSUME NEW c \in Pair, NEW bitten
  PROVE  /\ Inflict(c, bitten) \in Pair
         /\ \A x \in Sides : Inflict(c, bitten)[x].prev = c[x].prev
  BY DuelConstants DEF Inflict, RefreshedLeft, Duration, Pair, Combatant

LEMMA TickType ==
  ASSUME NEW c \in Pair
  PROVE  Tick(c) \in Pair /\ \A x \in Sides : Tick(c)[x].prev = c[x].prev
  <1> SUFFICES ASSUME NEW s \in Sides
               PROVE  Tick(c)[s] \in Combatant /\ Tick(c)[s].prev = c[s].prev
    BY DEF Tick, Pair
  <1>1. CASE c[s].left <= 0
    BY <1>1 DEF Tick, Pair
  <1>2. CASE ~(c[s].left <= 0)
    <2> DEFINE ticked == [c[s] EXCEPT !.left = @ - 1]
    <2>1. ticked \in Combatant /\ ticked.prev = c[s].prev
      BY <1>2 DEF Pair, Combatant
    <2>2. ticked.bp - BurnDamage \in Int
      BY <2>1, DuelConstants DEF Combatant
    <2>3. Tick(c)[s] = IF arena.hazard = "burn" THEN WithBP(ticked, ticked.bp - BurnDamage) ELSE ticked
      BY <1>2 DEF Tick
    <2> HIDE DEF ticked
    <2> QED BY <2>1, <2>2, <2>3, ClampedBar
  <1> QED BY <1>1, <1>2

LEMMA AwardType ==
  ASSUME NEW c \in Pair, NEW d \in Decisions
  PROVE  Award(c, d) \in Pair /\ \A x \in Sides : Award(c, d)[x].prev = c[x].prev
  BY DuelConstants DEF Award, Pair, Combatant

\* A record of the shape check_end builds is a decided outcome.
LEMMA DecidedOutcome ==
  ASSUME NEW w \in Sides \cup {"nobody"}, NEW r \in Nat,
         NEW why \in {"knockout", "double knockout", "round limit"}
  PROVE  /\ [winner |-> w, rounds |-> r, reason |-> why] \in Outcomes
         /\ [winner |-> w, rounds |-> r, reason |-> why] # Undecided
  <1>1. [winner |-> w, rounds |-> r, reason |-> why] \in Outcomes
    BY DEF Outcomes
  <1> QED BY <1>1, UndecidedIsNone

LEMMA DecidedFields ==
  ASSUME NEW v, NEW w, NEW r, NEW why, v = [winner |-> w, rounds |-> r, reason |-> why]
  PROVE  v.winner = w /\ v.reason = why
  OBVIOUS

\* check_end, one line per return.
LEMMA VerdictCases ==
  ASSUME NEW c \in Pair, NEW r \in Nat
  PROVE  \/ /\ \A s \in Sides : c[s].bp = 0
            /\ \E w \in Sides \cup {"nobody"} :
                 /\ \A s \in Sides : w = s <=> c[s].prev > c[Other(s)].prev
                 /\ Verdict(c, r) = [winner |-> w, rounds |-> r, reason |-> "double knockout"]
         \/ \E w \in Sides :
              /\ c[w].bp > 0 /\ c[Other(w)].bp = 0
              /\ Verdict(c, r) = [winner |-> w, rounds |-> r, reason |-> "knockout"]
         \/ /\ \A s \in Sides : c[s].bp > 0
            /\ \E w \in Sides \cup {"nobody"} :
                 /\ \A s \in Sides : w = s <=> c[s].bp > c[Other(s)].bp
                 /\ Verdict(c, r) = [winner |-> w, rounds |-> r, reason |-> "round limit"]
         \/ /\ \A s \in Sides : c[s].bp > 0
            /\ r < MaxRounds
            /\ Verdict(c, r) = Undecided
  <1> DEFINE down == {s \in Sides : IsDown(c[s])}
  <1>1. \A s \in Sides : c[s].bp \in Nat /\ (s \in down <=> c[s].bp = 0)
    BY DuelConstants DEF Pair, Combatant, IsDown
  <1>2. Verdict(c, r) =
          IF down = Sides
            THEN [winner |-> Ahead(c["A"].prev, c["B"].prev), rounds |-> r,
                  reason |-> "double knockout"]
          ELSE IF down # {}
            THEN [winner |-> Other(CHOOSE s \in Sides : s \in down), rounds |-> r,
                  reason |-> "knockout"]
          ELSE IF RoundLimit(r)
            THEN [winner |-> Ahead(c["A"].bp, c["B"].bp), rounds |-> r, reason |-> "round limit"]
          ELSE Undecided
    BY DEF Verdict
  <1>3. down \subseteq Sides
    OBVIOUS
  <1> HIDE DEF down
  <1>4. CASE down = Sides
    <2>1. Ahead(c["A"].prev, c["B"].prev) \in Sides \cup {"nobody"}
      BY DEF Ahead, Sides
    <2>2. \A s \in Sides : c[s].bp = 0
      BY <1>1, <1>4
    <2>3. \A s \in Sides : c[s].prev \in Int
      BY DEF Pair, Combatant
    <2>4. \A s \in Sides : Ahead(c["A"].prev, c["B"].prev) = s <=> c[s].prev > c[Other(s)].prev
      BY <2>3 DEF Ahead, Other, Sides
    <2>5. Verdict(c, r) = [winner |-> Ahead(c["A"].prev, c["B"].prev), rounds |-> r,
                           reason |-> "double knockout"]
      BY <1>2, <1>4
    <2> QED BY <2>1, <2>2, <2>4, <2>5
  <1>5. CASE down # Sides /\ down # {}
    <2>1. PICK l \in Sides : l = (CHOOSE s \in Sides : s \in down) /\ l \in down
      BY <1>3, <1>5
    <2>2. /\ Other(l) \in Sides /\ Other(Other(l)) = l
          /\ Other(l) \notin down
      BY <1>3, <1>5, <2>1 DEF Other, Sides
    <2>3. c[Other(l)].bp > 0 /\ c[Other(Other(l))].bp = 0
      BY <1>1, <2>1, <2>2
    <2>4. Verdict(c, r) = [winner |-> Other(l), rounds |-> r, reason |-> "knockout"]
      BY <1>2, <1>5, <2>1
    <2> QED BY <2>2, <2>3, <2>4
  <1>6. CASE down = {} /\ RoundLimit(r)
    <2>1. Ahead(c["A"].bp, c["B"].bp) \in Sides \cup {"nobody"}
      BY DEF Ahead, Sides
    <2>2. \A s \in Sides : Ahead(c["A"].bp, c["B"].bp) = s <=> c[s].bp > c[Other(s)].bp
      BY <1>1 DEF Ahead, Other, Sides
    <2>3. \A s \in Sides : c[s].bp > 0
      BY <1>1, <1>6
    <2>4. Verdict(c, r) = [winner |-> Ahead(c["A"].bp, c["B"].bp), rounds |-> r,
                           reason |-> "round limit"]
      BY <1>2, <1>6 DEF Sides
    <2> QED BY <2>1, <2>2, <2>3, <2>4
  <1>7. CASE down = {} /\ ~RoundLimit(r)
    <2>1. Verdict(c, r) = Undecided
      BY <1>2, <1>7 DEF Sides
    <2>2. r < MaxRounds
      BY <1>7, DuelConstants DEF RoundLimit
    <2>3. \A s \in Sides : c[s].bp > 0
      BY <1>1, <1>7
    <2> QED BY <2>1, <2>2, <2>3
  <1> QED BY <1>4, <1>5, <1>6, <1>7

LEMMA VerdictType ==
  ASSUME NEW c \in Pair, NEW r \in Nat
  PROVE  /\ Verdict(c, r) \in Outcomes \cup {Undecided}
         /\ r >= MaxRounds => Verdict(c, r) # Undecided
  <1>1. ~(r < MaxRounds /\ r >= MaxRounds)
    BY DuelConstants
  <1>2. \A w \in Sides \cup {"nobody"}, why \in {"knockout", "double knockout", "round limit"} :
          /\ [winner |-> w, rounds |-> r, reason |-> why] \in Outcomes
          /\ [winner |-> w, rounds |-> r, reason |-> why] # Undecided
    BY DecidedOutcome
  <1> QED BY <1>1, <1>2, VerdictCases

\* The stages of a round keep the types and the rewind target set at its start.
LEMMA RoundType ==
  ASSUME TypeOK, NEW d \in Decisions, NEW hit \in [Sides -> Hits]
  PROVE  /\ BeforeHazards(d, hit) \in Pair
         /\ \A bitten : AfterHazards(BeforeHazards(d, hit), d, bitten) \in Pair
         /\ \A bitten : \A s \in Sides :
              AfterHazards(BeforeHazards(d, hit), d, bitten)[s].prev = roundStart[s]
  <1> DEFINE c0 == AtRoundStart
             c1 == SoulAction(c0, "A", d)
             c2 == SoulAction(c1, "B", d)
             c3 == Strike(c2, Veiled(c0, d), hit)
             c4(bitten) == Inflict(c3, bitten)
             c5(bitten) == Tick(c4(bitten))
  <1>0. ArenaType
    BY DuelConstants DEF ArenaType, TypeOK
  <1>1. c0 \in Pair /\ \A s \in Sides : c0[s].prev = roundStart[s]
    BY DEF AtRoundStart, PreviousBP, TypeOK, Pair, Combatant
  <1> HIDE DEF c0
  <1>2. c1 \in Pair /\ \A s \in Sides : c1[s].prev = c0[s].prev
    BY <1>0, <1>1, SoulActionType DEF Sides
  <1> HIDE DEF c1
  <1>3. c2 \in Pair /\ \A s \in Sides : c2[s].prev = c1[s].prev
    BY <1>0, <1>2, SoulActionType DEF Sides
  <1> HIDE DEF c2
  <1>4. c3 \in Pair /\ \A s \in Sides : c3[s].prev = c2[s].prev
    BY <1>0, <1>3, StrikeType
  <1>5. BeforeHazards(d, hit) = c3
    BY DEF BeforeHazards, SoulActions, c0, c1, c2
  <1> HIDE DEF c3
  <1>6. ASSUME NEW bitten
        PROVE  c4(bitten) \in Pair /\ \A s \in Sides : c4(bitten)[s].prev = c3[s].prev
    BY <1>4, InflictType
  <1> HIDE DEF c4
  <1>7. ASSUME NEW bitten
        PROVE  c5(bitten) \in Pair /\ \A s \in Sides : c5(bitten)[s].prev = c4(bitten)[s].prev
    BY <1>6, TickType
  <1> HIDE DEF c5
  <1>8. ASSUME NEW bitten
        PROVE  /\ AfterHazards(c3, d, bitten) \in Pair
               /\ \A s \in Sides : AfterHazards(c3, d, bitten)[s].prev = c5(bitten)[s].prev
    BY <1>7, AwardType DEF AfterHazards, c4, c5
  <1> QED BY <1>1, <1>2, <1>3, <1>4, <1>5, <1>6, <1>7, <1>8

-----------------------------------------------------------------------------
\* The verdict on two bars, spelt out.
VerdictFits(c, v) ==
  IF v = Undecided THEN \A s \in Sides : c[s].bp > 0
  ELSE /\ v.reason = "double knockout" <=> \A s \in Sides : c[s].bp = 0
       /\ v.reason = "double knockout" =>
            \A s \in Sides : v.winner = s <=> c[s].prev > c[Other(s)].prev
       /\ v.reason = "knockout" =>
            \E s \in Sides : v.winner = s /\ c[s].bp > 0 /\ c[Other(s)].bp = 0
       /\ v.reason = "round limit" =>
            /\ \A s \in Sides : c[s].bp > 0
            /\ \A s \in Sides : v.winner = s <=> c[s].bp > c[Other(s)].bp

LEMMA VerdictFitsBars ==
  ASSUME NEW c \in Pair, NEW r \in Nat
  PROVE  VerdictFits(c, Verdict(c, r))
  <1>1. \A s \in Sides : ~(c[s].bp = 0 /\ c[s].bp > 0)
    BY DEF Pair, Combatant
  <1>2. "A" \in Sides
    BY DEF Sides
  <1>3. CASE \A s \in Sides : c[s].bp = 0
    <2>1. \A w \in Sides : ~(c[w].bp > 0)
      BY <1>1, <1>3
    <2>2. PICK w \in Sides \cup {"nobody"} :
            /\ \A s \in Sides : w = s <=> c[s].prev > c[Other(s)].prev
            /\ Verdict(c, r) = [winner |-> w, rounds |-> r, reason |-> "double knockout"]
      BY <1>2, <2>1, VerdictCases
    <2>3. Verdict(c, r) # Undecided
      BY <2>2, DecidedOutcome
    <2>4. Verdict(c, r).reason = "double knockout" /\ Verdict(c, r).winner = w
      BY <2>2, DecidedFields
    <2> QED BY <1>3, <2>2, <2>3, <2>4 DEF VerdictFits
  <1>4. ASSUME NEW w \in Sides, c[w].bp > 0, c[Other(w)].bp = 0,
               Verdict(c, r) = [winner |-> w, rounds |-> r, reason |-> "knockout"]
        PROVE  VerdictFits(c, Verdict(c, r))
    <2>1. Verdict(c, r) # Undecided
      BY <1>4, DecidedOutcome
    <2>2. ~ \A s \in Sides : c[s].bp = 0
      BY <1>1, <1>4
    <2> QED BY <1>4, <2>1, <2>2 DEF VerdictFits
  <1>5. ASSUME \A s \in Sides : c[s].bp > 0, NEW w \in Sides \cup {"nobody"},
               \A s \in Sides : w = s <=> c[s].bp > c[Other(s)].bp,
               Verdict(c, r) = [winner |-> w, rounds |-> r, reason |-> "round limit"]
        PROVE  VerdictFits(c, Verdict(c, r))
    <2>1. Verdict(c, r) # Undecided
      BY <1>5, DecidedOutcome
    <2>2. ~ \A s \in Sides : c[s].bp = 0
      BY <1>1, <1>2, <1>5
    <2>3. Verdict(c, r).reason = "round limit" /\ Verdict(c, r).winner = w
      BY <1>5, DecidedFields
    <2>4. \A s \in Sides : c[s].bp > 0 /\ (w = s <=> c[s].bp > c[Other(s)].bp)
      BY <1>5
    <2> QED BY <2>1, <2>2, <2>3, <2>4 DEF VerdictFits
  <1>6. CASE Verdict(c, r) = Undecided /\ \A s \in Sides : c[s].bp > 0
    BY <1>6 DEF VerdictFits
  <1> QED BY <1>3, <1>4, <1>5, <1>6, VerdictCases

\* The log of bars agrees with the code's two variables.
LogAgrees ==
  /\ barLog \in [0 .. MaxRounds -> [Sides -> 0 .. StartingBP]]
  /\ barLog[round] = roundStart

IInv == TypeOK /\ EndsByTheLimit /\ VerdictMatchesBars /\ LogAgrees /\ PreviousTrailsOneRound

LEMMA IInvInit == Init => IInv
  <1> SUFFICES ASSUME Init PROVE IInv
    OBVIOUS
  <1>1. TypeOK
    BY DuelConstants DEF Init, TypeOK, Combatant
  <1>2. EndsByTheLimit /\ LogAgrees /\ PreviousTrailsOneRound
    BY DuelConstants DEF Init, EndsByTheLimit, LogAgrees, PreviousTrailsOneRound
  <1>3. VerdictMatchesBars
    BY DuelConstants DEF Init, VerdictMatchesBars
  <1> QED BY <1>1, <1>2, <1>3 DEF IInv

LEMMA IInvNext == IInv /\ [Next]_vars => IInv'
  <1> SUFFICES ASSUME IInv, [Next]_vars PROVE IInv'
    OBVIOUS
  <1>1. CASE UNCHANGED vars
    BY <1>1 DEF vars, IInv, TypeOK, EndsByTheLimit, VerdictMatchesBars, LogAgrees,
                PreviousTrailsOneRound
  <1>2. ASSUME NEW d \in Decisions, NEW hit \in [Sides -> Hits], Submit(d, hit)
        PROVE  IInv'
    <2>1. PICK bitten : st' = AfterHazards(BeforeHazards(d, hit), d, bitten)
                        /\ outcome' = Verdict(st', round')
      BY <1>2 DEF Submit, Resolve
    <2>2. /\ round' = round + 1 /\ round \in Nat /\ round < MaxRounds
          /\ roundStart' = [s \in Sides |-> st[s].bp]
          /\ barLog' = [barLog EXCEPT ![round'] = [s \in Sides |-> st[s].bp]]
          /\ UNCHANGED <<arena, attuned>>
      BY <1>2 DEF Submit, Resolve, NextRound, IInv, EndsByTheLimit, TypeOK
    <2>3. st' \in Pair /\ \A s \in Sides : st'[s].prev = roundStart[s]
      BY <2>1, RoundType DEF IInv
    <2>4. /\ outcome' \in Outcomes \cup {Undecided}
          /\ round' >= MaxRounds => outcome' # Undecided
          /\ VerdictFits(st', outcome')
      <3>1. PICK c \in Pair, r \in Nat : c = st' /\ r = round'
        BY <2>2, <2>3
      <3> QED BY <2>1, <3>1, VerdictType, VerdictFitsBars
    <2>5. [s \in Sides |-> st[s].bp] \in [Sides -> 0 .. StartingBP]
      BY DEF IInv, TypeOK, Combatant
    <2>6. TypeOK'
      BY <2>2, <2>3, <2>4, <2>5 DEF TypeOK, IInv, Pair
    <2>7. EndsByTheLimit'
      BY <2>2, <2>4, DuelConstants DEF EndsByTheLimit
    <2>8. VerdictMatchesBars'
      <3>1. barLog'[round' - 1] = roundStart
        BY <2>2, DuelConstants DEF LogAgrees, IInv
      <3>2. \A s \in Sides : Other(s) \in Sides
        BY DEF Other, Sides
      <3>3. \A s \in Sides :
              st'[s].prev > st'[Other(s)].prev <=> barLog'[round' - 1][s] > barLog'[round' - 1][Other(s)]
        BY <2>3, <3>1, <3>2
      <3> QED BY <2>4, <3>3 DEF VerdictMatchesBars, VerdictFits
    <2>9. LogAgrees'
      BY <2>2, <2>5, DuelConstants DEF LogAgrees, IInv
    <2>10. PreviousTrailsOneRound'
      <3>1. barLog'[round] = roundStart /\ round' - 1 = round
        BY <2>2, DuelConstants DEF LogAgrees, IInv
      <3> QED BY <2>3, <3>1 DEF PreviousTrailsOneRound
    <2> QED BY <2>6, <2>7, <2>8, <2>9, <2>10 DEF IInv
  <1> QED BY <1>1, <1>2 DEF Next

\* Bars and souls stay in their ranges, whatever the arena and the hits.
THEOREM DuelTypeCorrect == Spec => []TypeOK
  BY IInvInit, IInvNext, PTL DEF Spec, IInv

\* Every verdict is determined by the bars: those at the end of the match, and for
\* a double knockout those when the round before the last one began.
THEOREM VerdictIsWhatTheBarsShow == Spec => []VerdictMatchesBars
  BY IInvInit, IInvNext, PTL DEF Spec, IInv

\* No match is open at the round limit.
THEOREM DuelStaysInTheLimit == Spec => []EndsByTheLimit
  BY IInvInit, IInvNext, PTL DEF Spec, IInv

\* REWIND restores the bar at the start of the round before.
THEOREM RewindGoesBackOneRound == Spec => []PreviousTrailsOneRound
  BY IInvInit, IInvNext, PTL DEF Spec, IInv

-----------------------------------------------------------------------------
(***************************************************************************)
(* What a round makes of one side, as a function of that side alone and of *)
(* what was decided, hit and rolled: the order of the sides drops out.     *)
(***************************************************************************)
Own(f) ==
  LET paid == [f EXCEPT !.souls = @ - arena.cost]
  IN  CASE arena.effect = "mend" -> WithBP(paid, paid.bp + arena.magnitude)
        [] arena.effect = "purge" -> WithBP([paid EXCEPT !.left = 0], paid.bp + arena.magnitude)
        [] arena.effect = "veil" -> paid
        [] arena.effect = "ruin" -> paid
        [] arena.effect = "rewind" -> WithBP(paid, paid.prev)
Hurt(f) == WithBP(f, f.bp - arena.magnitude)
Settled(f, pays, other) ==
  LET own == IF pays THEN Own(f) ELSE f
  IN  IF other /\ arena.effect = "ruin" THEN Hurt(own) ELSE own

LEMMA Clamped ==
  ASSUME NEW f \in Combatant, NEW x \in Int
  PROVE  /\ WithBP(f, x) \in Combatant /\ WithBP(f, x) = [f EXCEPT !.bp = Clamp(x)]
         /\ WithBP(f, x).souls = f.souls /\ WithBP(f, x).left = f.left
         /\ WithBP(f, x).bp = Clamp(x) /\ WithBP(f, x).prev = f.prev
  BY DuelConstants DEF WithBP, Clamp, Combatant

LEMMA PaidCombatant ==
  ASSUME ArenaType, NEW f \in Combatant, f.souls >= arena.cost
  PROVE  \E paid \in Combatant, cured \in Combatant :
           /\ paid = [f EXCEPT !.souls = @ - arena.cost] /\ paid.left = f.left
           /\ cured = [paid EXCEPT !.left = 0] /\ cured.left = 0
  <1>1. PICK n \in 0 .. MaxSouls : n = f.souls - arena.cost
    BY DuelConstants DEF Combatant, ArenaType
  <1>2. PICK paid : paid = [f EXCEPT !.souls = n]
    OBVIOUS
  <1>3. paid \in Combatant /\ paid.left = f.left
    BY <1>2 DEF Combatant
  <1>4. PICK cured : cured = [paid EXCEPT !.left = 0]
    OBVIOUS
  <1>5. cured \in Combatant /\ cured.left = 0
    BY <1>3, <1>4 DEF Combatant
  <1> QED BY <1>1, <1>2, <1>3, <1>4, <1>5

LEMMA OwnEffect ==
  ASSUME ArenaType, NEW f \in Combatant, f.souls >= arena.cost
  PROVE  /\ Own(f) \in Combatant
         /\ Own(f).left = IF arena.effect = "purge" THEN 0 ELSE f.left
  <1>1. PICK paid \in Combatant, cured \in Combatant :
          /\ paid = [f EXCEPT !.souls = @ - arena.cost] /\ paid.left = f.left
          /\ cured = [paid EXCEPT !.left = 0] /\ cured.left = 0
    BY PaidCombatant
  <1>2. paid.bp + arena.magnitude \in Int /\ paid.prev \in Int
    BY DuelConstants DEF Combatant, ArenaType
  <1> PICK x \in Int, y \in Int : x = paid.bp + arena.magnitude /\ y = paid.prev
    BY <1>2
  <1>3. WithBP(paid, x) \in Combatant /\ WithBP(paid, x).left = f.left
    BY <1>1, Clamped
  <1>4. WithBP(cured, x) \in Combatant /\ WithBP(cured, x).left = 0
    BY <1>1, Clamped
  <1>5. WithBP(paid, y) \in Combatant /\ WithBP(paid, y).left = f.left
    BY <1>1, Clamped
  <1>6. CASE arena.effect = "purge"
    <2>1. cured.bp = paid.bp
      BY <1>1 DEF Combatant
    <2>2. Own(f) = WithBP(cured, x)
      BY <1>1, <1>6, <2>1 DEF Own
    <2> QED BY <1>4, <1>6, <2>2
  <1>7. CASE arena.effect # "purge"
    <2>1. Own(f) = paid \/ Own(f) = WithBP(paid, x) \/ Own(f) = WithBP(paid, y)
      BY <1>1, <1>7 DEF Own, ArenaType
    <2> QED BY <1>1, <1>3, <1>5, <1>7, <2>1
  <1> QED BY <1>6, <1>7

LEMMA HurtEffect ==
  ASSUME ArenaType, NEW f \in Combatant
  PROVE  Hurt(f) \in Combatant /\ Hurt(f).left = f.left /\ Hurt(f).souls = f.souls
  <1>1. f.bp - arena.magnitude \in Int
    BY DuelConstants DEF Combatant, ArenaType
  <1> QED BY <1>1, Clamped DEF Hurt

\* Paying for a ruin and being hit by one do not depend on their order.
LEMMA RuinsCommute ==
  ASSUME ArenaType, arena.effect = "ruin", NEW f \in Combatant, f.souls >= arena.cost
  PROVE  Own(Hurt(f)) = Hurt(Own(f))
  <1>1. f.bp - arena.magnitude \in Int /\ f.souls - arena.cost \in Int
    BY DuelConstants DEF Combatant, ArenaType
  <1>2. PICK x \in 0 .. StartingBP : x = Clamp(f.bp - arena.magnitude)
    BY <1>1, DuelConstants DEF Clamp
  <1>3. PICK n \in 0 .. MaxSouls : n = f.souls - arena.cost
    BY DuelConstants DEF Combatant, ArenaType
  <1>4. Hurt(f) = [f EXCEPT !.bp = x] /\ [f EXCEPT !.bp = x].souls = f.souls
    BY <1>2 DEF Hurt, WithBP, Combatant
  <1>5. Own(Hurt(f)) = [[f EXCEPT !.bp = x] EXCEPT !.souls = n]
    BY <1>3, <1>4 DEF Own
  <1>6. Own(f) = [f EXCEPT !.souls = n] /\ [f EXCEPT !.souls = n].bp = f.bp
    BY <1>3 DEF Own, Combatant
  <1>7. Hurt(Own(f)) = [[f EXCEPT !.souls = n] EXCEPT !.bp = x]
    BY <1>2, <1>6 DEF Hurt, WithBP
  <1> QED BY <1>5, <1>7 DEF Combatant

\* One soul action: its side's own effect, and the ruin of the other side.
LEMMA OneSoulAction ==
  ASSUME ArenaType, NEW c \in Pair, NEW s \in Sides, NEW d \in Decisions
  PROVE  /\ SoulAction(c, s, d)[s] = IF Pays(c, s, d) THEN Own(c[s]) ELSE c[s]
         /\ SoulAction(c, s, d)[Other(s)] =
              IF Pays(c, s, d) /\ arena.effect = "ruin" THEN Hurt(c[Other(s)]) ELSE c[Other(s)]
  <1>1. Other(s) \in Sides /\ Other(s) # s
    BY DEF Other, Sides
  <1>2. CASE ~Pays(c, s, d)
    BY <1>2 DEF SoulAction
  <1>3. CASE Pays(c, s, d)
    <2>1. CASE arena.effect = "ruin"
      <3>1. SoulAction(c, s, d) = [c EXCEPT ![s] = Own(c[s]), ![Other(s)] = Hurt(c[Other(s)])]
        BY <1>3, <2>1 DEF SoulAction, Own, Hurt
      <3> QED BY <1>1, <1>3, <2>1, <3>1 DEF Pair
    <2>2. CASE arena.effect # "ruin"
      <3>1. SoulAction(c, s, d) = [c EXCEPT ![s] = Own(c[s])]
        <4>1. CASE arena.effect = "mend"
          BY <1>3, <4>1 DEF SoulAction, Own
        <4>2. CASE arena.effect = "purge"
          BY <1>3, <4>2 DEF SoulAction, Own
        <4>3. CASE arena.effect = "veil"
          BY <1>3, <4>3 DEF SoulAction, Own
        <4>4. CASE arena.effect = "rewind"
          BY <1>3, <4>4 DEF SoulAction, Own
        <4> QED BY <2>2, <4>1, <4>2, <4>3, <4>4 DEF ArenaType
      <3> QED BY <1>1, <1>3, <2>2, <3>1 DEF Pair
    <2> QED BY <2>1, <2>2
  <1> QED BY <1>2, <1>3

LEMMA SettledSides ==
  ASSUME ArenaType, NEW c \in Pair, NEW d \in Decisions, NEW s \in Sides
  PROVE  /\ SoulActions(c, d)[s] = Settled(c[s], Pays(c, s, d), Pays(c, Other(s), d))
         /\ SoulActions(c, d) \in Pair
         /\ SoulActions(c, d)[s].left =
              IF Pays(c, s, d) /\ arena.effect = "purge" THEN 0 ELSE c[s].left
  <1> DEFINE pa == Pays(c, "A", d)
             pb == Pays(c, "B", d)
             ruins == arena.effect = "ruin"
  <1>1. "A" \in Sides /\ "B" \in Sides /\ Other("A") = "B" /\ Other("B") = "A" /\ (s = "A" \/ s = "B")
    BY DEF Sides, Other
  <1>2. PICK c1 : c1 = SoulAction(c, "A", d)
    OBVIOUS
  <1>3. /\ c1 \in Pair
        /\ c1["A"] = IF pa THEN Own(c["A"]) ELSE c["A"]
        /\ c1["B"] = IF pa /\ ruins THEN Hurt(c["B"]) ELSE c["B"]
    BY <1>1, <1>2, OneSoulAction, SoulActionType
  <1>4. c["A"] \in Combatant /\ c["B"] \in Combatant
    BY <1>1 DEF Pair
  <1>5. Pays(c1, "B", d) <=> pb
    BY <1>3, <1>4, HurtEffect DEF Pays
  <1>6. PICK c2 : c2 = SoulActions(c, d)
    OBVIOUS
  <1>7. /\ c2 \in Pair
        /\ c2["B"] = IF pb THEN Own(c1["B"]) ELSE c1["B"]
        /\ c2["A"] = IF pb /\ ruins THEN Hurt(c1["A"]) ELSE c1["A"]
    <2>1. c2 = SoulAction(c1, "B", d)
      BY <1>2, <1>6 DEF SoulActions
    <2> QED BY <1>1, <1>3, <1>5, <2>1, OneSoulAction, SoulActionType
  <1>8. /\ pa => c["A"].souls >= arena.cost
        /\ pb => c["B"].souls >= arena.cost
    BY DEF Pays
  <1>9. c2["A"] = Settled(c["A"], pa, pb)
    BY <1>3, <1>7 DEF Settled
  <1>10. c2["B"] = Settled(c["B"], pb, pa)
    BY <1>3, <1>4, <1>7, <1>8, RuinsCommute DEF Settled
  <1>11. ASSUME NEW f \in Combatant, NEW pays \in BOOLEAN, NEW other \in BOOLEAN,
                pays => f.souls >= arena.cost
         PROVE  Settled(f, pays, other).left = IF pays /\ arena.effect = "purge" THEN 0 ELSE f.left
    <2>1. PICK own \in Combatant :
            /\ own = IF pays THEN Own(f) ELSE f
            /\ own.left = IF pays /\ arena.effect = "purge" THEN 0 ELSE f.left
      BY <1>11, OwnEffect
    <2> QED BY <2>1, HurtEffect DEF Settled
  <1>12. pa \in BOOLEAN /\ pb \in BOOLEAN
    BY DEF Pays, Decisions
  <1> HIDE DEF pa, pb, ruins
  <1>13. /\ c2["A"].left = IF pa /\ arena.effect = "purge" THEN 0 ELSE c["A"].left
         /\ c2["B"].left = IF pb /\ arena.effect = "purge" THEN 0 ELSE c["B"].left
    BY <1>4, <1>8, <1>9, <1>10, <1>11, <1>12
  <1> QED BY <1>1, <1>6, <1>7, <1>9, <1>10, <1>13 DEF pa, pb

-----------------------------------------------------------------------------
(* Burns: every round of one is felt, and a new one starts the count again. *)

\* How long an affliction has left before the hazards of a round, and after it.
LEMMA StruckLeft ==
  ASSUME TypeOK, NEW d \in Decisions, NEW hit \in [Sides -> Hits], NEW s \in Sides
  PROVE  BeforeHazards(d, hit)[s].left =
           IF Pays(st, s, d) /\ arena.effect = "purge" THEN 0 ELSE st[s].left
  <1>1. ArenaType
    BY DuelConstants DEF ArenaType, TypeOK
  <1>2. PICK c \in Pair : c = AtRoundStart
    BY DEF AtRoundStart, PreviousBP, TypeOK, Pair, Combatant
  <1>3. c[s].left = st[s].left /\ (Pays(c, s, d) <=> Pays(st, s, d))
    <2>1. st[s] \in Combatant /\ c[s] = [st[s] EXCEPT !.prev = roundStart[s]]
      BY <1>2 DEF AtRoundStart, PreviousBP, TypeOK
    <2>2. c[s].left = st[s].left /\ c[s].souls = st[s].souls
      BY <2>1 DEF Combatant
    <2> QED BY <2>2 DEF Pays
  <1>4. PICK c2 \in Pair : c2 = SoulActions(c, d)
    BY <1>1, <1>2, SettledSides
  <1>5. c2[s].left = IF Pays(c, s, d) /\ arena.effect = "purge" THEN 0 ELSE c[s].left
    BY <1>1, <1>4, SettledSides
  <1>6. BeforeHazards(d, hit)[s].left = c2[s].left
    <2> DEFINE h == hit[Other(s)]
               loss == IF s \in Veiled(c, d) THEN Softened(h) ELSE h
    <2>1. h \in Nat
      BY DuelConstants DEF Other, Sides
    <2>2. loss \in Int
      BY <1>1, <2>1, SoftenedHit
    <2>3. BeforeHazards(d, hit)[s] = WithBP(c2[s], c2[s].bp - loss)
      BY <1>2, <1>4 DEF BeforeHazards, Strike
    <2>4. c2[s] \in Combatant /\ c2[s].bp \in Int
      BY DuelConstants DEF Pair, Combatant
    <2> HIDE DEF loss
    <2> QED BY <2>2, <2>3, <2>4, Clamped
  <1> QED BY <1>3, <1>5, <1>6

LEMMA LeftAfterHazards ==
  ASSUME NEW c \in Pair, NEW d \in Decisions, NEW bitten, NEW s \in Sides
  PROVE  \E l \in Nat :
           /\ l = IF s \in bitten THEN RefreshedLeft(c[s].left, Duration) ELSE c[s].left
           /\ AfterHazards(c, d, bitten)[s].left = IF l = 0 THEN 0 ELSE l - 1
  <1>1. PICK l \in Nat : l = IF s \in bitten THEN RefreshedLeft(c[s].left, Duration) ELSE c[s].left
    BY DuelConstants DEF RefreshedLeft, Duration, Pair, Combatant
  <1>2. PICK c4 \in Pair : c4 = Inflict(c, bitten)
    BY InflictType
  <1>3. c4[s].left = l
    BY <1>1, <1>2 DEF Inflict, Pair, Combatant
  <1>4. PICK c5 \in Pair : c5 = Tick(c4)
    BY TickType
  <1>5. c5[s].left = IF l = 0 THEN 0 ELSE l - 1
    <2>1. CASE l = 0
      BY <1>3, <1>4, <2>1 DEF Tick
    <2>2. CASE l # 0
      <3>1. PICK ticked \in Combatant : ticked = [c4[s] EXCEPT !.left = @ - 1] /\ ticked.left = l - 1
        <4>1. PICK n \in Nat : n = l - 1 /\ c4[s] \in Combatant
          BY <2>2 DEF Pair
        <4>2. [c4[s] EXCEPT !.left = n] \in Combatant /\ [c4[s] EXCEPT !.left = n].left = n
          BY <4>1 DEF Combatant
        <4> QED BY <1>3, <4>1, <4>2
      <3>2. c5[s] = IF arena.hazard = "burn" THEN WithBP(ticked, ticked.bp - BurnDamage) ELSE ticked
        BY <1>3, <1>4, <2>2, <3>1 DEF Tick
      <3>3. PICK x \in Int : x = ticked.bp - BurnDamage
        BY DuelConstants DEF Combatant
      <3>4. WithBP(ticked, x).left = ticked.left
        BY <3>3, Clamped
      <3>5. c5[s].left = ticked.left
        BY <3>2, <3>3, <3>4
      <3> QED BY <2>2, <3>1, <3>5
    <2> QED BY <2>1, <2>2
  <1>6. Award(c5, d)[s].left = c5[s].left
    BY DEF Award, Pair, Combatant
  <1> QED BY <1>1, <1>2, <1>4, <1>5, <1>6 DEF AfterHazards

\* What a burn has left and what was felt of it make up its duration.
BurnInv ==
  arena.hazard = "burn" =>
    /\ spells \subseteq {BurnDuration}
    /\ \A s \in Sides : /\ st[s].left <= BurnDuration /\ felt[s] \in Nat
                        /\ st[s].left > 0 => felt[s] + st[s].left = BurnDuration

LEMMA BurnInvNext ==
  ASSUME IInv, BurnInv, NEW d \in Decisions, NEW hit \in [Sides -> Hits], Submit(d, hit)
  PROVE  BurnInv'
  <1> SUFFICES ASSUME arena'.hazard = "burn"
               PROVE  /\ spells' \subseteq {BurnDuration}
                      /\ \A s \in Sides : /\ st'[s].left <= BurnDuration /\ felt'[s] \in Nat
                                          /\ st'[s].left > 0 => felt'[s] + st'[s].left = BurnDuration
    BY DEF BurnInv
  <1>1. PICK struck, bitten :
          struck = BeforeHazards(d, hit) /\ Resolve(d, struck, bitten)
    BY DEF Submit
  <1>2. /\ TypeOK /\ arena.hazard = "burn" /\ struck \in Pair /\ st' = AfterHazards(struck, d, bitten)
        /\ Duration = BurnDuration
    BY <1>1, RoundType DEF Resolve, IInv, Duration
  <1> DEFINE purged == {s \in Sides : Pays(st, s, d) /\ arena.effect = "purge"}
             weak(s) == IF arena.hazard = "chill" /\ st[s].left > 0 /\ s \notin purged THEN 1 ELSE 0
             burns(s) == IF arena.hazard = "burn" /\ (struck[s].left > 0 \/ s \in bitten) THEN 1 ELSE 0
             count(s) == (IF s \in bitten \cup purged THEN 0 ELSE felt[s] + weak(s)) + burns(s)
             ends(s) == struck[s].left = 1 /\ s \notin bitten
  <1>3. /\ felt' = [s \in Sides |-> IF ends(s) THEN 0 ELSE count(s)]
        /\ spells' = spells \cup {count(s) : s \in {x \in Sides : ends(x)}}
    BY <1>1 DEF Resolve, Feel
  <1>4. ASSUME NEW s \in Sides
        PROVE  /\ ends(s) => count(s) = BurnDuration
               /\ st'[s].left <= BurnDuration /\ felt'[s] \in Nat
               /\ st'[s].left > 0 => felt'[s] + st'[s].left = BurnDuration
    <2>0. PICK l0 \in Nat, f0 \in Nat, s0 \in Nat :
            l0 = st[s].left /\ f0 = felt[s] /\ s0 = struck[s].left
      BY <1>2 DEF BurnInv, TypeOK, Pair, Combatant
    <2>1. PICK l \in Nat :
            /\ l = IF s \in bitten THEN RefreshedLeft(s0, Duration) ELSE s0
            /\ st'[s].left = IF l = 0 THEN 0 ELSE l - 1
      BY <1>2, <2>0, LeftAfterHazards
    <2>2. /\ l0 <= BurnDuration /\ (l0 > 0 => f0 + l0 = BurnDuration)
          /\ s0 = IF s \in purged THEN 0 ELSE l0
      BY <1>1, <1>2, <2>0, StruckLeft DEF BurnInv
    <2>3. BurnDuration \in Nat
      BY DuelConstants
    <2>4. CASE s \in bitten
      <3>1. l = BurnDuration /\ ~ends(s) /\ count(s) = 1
        BY <1>2, <2>0, <2>1, <2>2, <2>3, <2>4 DEF RefreshedLeft
      <3>2. felt'[s] = 1
        BY <1>3, <3>1
      <3> QED BY <2>1, <2>3, <3>1, <3>2
    <2>5. CASE s \notin bitten /\ s \in purged
      <3>1. l = 0 /\ ~ends(s) /\ count(s) = 0
        BY <1>2, <2>0, <2>1, <2>2, <2>5
      <3>2. felt'[s] = 0
        BY <1>3, <3>1
      <3> QED BY <2>1, <2>3, <3>1, <3>2
    <2>6. CASE s \notin bitten /\ s \notin purged
      <3>1. l = l0 /\ (ends(s) <=> l0 = 1) /\ count(s) = IF l0 > 0 THEN f0 + 1 ELSE f0
        BY <1>2, <2>0, <2>1, <2>2, <2>6
      <3>2. felt'[s] = IF l0 = 1 THEN 0 ELSE IF l0 > 0 THEN f0 + 1 ELSE f0
        BY <1>3, <3>1
      <3> HIDE DEF ends, count
      <3> QED BY <2>1, <2>2, <2>3, <3>1, <3>2
    <2> QED BY <2>4, <2>5, <2>6
  <1> HIDE DEF ends, count
  <1> QED BY <1>2, <1>3, <1>4 DEF BurnInv

\* A burn that runs its course is felt in exactly BURN_DURATION rounds, however
\* often it was refreshed before and whatever was purged (inflict and
\* apply_status_tick of statuses).
THEOREM BurnsRunTheirCourse == Spec => []BurnLastsAsDesigned
  <1>1. Init => BurnInv
    BY DuelConstants DEF Init, BurnInv
  <1>2. IInv /\ BurnInv /\ [Next]_vars => BurnInv'
    BY BurnInvNext DEF Next, vars, BurnInv
  <1>3. BurnInv => BurnLastsAsDesigned
    BY DEF BurnInv, BurnLastsAsDesigned
  <1> QED BY <1>1, <1>2, <1>3, IInvInit, IInvNext, PTL DEF Spec

-----------------------------------------------------------------------------
(* Who is visited first does not matter: each stage of a round commutes    *)
(* with the exchange of the two sides.                                     *)

LEMMA TwoSides ==
  /\ Sides = {"A", "B"} /\ "A" # "B" /\ Other("A") = "B" /\ Other("B") = "A"
  /\ \A s \in Sides : Other(s) \in Sides /\ Other(Other(s)) = s /\ Other(s) # s
  BY DEF Sides, Other

\* Of two level fighters, each gets from its soul action what the other would
\* have got in its place.
LEMMA SoulActionsMirror ==
  ASSUME ArenaType, NEW c \in Pair, c["A"] = c["B"], NEW d \in Decisions
  PROVE  /\ SoulActions(c, Swap(d)) = Swap(SoulActions(c, d))
         /\ \A s \in Sides : s \in Veiled(c, Swap(d)) <=> Other(s) \in Veiled(c, d)
  <1>1. Swap(d) \in Decisions
    BY TwoSides DEF Swap, Decisions
  <1>2. ASSUME NEW s \in Sides
        PROVE  /\ c[Other(s)] = c[s] /\ Swap(d)[s] = d[Other(s)]
               /\ Pays(c, s, Swap(d)) <=> Pays(c, Other(s), d)
    <2>1. c[Other(s)] = c[s] /\ Swap(d)[s] = d[Other(s)]
      BY TwoSides DEF Swap
    <2> QED BY <2>1 DEF Pays
  <1>3. \A s \in Sides : s \in Veiled(c, Swap(d)) <=> Other(s) \in Veiled(c, d)
    BY <1>2, TwoSides DEF Veiled
  <1>4. ASSUME NEW s \in Sides
        PROVE  SoulActions(c, Swap(d))[s] = SoulActions(c, d)[Other(s)]
    <2>1. PICK o \in Sides : o = Other(s) /\ Other(o) = s
      BY TwoSides
    <2>2. SoulActions(c, Swap(d))[s]
            = Settled(c[s], Pays(c, s, Swap(d)), Pays(c, o, Swap(d)))
      BY <1>1, <2>1, SettledSides
    <2>3. SoulActions(c, d)[o] = Settled(c[o], Pays(c, o, d), Pays(c, s, d))
      BY <2>1, SettledSides
    <2>4. /\ c[o] = c[s] /\ Pays(c, s, Swap(d)) = Pays(c, o, d)
          /\ Pays(c, o, Swap(d)) = Pays(c, s, d)
      BY <1>2, <2>1 DEF Pays
    <2> QED BY <2>1, <2>2, <2>3, <2>4
  <1>5. SoulActions(c, Swap(d)) \in Pair
    BY <1>1, SettledSides, TwoSides
  <1> QED BY <1>3, <1>4, <1>5 DEF Swap, Pair

LEMMA StrikeMirrors ==
  ASSUME NEW c, NEW veiled, NEW mirrored, NEW hit,
         \A s \in Sides : s \in mirrored <=> Other(s) \in veiled
  PROVE  Strike(Swap(c), mirrored, Swap(hit)) = Swap(Strike(c, veiled, hit))
  <1> SUFFICES ASSUME NEW s \in Sides
               PROVE  Strike(Swap(c), mirrored, Swap(hit))[s] = Strike(c, veiled, hit)[Other(s)]
    BY TwoSides DEF Strike, Swap
  <1>1. PICK o \in Sides : o = Other(s) /\ Other(o) = s
    BY TwoSides
  <1>2. Swap(c)[s] = c[o] /\ Swap(hit)[o] = hit[s]
    BY <1>1 DEF Swap
  <1> QED BY <1>1, <1>2 DEF Strike

\* The stages after the hazard rolls look at one side at a time.
LEMMA AfterHazardsMirror ==
  ASSUME NEW c, NEW d, NEW bitten \in SUBSET Sides
  PROVE  AfterHazards(Swap(c), Swap(d), {Other(s) : s \in bitten})
           = Swap(AfterHazards(c, d, bitten))
  <1> DEFINE mirror == {Other(s) : s \in bitten}
  <1>1. ASSUME NEW s \in Sides
        PROVE  s \in mirror <=> Other(s) \in bitten
    <2>1. ASSUME s \in mirror PROVE Other(s) \in bitten
      <3>1. PICK x \in bitten : s = Other(x)
        BY <2>1
      <3> QED BY <3>1, TwoSides
    <2>2. ASSUME Other(s) \in bitten PROVE s \in mirror
      <3>1. s = Other(Other(s))
        BY TwoSides
      <3> QED BY <2>2, <3>1
    <2> QED BY <2>1, <2>2
  <1>2. Inflict(Swap(c), mirror) = Swap(Inflict(c, bitten))
    <2>1. \A s \in Sides : Swap(c)[s] = c[Other(s)]
      BY DEF Swap
    <2> HIDE DEF mirror
    <2>2. \A s \in Sides : Inflict(Swap(c), mirror)[s] = Inflict(c, bitten)[Other(s)]
      BY <1>1, <2>1, TwoSides DEF Inflict
    <2> QED BY <2>2, TwoSides DEF Inflict, Swap
  <1>3. ASSUME NEW e
        PROVE  Tick(Swap(e)) = Swap(Tick(e))
    <2>1. \A s \in Sides : Tick(Swap(e))[s] = Tick(e)[Other(s)]
      <3>1. \A s \in Sides : Swap(e)[s] = e[Other(s)]
        BY DEF Swap
      <3> QED BY <3>1, TwoSides DEF Tick
    <2> QED BY <2>1 DEF Tick, Swap
  <1>4. ASSUME NEW e
        PROVE  Award(Swap(e), Swap(d)) = Swap(Award(e, d))
    <2>1. \A s \in Sides : Award(Swap(e), Swap(d))[s] = Award(e, d)[Other(s)]
      <3>1. \A s \in Sides : Swap(e)[s] = e[Other(s)] /\ Swap(d)[s] = d[Other(s)]
        BY DEF Swap
      <3> QED BY <3>1, TwoSides DEF Award
    <2> QED BY <2>1 DEF Award, Swap
  <1> QED BY <1>2, <1>3, <1>4 DEF AfterHazards

\* What check_end returns on each pair of bars.
LEMMA VerdictSpelt ==
  ASSUME NEW c \in Pair, NEW r \in Nat
  PROVE  /\ (\A s \in Sides : c[s].bp = 0) =>
              Verdict(c, r) = [winner |-> Ahead(c["A"].prev, c["B"].prev), rounds |-> r,
                               reason |-> "double knockout"]
         /\ \A w \in Sides : (c[w].bp > 0 /\ c[Other(w)].bp = 0) =>
              Verdict(c, r) = [winner |-> w, rounds |-> r, reason |-> "knockout"]
         /\ ((\A s \in Sides : c[s].bp > 0) /\ RoundLimit(r)) =>
              Verdict(c, r) = [winner |-> Ahead(c["A"].bp, c["B"].bp), rounds |-> r,
                               reason |-> "round limit"]
         /\ ((\A s \in Sides : c[s].bp > 0) /\ ~RoundLimit(r)) => Verdict(c, r) = Undecided
  <1> DEFINE down == {s \in Sides : IsDown(c[s])}
  <1>1. \A s \in Sides : c[s].bp \in Nat /\ (s \in down <=> c[s].bp = 0)
    BY DuelConstants DEF Pair, Combatant, IsDown
  <1>2. Verdict(c, r) =
          IF down = Sides
            THEN [winner |-> Ahead(c["A"].prev, c["B"].prev), rounds |-> r,
                  reason |-> "double knockout"]
          ELSE IF down # {}
            THEN [winner |-> Other(CHOOSE s \in Sides : s \in down), rounds |-> r,
                  reason |-> "knockout"]
          ELSE IF RoundLimit(r)
            THEN [winner |-> Ahead(c["A"].bp, c["B"].bp), rounds |-> r, reason |-> "round limit"]
          ELSE Undecided
    BY DEF Verdict
  <1>3. down \subseteq Sides
    OBVIOUS
  <1> HIDE DEF down
  <1>4. (\A s \in Sides : c[s].bp = 0) => down = Sides
    BY <1>1, <1>3
  <1>5. (\A s \in Sides : c[s].bp > 0) => (down = {} /\ down # Sides)
    BY <1>1, <1>3, TwoSides
  <1>6. ASSUME NEW w \in Sides, c[w].bp > 0, c[Other(w)].bp = 0
        PROVE  Verdict(c, r) = [winner |-> w, rounds |-> r, reason |-> "knockout"]
    <2>1. Other(w) \in down /\ w \notin down /\ Other(w) \in Sides
      BY <1>1, <1>6, TwoSides
    <2>2. \A s \in Sides : s \in down <=> s = Other(w)
      BY <2>1, TwoSides
    <2>3. (CHOOSE s \in Sides : s \in down) = Other(w)
      BY <2>1, <2>2
    <2> QED BY <1>2, <2>1, <2>3, TwoSides
  <1> QED BY <1>2, <1>4, <1>5, <1>6

LEMMA AheadMirrors ==
  ASSUME NEW a \in Nat, NEW b \in Nat
  PROVE  /\ Ahead(a, b) \in {"A", "B", "nobody"}
         /\ Ahead(b, a) = IF Ahead(a, b) = "nobody" THEN "nobody" ELSE Other(Ahead(a, b))
  BY DEF Ahead, Other

LEMMA MirroredRecord ==
  ASSUME NEW w \in Sides \cup {"nobody"}, NEW r \in Nat,
         NEW why \in {"knockout", "double knockout", "round limit"}
  PROVE  Mirrored([winner |-> w, rounds |-> r, reason |-> why])
           = [winner |-> IF w = "nobody" THEN "nobody" ELSE Other(w), rounds |-> r, reason |-> why]
  BY DecidedOutcome DEF Mirrored

LEMMA VerdictMirrors ==
  ASSUME NEW c \in Pair, NEW r \in Nat
  PROVE  Mirrored(Verdict(Swap(c), r)) = Verdict(c, r)
  <1>1. PICK m \in Pair : m = Swap(c) /\ m["A"] = c["B"] /\ m["B"] = c["A"]
                         /\ \A s \in Sides : m[s] = c[Other(s)] /\ m[Other(s)] = c[s]
    <2>1. PICK m : m = Swap(c)
      OBVIOUS
    <2>2. \A s \in Sides : m[s] = c[Other(s)]
      BY <2>1 DEF Swap
    <2>3. m \in Pair
      BY <2>1, TwoSides DEF Swap, Pair
    <2> QED BY <2>1, <2>2, <2>3, TwoSides
  <1>2. /\ c["A"].prev \in Nat /\ c["B"].prev \in Nat /\ c["A"].bp \in Nat /\ c["B"].bp \in Nat
        /\ \A s \in Sides : c[s].bp \in Nat
    BY TwoSides, DuelConstants DEF Pair, Combatant
  <1>3. ASSUME NEW a \in Nat, NEW b \in Nat,
               NEW why \in {"knockout", "double knockout", "round limit"}
        PROVE  Mirrored([winner |-> Ahead(b, a), rounds |-> r, reason |-> why])
                 = [winner |-> Ahead(a, b), rounds |-> r, reason |-> why]
    <2>1. Ahead(b, a) \in Sides \cup {"nobody"}
      BY AheadMirrors, TwoSides
    <2>2. Ahead(a, b) = IF Ahead(b, a) = "nobody" THEN "nobody" ELSE Other(Ahead(b, a))
      BY AheadMirrors
    <2> QED BY <2>1, <2>2, MirroredRecord
  <1>4. CASE \A s \in Sides : c[s].bp = 0
    <2>1. \A s \in Sides : m[s].bp = 0
      BY <1>1, <1>4, TwoSides
    <2>2. Verdict(m, r) = [winner |-> Ahead(c["B"].prev, c["A"].prev), rounds |-> r,
                           reason |-> "double knockout"]
      BY <1>1, <2>1, VerdictSpelt
    <2>3. Mirrored(Verdict(m, r)) = [winner |-> Ahead(c["A"].prev, c["B"].prev), rounds |-> r,
                                     reason |-> "double knockout"]
      <3>1. PICK a \in Nat, b \in Nat : a = c["A"].prev /\ b = c["B"].prev
        BY <1>2
      <3>2. Mirrored([winner |-> Ahead(b, a), rounds |-> r, reason |-> "double knockout"])
              = [winner |-> Ahead(a, b), rounds |-> r, reason |-> "double knockout"]
        BY <1>3
      <3> QED BY <2>2, <3>1, <3>2
    <2> QED BY <1>1, <1>4, <2>3, VerdictSpelt
  <1>5. ASSUME NEW w \in Sides, c[w].bp > 0, c[Other(w)].bp = 0
        PROVE  Mirrored(Verdict(Swap(c), r)) = Verdict(c, r)
    <2>1. PICK o \in Sides : o = Other(w) /\ Other(o) = w /\ o # "nobody"
      BY TwoSides
    <2>2. m[o].bp > 0 /\ m[Other(o)].bp = 0
      BY <1>1, <1>5, <2>1
    <2>3. Verdict(m, r) = [winner |-> o, rounds |-> r, reason |-> "knockout"]
      BY <2>2, VerdictSpelt
    <2>4. Mirrored(Verdict(m, r)) = [winner |-> w, rounds |-> r, reason |-> "knockout"]
      BY <2>1, <2>3, MirroredRecord
    <2> QED BY <1>1, <1>5, <2>4, VerdictSpelt
  <1>6. CASE \A s \in Sides : c[s].bp > 0
    <2>1. \A s \in Sides : m[s].bp > 0
      BY <1>1, <1>6, TwoSides
    <2>2. CASE RoundLimit(r)
      <3>1. Verdict(m, r) = [winner |-> Ahead(c["B"].bp, c["A"].bp), rounds |-> r,
                             reason |-> "round limit"]
        BY <1>1, <2>1, <2>2, VerdictSpelt
      <3>2. Mirrored(Verdict(m, r)) = [winner |-> Ahead(c["A"].bp, c["B"].bp), rounds |-> r,
                                       reason |-> "round limit"]
        <4>1. PICK a \in Nat, b \in Nat : a = c["A"].bp /\ b = c["B"].bp
          BY <1>2
        <4>2. Mirrored([winner |-> Ahead(b, a), rounds |-> r, reason |-> "round limit"])
                = [winner |-> Ahead(a, b), rounds |-> r, reason |-> "round limit"]
          BY <1>3
        <4> QED BY <3>1, <4>1, <4>2
      <3> QED BY <1>1, <1>6, <2>2, <3>2, VerdictSpelt
    <2>3. CASE ~RoundLimit(r)
      <3>1. Verdict(m, r) = Undecided /\ Verdict(c, r) = Undecided
        BY <1>6, <2>1, <2>3, VerdictSpelt
      <3> QED BY <1>1, <3>1 DEF Mirrored
    <2> QED BY <2>2, <2>3
  <1>7. \/ \A s \in Sides : c[s].bp = 0
        \/ \A s \in Sides : c[s].bp > 0
        \/ \E w \in Sides : c[w].bp > 0 /\ c[Other(w)].bp = 0
    BY <1>2, TwoSides
  <1> QED BY <1>4, <1>5, <1>6, <1>7

LEMMA LevelRoundMirrors == TypeOK => NoFirstMoverAdvantage
  <1> SUFFICES ASSUME TypeOK, st["A"] = st["B"], roundStart["A"] = roundStart["B"],
                      NEW d \in Decisions, NEW hit \in [Sides -> Hits]
               PROVE  \E struck \in {BeforeHazards(d, hit)} :
                        \E mirror \in {BeforeHazards(Swap(d), Swap(hit))} :
                          \A bitten \in SUBSET Exposed(struck) :
                            \E end \in {AfterHazards(struck, d, bitten)} :
                              /\ AfterHazards(mirror, Swap(d), {Other(s) : s \in bitten}) = Swap(end)
                              /\ Mirrored(Verdict(Swap(end), round + 1)) = Verdict(end, round + 1)
    BY DEF NoFirstMoverAdvantage
  <1>1. ArenaType
    BY DuelConstants DEF ArenaType, TypeOK
  <1>2. PICK c \in Pair : c = AtRoundStart /\ c["A"] = c["B"]
    <2>1. AtRoundStart \in Pair
      BY DEF AtRoundStart, PreviousBP, TypeOK, Pair, Combatant
    <2>2. AtRoundStart["A"] = AtRoundStart["B"]
      BY TwoSides DEF AtRoundStart, PreviousBP
    <2> QED BY <2>1, <2>2
  <1>3. PICK struck \in Pair : struck = BeforeHazards(d, hit)
    BY RoundType
  <1>4. BeforeHazards(Swap(d), Swap(hit)) = Swap(struck)
    <2>1. struck = Strike(SoulActions(c, d), Veiled(c, d), hit)
      BY <1>2, <1>3 DEF BeforeHazards
    <2>2. BeforeHazards(Swap(d), Swap(hit))
            = Strike(SoulActions(c, Swap(d)), Veiled(c, Swap(d)), Swap(hit))
      BY <1>2 DEF BeforeHazards
    <2>3. /\ SoulActions(c, Swap(d)) = Swap(SoulActions(c, d))
          /\ \A s \in Sides : s \in Veiled(c, Swap(d)) <=> Other(s) \in Veiled(c, d)
      BY <1>1, <1>2, SoulActionsMirror
    <2> QED BY <2>1, <2>2, <2>3, StrikeMirrors
  <1>5. ASSUME NEW bitten \in SUBSET Exposed(struck)
        PROVE  \E end \in {AfterHazards(struck, d, bitten)} :
                 /\ AfterHazards(Swap(struck), Swap(d), {Other(s) : s \in bitten}) = Swap(end)
                 /\ Mirrored(Verdict(Swap(end), round + 1)) = Verdict(end, round + 1)
    <2>1. bitten \in SUBSET Sides
      BY DEF Exposed
    <2>2. PICK end \in Pair : end = AfterHazards(struck, d, bitten)
      BY <1>3, RoundType
    <2>3. round + 1 \in Nat
      BY DEF TypeOK
    <2> QED BY <2>1, <2>2, <2>3, AfterHazardsMirror, VerdictMirrors
  <1> QED BY <1>3, <1>4, <1>5

\* Swapping the decisions and the rolls of two level fighters swaps the result
\* of the round: no side gains by being the one the loop visits first.
THEOREM NobodyMovesFirst == Spec => []NoFirstMoverAdvantage
  BY DuelTypeCorrect, LevelRoundMirrors, PTL

-----------------------------------------------------------------------------
(* Every fighter a mint can derive is legal.                               *)

\* Points are neither made nor lost: the stats and the rest are the budget.
Total == stats[1] + stats[2] + stats[3] + remaining
DrawInv ==
  /\ bias \in Archetypes
  /\ stats \in [Stats -> StatMinimum .. StatMaximum]
  /\ remaining \in Nat
  /\ nudged \in 0 .. 3
  /\ Total = StatBudget

\* A nudge stays below the points left and the room of its stat.
LEMMA StepFits ==
  ASSUME NEW b \in Int, NEW left \in Nat, NEW room \in Nat, b > 0
  PROVE  Step(b, left, room) \in 0 .. left /\ Step(b, left, room) <= room
  BY DEF Step, Least

\* Giving n points to one stat adds n to the sum.
LEMMA SumGrows ==
  ASSUME NEW f \in [Stats -> Int], NEW g \in [Stats -> Int], NEW i \in Stats, NEW n \in Int,
         g[i] = f[i] + n, \A j \in Stats \ {i} : g[j] = f[j]
  PROVE  g[1] + g[2] + g[3] = f[1] + f[2] + f[3] + n
  <1>1. f[1] \in Int /\ f[2] \in Int /\ f[3] \in Int
    BY DEF Stats
  <1>2. CASE i = 1
    BY <1>1, <1>2 DEF Stats
  <1>3. CASE i = 2
    BY <1>1, <1>3 DEF Stats
  <1>4. CASE i = 3
    BY <1>1, <1>4 DEF Stats
  <1> QED BY <1>2, <1>3, <1>4 DEF Stats

\* The same of a step of the draw.
LEMMA TotalKept ==
  ASSUME DrawInv, NEW i \in Stats, NEW n \in Int,
         stats' = [stats EXCEPT ![i] = @ + n], remaining' = remaining - n
  PROVE  Total' = StatBudget
  <1>1. PICK f \in [Stats -> Int], g \in [Stats -> Int] : f = stats /\ g = stats'
    BY FighterConstants DEF DrawInv
  <1>2. g[i] = f[i] + n /\ \A j \in Stats \ {i} : g[j] = f[j]
    BY <1>1
  <1>3. g[1] + g[2] + g[3] = f[1] + f[2] + f[3] + n
    BY <1>2, SumGrows
  <1>4. stats[1] \in Int /\ stats[2] \in Int /\ stats[3] \in Int /\ remaining \in Int
    BY <1>1 DEF Stats, DrawInv
  <1> QED BY <1>1, <1>3, <1>4 DEF Total, DrawInv

LEMMA DrawInvInit == DrawInit => DrawInv
  <1> SUFFICES ASSUME DrawInit PROVE DrawInv
    OBVIOUS
  <1>1. stats \in [Stats -> StatMinimum .. StatMaximum] /\ remaining \in Nat
    BY FighterConstants DEF DrawInit
  <1>2. Total = StatBudget
    BY FighterConstants DEF DrawInit, Total, Stats
  <1> QED BY <1>1, <1>2 DEF DrawInit, DrawInv

LEMMA DrawInvNext == DrawInv /\ [DrawNext]_drawVars => DrawInv'
  <1> SUFFICES ASSUME DrawInv, [DrawNext]_drawVars PROVE DrawInv'
    OBVIOUS
  <1>1. CASE Nudge
    <2> DEFINE i == nudged + 1
               step == IF bias[i] > 0
                       THEN Step(bias[i], remaining, StatMaximum - stats[i]) ELSE 0
    <2>1. i \in Stats /\ nudged' \in 0 .. 3 /\ bias' = bias
      BY <1>1 DEF Nudge, DrawInv, Stats
    <2>2. stats' = [stats EXCEPT ![i] = @ + step] /\ remaining' = remaining - step
      BY <1>1 DEF Nudge
    <2>3. stats[i] \in StatMinimum .. StatMaximum /\ bias[i] \in Int
      BY <2>1 DEF DrawInv, Archetypes
    <2>4. step \in 0 .. remaining /\ step <= StatMaximum - stats[i]
      <3>1. StatMaximum - stats[i] \in Nat /\ remaining \in Nat
        BY <2>3, FighterConstants DEF DrawInv
      <3>2. CASE bias[i] > 0
        BY <2>3, <3>1, <3>2, StepFits
      <3>3. CASE ~(bias[i] > 0)
        BY <3>1, <3>3
      <3> QED BY <3>2, <3>3
    <2> HIDE DEF step, i
    <2>5. stats[i] + step \in StatMinimum .. StatMaximum /\ remaining - step \in Nat
      BY <2>3, <2>4, FighterConstants DEF DrawInv
    <2>6. stats' \in [Stats -> StatMinimum .. StatMaximum]
      BY <2>1, <2>2, <2>5 DEF DrawInv
    <2>7. Total' = StatBudget
      <3>1. PICK j \in Stats, n \in Int : j = i /\ n = step
        BY <2>1, <2>4 DEF DrawInv
      <3>2. stats' = [stats EXCEPT ![j] = @ + n] /\ remaining' = remaining - n
        BY <2>2, <3>1
      <3> QED BY <3>2, TotalKept
    <2> QED BY <2>1, <2>2, <2>5, <2>6, <2>7 DEF DrawInv
  <1>2. CASE GivePoint
    <2>1. PICK i \in Candidates : stats' = [stats EXCEPT ![i] = @ + 1]
      BY <1>2 DEF GivePoint
    <2>2. i \in Stats /\ stats[i] \in StatMinimum .. StatMaximum /\ stats[i] < StatMaximum
      BY DEF Candidates, DrawInv
    <2>3. stats' \in [Stats -> StatMinimum .. StatMaximum]
      <3>1. stats[i] + 1 \in StatMinimum .. StatMaximum
        BY <2>2, FighterConstants
      <3> QED BY <2>1, <2>2, <3>1 DEF DrawInv
    <2>4. remaining' = remaining - 1 /\ remaining' \in Nat /\ bias' = bias /\ nudged' = nudged
      BY <1>2 DEF GivePoint, DrawInv
    <2>5. Total' = StatBudget
      <3>1. 1 \in Int
        OBVIOUS
      <3> QED BY <2>1, <2>2, <2>4, <3>1, TotalKept
    <2> QED BY <2>3, <2>4, <2>5 DEF DrawInv
  <1>3. CASE UNCHANGED drawVars
    BY <1>3 DEF drawVars, DrawInv, Total
  <1> QED BY <1>1, <1>2, <1>3 DEF DrawNext

\* While points are left, three full stats would exceed the budget.
LEMMA DrawInvIsEnough == DrawInv => DrawnFightersAreLegal
  <1> SUFFICES ASSUME DrawInv PROVE DrawnFightersAreLegal
    OBVIOUS
  <1>1. \A i \in Stats : stats[i] \in StatMinimum .. StatMaximum
    BY DEF DrawInv
  <1>2. /\ stats[1] \in Int /\ stats[2] \in Int /\ stats[3] \in Int /\ remaining \in Nat
        /\ stats[1] + stats[2] + stats[3] + remaining = StatBudget
    BY FighterConstants DEF DrawInv, Total, Stats
  <1>3. ASSUME remaining > 0, Candidates = {} PROVE FALSE
    <2>1. 1 \in Stats /\ 2 \in Stats /\ 3 \in Stats
      BY DEF Stats
    <2>2. stats[1] >= StatMaximum /\ stats[2] >= StatMaximum /\ stats[3] >= StatMaximum
      BY <1>2, <1>3, <2>1, FighterConstants DEF Candidates
    <2> QED BY <1>2, <1>3, <2>2, FighterConstants
  <1>4. Drawn => stats[1] + stats[2] + stats[3] = StatBudget
    BY <1>2 DEF Drawn
  <1> QED BY <1>1, <1>3, <1>4 DEF DrawnFightersAreLegal

\* Whatever the mint's hash draws, derive_fighter never runs out of stats to
\* give points to, and the fighter passes its own check.
THEOREM EveryMintDerives == DrawSpec => []DrawnFightersAreLegal
  BY DrawInvInit, DrawInvNext, DrawInvIsEnough, PTL DEF DrawSpec

-----------------------------------------------------------------------------
(***************************************************************************)
(* Two matches of the command line, one after the other: what a seed       *)
(* fixes, and what the agent against a person may know.                    *)
(***************************************************************************)

\* What the log of a match says of its state, its bars and its stances.
Opening == [s \in Sides |-> [bp |-> StartingBP, souls |-> 0, left |-> 0, prev |-> StartingBP]]
StateAt(lg, n) == IF n = 0 THEN Opening ELSE lg[n].end
BarsAt(lg, n) == IF n = 0 THEN [s \in Sides |-> StartingBP]
                 ELSE [s \in Sides |-> StateAt(lg, n - 1)[s].bp]
PlaysOf(lg, n) == [i \in 1 .. n |-> lg[i].d["A"].stance]

\* A round as a function of where it starts: the state c, the bars a round
\* before, and the words i and k taken from the two streams; j are those taken after.
Opened(c, start) == [s \in Sides |-> [c[s] EXCEPT !.prev = start[s]]]
DuelOf(d) == [s \in Sides |-> [focus |-> d[s].stance = "focus", spend |-> d[s].spend]]
Blows(c, d, i) ==
  [s \in Sides |-> Hit(c, d, s, Word(Stream("match"), i + (IF s = "A" THEN 0 ELSE 1)))]
RollsFrom(struck, k) ==
  LET roll(s, m) == IF s \in Exposed(struck)
                    THEN Chance(Stream("hazards"), m, cmd.battlefield.chance)
                    ELSE [value |-> FALSE, taken |-> m]
      a == roll("A", k)
      b == roll("B", a.taken)
  IN  [bitten |-> {s \in Sides : (s = "A" /\ a.value) \/ (s = "B" /\ b.value)}, taken |-> b.taken]
IsRound(e, c, start, i, k, j) ==
  \E opened \in {Opened(c, start)} : \E duel \in {DuelOf(e.d)} :
  \E acted \in {SoulActions(opened, duel)} :
  \E struck \in {Strike(acted, Veiled(opened, duel), e.hit)} :
  \E rolls \in {RollsFrom(struck, k)} :
    /\ e = [d |-> e.d, words |-> <<Word(Stream("match"), i + 0), Word(Stream("match"), i + 1)>>,
            hit |-> Blows(acted, e.d, i), bitten |-> rolls.bitten,
            end |-> AfterHazards(struck, duel, rolls.bitten)]
    /\ j = rolls.taken

ViewOfB(c, hist) ==
  [you |-> cmd.fighters["B"], opponent |-> cmd.fighters[Other("B")],
   bp |-> c["B"].bp, opponentBP |-> c[Other("B")].bp, souls |-> c["B"].souls,
   cost |-> arena.cost, canSpend |-> c["B"].souls >= arena.cost, history |-> hist]
IsAnswer(e, c, hist, w, v) ==
  \E x \in {Decide(cmd.agents["B"], ViewOfB(c, hist), Stream(OpponentLabel("B")),
                   IF cmd.kind = "tally" THEN 0 ELSE w)} :
    e.d["B"] = Decision(x) /\ v = x.taken

\* H[n], W[n]: the words taken for hazards, and by the agent of B, in n rounds.
Rolled(lg, H) ==
  /\ H[0] = 0
  /\ \A n \in 1 .. Len(lg) :
       IsRound(lg[n], StateAt(lg, n - 1), BarsAt(lg, n - 1), 2 * (n - 1), H[n - 1], H[n])
Spoken(lg, W) ==
  /\ W[0] = 0
  /\ \A n \in 1 .. Len(lg) :
       IsAnswer(lg[n], StateAt(lg, n - 1), PlaysOf(lg, n - 1), W[n - 1], W[n])
\* The words for damage are those of the seed, two a round.
WordsOf(lg, seed) ==
  \A n \in 1 .. Len(lg) :
    lg[n].words = <<Word(Start[seed]["match"], 2 * (n - 1) + 0),
                    Word(Start[seed]["match"], 2 * (n - 1) + 1)>>

IsSequence(lg) == \E S : lg \in Seq(S)
MatchInv ==
  /\ IsSequence(log) /\ IsSequence(earlier.log)
  /\ arena = Rules(cmd.battlefield) /\ attuned = Attuned(cmd)
  /\ DOMAIN taken = Labels /\ taken["match"] = 2 * Len(log)
  /\ st = StateAt(log, Len(log))
  /\ roundStart = BarsAt(log, Len(log))
  /\ plays["A"] = PlaysOf(log, Len(log))
SeedInv ==
  /\ WordsOf(log, Seed)
  /\ earlier.game >= 0 => WordsOf(earlier.log, earlier.cmd.seed + earlier.game)
LogIsRolled == \E lg, H : lg = log /\ Rolled(lg, H) /\ H[Len(lg)] = taken["hazards"]
LogIsSpoken == \E lg, W : lg = log /\ Spoken(lg, W) /\ W[Len(lg)] = taken[OpponentLabel("B")]
EarlierIsRolled == SameMatch => \E lg, H : lg = earlier.log /\ Rolled(lg, H)
EarlierIsSpoken == (SameMatch /\ SameAgents) => \E lg, W : lg = earlier.log /\ Spoken(lg, W)
ReplayInv == MatchInv /\ SeedInv /\ LogIsRolled /\ LogIsSpoken /\ EarlierIsRolled /\ EarlierIsSpoken

-----------------------------------------------------------------------------
\* What a round and an answer read of the present match.
SameRules ==
  /\ arena' = arena /\ attuned' = attuned
  /\ cmd'.battlefield = cmd.battlefield /\ cmd'.fighters = cmd.fighters
  /\ Seed' = Seed
SameOpponent == SameRules /\ cmd'.kind = cmd.kind /\ cmd'.agents = cmd.agents

LEMMA RolledStays ==
  ASSUME SameRules, NEW lg, NEW H
  PROVE  Rolled(lg, H)' <=> Rolled(lg, H)
  <1>1. ASSUME NEW c, NEW d
        PROVE  SoulActions(c, d)' = SoulActions(c, d) /\ Veiled(c, d)' = Veiled(c, d)
    BY DEF SoulActions, SoulAction, Veiled, Pays, SameRules
  <1>2. ASSUME NEW c, NEW v, NEW h
        PROVE  Strike(c, v, h)' = Strike(c, v, h)
    BY DEF Strike, Softened, SameRules
  <1>3. ASSUME NEW c, NEW d, NEW i
        PROVE  Blows(c, d, i)' = Blows(c, d, i)
    BY DEF Blows, Hit, Stream, SameRules
  <1>4. ASSUME NEW c, NEW k
        PROVE  RollsFrom(c, k)' = RollsFrom(c, k)
    BY DEF RollsFrom, Exposed, Stream, SameRules
  <1>5. ASSUME NEW c, NEW d, NEW b
        PROVE  AfterHazards(c, d, b)' = AfterHazards(c, d, b)
    BY DEF AfterHazards, Award, Tick, Inflict, Duration, SameRules
  <1>6. ASSUME NEW e, NEW c, NEW start, NEW i, NEW k, NEW j
        PROVE  IsRound(e, c, start, i, k, j)' <=> IsRound(e, c, start, i, k, j)
    <2>1. Stream("match")' = Stream("match")
      BY DEF Stream, SameRules
    <2> QED BY <1>1, <1>2, <1>3, <1>4, <1>5, <2>1 DEF IsRound
  <1> QED BY <1>6 DEF Rolled

LEMMA SpokenStays ==
  ASSUME SameOpponent, NEW lg, NEW W
  PROVE  Spoken(lg, W)' <=> Spoken(lg, W)
  <1>1. ASSUME NEW e, NEW c, NEW h, NEW w, NEW v
        PROVE  IsAnswer(e, c, h, w, v)' <=> IsAnswer(e, c, h, w, v)
    BY DEF IsAnswer, ViewOfB, OpponentLabel, Stream, SameOpponent, SameRules
  <1> QED BY <1>1 DEF Spoken

-----------------------------------------------------------------------------
\* A round is a function of where it starts and of the two decisions.
LEMMA OneRound ==
  ASSUME NEW e, NEW f, NEW c, NEW start, NEW i, NEW k, NEW j, NEW m,
         IsRound(e, c, start, i, k, j), IsRound(f, c, start, i, k, m), e.d = f.d
  PROVE  e = f /\ j = m
  BY DEF IsRound

LEMMA OneAnswer ==
  ASSUME NEW e, NEW f, NEW c, NEW hist, NEW w, NEW v, NEW u,
         IsAnswer(e, c, hist, w, v), IsAnswer(f, c, hist, w, u)
  PROVE  e.d["B"] = f.d["B"] /\ v = u
  BY DEF IsAnswer

\* A set of numbers with something in it has a least one.
LEMMA LeastOf ==
  ASSUME NEW T \in SUBSET Nat, T # {}
  PROVE  \E k \in T : \A l \in T : k <= l
  <1> DEFINE R == {ss \in Nat \X Nat : ss[1] < ss[2]}
  <1>1. IsWellFoundedOn(R, Nat)
    BY NatLessThanWellFounded, Zenon DEF OpToRel
  <1>2. PICK k \in T : \A l \in T : ~(<<l, k>> \in R)
    <2> HIDE DEF R
    <2> QED BY <1>1, WFMin
  <1>3. ASSUME NEW l \in T PROVE k <= l
    <2>1. k \in Nat /\ l \in Nat
      OBVIOUS
    <2>2. ~(l < k)
      BY <1>2, <2>1
    <2> QED BY <2>1, <2>2
  <1> QED BY <1>3

\* Two series that start alike and go on alike are one.
LEMMA SeriesAgree ==
  ASSUME NEW F, NEW G, NEW m \in Nat, F[0] = G[0],
         \A k \in 1 .. m : F[k - 1] = G[k - 1] => F[k] = G[k]
  PROVE  F[m] = G[m]
  <1> DEFINE T == {k \in 0 .. m : F[k] # G[k]}
  <1>1. SUFFICES ASSUME F[m] # G[m] PROVE FALSE
    OBVIOUS
  <1>2. T # {} /\ T \subseteq Nat
    BY <1>1
  <1>3. PICK k \in T : \A l \in T : k <= l
    <2> HIDE DEF T
    <2> QED BY <1>2, LeastOf
  <1>4. k \in 1 .. m /\ F[k - 1] # G[k - 1]
    BY <1>3
  <1>5. k - 1 \in T
    BY <1>4
  <1> QED BY <1>3, <1>4, <1>5

-----------------------------------------------------------------------------
LEMMA Appended ==
  ASSUME NEW lg, IsSequence(lg), NEW e
  PROVE  /\ IsSequence(Append(lg, e)) /\ Len(lg) \in Nat
         /\ Len(Append(lg, e)) = Len(lg) + 1
         /\ Append(lg, e)[Len(lg) + 1] = e
         /\ \A n \in 1 .. Len(lg) : Append(lg, e)[n] = lg[n]
  <1>1. PICK S : lg \in Seq(S)
    BY DEF IsSequence
  <1>2. lg \in Seq(S \cup {e}) /\ e \in S \cup {e}
    BY <1>1
  <1>3. Append(lg, e) \in Seq(S \cup {e})
    BY <1>2
  <1> QED BY <1>2, <1>3 DEF IsSequence

\* What a log says of the rounds it holds does not change when it grows.
LEMMA AppendedKeeps ==
  ASSUME NEW lg, IsSequence(lg), NEW e, NEW n \in 0 .. Len(lg)
  PROVE  /\ StateAt(Append(lg, e), n) = StateAt(lg, n)
         /\ BarsAt(Append(lg, e), n) = BarsAt(lg, n)
         /\ PlaysOf(Append(lg, e), n) = PlaysOf(lg, n)
  <1>1. Len(lg) \in Nat /\ \A q \in 1 .. Len(lg) : Append(lg, e)[q] = lg[q]
    BY Appended
  <1>2. ASSUME NEW q \in 0 .. Len(lg) PROVE StateAt(Append(lg, e), q) = StateAt(lg, q)
    BY <1>1 DEF StateAt
  <1>3. BarsAt(Append(lg, e), n) = BarsAt(lg, n)
    <2>1. CASE n = 0
      BY <2>1 DEF BarsAt
    <2>2. CASE n # 0
      <3>1. n - 1 \in 0 .. Len(lg)
        BY <1>1, <2>2
      <3>2. StateAt(Append(lg, e), n - 1) = StateAt(lg, n - 1)
        BY <1>2, <3>1
      <3> QED BY <2>2, <3>2 DEF BarsAt
    <2> QED BY <2>1, <2>2
  <1>4. \A i \in 1 .. n : Append(lg, e)[i] = lg[i]
    BY <1>1
  <1> QED BY <1>2, <1>3, <1>4 DEF PlaysOf

\* The log grows by the round that was played and says what the match shows then.
LEMMA StateGrows ==
  ASSUME NEW lg, IsSequence(lg), NEW e
  PROVE  /\ StateAt(Append(lg, e), Len(Append(lg, e))) = e.end
         /\ BarsAt(Append(lg, e), Len(Append(lg, e))) = [s \in Sides |-> StateAt(lg, Len(lg))[s].bp]
         /\ PlaysOf(Append(lg, e), Len(Append(lg, e))) = Append(PlaysOf(lg, Len(lg)), e.d["A"].stance)
  <1> DEFINE m == Len(lg)
             lh == Append(lg, e)
  <1>1. m \in Nat /\ Len(lh) = m + 1 /\ lh[m + 1] = e /\ \A n \in 1 .. m : lh[n] = lg[n]
    BY Appended
  <1>2. StateAt(lh, m) = StateAt(lg, m)
    BY <1>1, AppendedKeeps
  <1> HIDE DEF m, lh
  <1>3. StateAt(lh, m + 1) = e.end
    BY <1>1 DEF StateAt
  <1>4. BarsAt(lh, m + 1) = [s \in Sides |-> StateAt(lg, m)[s].bp]
    BY <1>1, <1>2 DEF BarsAt
  <1>5. PlaysOf(lh, m + 1) = Append(PlaysOf(lg, m), e.d["A"].stance)
    <2> DEFINE p == PlaysOf(lg, m)
               x == e.d["A"].stance
               V == {lg[i].d["A"].stance : i \in 1 .. m} \cup {x}
    <2>1. p \in [1 .. m -> V] /\ \A i \in 1 .. m : p[i] = lg[i].d["A"].stance
      BY DEF PlaysOf
    <2>2. x \in V
      OBVIOUS
    <2>3. PlaysOf(lh, m + 1) = [i \in 1 .. m + 1 |-> IF i = m + 1 THEN x ELSE p[i]]
      <3>1. \A i \in 1 .. m + 1 : lh[i].d["A"].stance = IF i = m + 1 THEN x ELSE p[i]
        BY <1>1, <2>1
      <3> QED BY <3>1 DEF PlaysOf
    <2> HIDE DEF p, x, V
    <2>4. p \in Seq(V) /\ Len(p) = m
      BY <1>1, <2>1
    <2>5. Append(p, x) = [i \in 1 .. m + 1 |-> IF i = m + 1 THEN x ELSE p[i]]
      <3> DEFINE q == Append(p, x)
      <3>1. q \in Seq(V) /\ Len(q) = m + 1 /\ q[m + 1] = x /\ \A i \in 1 .. m : q[i] = p[i]
        BY <2>2, <2>4, AppendProperties
      <3>2. q \in [1 .. m + 1 -> V]
        BY <3>1, LenProperties
      <3> HIDE DEF q
      <3>3. \A i \in 1 .. m + 1 : q[i] = IF i = m + 1 THEN x ELSE p[i]
        BY <1>1, <3>1
      <3>4. q = [i \in 1 .. m + 1 |-> IF i = m + 1 THEN x ELSE p[i]]
        BY <3>2, <3>3
      <3> QED BY <3>4 DEF q
    <2> QED BY <2>3, <2>5 DEF p, x
  <1> QED BY <1>1, <1>3, <1>4, <1>5 DEF m, lh

LEMMA RolledGrows ==
  ASSUME NEW lg, IsSequence(lg), NEW H, Rolled(lg, H), NEW e, NEW j,
         IsRound(e, StateAt(lg, Len(lg)), BarsAt(lg, Len(lg)), 2 * Len(lg), H[Len(lg)], j)
  PROVE  \E G : Rolled(Append(lg, e), G) /\ G[Len(Append(lg, e))] = j
  <1> DEFINE m == Len(lg)
             lh == Append(lg, e)
             G == [n \in 0 .. m + 1 |-> IF n = m + 1 THEN j ELSE H[n]]
  <1>1. m \in Nat /\ Len(lh) = m + 1 /\ lh[m + 1] = e /\ \A n \in 1 .. m : lh[n] = lg[n]
    BY Appended
  <1>2. ASSUME NEW n \in 0 .. m
        PROVE  StateAt(lh, n) = StateAt(lg, n) /\ BarsAt(lh, n) = BarsAt(lg, n)
    BY AppendedKeeps
  <1> HIDE DEF m, lh
  <1>3. G[0] = 0 /\ G[m + 1] = j /\ \A n \in 0 .. m : G[n] = H[n]
    BY <1>1 DEF Rolled
  <1>4. ASSUME NEW n \in 1 .. m + 1
        PROVE  IsRound(lh[n], StateAt(lh, n - 1), BarsAt(lh, n - 1), 2 * (n - 1), G[n - 1], G[n])
    <2>1. CASE n = m + 1
      <3>1. n - 1 = m /\ lh[n] = e /\ G[n] = j /\ G[n - 1] = H[m]
        BY <1>1, <1>3, <2>1
      <3>2. StateAt(lh, n - 1) = StateAt(lg, m) /\ BarsAt(lh, n - 1) = BarsAt(lg, m)
        BY <1>1, <1>2, <3>1
      <3>3. IsRound(e, StateAt(lg, m), BarsAt(lg, m), 2 * m, H[m], j)
        BY DEF m
      <3> HIDE DEF G
      <3> QED BY <3>1, <3>2, <3>3
    <2>2. CASE n # m + 1
      <3>1. n \in 1 .. m /\ n - 1 \in 0 .. m /\ n \in 0 .. m
        BY <1>1, <2>2
      <3>2. /\ lh[n] = lg[n] /\ G[n] = H[n] /\ G[n - 1] = H[n - 1]
            /\ StateAt(lh, n - 1) = StateAt(lg, n - 1) /\ BarsAt(lh, n - 1) = BarsAt(lg, n - 1)
        BY <1>1, <1>2, <1>3, <3>1
      <3>3. IsRound(lg[n], StateAt(lg, n - 1), BarsAt(lg, n - 1), 2 * (n - 1), H[n - 1], H[n])
        BY <3>1 DEF Rolled, m
      <3> HIDE DEF G
      <3> QED BY <3>2, <3>3
    <2> QED BY <2>1, <2>2
  <1> HIDE DEF G
  <1>5. Rolled(lh, G) /\ G[Len(lh)] = j
    BY <1>1, <1>3, <1>4 DEF Rolled
  <1> QED BY <1>5 DEF lh

LEMMA SpokenGrows ==
  ASSUME NEW lg, IsSequence(lg), NEW W, Spoken(lg, W), NEW e, NEW v,
         IsAnswer(e, StateAt(lg, Len(lg)), PlaysOf(lg, Len(lg)), W[Len(lg)], v)
  PROVE  \E G : Spoken(Append(lg, e), G) /\ G[Len(Append(lg, e))] = v
  <1> DEFINE m == Len(lg)
             lh == Append(lg, e)
             G == [n \in 0 .. m + 1 |-> IF n = m + 1 THEN v ELSE W[n]]
  <1>1. m \in Nat /\ Len(lh) = m + 1 /\ lh[m + 1] = e /\ \A n \in 1 .. m : lh[n] = lg[n]
    BY Appended
  <1>2. ASSUME NEW n \in 0 .. m
        PROVE  StateAt(lh, n) = StateAt(lg, n) /\ PlaysOf(lh, n) = PlaysOf(lg, n)
    BY AppendedKeeps
  <1> HIDE DEF m, lh
  <1>3. G[0] = 0 /\ G[m + 1] = v /\ \A n \in 0 .. m : G[n] = W[n]
    BY <1>1 DEF Spoken
  <1>4. ASSUME NEW n \in 1 .. m + 1
        PROVE  IsAnswer(lh[n], StateAt(lh, n - 1), PlaysOf(lh, n - 1), G[n - 1], G[n])
    <2>1. CASE n = m + 1
      <3>1. n - 1 = m /\ lh[n] = e /\ G[n] = v /\ G[n - 1] = W[m]
        BY <1>1, <1>3, <2>1
      <3>2. StateAt(lh, n - 1) = StateAt(lg, m) /\ PlaysOf(lh, n - 1) = PlaysOf(lg, m)
        BY <1>1, <1>2, <3>1
      <3>3. IsAnswer(e, StateAt(lg, m), PlaysOf(lg, m), W[m], v)
        BY DEF m
      <3> HIDE DEF G
      <3> QED BY <3>1, <3>2, <3>3
    <2>2. CASE n # m + 1
      <3>1. n \in 1 .. m /\ n - 1 \in 0 .. m /\ n \in 0 .. m
        BY <1>1, <2>2
      <3>2. /\ lh[n] = lg[n] /\ G[n] = W[n] /\ G[n - 1] = W[n - 1]
            /\ StateAt(lh, n - 1) = StateAt(lg, n - 1) /\ PlaysOf(lh, n - 1) = PlaysOf(lg, n - 1)
        BY <1>1, <1>2, <1>3, <3>1
      <3>3. IsAnswer(lg[n], StateAt(lg, n - 1), PlaysOf(lg, n - 1), W[n - 1], W[n])
        BY <3>1 DEF Spoken, m
      <3> HIDE DEF G
      <3> QED BY <3>2, <3>3
    <2> QED BY <2>1, <2>2
  <1> HIDE DEF G
  <1>5. Spoken(lh, G) /\ G[Len(lh)] = v
    BY <1>1, <1>3, <1>4 DEF Spoken
  <1> QED BY <1>5 DEF lh

-----------------------------------------------------------------------------
LogsARound(d, byAgent) ==
  \E e, j, n :
    /\ e.d = d /\ e.end = st' /\ log' = Append(log, e)
    /\ e.words = <<Word(Stream("match"), taken["match"] + 0),
                   Word(Stream("match"), taken["match"] + 1)>>
    /\ IsRound(e, st, roundStart, taken["match"], taken["hazards"], j)
    /\ taken' = [byAgent EXCEPT !["match"] = @ + 2, !["hazards"] = j, !["narration"] = n]

\* PlayRound plays the round that follows from where the match stands.
LEMMA RoundPlayed ==
  ASSUME NEW d, NEW byAgent, PlayRound(d, byAgent)
  PROVE  /\ arena' = arena /\ attuned' = attuned
         /\ roundStart' = [s \in Sides |-> st[s].bp]
         /\ plays'["A"] = Append(plays["A"], d["A"].stance)
         /\ LogsARound(d, byAgent)
  <1> DEFINE duel == DuelOf(d)
             opened == Opened(st, roundStart)
             acted == SoulActions(opened, duel)
             hit == Blows(acted, d, taken["match"])
             struck == Strike(acted, Veiled(opened, duel), hit)
             rolls == RollsFrom(struck, taken["hazards"])
             e == [d |-> d, words |-> <<VarianceWord(0), VarianceWord(1)>>,
                   hit |-> hit, bitten |-> rolls.bitten, end |-> st']
  <1>1. [s \in Sides |-> [focus |-> d[s].stance = "focus", spend |-> d[s].spend]] = duel
    BY DEF DuelOf
  <1>2. AtRoundStart = opened
    BY DEF AtRoundStart, Opened, PreviousBP
  <1>3. HitsOf(acted, d) = hit
    BY DEF HitsOf, Blows, VarianceWord
  <1>4. BeforeHazards(duel, hit) = struck
    BY <1>2 DEF BeforeHazards
  <1>5. HazardRolls(struck) = rolls
    BY DEF HazardRolls, RollsFrom
  <1> HIDE DEF duel, opened, acted, hit, struck, rolls
  <1>6. /\ Resolve(duel, struck, rolls.bitten)
        /\ TakeWords(duel, rolls, byAgent)
        /\ plays' = [s \in Sides |-> Append(plays[s], d[s].stance)]
        /\ log' = Append(log, e)
    BY <1>1, <1>2, <1>3, <1>4, <1>5 DEF PlayRound, acted
  <1>7. /\ arena' = arena /\ attuned' = attuned
        /\ roundStart' = [s \in Sides |-> st[s].bp]
        /\ st' = AfterHazards(struck, duel, rolls.bitten)
    BY <1>6 DEF Resolve
  <1>8. IsRound(e, st, roundStart, taken["match"], taken["hazards"], rolls.taken)
    <2>1. e = [d |-> e.d, words |-> <<Word(Stream("match"), taken["match"] + 0),
                                      Word(Stream("match"), taken["match"] + 1)>>,
               hit |-> Blows(acted, e.d, taken["match"]), bitten |-> rolls.bitten,
               end |-> AfterHazards(struck, duel, rolls.bitten)]
      BY <1>7 DEF VarianceWord, hit
    <2>2. e.d = d /\ e.hit = hit
      OBVIOUS
    <2> HIDE DEF e
    <2> QED BY <2>1, <2>2 DEF IsRound, duel, opened, acted, struck, rolls
  <1>9. \E n : taken' = [byAgent EXCEPT !["match"] = @ + 2, !["hazards"] = rolls.taken,
                                        !["narration"] = n]
    BY <1>6 DEF TakeWords, MatchWords
  <1>10. plays'["A"] = Append(plays["A"], d["A"].stance)
    BY <1>6 DEF Sides
  <1>11. /\ e.d = d /\ e.end = st'
         /\ e.words = <<Word(Stream("match"), taken["match"] + 0),
                        Word(Stream("match"), taken["match"] + 1)>>
    BY DEF VarianceWord
  <1> HIDE DEF e
  <1>12. LogsARound(d, byAgent)
    BY <1>6, <1>8, <1>9, <1>11 DEF LogsARound
  <1> QED BY <1>7, <1>10, <1>12

-----------------------------------------------------------------------------
LEMMA EmptyLog ==
  /\ IsSequence(<<>>) /\ Len(<<>>) = 0
  /\ StateAt(<<>>, 0) = Opening
  /\ BarsAt(<<>>, 0) = [s \in Sides |-> StartingBP]
  /\ PlaysOf(<<>>, 0) = <<>>
  /\ \A seed : WordsOf(<<>>, seed)
  <1>1. IsSequence(<<>>)
    <2>1. <<>> \in Seq({})
      OBVIOUS
    <2> QED BY <2>1 DEF IsSequence
  <1>2. PlaysOf(<<>>, 0) = <<>>
    BY DEF PlaysOf
  <1> QED BY <1>1, <1>2 DEF StateAt, BarsAt, WordsOf

LEMMA NothingYet ==
  /\ \E lg, H : lg = <<>> /\ Rolled(lg, H) /\ H[Len(lg)] = 0
  /\ \E lg, W : lg = <<>> /\ Spoken(lg, W) /\ W[Len(lg)] = 0
  <1> DEFINE N == [n \in Nat |-> 0]
  <1>1. Len(<<>>) = 0 /\ 1 .. 0 = {} /\ N[0] = 0
    OBVIOUS
  <1>2. Rolled(<<>>, N) /\ Spoken(<<>>, N)
    BY <1>1 DEF Rolled, Spoken
  <1> HIDE DEF N
  <1> QED BY <1>1, <1>2

LEMMA ReplayInit == LocalInit => ReplayInv
  <1> SUFFICES ASSUME LocalInit PROVE ReplayInv
    OBVIOUS
  <1>1. /\ log = <<>> /\ earlier = NoMatch /\ taken = NothingTaken /\ plays = NothingPlayed
        /\ arena = Rules(cmd.battlefield) /\ attuned = Attuned(cmd)
        /\ st = Opening /\ roundStart = [s \in Sides |-> StartingBP]
    BY DEF LocalInit, Init, Opening
  <1>2. earlier.log = <<>> /\ earlier.game = -1
    BY <1>1 DEF NoMatch
  <1>3. /\ DOMAIN taken = Labels /\ \A l \in Labels : taken[l] = 0
        /\ plays["A"] = <<>>
    BY <1>1 DEF NothingTaken, NothingPlayed, Sides
  <1>4. OpponentLabel("B") \in Labels /\ "match" \in Labels /\ "hazards" \in Labels
    BY DEF OpponentLabel, Labels
  <1>5. MatchInv
    BY <1>1, <1>2, <1>3, <1>4, EmptyLog DEF MatchInv
  <1>6. SeedInv
    BY <1>1, <1>2, EmptyLog DEF SeedInv
  <1>7. LogIsRolled /\ LogIsSpoken
    BY <1>1, <1>3, <1>4, NothingYet DEF LogIsRolled, LogIsSpoken
  <1>8. EarlierIsRolled /\ EarlierIsSpoken
    BY <1>2 DEF EarlierIsRolled, EarlierIsSpoken, SameMatch, SameSeed
  <1> QED BY <1>5, <1>6, <1>7, <1>8 DEF ReplayInv

\* A step that plays no round and begins no match.
LEMMA ReplayStays ==
  ASSUME ReplayInv,
         UNCHANGED <<arena, attuned, st, roundStart, cmd, game, taken, plays, log, earlier>>
  PROVE  ReplayInv'
  <1>1. SameRules /\ SameOpponent /\ OpponentLabel("B")' = OpponentLabel("B")
    BY DEF SameRules, SameOpponent, Seed, OpponentLabel
  <1>2. MatchInv' /\ SeedInv'
    BY DEF ReplayInv, MatchInv, SeedInv, Seed
  <1>3. LogIsRolled' /\ LogIsSpoken'
    BY <1>1, RolledStays, SpokenStays DEF ReplayInv, LogIsRolled, LogIsSpoken
  <1>4. (SameMatch' <=> SameMatch) /\ (SameAgents' <=> SameAgents)
    BY DEF SameMatch, SameSeed, SameAgents, Seed
  <1>5. EarlierIsRolled' /\ EarlierIsSpoken'
    BY <1>1, <1>4, RolledStays, SpokenStays DEF ReplayInv, EarlierIsRolled, EarlierIsSpoken
  <1> QED BY <1>2, <1>3, <1>5 DEF ReplayInv

\* A round played on the answer of the agent of B.
LEMMA ReplayGrows ==
  ASSUME ReplayInv, NEW d, NEW byAgent, NEW b, PlayRound(d, byAgent),
         b = AgentDecides("B"), d["B"] = Decision(b),
         DOMAIN byAgent = Labels, byAgent["match"] = taken["match"],
         byAgent[OpponentLabel("B")] = b.taken,
         UNCHANGED <<cmd, game, earlier>>
  PROVE  ReplayInv'
  <1> DEFINE l == OpponentLabel("B")
  <1>1. SameRules /\ SameOpponent /\ OpponentLabel("B")' = l
    BY RoundPlayed DEF SameRules, SameOpponent, Seed, OpponentLabel
  <1>2. PICK e, j, n :
           /\ e.d = d /\ e.end = st' /\ log' = Append(log, e)
           /\ e.words = <<Word(Stream("match"), taken["match"] + 0),
                          Word(Stream("match"), taken["match"] + 1)>>
           /\ IsRound(e, st, roundStart, taken["match"], taken["hazards"], j)
           /\ taken' = [byAgent EXCEPT !["match"] = @ + 2, !["hazards"] = j, !["narration"] = n]
    <2>1. LogsARound(d, byAgent)
      BY RoundPlayed
    <2> QED BY <2>1, Zenon DEF LogsARound
  <1>3. /\ arena' = arena /\ attuned' = attuned
        /\ roundStart' = [s \in Sides |-> st[s].bp]
        /\ plays'["A"] = Append(plays["A"], d["A"].stance)
    BY RoundPlayed
  <1>4. PICK lg : lg = log
    OBVIOUS
  <1>5. /\ IsSequence(lg) /\ Len(lg) \in Nat /\ taken["match"] = 2 * Len(lg)
        /\ st = StateAt(lg, Len(lg)) /\ roundStart = BarsAt(lg, Len(lg))
        /\ plays["A"] = PlaysOf(lg, Len(lg)) /\ DOMAIN taken = Labels
    BY <1>4, Appended DEF ReplayInv, MatchInv
  <1>6. PICK lh : lh = Append(lg, e)
    OBVIOUS
  <1>7. /\ log' = lh /\ IsSequence(lh) /\ Len(lh) = Len(lg) + 1 /\ lh[Len(lg) + 1] = e
        /\ \A q \in 1 .. Len(lg) : lh[q] = lg[q]
    BY <1>2, <1>4, <1>5, <1>6, Appended
  <1>8. DOMAIN taken' = Labels /\ taken'["match"] = taken["match"] + 2
        /\ taken'["hazards"] = j /\ taken'[l] = b.taken
    <2>1. {"match", "hazards", "narration"} \subseteq Labels
      BY DEF Labels
    <2>2. l \in Labels \ {"match", "hazards", "narration"}
      BY DEF Labels, OpponentLabel
    <2> HIDE DEF l
    <2> QED BY <1>2, <2>1, <2>2 DEF l
  <1>9. MatchInv'
    <2>1. taken'["match"] = 2 * Len(lh)
      BY <1>5, <1>7, <1>8
    <2>2. /\ StateAt(lh, Len(lh)) = e.end
          /\ BarsAt(lh, Len(lh)) = [s \in Sides |-> StateAt(lg, Len(lg))[s].bp]
          /\ PlaysOf(lh, Len(lh)) = Append(PlaysOf(lg, Len(lg)), e.d["A"].stance)
      BY <1>5, <1>6, StateGrows
    <2>3. st' = StateAt(lh, Len(lh))
      BY <1>2, <2>2
    <2>4. roundStart' = BarsAt(lh, Len(lh))
      BY <1>3, <1>5, <2>2
    <2>5. plays'["A"] = PlaysOf(lh, Len(lh))
      BY <1>2, <1>3, <1>5, <2>2
    <2>6. arena' = Rules(cmd'.battlefield) /\ attuned' = Attuned(cmd') /\ IsSequence(earlier'.log)
      BY <1>3 DEF ReplayInv, MatchInv
    <2> QED BY <1>7, <1>8, <2>1, <2>3, <2>4, <2>5, <2>6 DEF MatchInv
  <1>10. SeedInv'
    <2>1. Stream("match") = Start[Seed]["match"] /\ Seed' = Seed
      BY <1>1 DEF Stream, SameRules
    <2>2. PICK seed : seed = Seed
      OBVIOUS
    <2>3. WordsOf(lg, seed)
      BY <1>4, <2>2 DEF ReplayInv, SeedInv
    <2>4. ASSUME NEW q \in 1 .. Len(lh)
          PROVE  lh[q].words = <<Word(Start[seed]["match"], 2 * (q - 1) + 0),
                                 Word(Start[seed]["match"], 2 * (q - 1) + 1)>>
      <3>1. CASE q \in 1 .. Len(lg)
        BY <1>7, <2>3, <3>1 DEF WordsOf
      <3>2. CASE q = Len(lg) + 1
        <4>1. 2 * (q - 1) = taken["match"] /\ lh[q] = e
          BY <1>5, <1>7, <3>2
        <4> QED BY <1>2, <2>1, <2>2, <4>1
      <3> QED BY <1>5, <1>7, <3>1, <3>2
    <2>5. WordsOf(lh, seed)
      BY <2>4 DEF WordsOf
    <2>6. earlier'.game >= 0 => WordsOf(earlier'.log, earlier'.cmd.seed + earlier'.game)
      BY DEF ReplayInv, SeedInv
    <2> QED BY <1>7, <2>1, <2>2, <2>5, <2>6 DEF SeedInv
  <1>11. LogIsRolled'
    <2>1. PICK H : Rolled(lg, H) /\ H[Len(lg)] = taken["hazards"]
      BY <1>4 DEF ReplayInv, LogIsRolled
    <2>2. IsRound(e, StateAt(lg, Len(lg)), BarsAt(lg, Len(lg)), 2 * Len(lg), H[Len(lg)], j)
      BY <1>2, <1>5, <2>1
    <2>3. PICK G : Rolled(lh, G) /\ G[Len(lh)] = j
      BY <1>5, <1>6, <2>1, <2>2, RolledGrows
    <2>4. Rolled(lh, G)'
      BY <1>1, <2>3, RolledStays
    <2> QED BY <1>7, <1>8, <2>3, <2>4 DEF LogIsRolled
  <1>12. LogIsSpoken'
    <2>1. PICK W : Spoken(lg, W) /\ W[Len(lg)] = taken[l]
      BY <1>4 DEF ReplayInv, LogIsSpoken
    <2>2. b = Decide(cmd.agents["B"], ViewOfB(st, plays["A"]), Stream(l),
                     IF cmd.kind = "tally" THEN 0 ELSE taken[l])
      <3>1. Other("B") = "A"
        BY DEF Other
      <3>2. View(cmd.fighters, plays, "B") = ViewOfB(st, plays["A"])
        BY <3>1 DEF View, ViewOfB
      <3> QED BY <3>2 DEF AgentDecides, DecidesOn, TakenBy
    <2>3. IsAnswer(e, StateAt(lg, Len(lg)), PlaysOf(lg, Len(lg)), W[Len(lg)], b.taken)
      <3>1. IsAnswer(e, st, plays["A"], taken[l], b.taken)
        BY <1>2, <2>2 DEF IsAnswer
      <3> QED BY <1>5, <2>1, <3>1
    <2>4. PICK G : Spoken(lh, G) /\ G[Len(lh)] = b.taken
      BY <1>5, <1>6, <2>1, <2>3, SpokenGrows
    <2>5. Spoken(lh, G)'
      BY <1>1, <2>4, SpokenStays
    <2> QED BY <1>1, <1>7, <1>8, <2>4, <2>5 DEF LogIsSpoken
  <1>13. (SameMatch' <=> SameMatch) /\ (SameAgents' <=> SameAgents)
    BY DEF SameMatch, SameSeed, SameAgents, Seed
  <1>14. EarlierIsRolled' /\ EarlierIsSpoken'
    BY <1>1, <1>13, RolledStays, SpokenStays DEF ReplayInv, EarlierIsRolled, EarlierIsSpoken
  <1> QED BY <1>9, <1>10, <1>11, <1>12, <1>14 DEF ReplayInv

\* A new match: the one that ends is the one to compare with.
LEMMA ReplayRestarts ==
  ASSUME ReplayInv, Create(cmd')
  PROVE  ReplayInv'
  <1>1. /\ log' = <<>> /\ earlier' = [cmd |-> cmd, game |-> game, log |-> log]
        /\ taken' = NothingTaken /\ plays' = NothingPlayed
        /\ arena' = Rules(cmd'.battlefield) /\ attuned' = Attuned(cmd')
        /\ st' = Opening /\ roundStart' = [s \in Sides |-> StartingBP]
    BY DEF Create, Opening
  <1>2. /\ DOMAIN taken' = Labels /\ \A l \in Labels : taken'[l] = 0
        /\ plays'["A"] = <<>>
    BY <1>1 DEF NothingTaken, NothingPlayed, Sides
  <1>3. OpponentLabel("B")' \in Labels /\ "match" \in Labels /\ "hazards" \in Labels
    BY DEF OpponentLabel, Labels
  <1>4. earlier'.log = log /\ earlier'.cmd = cmd /\ earlier'.game = game
    BY <1>1
  <1>5. MatchInv'
    BY <1>1, <1>2, <1>3, <1>4, EmptyLog DEF ReplayInv, MatchInv
  <1>6. SeedInv'
    BY <1>1, <1>4, EmptyLog DEF ReplayInv, SeedInv, Seed
  <1>7. LogIsRolled' /\ LogIsSpoken'
    <2>1. LogIsRolled'
      <3>1. PICK H : Rolled(<<>>, H)' /\ H[Len(<<>>)] = 0
        <4> DEFINE N == [n \in Nat |-> 0]
        <4>1. Rolled(<<>>, N)'
          BY DEF Rolled
        <4> HIDE DEF N
        <4> QED BY <4>1 DEF N
      <3> QED BY <1>1, <1>2, <1>3, <3>1 DEF LogIsRolled
    <2>2. LogIsSpoken'
      <3>1. PICK W : Spoken(<<>>, W)' /\ W[Len(<<>>)] = 0
        <4> DEFINE N == [n \in Nat |-> 0]
        <4>1. Spoken(<<>>, N)'
          BY DEF Spoken
        <4> HIDE DEF N
        <4> QED BY <4>1 DEF N
      <3> QED BY <1>1, <1>2, <1>3, <3>1 DEF LogIsSpoken
    <2> QED BY <2>1, <2>2
  <1>8. SameMatch' => SameRules
    BY <1>1, <1>4 DEF SameMatch, SameSeed, SameRules, Seed, Attuned, ReplayInv, MatchInv
  <1>9. SameMatch' /\ SameAgents' => SameOpponent
    BY <1>4, <1>8 DEF SameAgents, SameOpponent
  <1>10. EarlierIsRolled'
    BY <1>4, <1>8, RolledStays DEF ReplayInv, LogIsRolled, EarlierIsRolled
  <1>11. EarlierIsSpoken'
    BY <1>4, <1>9, SpokenStays DEF ReplayInv, LogIsSpoken, EarlierIsSpoken
  <1> QED BY <1>5, <1>6, <1>7, <1>10, <1>11 DEF ReplayInv

LEMMA ReplayNext == ReplayInv /\ [LocalNext]_localVars => ReplayInv'
  <1> SUFFICES ASSUME ReplayInv, [LocalNext]_localVars PROVE ReplayInv'
    OBVIOUS
  <1>1. CASE Watch
    <2>1. PICK a, b : /\ b = AgentDecides("B")
                      /\ PlayRound([s \in Sides |-> Decision(IF s = "A" THEN a ELSE b)],
                                   [taken EXCEPT !["a"] = a.taken, !["b"] = b.taken])
      BY <1>1 DEF Watch
    <2> DEFINE d == [s \in Sides |-> Decision(IF s = "A" THEN a ELSE b)]
    <2>0. PICK byAgent : byAgent = [taken EXCEPT !["a"] = a.taken, !["b"] = b.taken]
      OBVIOUS
    <2>2. d["B"] = Decision(b)
      BY DEF Sides
    <2>3. DOMAIN byAgent = Labels /\ byAgent["match"] = taken["match"] /\ byAgent["b"] = b.taken
      BY <2>0 DEF ReplayInv, MatchInv, Labels
    <2>4. OpponentLabel("B") = "b"
      BY <1>1 DEF Watch, OpponentLabel
    <2>5. UNCHANGED <<cmd, game, earlier>>
      BY <1>1 DEF Watch
    <2>6. PlayRound(d, byAgent)
      BY <2>0, <2>1
    <2> HIDE DEF d
    <2> QED BY <2>1, <2>2, <2>3, <2>4, <2>5, <2>6, ReplayGrows
  <1>2. ASSUME NEW stance, Commit(stance), cmd.kind = "play", UNCHANGED <<cmd, game, earlier>>
        PROVE  ReplayInv'
    <2>1. PICK b : /\ b = AgentDecides("B")
                   /\ PlayRound([s \in Sides |-> IF s = "A" THEN [stance |-> stance, spend |-> armed]
                                                 ELSE Decision(b)],
                                [taken EXCEPT !["opponent"] = b.taken])
      BY <1>2 DEF Commit, CommitOn, AgentDecides
    <2>2. PICK ready : ready = armed
      OBVIOUS
    <2> DEFINE d == [s \in Sides |-> IF s = "A" THEN [stance |-> stance, spend |-> ready]
                                     ELSE Decision(b)]
    <2>0. PICK byAgent : byAgent = [taken EXCEPT !["opponent"] = b.taken]
      OBVIOUS
    <2>3. d["B"] = Decision(b)
      BY DEF Sides
    <2>4. DOMAIN byAgent = Labels /\ byAgent["match"] = taken["match"] /\ byAgent["opponent"] = b.taken
      BY <2>0 DEF ReplayInv, MatchInv, Labels
    <2>5. OpponentLabel("B") = "opponent"
      BY <1>2 DEF OpponentLabel
    <2>6. PlayRound(d, byAgent)
      BY <2>0, <2>1, <2>2
    <2> HIDE DEF d
    <2> QED BY <1>2, <2>1, <2>3, <2>4, <2>5, <2>6, ReplayGrows
  <1>3. CASE TypeSoul
    BY <1>3, ReplayStays DEF TypeSoul, vars
  <1>4. CASE TypeQuit
    BY <1>4, ReplayStays DEF TypeQuit, vars
  <1>5. CASE EndOfInput
    BY <1>2, <1>5 DEF EndOfInput, AtPrompt
  <1>6. ASSUME NEW i \in DOMAIN Stances, TypeStance(Stances[i]) PROVE ReplayInv'
    BY <1>2, <1>6 DEF TypeStance, AtPrompt
  <1>7. CASE Derive
    BY <1>7, ReplayStays DEF Derive, vars
  <1>8. CASE NextGame
    BY <1>8, ReplayRestarts DEF NextGame
  <1>9. CASE NextCommand
    BY <1>9, ReplayRestarts DEF NextCommand
  <1>10. CASE UNCHANGED localVars
    BY <1>10, ReplayStays DEF localVars, vars
  <1> QED BY <1>1, <1>3, <1>4, <1>5, <1>6, <1>7, <1>8, <1>9, <1>10 DEF LocalNext

-----------------------------------------------------------------------------
\* Two matches alike in all rounds before r stand alike before r.
LEMMA SharedRounds ==
  ASSUME ReplayInv, NEW r \in Shared
  PROVE  r \in 1 .. Len(log) /\ r \in 1 .. Len(earlier.log) /\ r \in Nat /\ r - 1 \in Nat
  <1>1. Len(log) \in Nat /\ Len(earlier.log) \in Nat
    BY Appended DEF ReplayInv, MatchInv
  <1> QED BY <1>1 DEF Shared

LEMMA StandAlike ==
  ASSUME NEW r \in Nat \ {0}, NEW f, NEW g, \A q \in 1 .. r - 1 : f[q] = g[q], NEW n \in 0 .. r - 1
  PROVE  StateAt(f, n) = StateAt(g, n) /\ BarsAt(f, n) = BarsAt(g, n) /\ PlaysOf(f, n) = PlaysOf(g, n)
  <1>1. ASSUME NEW q \in 0 .. r - 1 PROVE StateAt(f, q) = StateAt(g, q)
    BY DEF StateAt
  <1>2. BarsAt(f, n) = BarsAt(g, n)
    <2>1. CASE n = 0
      BY <2>1 DEF BarsAt
    <2>2. CASE n # 0
      <3>1. StateAt(f, n - 1) = StateAt(g, n - 1)
        BY <1>1, <2>2
      <3> QED BY <2>2, <3>1 DEF BarsAt
    <2> QED BY <2>1, <2>2
  <1>3. \A i \in 1 .. n : f[i] = g[i]
    OBVIOUS
  <1> QED BY <1>1, <1>2, <1>3 DEF PlaysOf

LEMMA RoundsRepeat ==
  ASSUME ReplayInv, SameMatch, NEW r \in Shared, SameRoundsBefore(r), log[r].d = earlier.log[r].d
  PROVE  log[r] = earlier.log[r]
  <1>1. PICK f, H : f = log /\ Rolled(f, H)
    BY DEF ReplayInv, LogIsRolled
  <1>2. PICK g, G : g = earlier.log /\ Rolled(g, G)
    BY DEF ReplayInv, EarlierIsRolled
  <1>3. r \in 1 .. Len(f) /\ r \in 1 .. Len(g) /\ r \in Nat /\ r - 1 \in Nat
    BY <1>1, <1>2, SharedRounds
  <1>4. Len(f) \in Nat /\ Len(g) \in Nat
    BY <1>1, <1>2, Appended DEF ReplayInv, MatchInv
  <1>5. \A q \in 1 .. r - 1 : f[q] = g[q]
    BY <1>1, <1>2 DEF SameRoundsBefore
  <1>6. ASSUME NEW n \in 1 .. r, H[n - 1] = G[n - 1], f[n].d = g[n].d
        PROVE  f[n] = g[n] /\ H[n] = G[n]
    <2>1. n \in 1 .. Len(f) /\ n \in 1 .. Len(g) /\ n - 1 \in 0 .. r - 1
      BY <1>3, <1>4
    <2>2. /\ IsRound(f[n], StateAt(f, n - 1), BarsAt(f, n - 1), 2 * (n - 1), H[n - 1], H[n])
          /\ IsRound(g[n], StateAt(g, n - 1), BarsAt(g, n - 1), 2 * (n - 1), G[n - 1], G[n])
      BY <1>1, <1>2, <2>1 DEF Rolled
    <2>3. StateAt(f, n - 1) = StateAt(g, n - 1) /\ BarsAt(f, n - 1) = BarsAt(g, n - 1)
      <3>1. r \in Nat \ {0}
        BY <1>3, <1>4
      <3>2. PICK k \in 0 .. r - 1 : k = n - 1
        BY <2>1
      <3>3. StateAt(f, k) = StateAt(g, k) /\ BarsAt(f, k) = BarsAt(g, k)
        BY <1>5, <3>1, StandAlike
      <3> QED BY <3>2, <3>3
    <2> QED BY <1>6, <2>2, <2>3, OneRound
  <1>7. H[r - 1] = G[r - 1]
    <2>1. H[0] = G[0]
      BY <1>1, <1>2 DEF Rolled
    <2>2. ASSUME NEW k \in 1 .. r - 1, H[k - 1] = G[k - 1] PROVE H[k] = G[k]
      <3>1. k \in 1 .. r /\ f[k].d = g[k].d
        BY <1>3, <1>5
      <3> QED BY <1>6, <2>2, <3>1
    <2> QED BY <1>3, <2>1, <2>2, SeriesAgree
  <1>8. r \in 1 .. r /\ f[r].d = g[r].d
    BY <1>1, <1>2, <1>3
  <1>9. f[r] = g[r]
    BY <1>6, <1>7, <1>8
  <1> QED BY <1>1, <1>2, <1>9

LEMMA AnswersRepeat ==
  ASSUME ReplayInv, SameMatch, SameAgents, NEW r \in Shared, SameRoundsBefore(r)
  PROVE  log[r].d["B"] = earlier.log[r].d["B"]
  <1>1. PICK f, W : f = log /\ Spoken(f, W)
    BY DEF ReplayInv, LogIsSpoken
  <1>2. PICK g, V : g = earlier.log /\ Spoken(g, V)
    BY DEF ReplayInv, EarlierIsSpoken
  <1>3. r \in 1 .. Len(f) /\ r \in 1 .. Len(g) /\ r \in Nat /\ r - 1 \in Nat
    BY <1>1, <1>2, SharedRounds
  <1>4. Len(f) \in Nat /\ Len(g) \in Nat
    BY <1>1, <1>2, Appended DEF ReplayInv, MatchInv
  <1>5. \A q \in 1 .. r - 1 : f[q] = g[q]
    BY <1>1, <1>2 DEF SameRoundsBefore
  <1>6. ASSUME NEW n \in 1 .. r, W[n - 1] = V[n - 1]
        PROVE  f[n].d["B"] = g[n].d["B"] /\ W[n] = V[n]
    <2>1. n \in 1 .. Len(f) /\ n \in 1 .. Len(g) /\ n - 1 \in 0 .. r - 1
      BY <1>3, <1>4
    <2>2. /\ IsAnswer(f[n], StateAt(f, n - 1), PlaysOf(f, n - 1), W[n - 1], W[n])
          /\ IsAnswer(g[n], StateAt(g, n - 1), PlaysOf(g, n - 1), V[n - 1], V[n])
      BY <1>1, <1>2, <2>1 DEF Spoken
    <2>3. StateAt(f, n - 1) = StateAt(g, n - 1) /\ PlaysOf(f, n - 1) = PlaysOf(g, n - 1)
      <3>1. r \in Nat \ {0}
        BY <1>3, <1>4
      <3> QED BY <1>5, <2>1, <3>1, StandAlike
    <2> QED BY <1>6, <2>2, <2>3, OneAnswer
  <1>7. W[r - 1] = V[r - 1]
    <2>1. W[0] = V[0]
      BY <1>1, <1>2 DEF Spoken
    <2>2. ASSUME NEW k \in 1 .. r - 1, W[k - 1] = V[k - 1] PROVE W[k] = V[k]
      <3>1. k \in 1 .. r
        BY <1>3
      <3> QED BY <1>6, <2>2, <3>1
    <2> QED BY <1>3, <2>1, <2>2, SeriesAgree
  <1>8. r \in 1 .. r
    BY <1>3
  <1>9. f[r].d["B"] = g[r].d["B"]
    BY <1>6, <1>7, <1>8
  <1> QED BY <1>1, <1>2, <1>9

LEMMA ReplayIsEnough == ReplayInv => ReplaysExactly /\ AgentsCannotPeek
  <1> SUFFICES ASSUME ReplayInv PROVE ReplaysExactly /\ AgentsCannotPeek
    OBVIOUS
  <1>1. ASSUME SameSeed, NEW r \in Shared PROVE log[r].words = earlier.log[r].words
    <2>1. r \in 1 .. Len(log) /\ r \in 1 .. Len(earlier.log)
      BY SharedRounds
    <2>2. WordsOf(log, Seed) /\ WordsOf(earlier.log, Seed)
      BY <1>1 DEF ReplayInv, SeedInv, SameSeed
    <2> QED BY <2>1, <2>2 DEF WordsOf
  <1>2. ReplaysExactly
    BY <1>1, RoundsRepeat DEF ReplaysExactly
  <1>3. AgentsCannotPeek
    BY AnswersRepeat DEF AgentsCannotPeek
  <1> QED BY <1>2, <1>3

\* "seed fully determines every roll in it", for every lineup of commands,
\* content, balance, tape of words and number of games.
THEOREM TheSeedReplays == LocalSpec => []ReplaysExactly
  <1>1. LocalInit => ReplayInv
    BY ReplayInit
  <1>2. ReplayInv /\ [LocalNext]_localVars => ReplayInv'
    BY ReplayNext
  <1>3. ReplayInv => ReplaysExactly
    BY ReplayIsEnough
  <1> QED BY <1>1, <1>2, <1>3, PTL DEF LocalSpec

\* "An agent handed a view cannot see the future", for the same.
THEOREM NoAgentPeeks == LocalSpec => []AgentsCannotPeek
  <1>1. LocalInit => ReplayInv
    BY ReplayInit
  <1>2. ReplayInv /\ [LocalNext]_localVars => ReplayInv'
    BY ReplayNext
  <1>3. ReplayInv => AgentsCannotPeek
    BY ReplayIsEnough
  <1> QED BY <1>1, <1>2, <1>3, PTL DEF LocalSpec

-----------------------------------------------------------------------------
(***************************************************************************)
(* Draws: of the words that below() accepts, how many give each number.    *)
(***************************************************************************)

\* Every block of t words has one word of each residue.
LEMMA BlockResidues ==
  ASSUME NEW t \in Nat \ {0}, NEW k \in Nat, NEW w \in Int
  PROVE  /\ k * t \in Nat /\ (k + 1) * t = k * t + t
         /\ k * t <= w /\ w < k * t + t => w % t = w - k * t
         /\ (k * t) % t = 0
  <1>1. k * t \in Nat /\ (k + 1) * t = k * t + t
    OBVIOUS
  <1>2. ASSUME k * t <= w, w < k * t + t PROVE w % t = w - k * t
    <2>1. PICK j \in Int : j = w - k * t
      BY <1>1
    <2>2. 0 <= j /\ j < t /\ w = k * t + j
      BY <1>1, <1>2, <2>1
    <2>3. (k * t + j) % t = j
      BY <2>2
    <2> QED BY <2>1, <2>2, <2>3
  <1>3. (k * t) % t = 0
    OBVIOUS
  <1> QED BY <1>1, <1>2, <1>3

\* The words up to n whose residue is one of a .. b - 1.
Residues(n, t, a, b) == {w \in 0 .. n : a <= w % t /\ w % t < b}

\* In q whole blocks each residue comes q times.
LEMMA BlocksHoldAlike ==
  ASSUME NEW t \in Nat \ {0}, NEW a \in Nat, NEW b \in Nat, a <= b, b <= t, NEW q \in Nat
  PROVE  /\ IsFiniteSet(Residues(q * t - 1, t, a, b))
         /\ Cardinality(Residues(q * t - 1, t, a, b)) = (b - a) * q
  <1> DEFINE S(k) == Residues(k * t - 1, t, a, b)
             F == [k \in Nat |-> Cardinality(S(k))]
             G == [k \in Nat |-> (b - a) * k]
  <1>1. ASSUME NEW k \in Nat PROVE IsFiniteSet(S(k))
    <2>1. k * t - 1 \in Int
      BY BlockResidues
    <2>2. IsFiniteSet(0 .. k * t - 1)
      BY <2>1, FS_Interval
    <2> QED BY <2>2, FS_Subset DEF Residues
  <1>2. F[0] = G[0]
    <2>1. S(0) = {}
      BY DEF Residues
    <2> QED BY <2>1, FS_EmptySet
  <1>3. ASSUME NEW k \in 1 .. q, F[k - 1] = G[k - 1] PROVE F[k] = G[k]
    <2>1. PICK j \in Nat : j = k - 1 /\ k = j + 1
      BY <1>3
    <2>2. PICK m \in Nat : m = j * t /\ k * t = m + t
      BY <2>1, BlockResidues
    <2>3. ASSUME NEW w \in m .. m + t - 1 PROVE w % t = w - m
      <3>1. w \in Int /\ j * t <= w /\ w < j * t + t
        BY <2>2
      <3>2. w % t = w - j * t
        BY <3>1, BlockResidues
      <3> QED BY <2>2, <3>2
    <2> DEFINE D == m + a .. m + b - 1
    <2>4. S(k) = S(j) \cup D
      <3>1. S(k) = Residues(m + t - 1, t, a, b) /\ S(j) = Residues(m - 1, t, a, b)
        BY <2>2
      <3> HIDE DEF S
      <3>2. ASSUME NEW w \in S(k) PROVE w \in S(j) \cup D
        <4>1. w \in 0 .. m + t - 1 /\ a <= w % t /\ w % t < b
          BY <3>1 DEF Residues
        <4>2. CASE w < m
          BY <3>1, <4>1, <4>2 DEF Residues
        <4>3. CASE w >= m
          <5>1. w % t = w - m
            BY <2>3, <4>1, <4>3
          <5> QED BY <4>1, <5>1
        <4> QED BY <4>1, <4>2, <4>3
      <3>3. S(j) \subseteq S(k)
        BY <3>1 DEF Residues
      <3>4. ASSUME NEW w \in D PROVE w \in S(k)
        <4>1. w \in m .. m + t - 1
          OBVIOUS
        <4>2. w % t = w - m
          BY <2>3, <4>1
        <4> QED BY <3>1, <4>1, <4>2 DEF Residues
      <3> QED BY <3>2, <3>3, <3>4
    <2>5. S(j) \cap D = {}
      <3>1. S(j) \subseteq 0 .. m - 1
        BY <2>2 DEF Residues
      <3> HIDE DEF S
      <3> QED BY <3>1
    <2>6. IsFiniteSet(D) /\ Cardinality(D) = b - a
      <3>1. PICK x \in Int, y \in Int : x = m + a /\ y = m + b - 1 /\ y - x + 1 = b - a
        OBVIOUS
      <3>2. IsFiniteSet(x .. y) /\ Cardinality(x .. y) = IF x > y THEN 0 ELSE y - x + 1
        BY FS_Interval
      <3> QED BY <3>1, <3>2
    <2>7. IsFiniteSet(S(j)) /\ Cardinality(S(j)) = (b - a) * j
      BY <1>1, <1>3, <2>1
    <2> HIDE DEF S, D
    <2>8. Cardinality(S(k)) = Cardinality(S(j)) + Cardinality(D) - Cardinality({})
      BY <2>4, <2>5, <2>6, <2>7, FS_Union
    <2>9. Cardinality({}) = 0
      BY FS_EmptySet
    <2>10. PICK c \in Nat : c = b - a
      OBVIOUS
    <2>11. Cardinality(S(k)) = c * j + c
      BY <2>6, <2>7, <2>8, <2>9, <2>10
    <2>12. c * j + c = c * (j + 1)
      OBVIOUS
    <2> QED BY <2>1, <2>10, <2>11, <2>12
  <1> HIDE DEF S, F, G
  <1>4. F[q] = G[q]
    BY <1>2, <1>3, SeriesAgree
  <1> QED BY <1>1, <1>4 DEF S, F, G

\* What b - a of the residues are of q blocks and the word after them.
Share(a, b, q) == (b - a) * q + (IF a = 0 /\ 0 < b THEN 1 ELSE 0)

\* Up to a multiple of t, and with it: the last word falls on residue 0.
LEMMA ResiduesCount ==
  ASSUME NEW t \in Nat \ {0}, NEW a \in Nat, NEW b \in Nat, a <= b, b <= t, NEW q \in Nat
  PROVE  Cardinality(Residues(q * t, t, a, b)) = Share(a, b, q)
  <1> DEFINE S == Residues(q * t - 1, t, a, b)
  <1>1. PICK m \in Nat : m = q * t /\ m % t = 0
    BY BlockResidues
  <1>2. IsFiniteSet(S) /\ Cardinality(S) = (b - a) * q
    BY BlocksHoldAlike
  <1>3. m \notin S
    BY <1>1 DEF Residues
  <1>4. Residues(q * t, t, a, b) = IF a = 0 /\ 0 < b THEN S \cup {m} ELSE S
    BY <1>1 DEF Residues
  <1>5. Cardinality(S \cup {m}) = Cardinality(S) + 1
    <2> HIDE DEF S
    <2> QED BY <1>2, <1>3, FS_AddElement
  <1>6. PICK c \in Int : c = (b - a) * q
    OBVIOUS
  <1> HIDE DEF S
  <1> QED BY <1>2, <1>4, <1>5, <1>6 DEF Share

\* The words below() accepts of Mask + 1 are those up to a multiple of the bound.
LEMMA LimitIsAMultiple ==
  ASSUME NEW t \in Nat \ {0}
  PROVE  Limit(t) \div t \in Nat /\ Limit(t) = (Limit(t) \div t) * t
  <1>1. PICK q \in Nat, r \in 0 .. t - 1 : Mask = q * t + r /\ Mask % t = r
    <2>1. Mask \in Nat
      BY RngConstants
    <2>2. Mask \div t \in Nat /\ Mask % t \in 0 .. t - 1
      BY <2>1
    <2>3. Mask = t * (Mask \div t) + (Mask % t)
      BY <2>1
    <2>4. t * (Mask \div t) = (Mask \div t) * t
      BY <2>2
    <2> QED BY <2>2, <2>3, <2>4
  <1>2. q * t \in Nat /\ Limit(t) = q * t
    BY <1>1 DEF Limit
  <1>3. (q * t) \div t = q
    OBVIOUS
  <1> QED BY <1>2, <1>3

\* "A uniform integer in [0, bound)" is what below() does not return, whatever
\* the width of a word and the bound: of the words it accepts, one more gives 0
\* than gives any other number.
THEOREM BelowFavoursZero ==
  \A bound \in Nat \ {0} : \A r \in 1 .. bound - 1 :
    Cardinality({w \in 0 .. Limit(bound) : w % bound = 0})
      = Cardinality({w \in 0 .. Limit(bound) : w % bound = r}) + 1
  <1> SUFFICES ASSUME NEW t \in Nat \ {0}, NEW r \in 1 .. t - 1
               PROVE  Cardinality({w \in 0 .. Limit(t) : w % t = 0})
                        = Cardinality({w \in 0 .. Limit(t) : w % t = r}) + 1
    OBVIOUS
  <1>1. PICK q \in Nat : Limit(t) = q * t
    BY LimitIsAMultiple
  <1>2. ASSUME NEW a \in 0 .. t - 1
        PROVE  Cardinality({w \in 0 .. Limit(t) : w % t = a}) = q + (IF a = 0 THEN 1 ELSE 0)
    <2>1. PICK b \in Nat : b = a + 1 /\ a <= b /\ b <= t /\ 0 < b /\ b - a = 1
      OBVIOUS
    <2>2. {w \in 0 .. Limit(t) : w % t = a} = Residues(q * t, t, a, b)
      <3>1. PICK m \in Nat : m = q * t
        BY BlockResidues
      <3>2. \A w \in 0 .. m : w % t \in Int
        OBVIOUS
      <3> QED BY <1>1, <2>1, <3>1, <3>2 DEF Residues
    <2>3. Cardinality(Residues(q * t, t, a, b)) = Share(a, b, q)
      <3>1. a \in Nat /\ a <= b /\ b <= t
        BY <2>1
      <3> QED BY <3>1, ResiduesCount
    <2>4. Share(a, b, q) = q + (IF a = 0 THEN 1 ELSE 0)
      <3>1. (b - a) * q = q
        BY <2>1
      <3> QED BY <2>1, <3>1 DEF Share
    <2> QED BY <2>2, <2>3, <2>4
  <1>3. 0 \in 0 .. t - 1 /\ r \in 0 .. t - 1 /\ r # 0
    OBVIOUS
  <1> QED BY <1>2, <1>3

\* fighter draws as derive_fighter does, the other commands do not draw.
LEMMA DrawInvLocal == LocalSpec => []DrawInv
  <1>1. LocalInit => DrawInv
    BY DrawInvInit DEF LocalInit
  <1>2. DrawInv /\ [LocalNext]_localVars => DrawInv'
    <2>1. [LocalNext]_localVars => [DrawNext]_drawVars
      BY DEF LocalNext, localVars, drawVars, Watch, TypeSoul, TypeQuit, EndOfInput, TypeStance,
             Derive, NextGame, NextCommand
    <2> QED BY <2>1, DrawInvNext
  <1> QED BY <1>1, <1>2, PTL DEF LocalSpec

-----------------------------------------------------------------------------
(***************************************************************************)
(* Every match that the command line plays is a duel: the agents answer    *)
(* with decisions, the formula with damage that the engine takes.          *)
(***************************************************************************)

\* A stream reads words of the tape, wherever it stands.
LEMMA WordsOnTheTape ==
  ASSUME NEW stream \in Nat, NEW k \in Nat
  PROVE  Word(stream, k) \in 0 .. Mask /\ Len(Tape) \in Nat \ {0}
  <1>1. Tape \in Seq(0 .. Mask) /\ Mask \in Nat /\ {Tape[i] : i \in DOMAIN Tape} = 0 .. Mask
    BY RngConstants
  <1>2. PICK L \in Nat : L = Len(Tape) /\ DOMAIN Tape = 1 .. L
    BY <1>1
  <1>3. L # 0
    <2>1. 0 \in 0 .. Mask
      BY <1>1
    <2> QED BY <1>1, <1>2, <2>1
  <1>4. ((stream + k) % L) + 1 \in 1 .. L
    BY <1>3
  <1> QED BY <1>1, <1>2, <1>3, <1>4 DEF Word

\* In one run through the tape a stream comes by the word 0.
LEMMA ZeroComesBy ==
  ASSUME NEW stream \in Nat, NEW n \in Nat
  PROVE  \E k \in n .. n + Len(Tape) : Word(stream, k) = 0
  <1>1. PICK L \in Nat \ {0} : L = Len(Tape)
    BY WordsOnTheTape
  <1>2. PICK i \in 1 .. L : Tape[i] = 0
    BY <1>1, RngConstants
  <1>3. PICK q \in Nat, r \in 0 .. L - 1 : stream + n = q * L + r
    <2>1. PICK x \in Nat : x = stream + n
      OBVIOUS
    <2>2. x \div L \in Nat /\ x % L \in 0 .. L - 1
      OBVIOUS
    <2>3. x = L * (x \div L) + (x % L)
      OBVIOUS
    <2>4. L * (x \div L) = (x \div L) * L
      BY <2>2
    <2> QED BY <2>1, <2>2, <2>3, <2>4
  <1>4. ASSUME NEW p \in Nat, NEW k \in Nat, NEW m \in Nat, m = p * L, stream + k = m + (i - 1)
        PROVE  Word(stream, k) = 0
    <2>1. PICK w \in Int : w = stream + k
      OBVIOUS
    <2>2. m <= w /\ w < m + L /\ w - m = i - 1
      BY <1>4, <2>1
    <2>3. p * L <= w /\ w < p * L + L
      BY <1>4, <2>2
    <2>4. w % L = w - p * L
      BY <2>3, BlockResidues
    <2>5. w % L = i - 1
      BY <1>4, <2>2, <2>4
    <2>6. ((stream + k) % L) + 1 = i
      BY <2>1, <2>5
    <2> QED BY <1>1, <1>2, <2>6 DEF Word
  <1>5. PICK m \in Nat : m = q * L /\ (q + 1) * L = m + L /\ stream + n = m + r
    BY <1>3, BlockResidues
  <1>6. CASE r <= i - 1
    <2>1. PICK k \in n .. n + L : k = n + (i - 1 - r)
      BY <1>6
    <2>2. stream + k = m + (i - 1) /\ k \in Nat
      BY <1>5, <2>1
    <2>3. Word(stream, k) = 0
      BY <1>4, <1>5, <2>2
    <2> QED BY <1>1, <2>1, <2>3
  <1>7. CASE i - 1 < r
    <2>1. PICK k \in n .. n + L : k = n + (i - 1 - r) + L
      BY <1>7
    <2>2. PICK p \in Nat, m2 \in Nat : p = q + 1 /\ m2 = m + L /\ m2 = p * L
      BY <1>5
    <2>3. stream + k = m2 + (i - 1) /\ k \in Nat
      BY <1>5, <2>1, <2>2
    <2>4. Word(stream, k) = 0
      BY <1>4, <2>2, <2>3
    <2> QED BY <1>1, <2>1, <2>4
  <1> QED BY <1>6, <1>7

\* below(bound) is below its bound.
LEMMA BelowItsBound ==
  ASSUME NEW stream \in Nat, NEW n \in Nat, NEW bound \in Nat \ {0}
  PROVE  Below(stream, n, bound).value \in 0 .. bound - 1 /\ Below(stream, n, bound).taken \in Nat
  <1> DEFINE usable(k) == Word(stream, k) <= Limit(bound)
             T == {k \in n .. n + Len(Tape) : usable(k)}
             IsFirst(k) == usable(k) /\ \A j \in n .. k - 1 : ~usable(j)
             first == CHOOSE k \in n .. n + Len(Tape) : IsFirst(k)
  <1>1. 0 <= Limit(bound)
    <2>1. Mask \in Nat
      BY RngConstants
    <2>2. Mask % bound <= Mask
      BY <2>1
    <2> QED BY <2>1, <2>2 DEF Limit
  <1>2. T # {} /\ T \subseteq Nat
    <2>1. PICK k \in n .. n + Len(Tape) : Word(stream, k) = 0
      BY ZeroComesBy
    <2>2. k \in T
      BY <1>1, <2>1
    <2> QED BY <2>2
  <1>3. PICK k \in T : \A l \in T : k <= l
    <2> HIDE DEF T
    <2> QED BY <1>2, LeastOf
  <1>4. Len(Tape) \in Nat
    BY WordsOnTheTape
  <1>5. k \in n .. n + Len(Tape) /\ IsFirst(k)
    BY <1>3, <1>4
  <1>6. first \in n .. n + Len(Tape)
    <2> HIDE DEF IsFirst
    <2> QED BY <1>5
  <1>7. Below(stream, n, bound) = [value |-> Word(stream, first) % bound, taken |-> first + 1]
    BY DEF Below
  <1> HIDE DEF first
  <1>8. PICK f \in Nat : f = first
    BY <1>4, <1>6
  <1>9. PICK w \in Nat : w = Word(stream, f)
    BY WordsOnTheTape
  <1> QED BY <1>7, <1>8, <1>9

\* choice returns one of its items.
LEMMA ChoiceOf ==
  ASSUME NEW stream \in Nat, NEW n \in Nat, NEW S, NEW items \in Seq(S), items # <<>>
  PROVE  Choice(stream, n, items).value \in S /\ Choice(stream, n, items).taken \in Nat
  <1>1. PICK b \in Nat \ {0} : b = Len(items)
    OBVIOUS
  <1>2. PICK v \in 0 .. b - 1, t \in Nat :
          v = Below(stream, n, b).value /\ t = Below(stream, n, b).taken
    BY BelowItsBound
  <1>3. Choice(stream, n, items) = [value |-> items[v + 1], taken |-> t]
    BY <1>1, <1>2 DEF Choice
  <1>4. items[v + 1] \in S
    BY <1>1, <1>2
  <1> QED BY <1>3, <1>4

LEMMA ChanceOf ==
  ASSUME NEW stream \in Nat, NEW n \in Nat, NEW percent \in Int
  PROVE  Chance(stream, n, percent).value \in BOOLEAN /\ Chance(stream, n, percent).taken \in Nat
  <1>1. CASE percent <= 0 \/ percent >= 100
    <2>1. Chance(stream, n, percent) = [value |-> percent > 0, taken |-> n]
      BY <1>1 DEF Chance
    <2> QED BY <2>1
  <1>2. CASE ~(percent <= 0 \/ percent >= 100)
    <2>1. PICK x \in Int, y \in Int : x = Word(stream, n) * 100 /\ y = percent * (Mask + 1)
      <3>1. PICK w \in Nat : w = Word(stream, n)
        BY WordsOnTheTape
      <3>2. Mask \in Nat
        BY RngConstants
      <3>3. w * 100 \in Int /\ percent * (Mask + 1) \in Int
        BY <3>2
      <3> QED BY <3>1, <3>3
    <2>2. Chance(stream, n, percent) = [value |-> x < y, taken |-> n + 1]
      BY <1>2, <2>1 DEF Chance
    <2>3. (x < y) \in BOOLEAN
      OBVIOUS
    <2> QED BY <2>2, <2>3
  <1> QED BY <1>1, <1>2

-----------------------------------------------------------------------------
\* One of the stances is played most, so the agent has something to counter.
LEMMA MostPlayed ==
  ASSUME NEW history \in Seq(StanceNames)
  PROVE  Tied(history) \in Seq(StanceNames) /\ Tied(history) # <<>>
  <1> DEFINE from == IF Len(history) > 5 THEN Len(history) - 4 ELSE 1
             times(x) == Cardinality({i \in from .. Len(history) : history[i] = x})
             most(x) == IF \A y \in StanceNames : times(y) <= times(x) THEN <<x>> ELSE <<>>
  <1>1. \A x : times(x) \in Nat
    <2>1. TAKE x
    <2>2. from \in Int /\ Len(history) \in Int
      OBVIOUS
    <2>3. IsFiniteSet(from .. Len(history))
      <3> HIDE DEF from
      <3> QED BY <2>2, FS_Interval
    <2>4. IsFiniteSet({i \in from .. Len(history) : history[i] = x})
      <3> HIDE DEF from
      <3> QED BY <2>3, FS_Subset
    <2> QED BY <2>4, FS_CardinalityType
  <1>2. Tied(history) = most("focus") \o most("guard") \o most("strike")
    BY DEF Tied
  <1> HIDE DEF times
  <1>3. PICK f \in Seq(StanceNames), g \in Seq(StanceNames), s \in Seq(StanceNames) :
          f = most("focus") /\ g = most("guard") /\ s = most("strike")
    <2>1. <<>> \in Seq(StanceNames) /\ \A x \in StanceNames : <<x>> \in Seq(StanceNames)
      OBVIOUS
    <2>2. \A x \in StanceNames : most(x) \in Seq(StanceNames)
      BY <2>1
    <2> HIDE DEF most
    <2> QED BY <2>2 DEF StanceNames
  <1>4. Len(f) + Len(g) + Len(s) > 0
    <2>1. PICK a \in Nat, b \in Nat, c \in Nat :
            a = times("focus") /\ b = times("guard") /\ c = times("strike")
      BY <1>1
    <2>2. CASE b <= a /\ c <= a
      <3>1. f = <<"focus">>
        BY <1>3, <2>1, <2>2 DEF StanceNames
      <3> QED BY <3>1
    <2>3. CASE a <= b /\ c <= b
      <3>1. g = <<"guard">>
        BY <1>3, <2>1, <2>3 DEF StanceNames
      <3> QED BY <3>1
    <2>4. CASE a <= c /\ b <= c
      <3>1. s = <<"strike">>
        BY <1>3, <2>1, <2>4 DEF StanceNames
      <3> QED BY <3>1
    <2> QED BY <2>1, <2>2, <2>3, <2>4
  <1> HIDE DEF most
  <1>5. f \o g \o s \in Seq(StanceNames) /\ Len(f \o g \o s) = Len(f) + Len(g) + Len(s)
    OBVIOUS
  <1> QED BY <1>2, <1>3, <1>4, <1>5

Answer == [stance : StanceNames, spend : BOOLEAN, taken : Nat]

\* Whatever an agent is shown and has drawn, it answers with one of the stances.
LEMMA AgentsAnswer ==
  ASSUME NEW agent \in AgentNames, NEW view, NEW stream \in Nat, NEW n \in Nat,
         view.canSpend \in BOOLEAN, view.history \in Seq(StanceNames)
  PROVE  Decide(agent, view, stream, n) \in Answer
  <1>0. Stances \in Seq(StanceNames) /\ Stances # <<>>
    BY DEF Stances, StanceNames
  <1>1. DecideRandom(view, stream, n) \in Answer
    BY <1>0, ChoiceOf DEF DecideRandom, Decided, Answer
  <1>2. DecideAggressive(view, stream, n) \in Answer
    <2>1. PICK v \in BOOLEAN, m \in Nat : v = Chance(stream, n, 50).value /\ m = Chance(stream, n, 50).taken
      <3>1. Chance(stream, n, 50).value \in BOOLEAN /\ Chance(stream, n, 50).taken \in Nat
        BY ChanceOf
      <3> QED BY <3>1, Zenon
    <2>2. PICK asks \in BOOLEAN : asks = (2 * view.bp < view.opponentBP /\ ~view.canSpend)
      OBVIOUS
    <2>3. PICK k \in Nat : k = IF asks THEN m ELSE n
      OBVIOUS
    <2>4. Chance(stream, k, 15).taken \in Nat
      BY ChanceOf
    <2>5. DecideAggressive(view, stream, n) =
            IF asks /\ v THEN Decided("focus", FALSE, m)
            ELSE Decided(IF Chance(stream, k, 15).value THEN "guard" ELSE "strike", view.canSpend,
                         Chance(stream, k, 15).taken)
      BY <2>1, <2>2, <2>3 DEF DecideAggressive
    <2> QED BY <2>1, <2>4, <2>5 DEF Decided, Answer, StanceNames
  <1>3. DecideDefensive(view, stream, n) \in Answer
    <2>1. Chance(stream, n, 40).taken \in Nat
      BY ChanceOf
    <2> QED BY <2>1 DEF DecideDefensive, Decided, Answer, StanceNames
  <1>4. DecideAdaptive(view, stream, n) \in Answer
    <2>1. PICK noise : noise = Chance(stream, n, 30) /\ noise.value \in BOOLEAN /\ noise.taken \in Nat
      BY ChanceOf
    <2>2. PICK before \in Nat : before = IF view.history = <<>> THEN n ELSE noise.taken
      BY <2>1
    <2>3. PICK whim : /\ whim = Choice(stream, before, Stances)
                      /\ whim.value \in StanceNames /\ whim.taken \in Nat
      BY <1>0, ChoiceOf
    <2>4. PICK tied \in Seq(StanceNames) : tied = Tied(view.history) /\ tied # <<>>
      BY MostPlayed
    <2>5. PICK pick : /\ pick = IF Len(tied) = 1 THEN [value |-> tied[1], taken |-> before]
                                ELSE Choice(stream, before, tied)
                      /\ pick.value \in StanceNames /\ pick.taken \in Nat
      <3>1. CASE Len(tied) = 1
        <4>1. tied[1] \in StanceNames
          BY <2>4, <3>1
        <4>2. PICK p : p = [value |-> tied[1], taken |-> before]
          OBVIOUS
        <4>3. p.value \in StanceNames /\ p.taken \in Nat
          BY <2>2, <4>1, <4>2
        <4> QED BY <3>1, <4>2, <4>3
      <3>2. CASE Len(tied) # 1
        <4>1. Choice(stream, before, tied).value \in StanceNames /\ Choice(stream, before, tied).taken \in Nat
          BY <2>4, ChoiceOf
        <4> QED BY <3>2, <4>1
      <3> QED BY <3>1, <3>2
    <2>6. Counter[pick.value] \in StanceNames
      BY <2>5 DEF Counter, StanceNames
    <2>7. PICK outmatched \in BOOLEAN :
            outmatched = (Beats[view.opponent.element] = view.you.element)
      OBVIOUS
    <2>8. DecideAdaptive(view, stream, n) =
            IF ~(view.history # <<>> /\ ~noise.value)
            THEN Decided(whim.value, view.canSpend, whim.taken)
            ELSE Decided(IF outmatched /\ Counter[pick.value] = "strike" THEN "focus"
                         ELSE Counter[pick.value], view.canSpend, pick.taken)
      BY <2>1, <2>2, <2>3, <2>4, <2>5, <2>7 DEF DecideAdaptive
    <2> QED BY <2>3, <2>5, <2>6, <2>8 DEF Decided, Answer, StanceNames
  <1> QED BY <1>1, <1>2, <1>3, <1>4 DEF Decide, AgentNames

-----------------------------------------------------------------------------
\* The thresholds start at 0, so everyone has a rank.
LEMMA SomeRank ==
  ASSUME NEW points \in Nat
  PROVE  RankFor(points).percent \in Int
  <1>1. Ranks \in Seq(Rank) /\ Ranks # <<>>
    BY DamageConstants DEF Loads
  <1>2. PICK L \in Nat \ {0} : L = Len(Ranks) /\ DOMAIN Ranks = 1 .. L
    BY <1>1
  <1> DEFINE earned == {i \in DOMAIN Ranks : i = 1 \/ Ranks[i].points <= points}
             last == CHOOSE i \in earned : \A j \in earned : j <= i
             T == {L - i : i \in earned}
  <1>3. 1 \in earned /\ earned \subseteq 1 .. L
    BY <1>2
  <1>4. T \subseteq Nat /\ T # {}
    BY <1>3
  <1> HIDE DEF earned
  <1>5. PICK k \in T : \A l \in T : k <= l
    <2> HIDE DEF T
    <2> QED BY <1>4, LeastOf
  <1>6. PICK i \in earned : k = L - i
    OBVIOUS
  <1>7. ASSUME NEW j \in earned PROVE j <= i
    <2>1. k <= L - j
      BY <1>5
    <2> QED BY <1>3, <1>6, <2>1
  <1>8. last \in earned
    BY <1>6, <1>7
  <1>9. RankFor(points) = Ranks[last]
    BY DEF RankFor, earned
  <1> HIDE DEF last
  <1>10. Ranks[last] \in Rank
    BY <1>1, <1>2, <1>3, <1>8
  <1>11. \A rank \in Rank : rank.percent \in Int
    BY DEF Rank
  <1> QED BY <1>9, <1>10, <1>11

\* Each stage of the formula is a whole number of thousandths.
LEMMA PercentOf ==
  ASSUME NEW amount \in Int, NEW percent \in Int
  PROVE  Percent(amount, percent) \in Int
  <1>1. PICK x \in Int : x = amount * percent
    OBVIOUS
  <1> QED BY <1>1 DEF Percent

LEMMA Matchups ==
  /\ \A x, y : MatchupPercent(StanceBeats, x, y, StanceAdvantage, StanceDisadvantage) \in Int
  /\ \A x, y : MatchupPercent(Beats, x, y, ElementAdvantage, ElementDisadvantage) \in Int
  BY DamageConstants DEF MatchupPercent

\* compute_damage ends in max(MIN_DAMAGE, ...): whoever fights where, a hit is a
\* number of points that is not below the floor.
LEMMA DamageHasAFloor ==
  ASSUME NEW attacker \in Fighter, NEW x \in StanceNames, NEW chilled,
         NEW defender \in Fighter, NEW y \in StanceNames, NEW b \in Battlefield, NEW variance \in Int
  PROVE  ComputeDamage(attacker, x, chilled, defender, y, b, variance) \in {h \in Nat : h >= MinDamage}
  <1>1. PICK base \in Int : base = BaseDamage + attacker.power * AttackPerPower[x]
    <2>1. PICK p \in Int, k \in Int : p = attacker.power /\ k = AttackPerPower[x]
      BY DamageConstants DEF Fighter
    <2> QED BY <2>1, DamageConstants
  <1>2. PICK status \in Int : status = Percent(base, IF chilled THEN ChillPenalty ELSE 100)
    <2>1. (IF chilled THEN ChillPenalty ELSE 100) \in Int
      BY DamageConstants
    <2> QED BY <2>1, PercentOf
  <1>3. PICK stance \in Int : stance = Percent(status, MatchupPercent(StanceBeats, x, y,
                                               StanceAdvantage, StanceDisadvantage))
    BY Matchups, PercentOf
  <1>4. PICK element \in Int : element = Percent(stance, MatchupPercent(Beats, attacker.element,
                                        defender.element, ElementAdvantage, ElementDisadvantage))
    BY Matchups, PercentOf
  <1>5. PICK attuned100 \in Int :
          attuned100 = Percent(element, IF attacker.element = b.element THEN b.bonus ELSE 100)
    <2>1. (IF attacker.element = b.element THEN b.bonus ELSE 100) \in Int
      BY DEF Battlefield
    <2> QED BY <2>1, PercentOf
  <1>6. PICK ranked \in Int : ranked = Percent(attuned100, RankFor(attacker.points).percent)
    <2>1. attacker.points \in Nat
      BY DEF Fighter
    <2> QED BY <2>1, SomeRank, PercentOf
  <1>7. PICK spread \in Int : spread = (ranked * variance) \div 1000
    <2>1. PICK z \in Int : z = ranked * variance
      OBVIOUS
    <2> QED BY <2>1
  <1>8. PICK cut \in Int : cut = defender.guard * CutPerGuard[y]
    <2>1. PICK p \in Int, k \in Int : p = defender.guard /\ k = CutPerGuard[y]
      BY DamageConstants DEF Fighter
    <2> QED BY <2>1
  <1>9. ComputeDamage(attacker, x, chilled, defender, y, b, variance)
          = AtLeastMinDamage(Rounded(spread - cut))
    BY <1>1, <1>2, <1>3, <1>4, <1>5, <1>6, <1>7, <1>8 DEF ComputeDamage
  <1>10. PICK r \in Int : r = Rounded(spread - cut)
    <2>1. PICK z \in Int : z = spread - cut
      OBVIOUS
    <2> QED BY <2>1, SMT DEF Rounded
  <1> QED BY <1>9, <1>10, DuelConstants DEF AtLeastMinDamage

-----------------------------------------------------------------------------
\* The set that bounds TLC's runs left whole.
HitsAreWhole == Hits = {h \in Nat : h >= MinDamage}

\* A command whose streams all enter the tape.
Runnable == {c \in Command : \A g \in 0 .. Games - 1 : \A l \in Labels \ {"narration"} :
                               Start[c.seed + g][l] \in Nat}
Frame ==
  /\ cmd \in Runnable /\ todo \in Seq(Runnable) /\ game \in 0 .. Games - 1
  /\ armed \in BOOLEAN
  /\ taken \in [Labels -> Nat]
  /\ plays \in [Sides -> Seq(StanceNames)]
  /\ IsSequence(log)
  /\ log # <<>> => \A s \in Sides : log[Len(log)].hit[s] \in Hits
LocalInv == Frame /\ IInv /\ BurnInv

LEMMA StreamsEnter ==
  ASSUME Frame, NEW l \in Labels \ {"narration"}
  PROVE  Stream(l) \in Nat
  BY DEF Frame, Runnable, Stream, Seed

LEMMA CommandFields ==
  ASSUME NEW c \in Runnable
  PROVE  /\ c.battlefield \in Battlefield /\ Rules(c.battlefield) \in Arenas
         /\ \A s \in Sides : c.fighters[s] \in Fighter /\ c.agents[s] \in AgentNames
  BY DamageConstants DEF Runnable, Command

\* So does the agent of a side in a match.
LEMMA Answers ==
  ASSUME Frame, IInv, NEW s \in Sides
  PROVE  DecidesOn(s, plays) \in Answer
  <1> DEFINE view == View(cmd.fighters, plays, s)
  <1>1. cmd.agents[s] \in AgentNames
    BY CommandFields DEF Frame
  <1>2. OpponentLabel(s) \in Labels \ {"narration"}
    BY DEF OpponentLabel, Labels
  <1>3. Stream(OpponentLabel(s)) \in Nat
    BY <1>2, StreamsEnter
  <1>4. TakenBy(s) \in Nat
    BY <1>2 DEF TakenBy, Frame
  <1>5. view.canSpend \in BOOLEAN /\ view.history \in Seq(StanceNames)
    <2>1. st[s].souls \in Int /\ arena.cost \in Int
      BY DuelConstants DEF IInv, TypeOK, Combatant
    <2>2. (st[s].souls >= arena.cost) \in BOOLEAN
      BY <2>1
    <2>3. plays[Other(s)] \in Seq(StanceNames)
      BY DEF Frame, Other, Sides
    <2> QED BY <2>2, <2>3 DEF View
  <1> HIDE DEF view
  <1>6. Decide(cmd.agents[s], view, Stream(OpponentLabel(s)), TakenBy(s)) \in Answer
    BY <1>1, <1>3, <1>4, <1>5, AgentsAnswer
  <1> QED BY <1>6 DEF DecidesOn, view

\* Both hits of a round are hits of Duel.
LEMMA HitsFit ==
  ASSUME HitsAreWhole, Frame, NEW c, NEW d, \A s \in Sides : d[s].stance \in StanceNames
  PROVE  HitsOf(c, d) \in [Sides -> Hits]
  <1>1. ASSUME NEW s \in Sides, NEW k \in {0, 1}
        PROVE  Hit(c, d, s, VarianceWord(k)) \in Hits
    <2>1. "match" \in Labels \ {"narration"}
      BY DEF Labels
    <2>2. PICK w \in Nat : w = VarianceWord(k)
      <3>1. PICK stream \in Nat : stream = Stream("match")
        BY <2>1, StreamsEnter
      <3>2. PICK n \in Nat : n = taken["match"] + k
        BY <2>1 DEF Frame
      <3>3. Word(stream, n) \in Nat
        BY WordsOnTheTape
      <3> QED BY <3>1, <3>2, <3>3 DEF VarianceWord
    <2>3. PICK v \in Int : v = Between(w, VarianceLow, VarianceHigh)
      <3>1. PICK p \in Int : p = (VarianceHigh - VarianceLow) * w
        BY LocalConstants
      <3> QED BY <3>1, LocalConstants, RngConstants DEF Between
    <2>4. Other(s) \in Sides
      BY DEF Other, Sides
    <2>5. /\ cmd.fighters[s] \in Fighter /\ cmd.fighters[Other(s)] \in Fighter
          /\ cmd.battlefield \in Battlefield
      BY <2>4, CommandFields DEF Frame
    <2>6. d[s].stance \in StanceNames /\ d[Other(s)].stance \in StanceNames
      BY <2>4
    <2> QED BY <2>2, <2>3, <2>5, <2>6, DamageHasAFloor DEF Hit, HitsAreWhole
  <1> QED BY <1>1 DEF HitsOf

\* Only who is exposed can be bitten.
LEMMA RollsFit ==
  ASSUME Frame, NEW struck
  PROVE  HazardRolls(struck).bitten \in SUBSET Exposed(struck) /\ HazardRolls(struck).taken \in Nat
  <1> DEFINE roll(s, k) == IF s \in Exposed(struck)
                           THEN Chance(Stream("hazards"), k, cmd.battlefield.chance)
                           ELSE [value |-> FALSE, taken |-> k]
  <1>1. ASSUME NEW s, NEW k \in Nat
        PROVE  /\ roll(s, k).taken \in Nat
               /\ roll(s, k).value => s \in Exposed(struck)
    <2>1. "hazards" \in Labels \ {"narration"}
      BY DEF Labels
    <2>2. Stream("hazards") \in Nat /\ cmd.battlefield.chance \in Int
      <3>1. cmd.battlefield \in Battlefield
        BY CommandFields DEF Frame
      <3>2. \A b \in Battlefield : b.chance \in Int
        BY SMT DEF Battlefield
      <3> QED BY <2>1, <3>1, <3>2, StreamsEnter
    <2>3. Chance(Stream("hazards"), k, cmd.battlefield.chance).taken \in Nat
      BY <2>2, ChanceOf
    <2> QED BY <2>3
  <1>2. taken["hazards"] \in Nat
    BY DEF Frame, Labels
  <1> DEFINE a == roll("A", taken["hazards"])
             b == roll("B", a.taken)
  <1>3. a.taken \in Nat /\ (a.value => "A" \in Exposed(struck))
    BY <1>1, <1>2
  <1>4. b.taken \in Nat /\ (b.value => "B" \in Exposed(struck))
    BY <1>1, <1>3
  <1>5. HazardRolls(struck) =
          [bitten |-> {s \in Sides : (s = "A" /\ a.value) \/ (s = "B" /\ b.value)}, taken |-> b.taken]
    BY DEF HazardRolls
  <1> HIDE DEF a, b
  <1> QED BY <1>3, <1>4, <1>5

-----------------------------------------------------------------------------
\* Decisions as the agents and the prompt give them.
Spoke == [stance : StanceNames, spend : BOOLEAN]

\* What agents, formula and hazards give to a round is what Duel takes.
LEMMA RoundFits ==
  ASSUME HitsAreWhole, Frame, NEW d \in [Sides -> Spoke],
         NEW byAgent \in [Labels -> Nat], PlayRound(d, byAgent)
  PROVE  /\ Next
         /\ taken' \in [Labels -> Nat] /\ plays' \in [Sides -> Seq(StanceNames)]
         /\ armed' = FALSE /\ IsSequence(log')
         /\ log' # <<>> => \A s \in Sides : log'[Len(log')].hit[s] \in Hits
  <1> DEFINE duel == [s \in Sides |-> [focus |-> d[s].stance = "focus", spend |-> d[s].spend]]
             hit == HitsOf(SoulActions(AtRoundStart, duel), d)
             struck == BeforeHazards(duel, hit)
             rolls == HazardRolls(struck)
             e == [d |-> d, words |-> <<VarianceWord(0), VarianceWord(1)>>,
                   hit |-> hit, bitten |-> rolls.bitten, end |-> st']
  <1>1. duel \in Decisions
    BY DEF Decisions, Spoke
  <1>2. hit \in [Sides -> Hits]
    <2>1. \A s \in Sides : d[s].stance \in StanceNames
      BY DEF Spoke
    <2> QED BY <2>1, HitsFit
  <1>3. rolls.bitten \in SUBSET Exposed(struck) /\ rolls.taken \in Nat
    BY RollsFit
  <1>4. /\ Resolve(duel, struck, rolls.bitten)
        /\ TakeWords(duel, rolls, byAgent)
        /\ plays' = [s \in Sides |-> Append(plays[s], d[s].stance)]
        /\ log' = Append(log, e) /\ armed' = FALSE
    <2>1. PICK x \in {[s \in Sides |-> [focus |-> d[s].stance = "focus", spend |-> d[s].spend]]} :
            \E y \in {HitsOf(SoulActions(AtRoundStart, x), d)} :
            \E z \in {BeforeHazards(x, y)} :
            \E u \in {HazardRolls(z)} :
              /\ Resolve(x, z, u.bitten)
              /\ TakeWords(x, u, byAgent)
              /\ plays' = [s \in Sides |-> Append(plays[s], d[s].stance)]
              /\ log' = Append(log, [d |-> d, words |-> <<VarianceWord(0), VarianceWord(1)>>,
                                     hit |-> y, bitten |-> u.bitten, end |-> st'])
              /\ armed' = FALSE
      BY DEF PlayRound
    <2>2. x = duel
      OBVIOUS
    <2> HIDE DEF duel
    <2> QED BY <2>1, <2>2
  <1>5. Next
    <2>1. Submit(duel, hit)
      <3>1. outcome = Undecided
        BY <1>4 DEF Resolve
      <3> HIDE DEF rolls
      <3> QED BY <1>3, <1>4, <3>1 DEF Submit
    <2> HIDE DEF duel, hit
    <2> QED BY <1>1, <1>2, <2>1 DEF Next
  <1>6. taken' \in [Labels -> Nat]
    <2>1. PICK n \in Nat : n = Lines(duel)
      <3>1. Cardinality({s \in Sides : Pays(st, s, duel)}) \in Nat
        <4>1. IsFiniteSet({"A", "B"})
          <5>1. IsFiniteSet({}) /\ IsFiniteSet({} \cup {"A"}) /\ IsFiniteSet(({} \cup {"A"}) \cup {"B"})
            BY FS_EmptySet, FS_AddElement
          <5>2. ({} \cup {"A"}) \cup {"B"} = {"A", "B"}
            OBVIOUS
          <5> QED BY <5>1, <5>2
        <4>2. {s \in Sides : Pays(st, s, duel)} \subseteq {"A", "B"}
          BY DEF Sides
        <4> QED BY <4>1, <4>2, FS_Subset, FS_CardinalityType
      <3>2. PICK k \in Nat : k = Cardinality({s \in Sides : Pays(st, s, duel)})
        BY <3>1
      <3>3. Lines(duel) = IF cmd.kind = "tally" THEN 0
                          ELSE 2 + k * (IF arena.effect = "ruin" THEN 2 ELSE 1)
        BY <3>2 DEF Lines
      <3> HIDE DEF duel
      <3> QED BY <3>3
    <2>2. PICK m \in Nat : m = rolls.taken
      BY <1>3
    <2>3. taken' = [byAgent EXCEPT !["match"] = @ + 2, !["hazards"] = m, !["narration"] = @ + n]
      BY <1>4, <2>1, <2>2 DEF TakeWords, MatchWords
    <2> HIDE DEF rolls, duel
    <2> QED BY <2>3 DEF Labels
  <1>7. plays' \in [Sides -> Seq(StanceNames)]
    <2>1. ASSUME NEW s \in Sides PROVE Append(plays[s], d[s].stance) \in Seq(StanceNames)
      <3>1. d[s].stance \in StanceNames /\ plays[s] \in Seq(StanceNames)
        BY DEF Spoke, Frame
      <3> QED BY <3>1
    <2> QED BY <1>4, <2>1
  <1>8. IsSequence(log') /\ \A s \in Sides : log'[Len(log')].hit[s] \in Hits
    <2>1. IsSequence(log) /\ e.hit = hit
      BY DEF Frame
    <2> HIDE DEF e, hit
    <2>2. IsSequence(log') /\ log'[Len(log')] = e
      <3>1. IsSequence(Append(log, e)) /\ Len(Append(log, e)) = Len(log) + 1
              /\ Append(log, e)[Len(log) + 1] = e
        BY <2>1, Appended
      <3> QED BY <1>4, <3>1
    <2> QED BY <1>2, <2>1, <2>2
  <1> HIDE DEF e
  <1> QED BY <1>4, <1>5, <1>6, <1>7, <1>8

-----------------------------------------------------------------------------
\* What Duel proves of its steps, and of its initial states.
LEMMA DuelGoesOn ==
  ASSUME IInv, BurnInv, [Next]_vars
  PROVE  IInv' /\ BurnInv'
  <1>1. IInv'
    BY IInvNext
  <1>2. CASE Next
    BY <1>1, <1>2, BurnInvNext DEF Next
  <1>3. CASE UNCHANGED vars
    BY <1>1, <1>3 DEF vars, BurnInv
  <1> QED BY <1>1, <1>2, <1>3

LEMMA DuelBegins == Init => IInv /\ BurnInv
  <1>1. Init => BurnInv
    BY DuelConstants DEF Init, BurnInv
  <1> QED BY <1>1, IInvInit

LEMMA LineupsRun == Lineups \subseteq Seq(Runnable) \ {<<>>}
  <1> SUFFICES ASSUME NEW line \in Lineups PROVE line \in Seq(Runnable) /\ line # <<>>
    OBVIOUS
  <1>1. line \in Seq(Command) /\ line # <<>>
    BY LocalConstants
  <1>2. \A i \in DOMAIN line : line[i] \in Runnable
    BY <1>1, LocalConstants DEF Runnable
  <1>3. DOMAIN line = 1 .. Len(line) /\ Len(line) \in Nat
    BY <1>1
  <1> QED BY <1>1, <1>2, <1>3

LEMMA TheRest ==
  ASSUME NEW line \in Seq(Runnable), line # <<>>
  PROVE  Head(line) \in Runnable /\ Tail(line) \in Seq(Runnable)
  OBVIOUS

LEMMA LocalInvInit == LocalInit => LocalInv
  <1> SUFFICES ASSUME LocalInit PROVE LocalInv
    OBVIOUS
  <1>1. PICK line \in Lineups : cmd = Head(line) /\ todo = Tail(line)
    BY DEF LocalInit
  <1>2. cmd \in Runnable /\ todo \in Seq(Runnable)
    BY <1>1, LineupsRun, TheRest
  <1>3. game \in 0 .. Games - 1 /\ armed \in BOOLEAN
    <2>1. game = 0 /\ armed = FALSE
      BY DEF LocalInit
    <2>2. 0 \in 0 .. Games - 1
      BY LocalConstants
    <2> QED BY <2>1, <2>2
  <1>4. taken \in [Labels -> Nat] /\ plays \in [Sides -> Seq(StanceNames)]
    BY DEF LocalInit, NothingTaken, NothingPlayed
  <1>5. IsSequence(log) /\ log = <<>>
    BY EmptyLog DEF LocalInit
  <1>6. Init
    BY DEF LocalInit
  <1> QED BY <1>2, <1>3, <1>4, <1>5, <1>6, DuelBegins DEF LocalInv, Frame

LEMMA FrameStays ==
  ASSUME LocalInv, UNCHANGED <<vars, cmd, todo, game, taken, plays, log>>, armed' \in BOOLEAN
  PROVE  LocalInv'
  <1>1. IInv' /\ BurnInv'
    BY DuelGoesOn DEF LocalInv
  <1> QED BY <1>1 DEF LocalInv, Frame

LEMMA FrameGrows ==
  ASSUME HitsAreWhole, LocalInv, NEW d \in [Sides -> Spoke],
         NEW byAgent \in [Labels -> Nat], PlayRound(d, byAgent),
         UNCHANGED <<cmd, todo, game>>
  PROVE  LocalInv'
  <1>1. /\ Next
        /\ taken' \in [Labels -> Nat] /\ plays' \in [Sides -> Seq(StanceNames)]
        /\ armed' = FALSE /\ IsSequence(log')
        /\ log' # <<>> => \A s \in Sides : log'[Len(log')].hit[s] \in Hits
    BY RoundFits DEF LocalInv
  <1>2. IInv' /\ BurnInv'
    BY <1>1, DuelGoesOn DEF LocalInv
  <1> QED BY <1>1, <1>2 DEF LocalInv, Frame

LEMMA FrameRestarts ==
  ASSUME LocalInv, Create(cmd'), cmd' \in Runnable, todo' \in Seq(Runnable), game' \in 0 .. Games - 1
  PROVE  LocalInv'
  <1>1. Init'
    <2>1. Rules(cmd'.battlefield) \in Arenas
      BY CommandFields
    <2>2. Attuned(cmd') \in SUBSET Sides
      BY DEF Attuned
    <2> QED BY <2>1, <2>2 DEF Create, Init
  <1>2. IInv' /\ BurnInv'
    BY <1>1, DuelBegins, PTL
  <1>3. taken' \in [Labels -> Nat] /\ plays' \in [Sides -> Seq(StanceNames)] /\ armed' \in BOOLEAN
    <2>1. taken' = NothingTaken /\ plays' = NothingPlayed /\ armed' = FALSE
      BY DEF Create
    <2>2. NothingTaken \in [Labels -> Nat] /\ NothingPlayed \in [Sides -> Seq(StanceNames)]
      BY DEF NothingTaken, NothingPlayed
    <2> QED BY <2>1, <2>2
  <1>4. IsSequence(log') /\ log' = <<>>
    BY EmptyLog DEF Create
  <1> QED BY <1>2, <1>3, <1>4 DEF LocalInv, Frame

LEMMA LocalInvNext ==
  ASSUME HitsAreWhole, LocalInv, [LocalNext]_localVars
  PROVE  LocalInv'
  <1>1. CASE Watch
    <2>1. PICK a, b : /\ a = DecidesOn("A", plays) /\ b = DecidesOn("B", plays)
                      /\ PlayRound([s \in Sides |-> Decision(IF s = "A" THEN a ELSE b)],
                                   [taken EXCEPT !["a"] = a.taken, !["b"] = b.taken])
      BY <1>1 DEF Watch, AgentDecides
    <2> DEFINE d == [s \in Sides |-> Decision(IF s = "A" THEN a ELSE b)]
    <2>2. a \in Answer /\ b \in Answer
      BY <2>1, Answers DEF LocalInv, Sides
    <2>3. d \in [Sides -> Spoke]
      BY <2>2 DEF Decision, Spoke, Answer
    <2>4. PICK byAgent \in [Labels -> Nat] :
            byAgent = [taken EXCEPT !["a"] = a.taken, !["b"] = b.taken]
      BY <2>2 DEF Answer, LocalInv, Frame
    <2>5. UNCHANGED <<cmd, todo, game>>
      BY <1>1 DEF Watch
    <2>6. PlayRound(d, byAgent)
      BY <2>1, <2>4
    <2> HIDE DEF d
    <2> QED BY <2>3, <2>5, <2>6, FrameGrows
  <1>2. ASSUME NEW stance \in StanceNames, Commit(stance), UNCHANGED <<cmd, todo, game>>
        PROVE  LocalInv'
    <2>1. PICK b : /\ b = DecidesOn("B", plays)
                   /\ PlayRound([s \in Sides |-> IF s = "A" THEN [stance |-> stance, spend |-> armed]
                                                 ELSE Decision(b)],
                                [taken EXCEPT !["opponent"] = b.taken])
      BY <1>2 DEF Commit, CommitOn
    <2>2. PICK ready \in BOOLEAN : ready = armed
      BY DEF LocalInv, Frame
    <2> DEFINE d == [s \in Sides |-> IF s = "A" THEN [stance |-> stance, spend |-> ready]
                                     ELSE Decision(b)]
    <2>3. b \in Answer
      BY <2>1, Answers DEF LocalInv, Sides
    <2>4. d \in [Sides -> Spoke]
      BY <2>3 DEF Decision, Spoke, Answer
    <2>5. PICK byAgent \in [Labels -> Nat] : byAgent = [taken EXCEPT !["opponent"] = b.taken]
      BY <2>3 DEF Answer, LocalInv, Frame
    <2>6. PlayRound(d, byAgent)
      BY <2>1, <2>2, <2>5
    <2> HIDE DEF d
    <2> QED BY <1>2, <2>4, <2>6, FrameGrows
  <1>3. CASE TypeSoul
    <2>1. armed' \in BOOLEAN
      <3>1. armed \in BOOLEAN /\ CanArm \in BOOLEAN
        BY DEF LocalInv, Frame, CanArm
      <3> QED BY <1>3, <3>1 DEF TypeSoul
    <2> QED BY <1>3, <2>1, FrameStays DEF TypeSoul
  <1>4. CASE TypeQuit
    BY <1>4, FrameStays DEF TypeQuit, LocalInv, Frame
  <1>5. CASE EndOfInput
    BY <1>2, <1>5 DEF EndOfInput, StanceNames
  <1>6. ASSUME NEW i \in DOMAIN Stances, TypeStance(Stances[i]) PROVE LocalInv'
    <2>1. Stances[i] \in StanceNames
      BY <1>6 DEF Stances, StanceNames
    <2> QED BY <1>2, <1>6, <2>1 DEF TypeStance
  <1>7. CASE Derive
    BY <1>7, FrameStays DEF Derive, LocalInv, Frame
  <1>8. CASE NextGame
    <2>1. cmd' = cmd /\ todo' = todo /\ game' \in 0 .. Games - 1 /\ Create(cmd')
      BY <1>8, LocalConstants DEF NextGame, LocalInv, Frame
    <2> QED BY <2>1, FrameRestarts DEF LocalInv, Frame
  <1>9. CASE NextCommand
    <2>1. cmd' = Head(todo) /\ todo' = Tail(todo) /\ todo # <<>> /\ game' = 0 /\ Create(cmd')
      BY <1>9 DEF NextCommand
    <2>2. cmd' \in Runnable /\ todo' \in Seq(Runnable)
      BY <2>1, TheRest DEF LocalInv, Frame
    <2>3. game' \in 0 .. Games - 1
      BY <2>1, LocalConstants
    <2> QED BY <2>1, <2>2, <2>3, FrameRestarts
  <1>10. CASE UNCHANGED localVars
    BY <1>10, FrameStays DEF localVars, LocalInv, Frame
  <1> QED BY <1>1, <1>3, <1>4, <1>5, <1>6, <1>7, <1>8, <1>9, <1>10 DEF LocalNext

LEMMA LocalInvIsEnough ==
  LocalInv /\ DrawInv =>
    /\ LocalTypeOK
    /\ VerdictMatchesBars /\ EndsByTheLimit /\ PreviousTrailsOneRound /\ BurnLastsAsDesigned
  <1> SUFFICES ASSUME LocalInv, DrawInv
               PROVE  /\ LocalTypeOK
                      /\ VerdictMatchesBars /\ EndsByTheLimit /\ PreviousTrailsOneRound
                      /\ BurnLastsAsDesigned
    OBVIOUS
  <1>1. stats \in [Stats -> Nat]
    BY FighterConstants DEF DrawInv
  <1>2. LocalTypeOK
    BY <1>1 DEF LocalInv, Frame, IInv, DrawInv, LocalTypeOK
  <1> QED BY <1>2 DEF LocalInv, IInv, BurnInv, BurnLastsAsDesigned

\* Whatever the agents, the fighters and the seed, and whatever a person types, the
\* damage keeps its floor, the state its ranges, and every match of every command
\* is a duel with a duel's promises.
THEOREM EveryMatchIsADuel ==
  ASSUME HitsAreWhole
  PROVE  LocalSpec => [](/\ LocalTypeOK
                         /\ VerdictMatchesBars /\ EndsByTheLimit /\ PreviousTrailsOneRound
                         /\ BurnLastsAsDesigned)
  <1>1. LocalInv /\ [LocalNext]_localVars => LocalInv'
    BY LocalInvNext
  <1> QED BY <1>1, LocalInvInit, DrawInvLocal, LocalInvIsEnough, PTL DEF LocalSpec
=============================================================================
