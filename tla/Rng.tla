-------------------------------- MODULE Rng ---------------------------------
(***************************************************************************)
(* The engine's random source.  A stream is named by a seed and the label  *)
(* it was forked under: RNG.fork hashes the seed the parent started from,  *)
(* so what the parent has drawn does not matter.  splitmix64 is abstracted *)
(* to a tape of words that each stream enters at a place of its own; the   *)
(* word has Mask + 1 values where the program has 2^64.                    *)
(*                                                                         *)
(* A draw is a function of the stream and the words already taken from it; *)
(* it returns the value and how many words have been taken after it.       *)
(***************************************************************************)
EXTENDS Integers, Sequences, FiniteSets

CONSTANTS Mask,    \* _MASK_64
          Tape,    \* the words a stream runs through, over and over
          Start    \* seed -> label -> where that stream enters the tape

ASSUME RngConstants ==
  /\ Mask \in Nat \ {0}
  /\ Tape \in Seq(0 .. Mask)
  /\ {Tape[i] : i \in DOMAIN Tape} = 0 .. Mask

Word(stream, taken) == Tape[((stream + taken) % Len(Tape)) + 1]

\* The largest word that below() accepts.
Limit(bound) == Mask - (Mask % bound)

\* below: words above the limit are thrown away.  A word of 0 is always
\* accepted, so one run through the tape is enough.
Below(stream, taken, bound) ==
  LET usable(k) == Word(stream, k) <= Limit(bound)
      first == CHOOSE k \in taken .. taken + Len(Tape) :
                 usable(k) /\ \A j \in taken .. k - 1 : ~usable(j)
  IN  [value |-> Word(stream, first) % bound, taken |-> first + 1]

Choice(stream, taken, items) ==
  LET draw == Below(stream, taken, Len(items))
  IN  [value |-> items[draw.value + 1], taken |-> draw.taken]

\* chance, of a probability in percent; a certain answer draws nothing.
Chance(stream, taken, percent) ==
  IF percent <= 0 \/ percent >= 100 THEN [value |-> percent > 0, taken |-> taken]
  ELSE [value |-> Word(stream, taken) * 100 < percent * (Mask + 1), taken |-> taken + 1]

\* between(low, high) in whole numbers.
Between(word, low, high) == low + ((high - low) * word) \div (Mask + 1)

\* weighted_choice, of a roll below the sum: the index whose weight covers it.
WeightedChoice(roll, weights) ==
  LET upto[i \in 0 .. Len(weights)] == IF i = 0 THEN 0 ELSE upto[i - 1] + weights[i]
  IN  CHOOSE i \in DOMAIN weights : upto[i - 1] <= roll /\ roll < upto[i]
=============================================================================
