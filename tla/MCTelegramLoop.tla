--------------------------- MODULE MCTelegramLoop ----------------------------
(* TelegramLoop for TLC.  The users are interchangeable: of the runs that      *)
(* differ in their names only, the one is kept in which they send their first *)
(* updates in the order of their numbers.                                      *)
EXTENDS TelegramLoop, TLC
SendersInOrder ==
  \A id \in DOMAIN updates : updates[id] = 1 \/ \E before \in 1 .. id - 1 : updates[before] = updates[id] - 1
=============================================================================
