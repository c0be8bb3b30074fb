------------------------- MODULE MCChallengeService --------------------------
(* ChallengeService for TLC: the nonces, wallets and threads are              *)
(* interchangeable.                                                           *)
EXTENDS ChallengeService, TLC
Interchangeable == Permutations(Nonces) \cup Permutations(Wallets) \cup Permutations(Threads)
=============================================================================
