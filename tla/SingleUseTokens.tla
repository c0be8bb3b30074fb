-------------------------- MODULE SingleUseTokens --------------------------
(***************************************************************************)
(* What wallet authentication promises, whatever stores the challenges: a  *)
(* nonce is minted once, for one wallet; it is live until it is redeemed   *)
(* or lost; it is redeemed at most once, and only its owner is logged in.  *)
(* ChallengeService is shown to implement this module.                     *)
(***************************************************************************)
EXTENDS Naturals

CONSTANTS Nonces,   \* every nonce that can ever be drawn
          Wallets,  \* the wallets that may sign in
          Nobody    \* the owner of a nonce nobody holds yet

VARIABLES status,   \* nonce -> "unborn", "live", "won" or "dead"
          owner,    \* nonce -> the wallet it was minted for
          logins    \* nonce -> how often it logged its owner in

vars == <<status, owner, logins>>

Init ==
  /\ status = [n \in Nonces |-> "unborn"]
  /\ owner = [n \in Nonces |-> Nobody]
  /\ logins = [n \in Nonces |-> 0]

\* Any other live token may be lost along the way; nothing else changes.
OthersKeptOrLost(n) ==
  \A m \in Nonces \ {n} :
    status'[m] = status[m] \/ (status[m] = "live" /\ status'[m] = "dead")

\* A new token; making room for it may cost other live ones.
Mint(n, w) ==
  /\ status[n] = "unborn" /\ status'[n] = "live"
  /\ OthersKeptOrLost(n)
  /\ owner' = [owner EXCEPT ![n] = w]
  /\ UNCHANGED logins

Redeem(n) ==
  /\ status[n] = "live"
  /\ status' = [status EXCEPT ![n] = "won"]
  /\ logins' = [logins EXCEPT ![n] = @ + 1]
  /\ UNCHANGED owner

\* A failed attempt, or expiry: the token is gone and nobody logs in.
Lose(n) ==
  /\ status[n] = "live" /\ status'[n] = "dead"
  /\ OthersKeptOrLost(n)
  /\ UNCHANGED <<owner, logins>>

Next == \E n \in Nonces : (\E w \in Wallets : Mint(n, w)) \/ Redeem(n) \/ Lose(n)

Spec == Init /\ [][Next]_vars
=============================================================================
