---------------------------- MODULE MCPlayerStores ----------------------------
(* PlayerStores for TLC: results of both signs for one player, upserts of two *)
(* players that contend for a wallet, or give it up, and one session.         *)
EXTENDS PlayerStores, TLC

CONSTANTS p1, p2

MCPlayers == {p1, p2}
MCStatements ==
  [kind : {"result"}, player : {p1}, won : {TRUE}, delta : {1}]
    \cup [kind : {"result"}, player : {p1}, won : {FALSE}, delta : {-1}]
    \cup [kind : {"upsert"}, player : MCPlayers, wallet : Wallets, points : {0}]
    \cup [kind : {"upsert"}, player : {p2}, wallet : {None}, points : {0}]
    \cup [kind : {"put", "delete"}, token : Tokens]
=============================================================================
