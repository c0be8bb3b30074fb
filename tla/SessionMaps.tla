------------------------------ MODULE SessionMaps ------------------------------
(***************************************************************************)
(* What every session store holds: sessions keyed by token hash.  A token  *)
(* is drawn from 32 random bytes, so its hash is a value used once.        *)
(***************************************************************************)
EXTENDS Integers, FiniteSets

CONSTANTS Tokens,   \* token hashes
          Wallets,
          TTL,
          MaxTime   \* bound on the clock

ASSUME SessionTimesAreValid == TTL \in Nat \ {0} /\ MaxTime \in Nat

Times == 0 .. MaxTime
Session == [wallet : Wallets, expires : 0 .. MaxTime + TTL]
SessionMaps == UNION {[T -> Session] : T \in SUBSET Tokens}

NewSession(w, now) == [wallet |-> w, expires |-> now + TTL]

NoSessions == [t \in {} |-> t]
Without(map, T) == [t \in DOMAIN map \ T |-> map[t]]
With(map, t, s) == [u \in DOMAIN map \cup {t} |-> IF u = t THEN s ELSE map[u]]

IsExpired(s, now) == now > s.expires
OfWallet(map, w) == {t \in DOMAIN map : map[t].wallet = w}

\* The sessions nearest expiry; which of several equals is first in the
\* dictionary is left open.
Oldest(map) == {t \in DOMAIN map : \A u \in DOMAIN map : map[t].expires <= map[u].expires}
=============================================================================
