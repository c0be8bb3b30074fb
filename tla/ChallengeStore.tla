--------------------------- MODULE ChallengeStore ---------------------------
(***************************************************************************)
(* InMemoryChallengeStore: pending challenges under one lock, with an index *)
(* per wallet, a per-wallet cap and a total bound kept by eviction.  Every  *)
(* operation holds the lock for its whole body, so each one is one step.    *)
(*                                                                         *)
(* The two dictionaries are total functions here: a nonce that is not a key *)
(* of _by_nonce maps to NoChallenge, a wallet that is not a key of          *)
(* _by_wallet maps to {}, which the code never stores as a value.           *)
(***************************************************************************)
EXTENDS Integers, FiniteSets

CONSTANTS Nonces,         \* every nonce that can ever be drawn
          Wallets,        \* the wallets that may sign in
          Domains,        \* the deployments a challenge can be bound to
          NoChallenge,    \* "not a key of _by_nonce"
          MaxChallenges,  \* max_challenges
          MaxPerWallet    \* max_per_wallet

ASSUME LimitsArePositive ==
  /\ MaxChallenges \in Nat \ {0}
  /\ MaxPerWallet \in Nat \ {0}

\* The fields of a Challenge that the store and the verifier look at.
Challenge == [nonce : Nonces, wallet : Wallets, domain : Domains,
              issuedAt : Int, expiresAt : Int]

ASSUME NoChallengeIsNone == NoChallenge \notin Challenge

VARIABLES byNonce,   \* nonce -> Challenge or NoChallenge
          byWallet   \* wallet -> the nonces indexed for it

storeVars == <<byNonce, byWallet>>

Stored == {n \in Nonces : byNonce[n] # NoChallenge}

IsExpired(c, at) == at > c.expiresAt

\* _expired_locked: a nonce the store no longer has counts as expired.
Expired(n, at) == byNonce[n] = NoChallenge \/ IsExpired(byNonce[n], at)

LiveAll(w, at) == byWallet[w]
Live(w, at) == {n \in byWallet[w] : ~Expired(n, at)}

\* _forget_locked, for a set of nonces: they leave both dictionaries.
NonceMapWithout(gone) == [n \in Nonces |-> IF n \in gone THEN NoChallenge ELSE byNonce[n]]
WalletMapWithout(gone) ==
  [w \in Wallets |-> byWallet[w] \ {n \in gone \cap Stored : byNonce[n].wallet = w}]

EvictableNewest == {n \in Stored : \A m \in Stored : byNonce[m].expiresAt <= byNonce[n].expiresAt}
\* The candidates of _evict_oldest_locked: closest to expiry.  Python breaks a
\* tie by insertion order; the model allows any of the tied ones.
Evictable == {n \in Stored : \A m \in Stored : byNonce[n].expiresAt <= byNonce[m].expiresAt}

IsFullLate == Cardinality(Stored) > MaxChallenges
IsFull == Cardinality(Stored) >= MaxChallenges

AtCapLate(w, at) == Cardinality(Live(w, at)) > MaxPerWallet
AtCap(w, at) == Cardinality(Live(w, at)) >= MaxPerWallet

-----------------------------------------------------------------------------
StoreInit ==
  /\ byNonce = [n \in Nonces |-> NoChallenge]
  /\ byWallet = [w \in Wallets |-> {}]

\* The new challenge enters both dictionaries.  The live set written back was
\* computed before the eviction, so it may still name the evicted nonce.
Insert(c, evicted) ==
  /\ byNonce' = [NonceMapWithout(evicted) EXCEPT ![c.nonce] = c]
  /\ byWallet' = [WalletMapWithout(evicted) EXCEPT
                    ![c.wallet] = Live(c.wallet, c.issuedAt) \cup {c.nonce}]

PutRefused(c) == AtCap(c.wallet, c.issuedAt) /\ UNCHANGED storeVars

PutWithRoom(c) ==
  /\ ~AtCap(c.wallet, c.issuedAt)
  /\ ~IsFull
  /\ Insert(c, {})

PutEvicting(c) ==
  /\ ~AtCap(c.wallet, c.issuedAt)
  /\ IsFull
  /\ \E n \in Evictable : Insert(c, {n})

ForgetNothing(gone) == UNCHANGED storeVars
Forget(gone) ==
  /\ byNonce' = NonceMapWithout(gone)
  /\ byWallet' = WalletMapWithout(gone)

\* consume: the caller reads byNonce[n] in the same step.
Consume(n) == Forget({n})

PurgeExpired(at) == Forget({n \in Stored : IsExpired(byNonce[n], at)})

-----------------------------------------------------------------------------
StoreTypeOK ==
  /\ byNonce \in [Nonces -> Challenge \cup {NoChallenge}]
  /\ byWallet \in [Wallets -> SUBSET Nonces]

\* The store never holds more than max_challenges challenges ("it is bounded,
\* it evicts"), whatever the interleaving of puts, consumes and purges.
StoreIsBounded == Cardinality(Stored) <= MaxChallenges

\* live_for(wallet) says "how many challenges are outstanding for one wallet":
\* the index never counts a challenge the store no longer has.
LiveForCountsOutstanding ==
  \A w \in Wallets :
    Cardinality(byWallet[w]) <= Cardinality({n \in Stored : byNonce[n].wallet = w})

\* The module's header calls the store bounded: the per-wallet dictionary must
\* not outgrow max_challenges either.
IndexIsBounded == Cardinality({w \in Wallets : byWallet[w] # {}}) <= MaxChallenges
=============================================================================
