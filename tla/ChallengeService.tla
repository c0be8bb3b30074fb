-------------------------- MODULE ChallengeService --------------------------
(***************************************************************************)
(* ChallengeService.issue and .verify, called by several threads over one  *)
(* ChallengeStore.  Each call reads the clock before it takes the store's  *)
(* lock, so another thread's whole call fits between the two; the verdict  *)
(* is reached after the lock is released, from the consumed challenge.     *)
(*                                                                         *)
(* A signature is who made it and which message it signs.  The message is  *)
(* rebuilt from the stored challenge and names its nonce, so a message is  *)
(* identified by its nonce.  Garbage stands for what fails to decode.      *)
(***************************************************************************)
EXTENDS ChallengeStore

CONSTANTS Threads,    \* concurrent callers
          TTL,        \* lifetime of a challenge, in clock ticks
          Skew,       \* _SKEW
          MaxClock,   \* bound: the clock stays in 0..MaxClock
          MaxBack,    \* bound: how far one adjustment turns the clock back
          Nobody, Garbage

ASSUME TimesAreNatural ==
  /\ TTL \in Nat \ {0}
  /\ Skew \in Nat
  /\ MaxClock \in Nat
  /\ MaxBack \in Nat

ASSUME NobodyIsNoWallet == Nobody \notin Wallets

VARIABLES clock,     \* the wall clock, not monotonic
          call,      \* thread -> the frame of the call it is in
          issuedTo,  \* history: nonce -> the wallet it was drawn for
          shown,     \* history: the nonces issue() has returned
          wins       \* history: nonce -> how often verify() accepted it

history == <<issuedTo, shown, wins>>
vars == <<byNonce, byWallet, clock, call, history>>

Signatures == [by : Wallets \cup {Garbage}, over : Nonces]

\* A call's arguments and locals at each of its steps; they die with the call.
Idle == [at |-> "idle"]
Frames ==
  {Idle}
    \cup [at : {"put"}, chal : Challenge]
    \cup [at : {"consume"}, now : Int, domain : Domains, nonce : Nonces, sig : Signatures]
    \cup [at : {"check"}, now : Int, domain : Domains, chal : Challenge, sig : Signatures]

Init ==
  /\ StoreInit
  /\ clock = 0
  /\ call = [t \in Threads |-> Idle]
  /\ issuedTo = [n \in Nonces |-> Nobody]
  /\ shown = {}
  /\ wins = [n \in Nonces |-> 0]

-----------------------------------------------------------------------------
\* datetime.now: time passes, or the host's clock is turned back a little.
Tick ==
  /\ clock' \in 0 .. MaxClock
  /\ clock' # clock
  /\ clock' >= clock - MaxBack
  /\ UNCHANGED <<byNonce, byWallet, call, history>>

\* issue, up to the call of put: the nonce is one nobody has drawn before.
BeginIssue(t, w, d) ==
  /\ call[t] = Idle
  /\ \E n \in Nonces :
       /\ issuedTo[n] = Nobody
       /\ issuedTo' = [issuedTo EXCEPT ![n] = w]
       /\ call' = [call EXCEPT ![t] =
            [at |-> "put",
             chal |-> [nonce |-> n, wallet |-> w, domain |-> d,
                       issuedAt |-> clock, expiresAt |-> clock + TTL]]]
  /\ UNCHANGED <<byNonce, byWallet, clock, shown, wins>>

Return(t) == call' = [call EXCEPT ![t] = Idle]

\* The end of issue: the challenge goes to the player.
Issued(t) ==
  /\ call[t].at = "put"
  /\ PutWithRoom(call[t].chal) \/ PutEvicting(call[t].chal)
  /\ shown' = shown \cup {call[t].chal.nonce}
  /\ Return(t)
  /\ UNCHANGED <<clock, issuedTo, wins>>

\* put raised RateLimitExceeded: the challenge is dropped, nobody sees it.
RateLimited(t) ==
  /\ call[t].at = "put"
  /\ PutRefused(call[t].chal)
  /\ Return(t)
  /\ UNCHANGED <<clock, history>>

\* verify, up to the call of consume.  Nonces and messages are only known from
\* a challenge that was shown: a nonce is 256 random bits.
BeginVerify(t, d, n, s) ==
  /\ call[t] = Idle
  /\ n \in shown
  /\ s.over \in shown
  /\ call' = [call EXCEPT ![t] =
       [at |-> "consume", now |-> clock, domain |-> d, nonce |-> n, sig |-> s]]
  /\ UNCHANGED <<byNonce, byWallet, clock, history>>

Found(t) == byNonce[call[t].nonce] # NoChallenge

\* consume found the nonce: got and deleted under the lock.
Take(t) ==
  /\ call[t].at = "consume"
  /\ Found(t)
  /\ Consume(call[t].nonce)
  /\ call' = [call EXCEPT ![t] =
       [at |-> "check", now |-> call[t].now, domain |-> call[t].domain,
        chal |-> byNonce[call[t].nonce], sig |-> call[t].sig]]
  /\ UNCHANGED <<clock, history>>

\* consume returned None: AuthError.
Miss(t) ==
  /\ call[t].at = "consume"
  /\ ~Found(t)
  /\ Return(t)
  /\ UNCHANGED <<byNonce, byWallet, clock, history>>

InTime(f) == ~IsExpired(f.chal, f.now) /\ f.chal.issuedAt - Skew <= f.now
Authentic(f) == f.sig.by = f.chal.wallet /\ f.sig.over = f.chal.nonce

AcceptableByAnyKey(f) == InTime(f) /\ f.chal.domain = f.domain /\ f.sig.over = f.chal.nonce
\* Every check of verify that follows consume.
Acceptable(f) == InTime(f) /\ f.chal.domain = f.domain /\ Authentic(f)

Accept(t) ==
  /\ call[t].at = "check"
  /\ Acceptable(call[t])
  /\ wins' = [wins EXCEPT ![call[t].chal.nonce] = @ + 1]
  /\ Return(t)
  /\ UNCHANGED <<byNonce, byWallet, clock, issuedTo, shown>>

\* AuthError after consume: the challenge is burnt all the same.
Reject(t) ==
  /\ call[t].at = "check"
  /\ ~Acceptable(call[t])
  /\ Return(t)
  /\ UNCHANGED <<byNonce, byWallet, clock, history>>

\* purge_expired, called with a clock reading.
Purge ==
  /\ PurgeExpired(clock)
  /\ UNCHANGED <<clock, call, history>>

Issue(t) ==
  \/ \E w \in Wallets, d \in Domains : BeginIssue(t, w, d)
  \/ Issued(t)
  \/ RateLimited(t)

Verify(t) ==
  \/ \E d \in Domains, n \in Nonces, s \in Signatures : BeginVerify(t, d, n, s)
  \/ Take(t)
  \/ Miss(t)
  \/ Accept(t)
  \/ Reject(t)

Next ==
  \/ Tick
  \/ Purge
  \/ \E t \in Threads : Issue(t) \/ Verify(t)

Spec == Init /\ [][Next]_vars

-----------------------------------------------------------------------------
TypeOK ==
  /\ StoreTypeOK
  /\ clock \in Nat
  /\ call \in [Threads -> Frames]
  /\ issuedTo \in [Nonces -> Wallets \cup {Nobody}]
  /\ shown \in SUBSET Nonces
  /\ wins \in [Nonces -> Nat]

\* "Single use, even under concurrency": however many threads answer one
\* challenge, and whatever the clocks they read, a nonce is accepted once.
SingleUse == \A n \in Nonces : wins[n] <= 1

HeldBy(t) == IF call[t].at \in {"put", "check"} THEN {call[t].chal.nonce} ELSE {}

\* A challenge is in one place at a time: in the store under its own nonce, or
\* in the frame of a single call, and never in either once it was accepted; a
\* nonce that was not drawn yet is nowhere.
OnePlace ==
  /\ \A n \in Nonces : n \in shown => issuedTo[n] # Nobody
  /\ \A n \in Stored : byNonce[n].nonce = n /\ n \in shown /\ wins[n] = 0
  /\ \A n \in Nonces : wins[n] > 0 => n \in shown
  /\ \A t \in Threads : \A n \in HeldBy(t) :
       /\ n \notin Stored
       /\ wins[n] = 0
       /\ issuedTo[n] # Nobody
       /\ n \in shown <=> call[t].at = "check"
  /\ \A s, t \in Threads : s # t => HeldBy(s) \cap HeldBy(t) = {}

\* verify succeeds for a nonce only in a call that was handed, for this very
\* service, a signature over that nonce by the wallet the nonce was drawn for,
\* and that read the clock inside the challenge's life (with the skew).
LoginsAreTheSigners ==
  \A n \in Nonces : wins'[n] # wins[n] =>
    \E t \in Threads :
      /\ call[t].at = "check" /\ call'[t] = Idle
      /\ call[t].sig = [by |-> issuedTo[n], over |-> n]
      /\ call[t].domain = call[t].chal.domain
      /\ call[t].now - call[t].chal.expiresAt <= 0
      /\ call[t].now - call[t].chal.issuedAt >= -Skew
OnlyTheSignerLogsIn == [][LoginsAreTheSigners]_vars

\* A challenge leaves the store only because it was answered, because it has
\* expired, or because a new one came when the store was full and nothing in it
\* expired sooner: a player's prompt never vanishes for another reason.
LostOnlyForCause ==
  \A n \in Stored : byNonce'[n] = NoChallenge =>
    \/ \E t \in Threads : call[t].at = "consume" /\ call[t].nonce = n /\ call'[t] # call[t]
    \/ IsExpired(byNonce[n], clock)
    \/ /\ Cardinality(Stored) = MaxChallenges
       /\ shown' # shown
       /\ \A m \in Stored : byNonce[n].expiresAt <= byNonce[m].expiresAt

\* The rate limit never locks out a wallet on the strength of challenges that
\* are gone or expired: a refusal means max_per_wallet answerable ones.
RefusedOnlyAtCap ==
  \A t \in Threads :
    (call[t].at = "put" /\ call'[t] = Idle /\ shown' = shown) =>
      LET c == call[t].chal
      IN  Cardinality({n \in Stored : /\ byNonce[n].wallet = c.wallet
                                      /\ c.issuedAt <= byNonce[n].expiresAt}) >= MaxPerWallet

Answerable(w) == {n \in Stored : byNonce[n].wallet = w /\ ~IsExpired(byNonce[n], clock)}

\* "Concurrent live challenges for one wallet" stay within the cap although a
\* put prunes the index by an older clock reading than the store's present.
\* It needs a clock that is not turned back (MaxBack = 0).
WalletIsCapped == \A w \in Wallets : Cardinality(Answerable(w)) <= MaxPerWallet

\* "It is bounded, it evicts" (auth/store.py), and fairly: a wallet has as many
\* challenges as the cap allows and is refused only then, and no challenge is lost
\* but for cause.
LimitsAreJust == [][WalletIsCapped' /\ LostOnlyForCause /\ RefusedOnlyAtCap]_vars

-----------------------------------------------------------------------------
\* The life of a nonce as the promise sees it.
Status(n) ==
  IF wins[n] > 0 THEN "won"
  ELSE IF n \in Stored \/ (n \in shown /\ \E t \in Threads : n \in HeldBy(t)) THEN "live"
  ELSE IF n \in shown THEN "dead"
  ELSE "unborn"

Tokens == INSTANCE SingleUseTokens WITH
  status <- [n \in Nonces |-> Status(n)],
  owner  <- [n \in Nonces |-> IF n \in shown THEN issuedTo[n] ELSE Nobody],
  logins <- wins

\* issue and verify implement single-use tokens: minted once for one wallet,
\* redeemed at most once, never alive again after a failed answer.
ImplementsTokens == Tokens!Spec
=============================================================================
