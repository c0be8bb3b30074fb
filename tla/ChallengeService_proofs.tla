----------------------- MODULE ChallengeService_proofs -----------------------
(***************************************************************************)
(* Theorems about ChallengeService for any sets of nonces, wallets,        *)
(* domains and threads, any limits, and a clock that may be turned back.   *)
(***************************************************************************)
EXTENDS ChallengeService, FiniteSetTheorems, TLAPS

-----------------------------------------------------------------------------
\* The shape of a frame follows from the step it is at.
LEMMA FrameShapes ==
  ASSUME NEW f \in Frames
  PROVE  /\ f.at \in {"idle", "put", "consume", "check"}
         /\ f.at = "put" => f \in [at : {"put"}, chal : Challenge]
         /\ f.at = "consume" => f \in [at : {"consume"}, now : Int, domain : Domains,
                                       nonce : Nonces, sig : Signatures]
         /\ f.at = "check" => f \in [at : {"check"}, now : Int, domain : Domains,
                                     chal : Challenge, sig : Signatures]
  BY DEF Frames, Idle

\* Insert and Forget keep the types of the two dictionaries.
LEMMA InsertType ==
  ASSUME StoreTypeOK, NEW c \in Challenge, NEW evicted \in SUBSET Nonces, Insert(c, evicted)
  PROVE  StoreTypeOK'
  BY DEF StoreTypeOK, Insert, NonceMapWithout, WalletMapWithout, Live, Stored, Challenge

LEMMA ForgetType ==
  ASSUME StoreTypeOK, NEW gone \in SUBSET Nonces, Forget(gone)
  PROVE  StoreTypeOK'
  BY DEF StoreTypeOK, Forget, NonceMapWithout, WalletMapWithout

LEMMA PutType ==
  ASSUME StoreTypeOK, NEW c \in Challenge, PutWithRoom(c) \/ PutEvicting(c)
  PROVE  StoreTypeOK'
  <1>1. CASE PutWithRoom(c)
    BY <1>1, InsertType DEF PutWithRoom
  <1>2. CASE PutEvicting(c)
    <2>1. PICK n \in Evictable : Insert(c, {n})
      BY <1>2 DEF PutEvicting
    <2>2. {n} \in SUBSET Nonces
      BY DEF Evictable, Stored
    <2> QED BY <2>1, <2>2, InsertType
  <1> QED BY <1>1, <1>2

\* Every variable keeps its type.
THEOREM TypeCorrect == Spec => []TypeOK
  <1>1. Init => TypeOK
    BY TimesAreNatural DEF Init, StoreInit, TypeOK, StoreTypeOK, Frames
  <1>2. TypeOK /\ [Next]_vars => TypeOK'
    <2> SUFFICES ASSUME TypeOK, [Next]_vars PROVE TypeOK'
      OBVIOUS
    <2> USE DEF TypeOK
    <2>1. CASE Tick
      BY <2>1, TimesAreNatural DEF Tick, history, StoreTypeOK
    <2>2. CASE Purge
      <3>1. StoreTypeOK'
        BY <2>2, ForgetType DEF Purge, PurgeExpired, Stored
      <3> QED BY <2>2, <3>1 DEF Purge, history
    <2>3. ASSUME NEW t \in Threads, NEW w \in Wallets, NEW d \in Domains, BeginIssue(t, w, d)
          PROVE  TypeOK'
      <3>1. PICK n \in Nonces :
              /\ issuedTo' = [issuedTo EXCEPT ![n] = w]
              /\ call' = [call EXCEPT ![t] =
                   [at |-> "put",
                    chal |-> [nonce |-> n, wallet |-> w, domain |-> d,
                              issuedAt |-> clock, expiresAt |-> clock + TTL]]]
        BY <2>3 DEF BeginIssue
      <3>2. [nonce |-> n, wallet |-> w, domain |-> d,
             issuedAt |-> clock, expiresAt |-> clock + TTL] \in Challenge
        BY TimesAreNatural DEF Challenge
      <3>3. call' \in [Threads -> Frames]
        BY <3>1, <3>2 DEF Frames
      <3> QED BY <2>3, <3>1, <3>3 DEF BeginIssue, StoreTypeOK
    <2>4. ASSUME NEW t \in Threads, Issued(t) PROVE TypeOK'
      <3>1. call[t].chal \in Challenge
        BY <2>4, FrameShapes DEF Issued
      <3>2. StoreTypeOK'
        BY <2>4, <3>1, PutType DEF Issued
      <3>3. shown' \in SUBSET Nonces
        BY <2>4, <3>1 DEF Issued, Challenge
      <3> QED BY <2>4, <3>2, <3>3 DEF Issued, Return, Frames
    <2>5. ASSUME NEW t \in Threads, RateLimited(t) PROVE TypeOK'
      BY <2>5 DEF RateLimited, PutRefused, storeVars, Return, Frames, StoreTypeOK, history
    <2>6. ASSUME NEW t \in Threads, NEW d \in Domains, NEW n \in Nonces, NEW s \in Signatures,
                 BeginVerify(t, d, n, s)
          PROVE  TypeOK'
      <3>1. call' \in [Threads -> Frames]
        BY <2>6 DEF BeginVerify, Frames
      <3> QED BY <2>6, <3>1 DEF BeginVerify, StoreTypeOK, history
    <2>7. ASSUME NEW t \in Threads, Take(t) PROVE TypeOK'
      <3>1. call[t] \in [at : {"consume"}, now : Int, domain : Domains,
                         nonce : Nonces, sig : Signatures]
        BY <2>7, FrameShapes DEF Take
      <3>2. byNonce[call[t].nonce] \in Challenge
        BY <2>7, <3>1 DEF Take, Found, StoreTypeOK
      <3>3. StoreTypeOK'
        BY <2>7, <3>1, ForgetType DEF Take, Consume
      <3>4. call' \in [Threads -> Frames]
        BY <2>7, <3>1, <3>2 DEF Take, Frames
      <3> QED BY <2>7, <3>3, <3>4 DEF Take, history
    <2>8. ASSUME NEW t \in Threads, Miss(t) \/ Reject(t) PROVE TypeOK'
      BY <2>8 DEF Miss, Reject, Return, Frames, StoreTypeOK, history
    <2>9. ASSUME NEW t \in Threads, Accept(t) PROVE TypeOK'
      <3>1. call[t].chal.nonce \in Nonces
        BY <2>9, FrameShapes DEF Accept, Challenge
      <3> QED BY <2>9, <3>1 DEF Accept, Return, Frames, StoreTypeOK
    <2>10. CASE UNCHANGED vars
      BY <2>10 DEF vars, history, StoreTypeOK
    <2> QED BY <2>1, <2>2, <2>3, <2>4, <2>5, <2>6, <2>7, <2>8, <2>9, <2>10
            DEF Next, Issue, Verify
  <1> QED BY <1>1, <1>2, PTL DEF Spec

-----------------------------------------------------------------------------
\* What the two ways to change the store do to the set of stored nonces.
LEMMA InsertStored ==
  ASSUME StoreTypeOK, NEW c \in Challenge, NEW evicted \in SUBSET Nonces, Insert(c, evicted)
  PROVE  /\ Stored' = (Stored \ evicted) \cup {c.nonce}
         /\ byNonce'[c.nonce] = c
         /\ \A n \in Nonces \ {c.nonce} :
              byNonce'[n] = IF n \in evicted THEN NoChallenge ELSE byNonce[n]
  BY NoChallengeIsNone DEF StoreTypeOK, Insert, NonceMapWithout, Stored, Challenge

LEMMA ForgetStored ==
  ASSUME StoreTypeOK, NEW gone \in SUBSET Nonces, Forget(gone)
  PROVE  /\ Stored' = Stored \ gone
         /\ \A n \in Stored' : byNonce'[n] = byNonce[n]
  BY DEF StoreTypeOK, Forget, NonceMapWithout, Stored

\* A put that succeeds adds the new challenge and removes at most others.
LEMMA PutStored ==
  ASSUME StoreTypeOK, NEW c \in Challenge, PutWithRoom(c) \/ PutEvicting(c)
  PROVE  /\ c.nonce \in Stored' /\ byNonce'[c.nonce] = c
         /\ Stored' \subseteq Stored \cup {c.nonce}
         /\ \A n \in Stored' \ {c.nonce} : byNonce'[n] = byNonce[n]
  <1>1. CASE PutWithRoom(c)
    BY <1>1, InsertStored DEF PutWithRoom, Stored, Challenge
  <1>2. CASE PutEvicting(c)
    <2>1. PICK n \in Evictable : Insert(c, {n})
      BY <1>2 DEF PutEvicting
    <2>2. {n} \in SUBSET Nonces
      BY DEF Evictable, Stored
    <2> QED BY <2>1, <2>2, InsertStored DEF Stored, Challenge
  <1> QED BY <1>1, <1>2

IInv == TypeOK /\ OnePlace /\ SingleUse

LEMMA IInvInit == Init => IInv
  <1> SUFFICES ASSUME Init PROVE IInv
    OBVIOUS
  <1>1. TypeOK
    BY TimesAreNatural DEF Init, StoreInit, TypeOK, StoreTypeOK, Frames
  <1>2. Stored = {}
    BY DEF Init, StoreInit, Stored
  <1>3. \A t \in Threads : HeldBy(t) = {}
    BY DEF Init, HeldBy, Idle
  <1> QED BY <1>1, <1>2, <1>3 DEF Init, IInv, OnePlace, SingleUse

\* A thread that keeps its frame keeps what it holds.
LEMMA HeldUnchanged ==
  ASSUME NEW t \in Threads, call'[t] = call[t]
  PROVE  HeldBy(t)' = HeldBy(t)
  BY DEF HeldBy

LEMMA IInvNext == IInv /\ TypeOK' /\ [Next]_vars => IInv'
  <1> SUFFICES ASSUME IInv, TypeOK', [Next]_vars PROVE OnePlace' /\ SingleUse'
    BY DEF IInv
  <1> USE DEF IInv
  <1>0. StoreTypeOK
    BY DEF TypeOK
  <1>1. CASE Tick
    BY <1>1 DEF Tick, history, OnePlace, SingleUse, Stored, HeldBy
  <1>2. CASE Purge
    <2>1. Stored' \subseteq Stored /\ \A n \in Stored' : byNonce'[n] = byNonce[n]
      BY <1>0, <1>2, ForgetStored DEF Purge, PurgeExpired, Stored
    <2> QED BY <1>2, <2>1 DEF Purge, history, OnePlace, SingleUse, HeldBy
  <1>3. ASSUME NEW t \in Threads, NEW w \in Wallets, NEW d \in Domains, BeginIssue(t, w, d)
        PROVE  OnePlace' /\ SingleUse'
    <2>1. PICK n \in Nonces :
            /\ issuedTo[n] = Nobody
            /\ issuedTo' = [issuedTo EXCEPT ![n] = w]
            /\ call' = [call EXCEPT ![t] =
                 [at |-> "put",
                  chal |-> [nonce |-> n, wallet |-> w, domain |-> d,
                            issuedAt |-> clock, expiresAt |-> clock + TTL]]]
      BY <1>3 DEF BeginIssue
    <2>2. HeldBy(t)' = {n} /\ call'[t].at = "put"
      BY <2>1 DEF HeldBy, TypeOK
    <2>3. \A s \in Threads \ {t} : HeldBy(s)' = HeldBy(s) /\ call'[s] = call[s]
      BY <2>1, HeldUnchanged DEF TypeOK
    <2>4. Stored' = Stored /\ byNonce' = byNonce /\ shown' = shown /\ wins' = wins
      BY <1>3 DEF BeginIssue, Stored
    <2>5. n \notin shown /\ n \notin Stored /\ wins[n] = 0 /\ \A s \in Threads : n \notin HeldBy(s)
      BY <2>1 DEF OnePlace, TypeOK
    <2>6. \A m \in Nonces : issuedTo[m] # Nobody => issuedTo'[m] # Nobody
      BY <2>1, NobodyIsNoWallet DEF TypeOK
    <2>7. issuedTo'[n] # Nobody
      BY <2>1, NobodyIsNoWallet DEF TypeOK
    <2>8. \A s \in Threads : HeldBy(s) \subseteq Nonces
      BY FrameShapes DEF HeldBy, TypeOK, Challenge
    <2> QED BY <2>2, <2>3, <2>4, <2>5, <2>6, <2>7, <2>8 DEF OnePlace, SingleUse, Stored
  <1>4. ASSUME NEW t \in Threads, Issued(t) PROVE OnePlace' /\ SingleUse'
    <2> DEFINE n == call[t].chal.nonce
    <2>1. call[t].at = "put" /\ call[t].chal \in Challenge /\ n \in Nonces /\ HeldBy(t) = {n}
      BY <1>4, FrameShapes DEF Issued, TypeOK, HeldBy, Challenge
    <2>2. HeldBy(t)' = {}
      BY <1>4 DEF Issued, Return, HeldBy, Idle, TypeOK
    <2>3. \A s \in Threads \ {t} : HeldBy(s)' = HeldBy(s) /\ call'[s] = call[s]
      BY <1>4, HeldUnchanged DEF Issued, Return, TypeOK
    <2>4. /\ Stored' \subseteq Stored \cup {n} /\ byNonce'[n].nonce = n
          /\ \A m \in Stored' \ {n} : byNonce'[m] = byNonce[m]
      BY <1>0, <1>4, <2>1, PutStored DEF Issued
    <2>5. issuedTo' = issuedTo /\ wins' = wins /\ shown' = shown \cup {n}
      BY <1>4 DEF Issued
    <2>6. \A s \in Threads \ {t} : n \notin HeldBy(s)
      BY <2>1 DEF OnePlace
    <2>7. n \notin Stored /\ wins[n] = 0 /\ issuedTo[n] # Nobody
      BY <2>1 DEF OnePlace
    <2> QED BY <2>1, <2>2, <2>3, <2>4, <2>5, <2>6, <2>7 DEF OnePlace, SingleUse
  <1>5. ASSUME NEW t \in Threads, RateLimited(t) \/ Miss(t) \/ Reject(t)
        PROVE  OnePlace' /\ SingleUse'
    <2>1. HeldBy(t)' = {}
      BY <1>5 DEF RateLimited, Miss, Reject, Return, HeldBy, Idle, TypeOK
    <2>2. \A s \in Threads \ {t} : HeldBy(s)' = HeldBy(s) /\ call'[s] = call[s]
      BY <1>5, HeldUnchanged DEF RateLimited, Miss, Reject, Return, TypeOK
    <2>3. Stored' = Stored /\ byNonce' = byNonce /\ UNCHANGED history
      BY <1>5 DEF RateLimited, PutRefused, storeVars, Miss, Reject, Stored
    <2> QED BY <2>1, <2>2, <2>3 DEF history, OnePlace, SingleUse
  <1>6. ASSUME NEW t \in Threads, NEW d \in Domains, NEW n \in Nonces, NEW s \in Signatures,
               BeginVerify(t, d, n, s)
        PROVE  OnePlace' /\ SingleUse'
    <2>1. HeldBy(t)' = {}
      BY <1>6 DEF BeginVerify, HeldBy, TypeOK
    <2>2. \A u \in Threads \ {t} : HeldBy(u)' = HeldBy(u) /\ call'[u] = call[u]
      BY <1>6, HeldUnchanged DEF BeginVerify, TypeOK
    <2> QED BY <1>6, <2>1, <2>2 DEF BeginVerify, history, OnePlace, SingleUse, Stored
  <1>7. ASSUME NEW t \in Threads, Take(t) PROVE OnePlace' /\ SingleUse'
    <2> DEFINE n == call[t].nonce
    <2>1. n \in Nonces /\ n \in Stored
      BY <1>7, FrameShapes DEF Take, Found, TypeOK, Stored
    <2>2. Stored' = Stored \ {n} /\ \A m \in Stored' : byNonce'[m] = byNonce[m]
      BY <1>0, <1>7, <2>1, ForgetStored DEF Take, Consume
    <2>3. HeldBy(t)' = {n} /\ call'[t].at = "check"
      BY <1>7, <2>1 DEF Take, HeldBy, TypeOK, OnePlace
    <2>4. \A s \in Threads \ {t} : HeldBy(s)' = HeldBy(s) /\ call'[s] = call[s]
      BY <1>7, HeldUnchanged DEF Take, TypeOK
    <2>5. UNCHANGED history
      BY <1>7 DEF Take
    <2>6. n \in shown /\ wins[n] = 0 /\ issuedTo[n] # Nobody /\ \A s \in Threads : n \notin HeldBy(s)
      BY <2>1 DEF OnePlace
    <2> QED BY <2>2, <2>3, <2>4, <2>5, <2>6 DEF history, OnePlace, SingleUse
  <1>8. ASSUME NEW t \in Threads, Accept(t) PROVE OnePlace' /\ SingleUse'
    <2> DEFINE n == call[t].chal.nonce
    <2>1. call[t].at = "check" /\ n \in Nonces /\ HeldBy(t) = {n}
      BY <1>8, FrameShapes DEF Accept, TypeOK, HeldBy, Challenge
    <2>2. HeldBy(t)' = {}
      BY <1>8 DEF Accept, Return, HeldBy, Idle, TypeOK
    <2>3. \A s \in Threads \ {t} : HeldBy(s)' = HeldBy(s) /\ call'[s] = call[s] /\ n \notin HeldBy(s)
      BY <1>8, <2>1, HeldUnchanged DEF Accept, Return, TypeOK, OnePlace
    <2>4. Stored' = Stored /\ byNonce' = byNonce /\ issuedTo' = issuedTo /\ shown' = shown
      BY <1>8 DEF Accept, Stored
    <2>5. n \notin Stored /\ n \in shown /\ wins[n] = 0
      BY <2>1 DEF OnePlace
    <2>6. wins'[n] = 1 /\ \A m \in Nonces \ {n} : wins'[m] = wins[m]
      BY <1>8, <2>1, <2>5 DEF Accept, TypeOK
    <2>7. \A s \in Threads : HeldBy(s) \subseteq Nonces
      BY FrameShapes DEF HeldBy, TypeOK, Challenge
    <2> QED BY <2>1, <2>2, <2>3, <2>4, <2>5, <2>6, <2>7 DEF OnePlace, SingleUse, Stored
  <1>9. CASE UNCHANGED vars
    BY <1>9 DEF vars, history, OnePlace, SingleUse, Stored, HeldBy
  <1> QED BY <1>1, <1>2, <1>3, <1>4, <1>5, <1>6, <1>7, <1>8, <1>9 DEF Next, Issue, Verify

\* However many threads race, a nonce authenticates at most once, and a
\* challenge is never in two places.
THEOREM NonceIsSingleUse == Spec => [](SingleUse /\ OnePlace)
  BY IInvInit, IInvNext, TypeCorrect, PTL DEF Spec, IInv

-----------------------------------------------------------------------------
\* A challenge names the wallet its nonce was drawn for, wherever it is kept.
Provenance ==
  /\ \A n \in Stored : byNonce[n].wallet = issuedTo[n]
  /\ \A t \in Threads : call[t].at \in {"put", "check"} =>
       call[t].chal.wallet = issuedTo[call[t].chal.nonce]

LEMMA ProvenanceNext ==
  ASSUME IInv, Provenance, [Next]_vars
  PROVE  Provenance'
  <1> USE DEF Provenance
  <1>0. StoreTypeOK
    BY DEF IInv, TypeOK
  <1>1. CASE UNCHANGED vars \/ Tick
    BY <1>1 DEF vars, history, Tick, Stored
  <1>2. CASE Purge
    <2>1. Stored' \subseteq Stored /\ \A n \in Stored' : byNonce'[n] = byNonce[n]
      BY <1>0, <1>2, ForgetStored DEF Purge, PurgeExpired, Stored
    <2> QED BY <1>2, <2>1 DEF Purge, history
  <1>3. ASSUME NEW t \in Threads, NEW w \in Wallets, NEW d \in Domains, BeginIssue(t, w, d)
        PROVE  Provenance'
    <2>1. PICK n \in Nonces :
            /\ issuedTo[n] = Nobody
            /\ issuedTo' = [issuedTo EXCEPT ![n] = w]
            /\ call' = [call EXCEPT ![t] =
                 [at |-> "put",
                  chal |-> [nonce |-> n, wallet |-> w, domain |-> d,
                            issuedAt |-> clock, expiresAt |-> clock + TTL]]]
      BY <1>3 DEF BeginIssue
    <2>2. \A m \in Nonces \ {n} : issuedTo'[m] = issuedTo[m]
      BY <2>1
    <2>3. \A s \in Threads \ {t} : call'[s] = call[s] /\ n \notin HeldBy(s)
      BY <2>1 DEF IInv, OnePlace, TypeOK
    <2>4. \A s \in Threads \ {t} : call[s].at \in {"put", "check"} =>
            call[s].chal.nonce \in Nonces \ {n}
      BY <2>3, FrameShapes DEF HeldBy, IInv, TypeOK, Challenge
    <2>5. call'[t].chal.wallet = issuedTo'[call'[t].chal.nonce]
      BY <2>1 DEF IInv, TypeOK
    <2>6. n \notin Stored /\ Stored' = Stored /\ byNonce' = byNonce
      BY <1>3, <2>1 DEF BeginIssue, IInv, OnePlace, Stored
    <2> QED BY <2>2, <2>3, <2>4, <2>5, <2>6 DEF Stored
  <1>4. ASSUME NEW t \in Threads, Issued(t) PROVE Provenance'
    <2> DEFINE c == call[t].chal
    <2>1. c \in Challenge /\ c.wallet = issuedTo[c.nonce]
      BY <1>4, FrameShapes DEF Issued, IInv, TypeOK
    <2>2. /\ Stored' \subseteq Stored \cup {c.nonce} /\ byNonce'[c.nonce] = c
          /\ \A n \in Stored' \ {c.nonce} : byNonce'[n] = byNonce[n]
      BY <1>0, <1>4, <2>1, PutStored DEF Issued
    <2>3. call'[t].at = "idle" /\ \A s \in Threads \ {t} : call'[s] = call[s]
      BY <1>4 DEF Issued, Return, Idle, IInv, TypeOK
    <2> QED BY <1>4, <2>1, <2>2, <2>3 DEF Issued
  <1>5. ASSUME NEW t \in Threads, RateLimited(t) \/ Miss(t) \/ Reject(t) \/ Accept(t)
        PROVE  Provenance'
    <2>1. call'[t].at = "idle" /\ \A s \in Threads \ {t} : call'[s] = call[s]
      BY <1>5 DEF RateLimited, Miss, Reject, Accept, Return, Idle, IInv, TypeOK
    <2>2. UNCHANGED <<byNonce, issuedTo>> /\ Stored' = Stored
      BY <1>5 DEF RateLimited, PutRefused, storeVars, Miss, Reject, Accept, history, Stored
    <2> QED BY <2>1, <2>2
  <1>6. ASSUME NEW t \in Threads, NEW d \in Domains, NEW n \in Nonces, NEW s \in Signatures,
               BeginVerify(t, d, n, s)
        PROVE  Provenance'
    <2>1. call'[t].at = "consume" /\ \A u \in Threads \ {t} : call'[u] = call[u]
      BY <1>6 DEF BeginVerify, IInv, TypeOK
    <2> QED BY <1>6, <2>1 DEF BeginVerify, history, Stored
  <1>7. ASSUME NEW t \in Threads, Take(t) PROVE Provenance'
    <2>1. PICK n \in Nonces : n = call[t].nonce /\ n \in Stored
      BY <1>7, FrameShapes DEF Take, Found, IInv, TypeOK, Stored
    <2>2. Stored' \subseteq Stored /\ \A m \in Stored' : byNonce'[m] = byNonce[m]
      BY <1>0, <1>7, <2>1, ForgetStored DEF Take, Consume
    <2>3. call'[t].chal = byNonce[n] /\ \A s \in Threads \ {t} : call'[s] = call[s]
      BY <1>7, <2>1 DEF Take, IInv, TypeOK
    <2>4. byNonce[n].nonce = n /\ byNonce[n].wallet = issuedTo[n]
      BY <2>1 DEF IInv, OnePlace
    <2> QED BY <1>7, <2>2, <2>3, <2>4 DEF Take, history
  <1> QED BY <1>1, <1>2, <1>3, <1>4, <1>5, <1>6, <1>7 DEF Next, Issue, Verify

LEMMA AcceptIsTheSigners ==
  ASSUME IInv, Provenance, NEW t \in Threads, Accept(t)
  PROVE  LoginsAreTheSigners
  <1> DEFINE f == call[t]
             n == f.chal.nonce
  <1>1. f \in [at : {"check"}, now : Int, domain : Domains, chal : Challenge, sig : Signatures]
    BY FrameShapes DEF Accept, IInv, TypeOK
  <1>2. f.sig = [by |-> issuedTo[n], over |-> n]
    BY <1>1 DEF Accept, Acceptable, Authentic, Provenance, Signatures
  <1>3. f.now - f.chal.expiresAt <= 0 /\ f.now - f.chal.issuedAt >= -Skew
    BY <1>1, TimesAreNatural DEF Accept, Acceptable, InTime, IsExpired, Challenge
  <1>4. f.at = "check" /\ call'[t] = Idle /\ f.domain = f.chal.domain
    BY DEF Accept, Acceptable, Return, IInv, TypeOK
  <1>5. \A m \in Nonces : wins'[m] # wins[m] => m = n
    BY DEF Accept, IInv, TypeOK
  <1> QED BY <1>2, <1>3, <1>4, <1>5 DEF LoginsAreTheSigners

\* Whatever the threads, the services and the clock do, a nonce is accepted only
\* from a signature over it by the wallet it was drawn for, at the service it was
\* drawn at and inside the life of its challenge.
THEOREM TheSignerLogsIn == Spec => OnlyTheSignerLogsIn
  <1>1. Init => Provenance
    BY DEF Init, StoreInit, Stored, Idle, Provenance
  <1>2. IInv /\ Provenance /\ [Next]_vars => Provenance'
    BY ProvenanceNext
  <1>3. IInv /\ Provenance /\ [Next]_vars => [LoginsAreTheSigners]_vars
    <2> SUFFICES ASSUME IInv, Provenance, Next PROVE LoginsAreTheSigners
      OBVIOUS
    <2>1. CASE wins' = wins
      BY <2>1 DEF LoginsAreTheSigners
    <2>2. ASSUME NEW t \in Threads, Accept(t) PROVE LoginsAreTheSigners
      BY <2>2, AcceptIsTheSigners
    <2> QED BY <2>1, <2>2
            DEF Next, Tick, Purge, Issue, Verify, BeginIssue, Issued, RateLimited,
                BeginVerify, Take, Miss, Reject, history
  <1>4. Spec => []IInv
    BY IInvInit, IInvNext, TypeCorrect, PTL DEF Spec, IInv
  <1> QED BY <1>1, <1>2, <1>3, <1>4, PTL DEF Spec, OnlyTheSignerLogsIn

-----------------------------------------------------------------------------
Bounded == IsFiniteSet(Stored) /\ Cardinality(Stored) <= MaxChallenges

LEMMA PutBounded ==
  ASSUME StoreTypeOK, Bounded, NEW c \in Challenge, PutWithRoom(c) \/ PutEvicting(c)
  PROVE  Bounded'
  <1> USE DEF Bounded
  <1>1. Cardinality(Stored) \in Nat
    BY FS_CardinalityType
  <1>2. CASE PutWithRoom(c)
    <2>1. Stored' = Stored \cup {c.nonce}
      BY <1>2, InsertStored DEF PutWithRoom
    <2>2. Cardinality(Stored) < MaxChallenges
      BY <1>1, <1>2, LimitsArePositive DEF PutWithRoom, IsFull
    <2>3. IsFiniteSet(Stored') /\ Cardinality(Stored') <= Cardinality(Stored) + 1
      BY <1>1, <2>1, FS_AddElement
    <2> QED BY <1>1, <2>2, <2>3, FS_CardinalityType, LimitsArePositive
  <1>3. CASE PutEvicting(c)
    <2>1. PICK n \in Evictable : Insert(c, {n})
      BY <1>3 DEF PutEvicting
    <2>2. n \in Stored /\ Stored' = (Stored \ {n}) \cup {c.nonce}
      BY <2>1, InsertStored DEF Evictable, Stored
    <2>3. IsFiniteSet(Stored \ {n}) /\ Cardinality(Stored \ {n}) = Cardinality(Stored) - 1
      BY <2>2, FS_RemoveElement
    <2>. DEFINE kept == Stored \ {n}
    <2>a. Cardinality(kept) \in Nat /\ Stored' = kept \cup {c.nonce}
      BY <2>2, <2>3, FS_CardinalityType
    <2>4. IsFiniteSet(Stored') /\ Cardinality(Stored') <= Cardinality(kept) + 1
      <3> HIDE DEF kept
      <3>1. IsFiniteSet(kept)
        BY <2>3 DEF kept
      <3>2. /\ IsFiniteSet(kept \cup {c.nonce})
            /\ Cardinality(kept \cup {c.nonce}) =
                 IF c.nonce \in kept THEN Cardinality(kept) ELSE Cardinality(kept) + 1
        BY <3>1, FS_AddElement, Zenon
      <3> QED BY <2>a, <3>2
    <2>5. Cardinality(Stored') \in Nat
      BY <2>4, FS_CardinalityType
    <2>6. Cardinality(Stored') <= Cardinality(Stored)
      BY <1>1, <2>3, <2>4, <2>5
    <2> QED BY <1>1, <2>4, <2>5, <2>6, LimitsArePositive
  <1> QED BY <1>2, <1>3

LEMMA FewerStored ==
  ASSUME Bounded, Stored' \subseteq Stored
  PROVE  Bounded'
  BY FS_Subset, FS_CardinalityType, LimitsArePositive DEF Bounded

LEMMA AlwaysBounded == Spec => []Bounded
  <1>1. Init => Bounded
    <2> SUFFICES ASSUME Init PROVE Bounded
      OBVIOUS
    <2>1. Stored = {}
      BY DEF Init, StoreInit, Stored
    <2> QED BY <2>1, FS_EmptySet, LimitsArePositive DEF Bounded
  <1>2. TypeOK /\ Bounded /\ [Next]_vars => Bounded'
    <2> SUFFICES ASSUME TypeOK, Bounded, [Next]_vars PROVE Bounded'
      OBVIOUS
    <2>0. StoreTypeOK
      BY DEF TypeOK
    <2>1. ASSUME NEW t \in Threads, Issued(t) PROVE Bounded'
      <3>1. call[t].chal \in Challenge
        BY <2>1, FrameShapes DEF Issued, TypeOK
      <3> QED BY <2>0, <2>1, <3>1, PutBounded DEF Issued
    <2>2. ASSUME NEW gone \in SUBSET Nonces, Forget(gone) PROVE Bounded'
      BY <2>0, <2>2, ForgetStored, FewerStored
    <2>3. CASE UNCHANGED byNonce
      BY <2>3, FewerStored DEF Stored
    <2>4. ASSUME NEW t \in Threads, Take(t) PROVE Bounded'
      BY <2>2, <2>4, FrameShapes DEF Take, Consume, TypeOK
    <2>5. CASE Purge
      BY <2>2, <2>5 DEF Purge, PurgeExpired, Stored
    <2> QED BY <2>1, <2>3, <2>4, <2>5
            DEF Next, Tick, Issue, Verify, BeginIssue, RateLimited, PutRefused, storeVars,
                BeginVerify, Miss, Accept, Reject, vars
  <1> QED BY <1>1, <1>2, TypeCorrect, PTL DEF Spec

\* The store never outgrows max_challenges, for every limit and every number
\* of concurrent callers.
THEOREM StoreStaysBounded == Spec => []StoreIsBounded
  <1>1. Bounded => StoreIsBounded
    BY DEF Bounded, StoreIsBounded
  <1> QED BY <1>1, AlwaysBounded, PTL

-----------------------------------------------------------------------------
\* The index of a wallet names no more nonces than the cap, all drawn for that
\* wallet, and every stored challenge that is not expired by now: what a put
\* leaves out was expired by an earlier reading of a clock that is not set back.
Indexed ==
  /\ \A w \in Wallets : IsFiniteSet(byWallet[w]) /\ Cardinality(byWallet[w]) <= MaxPerWallet
  /\ \A w \in Wallets : \A n \in byWallet[w] : issuedTo[n] = w
  /\ \A n \in Stored : clock <= byNonce[n].expiresAt => n \in byWallet[byNonce[n].wallet]
  /\ \A t \in Threads : call[t].at = "put" => call[t].chal.issuedAt <= clock
Kept == IInv /\ Provenance /\ Bounded /\ Indexed

\* What a put leaves of the index: the wallet's live nonces with the new one,
\* and of the others what is still stored.
LEMMA PutIndexed ==
  ASSUME StoreTypeOK, NEW c \in Challenge, c.nonce \notin Stored, PutWithRoom(c) \/ PutEvicting(c)
  PROVE  /\ ~AtCap(c.wallet, c.issuedAt)
         /\ byWallet'[c.wallet] = Live(c.wallet, c.issuedAt) \cup {c.nonce}
         /\ \A w \in Wallets \ {c.wallet} :
              /\ byWallet'[w] \subseteq byWallet[w]
              /\ \A n \in byWallet[w] \cap Stored' : n \in byWallet'[w]
  <1>1. ASSUME NEW evicted \in SUBSET Stored, Insert(c, evicted)
        PROVE  /\ byWallet'[c.wallet] = Live(c.wallet, c.issuedAt) \cup {c.nonce}
               /\ \A w \in Wallets \ {c.wallet} :
                    /\ byWallet'[w] \subseteq byWallet[w]
                    /\ \A n \in byWallet[w] \cap Stored' : n \in byWallet'[w]
    <2>1. evicted \in SUBSET Nonces /\ c.nonce \notin evicted /\ c.wallet \in Wallets
      BY DEF Stored, Challenge
    <2>2. \A n \in evicted : n \notin Stored'
      BY <1>1, <2>1, InsertStored
    <2> QED BY <1>1, <2>1, <2>2 DEF Insert, WalletMapWithout, StoreTypeOK
  <1>2. CASE PutWithRoom(c)
    BY <1>1, <1>2 DEF PutWithRoom
  <1>3. CASE PutEvicting(c)
    <2>1. PICK n \in Evictable : Insert(c, {n})
      BY <1>3 DEF PutEvicting
    <2>2. {n} \in SUBSET Stored
      BY DEF Evictable
    <2> QED BY <1>1, <1>3, <2>1, <2>2 DEF PutEvicting
  <1> QED BY <1>2, <1>3

LEMMA LiveIsFinite ==
  ASSUME Indexed, NEW w \in Wallets, NEW at
  PROVE  IsFiniteSet(Live(w, at)) /\ Cardinality(Live(w, at)) \in Nat
  <1>1. Live(w, at) \in SUBSET byWallet[w] /\ IsFiniteSet(byWallet[w])
    BY DEF Live, Indexed
  <1> QED BY <1>1, FS_Subset, FS_CardinalityType

\* Who takes nonces out of the index of a wallet leaves its bound.
LEMMA SmallerIndex ==
  ASSUME Indexed, NEW w \in Wallets, byWallet'[w] \subseteq byWallet[w]
  PROVE  IsFiniteSet(byWallet'[w]) /\ Cardinality(byWallet'[w]) <= MaxPerWallet
  <1>1. PICK now, next : now = byWallet[w] /\ next = byWallet'[w]
    OBVIOUS
  <1>2. IsFiniteSet(now) /\ Cardinality(now) <= MaxPerWallet /\ next \in SUBSET now
    BY <1>1 DEF Indexed
  <1>3. /\ IsFiniteSet(next) /\ Cardinality(next) <= Cardinality(now)
        /\ Cardinality(next) \in Nat /\ Cardinality(now) \in Nat
    BY <1>2, FS_Subset, FS_CardinalityType
  <1> QED BY <1>1, <1>2, <1>3, LimitsArePositive

LEMMA IssuedIndexed ==
  ASSUME Kept, NEW t \in Threads, Issued(t)
  PROVE  Indexed'
  <1>1. PICK c \in Challenge : c = call[t].chal
    BY FrameShapes DEF Issued, Kept, IInv, TypeOK
  <1>2. /\ StoreTypeOK /\ c.nonce \notin Stored /\ c.issuedAt <= clock
        /\ c.wallet = issuedTo[c.nonce] /\ c.wallet \in Wallets /\ c.nonce \in Nonces
        /\ PutWithRoom(c) \/ PutEvicting(c)
    BY <1>1 DEF Issued, Kept, IInv, TypeOK, OnePlace, HeldBy, Provenance, Indexed, Challenge
  <1>3. /\ ~AtCap(c.wallet, c.issuedAt)
        /\ byWallet'[c.wallet] = Live(c.wallet, c.issuedAt) \cup {c.nonce}
        /\ \A w \in Wallets \ {c.wallet} :
             /\ byWallet'[w] \subseteq byWallet[w]
             /\ \A n \in byWallet[w] \cap Stored' : n \in byWallet'[w]
    BY <1>2, PutIndexed
  <1>4. /\ Stored' \subseteq Stored \cup {c.nonce} /\ byNonce'[c.nonce] = c
        /\ \A n \in Stored' \ {c.nonce} : byNonce'[n] = byNonce[n]
    BY <1>2, PutStored
  <1>5. /\ clock' = clock /\ issuedTo' = issuedTo
        /\ call'[t].at = "idle" /\ \A s \in Threads \ {t} : call'[s] = call[s]
    BY DEF Issued, Return, Idle, Kept, IInv, TypeOK
  <1>6. IsFiniteSet(byWallet'[c.wallet]) /\ Cardinality(byWallet'[c.wallet]) <= MaxPerWallet
    <2>1. PICK old : old = Live(c.wallet, c.issuedAt)
      OBVIOUS
    <2>2. IsFiniteSet(old) /\ Cardinality(old) \in Nat
      BY <1>2, <2>1, LiveIsFinite DEF Kept
    <2>3. Cardinality(old) < MaxPerWallet
      BY <1>3, <2>1, <2>2, LimitsArePositive DEF AtCap
    <2>4. /\ IsFiniteSet(old \cup {c.nonce})
          /\ Cardinality(old \cup {c.nonce}) = IF c.nonce \in old THEN Cardinality(old) ELSE Cardinality(old) + 1
      BY <2>2, FS_AddElement, Zenon
    <2> QED BY <1>3, <2>1, <2>2, <2>3, <2>4, LimitsArePositive
  <1>7. \A w \in Wallets : IsFiniteSet(byWallet'[w]) /\ Cardinality(byWallet'[w]) <= MaxPerWallet
    <2> TAKE w \in Wallets
    <2>1. CASE w # c.wallet
      BY <1>3, <2>1, SmallerIndex DEF Kept
    <2> QED BY <1>6, <2>1
  <1>8. \A w \in Wallets : \A n \in byWallet'[w] : issuedTo'[n] = w
    BY <1>2, <1>3, <1>5 DEF Live, Kept, Indexed
  <1>9. \A n \in Stored' : clock' <= byNonce'[n].expiresAt => n \in byWallet'[byNonce'[n].wallet]
    <2> SUFFICES ASSUME NEW n \in Stored', clock <= byNonce'[n].expiresAt
                 PROVE  n \in byWallet'[byNonce'[n].wallet]
      BY <1>5
    <2>1. CASE n = c.nonce
      BY <1>3, <1>4, <2>1
    <2>2. CASE n # c.nonce
      <3>1. n \in Stored /\ byNonce'[n] = byNonce[n] /\ byNonce[n] \in Challenge
        BY <1>2, <1>4, <2>2 DEF StoreTypeOK, Stored
      <3>2. n \in byWallet[byNonce[n].wallet] /\ byNonce[n].wallet \in Wallets
        BY <3>1 DEF Kept, Indexed, Challenge
      <3>3. CASE byNonce[n].wallet = c.wallet
        <4>1. ~Expired(n, c.issuedAt)
          BY <1>2, <3>1 DEF Expired, IsExpired, Stored, Challenge, Kept, IInv, TypeOK
        <4> QED BY <1>3, <3>1, <3>2, <3>3, <4>1 DEF Live
      <3> QED BY <1>3, <3>1, <3>2, <3>3
    <2> QED BY <2>1, <2>2
  <1>10. \A s \in Threads : call'[s].at = "put" => call'[s].chal.issuedAt <= clock'
    BY <1>5 DEF Kept, Indexed
  <1> QED BY <1>7, <1>8, <1>9, <1>10 DEF Indexed

LEMMA ForgetIndexed ==
  ASSUME Kept, NEW gone \in SUBSET Nonces, Forget(gone), UNCHANGED <<clock, issuedTo>>,
         \A t \in Threads : call'[t].at = "put" => call'[t] = call[t]
  PROVE  Indexed'
  <1>1. StoreTypeOK
    BY DEF Kept, IInv, TypeOK
  <1>2. Stored' = Stored \ gone /\ \A n \in Stored' : byNonce'[n] = byNonce[n]
    BY <1>1, ForgetStored
  <1>3. \A w \in Wallets : /\ byWallet'[w] \subseteq byWallet[w]
                           /\ \A n \in byWallet[w] \ gone : n \in byWallet'[w]
    BY <1>1 DEF Forget, WalletMapWithout, StoreTypeOK
  <1>4. \A w \in Wallets : IsFiniteSet(byWallet'[w]) /\ Cardinality(byWallet'[w]) <= MaxPerWallet
    BY <1>3, SmallerIndex DEF Kept
  <1>5. \A n \in Stored' : byNonce[n].wallet \in Wallets
    BY <1>1, <1>2 DEF StoreTypeOK, Stored, Challenge
  <1> QED BY <1>2, <1>3, <1>4, <1>5 DEF Kept, Indexed

LEMMA IndexedNext ==
  ASSUME MaxBack = 0, Kept, [Next]_vars
  PROVE  Indexed'
  <1>0. call \in [Threads -> Frames] /\ clock \in Nat
    BY DEF Kept, IInv, TypeOK
  <1>1. CASE Tick
    <2>1. clock' >= clock /\ clock' \in Nat /\ UNCHANGED <<byNonce, byWallet, call, issuedTo>> /\ Stored' = Stored
      BY <1>0, <1>1, TimesAreNatural DEF Tick, history, Stored
    <2>2. \A n \in Stored : byNonce[n].expiresAt \in Int
      BY DEF Kept, IInv, TypeOK, StoreTypeOK, Stored, Challenge
    <2>3. \A t \in Threads : call[t].at = "put" => call[t].chal.issuedAt \in Int
      BY <1>0, FrameShapes DEF Challenge
    <2> QED BY <1>0, <2>1, <2>2, <2>3 DEF Kept, Indexed
  <1>2. CASE Purge
    BY <1>2, ForgetIndexed DEF Purge, PurgeExpired, Stored, history
  <1>3. ASSUME NEW t \in Threads, NEW w \in Wallets, NEW d \in Domains, BeginIssue(t, w, d)
        PROVE  Indexed'
    <2>1. PICK n \in Nonces :
            /\ issuedTo[n] = Nobody
            /\ issuedTo' = [issuedTo EXCEPT ![n] = w]
            /\ call' = [call EXCEPT ![t] =
                 [at |-> "put",
                  chal |-> [nonce |-> n, wallet |-> w, domain |-> d,
                            issuedAt |-> clock, expiresAt |-> clock + TTL]]]
      BY <1>3 DEF BeginIssue
    <2>2. UNCHANGED <<byNonce, byWallet, clock>> /\ Stored' = Stored
      BY <1>3 DEF BeginIssue, Stored
    <2>3. \A v \in Wallets : \A m \in byWallet[v] : issuedTo'[m] = v
      BY <2>1, NobodyIsNoWallet DEF Kept, Indexed, IInv, TypeOK, StoreTypeOK
    <2>4. \A s \in Threads : call'[s].at = "put" => call'[s].chal.issuedAt <= clock
      BY <1>0, <2>1 DEF Kept, Indexed
    <2> QED BY <2>2, <2>3, <2>4 DEF Kept, Indexed
  <1>4. ASSUME NEW t \in Threads, Issued(t) PROVE Indexed'
    BY <1>4, IssuedIndexed
  <1>5. ASSUME NEW t \in Threads, Take(t) PROVE Indexed'
    <2>1. call[t].nonce \in Nonces
      BY <1>0, <1>5, FrameShapes DEF Take
    <2> QED BY <1>0, <1>5, <2>1, ForgetIndexed DEF Take, Consume, history
  <1>6. CASE /\ UNCHANGED <<byNonce, byWallet, clock, issuedTo>>
             /\ \A t \in Threads : call'[t].at = "put" => call'[t] = call[t]
    BY <1>6 DEF Kept, Indexed, Stored
  <1>7. ASSUME NEW t \in Threads, RateLimited(t) \/ Miss(t) \/ Reject(t) \/ Accept(t)
        PROVE  Indexed'
    BY <1>0, <1>6, <1>7
       DEF RateLimited, PutRefused, storeVars, Miss, Reject, Accept, Return, Idle, history
  <1>8. ASSUME NEW t \in Threads, NEW d \in Domains, NEW n \in Nonces, NEW s \in Signatures,
               BeginVerify(t, d, n, s)
        PROVE  Indexed'
    BY <1>0, <1>6, <1>8 DEF BeginVerify, history
  <1>9. CASE UNCHANGED vars
    BY <1>6, <1>9 DEF vars, history
  <1> QED BY <1>1, <1>2, <1>3, <1>4, <1>5, <1>7, <1>8, <1>9 DEF Next, Issue, Verify

LEMMA IndexCaps == Kept => WalletIsCapped
  <1> SUFFICES ASSUME Kept, NEW w \in Wallets PROVE Cardinality(Answerable(w)) <= MaxPerWallet
    BY DEF WalletIsCapped
  <1>1. PICK index, open : index = byWallet[w] /\ open = Answerable(w)
    OBVIOUS
  <1>2. \A n \in Stored : byNonce[n].expiresAt \in Int
    BY DEF Kept, IInv, TypeOK, StoreTypeOK, Stored, Challenge
  <1>3. open \in SUBSET index
    BY <1>1, <1>2 DEF Answerable, IsExpired, Kept, Indexed, IInv, TypeOK
  <1>4. IsFiniteSet(index) /\ Cardinality(index) <= MaxPerWallet
    BY <1>1 DEF Kept, Indexed
  <1>5. /\ Cardinality(open) <= Cardinality(index) /\ Cardinality(open) \in Nat
        /\ Cardinality(index) \in Nat
    BY <1>3, <1>4, FS_Subset, FS_CardinalityType
  <1> QED BY <1>1, <1>4, <1>5, LimitsArePositive

\* A refused issue met as many answerable challenges of its wallet as the cap.
LEMMA RefusedForCause ==
  ASSUME Kept, NEW t \in Threads, RateLimited(t)
  PROVE  LET c == call[t].chal
         IN  Cardinality({n \in Stored : /\ byNonce[n].wallet = c.wallet
                                         /\ c.issuedAt <= byNonce[n].expiresAt}) >= MaxPerWallet
  <1>1. PICK c \in Challenge : c = call[t].chal
    BY FrameShapes DEF RateLimited, Kept, IInv, TypeOK
  <1>2. PICK open : open = {n \in Stored : byNonce[n].wallet = c.wallet /\ c.issuedAt <= byNonce[n].expiresAt}
    OBVIOUS
  <1>3. PICK counted : counted = Live(c.wallet, c.issuedAt)
    OBVIOUS
  <1>4. StoreTypeOK /\ c.wallet \in Wallets /\ c.issuedAt \in Int
    BY DEF Kept, IInv, TypeOK, Challenge
  <1>5. counted \in SUBSET open
    <2> SUFFICES ASSUME NEW n \in counted PROVE n \in open
      OBVIOUS
    <2>1. n \in byWallet[c.wallet] /\ byNonce[n] # NoChallenge /\ ~IsExpired(byNonce[n], c.issuedAt)
      BY <1>3 DEF Live, Expired
    <2>2. n \in Stored /\ byNonce[n].expiresAt \in Int
      BY <1>4, <2>1 DEF StoreTypeOK, Stored, Challenge
    <2>3. byNonce[n].wallet = c.wallet
      BY <1>4, <2>1, <2>2 DEF Kept, Provenance, Indexed
    <2> QED BY <1>2, <1>4, <2>1, <2>2, <2>3 DEF IsExpired
  <1>6. IsFiniteSet(open)
    BY <1>2, FS_Subset DEF Kept, Bounded
  <1>7. Cardinality(counted) >= MaxPerWallet
    BY <1>1, <1>3 DEF RateLimited, PutRefused, AtCap
  <1>8. /\ Cardinality(counted) <= Cardinality(open)
        /\ Cardinality(open) \in Nat /\ Cardinality(counted) \in Nat
    BY <1>5, <1>6, FS_Subset, FS_CardinalityType
  <1> QED BY <1>1, <1>2, <1>7, <1>8, LimitsArePositive

LEMMA NoOtherRefusal ==
  ASSUME Kept, [Next]_vars
  PROVE  RefusedOnlyAtCap
  <1> SUFFICES ASSUME NEW t \in Threads, call[t].at = "put", call'[t] = Idle, shown' = shown
               PROVE  LET c == call[t].chal
                      IN  Cardinality({n \in Stored : /\ byNonce[n].wallet = c.wallet
                                                      /\ c.issuedAt <= byNonce[n].expiresAt}) >= MaxPerWallet
    BY DEF RefusedOnlyAtCap
  <1>0. call \in [Threads -> Frames] /\ call[t] # Idle
    BY DEF Kept, IInv, TypeOK, Idle
  <1>1. ~Issued(t)
    <2>1. call[t].chal.nonce \notin shown
      BY DEF Kept, IInv, OnePlace, HeldBy
    <2> QED BY <2>1 DEF Issued
  <1>2. RateLimited(t)
    BY <1>0, <1>1 DEF Next, Tick, Purge, Issue, Verify, BeginIssue, Issued, RateLimited, BeginVerify,
                      Take, Miss, Accept, Reject, Return, vars
  <1> QED BY <1>2, RefusedForCause

LEMMA NoOtherLoss ==
  ASSUME Kept, [Next]_vars
  PROVE  LostOnlyForCause
  <1> SUFFICES ASSUME NEW n \in Stored, byNonce'[n] = NoChallenge
               PROVE  \/ \E t \in Threads : call[t].at = "consume" /\ call[t].nonce = n /\ call'[t] # call[t]
                      \/ IsExpired(byNonce[n], clock)
                      \/ /\ Cardinality(Stored) = MaxChallenges
                         /\ shown' # shown
                         /\ \A m \in Stored : byNonce[n].expiresAt <= byNonce[m].expiresAt
    BY DEF LostOnlyForCause
  <1>0. StoreTypeOK /\ call \in [Threads -> Frames] /\ n \in Nonces
    BY DEF Kept, IInv, TypeOK, Stored
  <1>1. byNonce' # byNonce
    BY DEF Stored
  <1>2. CASE Purge
    <2>1. n \in {m \in Stored : IsExpired(byNonce[m], clock)}
      BY <1>0, <1>2 DEF Purge, PurgeExpired, Forget, NonceMapWithout, Stored
    <2> QED BY <2>1
  <1>3. ASSUME NEW t \in Threads, Take(t)
        PROVE  call[t].at = "consume" /\ call[t].nonce = n /\ call'[t] # call[t]
    <2>1. call'[t].at = "check" /\ call[t].at = "consume"
      BY <1>0, <1>3 DEF Take
    <2>2. n \in {call[t].nonce}
      BY <1>0, <1>3 DEF Take, Consume, Forget, NonceMapWithout, Stored
    <2> QED BY <2>1, <2>2
  <1>4. ASSUME NEW t \in Threads, Issued(t)
        PROVE  /\ Cardinality(Stored) = MaxChallenges
               /\ shown' # shown
               /\ \A m \in Stored : byNonce[n].expiresAt <= byNonce[m].expiresAt
    <2>1. PICK c \in Challenge : c = call[t].chal
      BY <1>0, <1>4, FrameShapes DEF Issued
    <2>2. c.nonce \notin Stored /\ c.nonce \notin shown
      BY <1>4, <2>1 DEF Issued, Kept, IInv, OnePlace, HeldBy
    <2>3. ASSUME NEW evicted \in SUBSET Nonces, Insert(c, evicted) PROVE n \in evicted
      BY <1>0, <2>2, <2>3, InsertStored DEF Stored
    <2>4. ~PutWithRoom(c)
      <3>1. {} \in SUBSET Nonces
        OBVIOUS
      <3> QED BY <2>3, <3>1 DEF PutWithRoom
    <2>5. PICK m \in Evictable : Insert(c, {m})
      BY <1>4, <2>1, <2>4 DEF Issued, PutEvicting
    <2>6. m = n
      <3>1. {m} \in SUBSET Nonces
        BY DEF Evictable, Stored
      <3> QED BY <2>3, <2>5, <3>1
    <2>7. IsFull
      BY <1>4, <2>1, <2>4 DEF Issued, PutEvicting
    <2>8. Cardinality(Stored) = MaxChallenges
      BY <2>7, FS_CardinalityType, LimitsArePositive DEF IsFull, Kept, Bounded
    <2> QED BY <1>4, <2>1, <2>2, <2>6, <2>8 DEF Issued, Evictable
  <1> QED BY <1>1, <1>2, <1>3, <1>4
          DEF Next, Tick, Issue, Verify, BeginIssue, RateLimited, PutRefused, storeVars, BeginVerify,
              Miss, Accept, Reject, vars

LEMMA IndexedInit == Init => Indexed
  <1> SUFFICES ASSUME Init PROVE Indexed
    OBVIOUS
  <1>1. Stored = {} /\ \A w \in Wallets : byWallet[w] = {}
    BY DEF Init, StoreInit, Stored
  <1>2. \A t \in Threads : call[t].at # "put"
    BY DEF Init, Idle
  <1> QED BY <1>1, <1>2, FS_EmptySet, LimitsArePositive DEF Indexed

\* The limits of issue, for every number of callers and every cap, with a clock
\* that is not set back: a wallet never has more answerable challenges than the
\* cap, is refused only when it has as many, and a challenge leaves the store
\* only because it was answered, had expired, or was the nearest to expiry of a
\* full store.
THEOREM LimitsHold == MaxBack = 0 => (Spec => LimitsAreJust)
  <1> SUFFICES ASSUME MaxBack = 0 PROVE Spec => LimitsAreJust
    OBVIOUS
  <1>1. Init => Provenance
    BY DEF Init, StoreInit, Stored, Idle, Provenance
  <1>2. IInv /\ Provenance /\ [Next]_vars => Provenance'
    BY ProvenanceNext
  <1>3. Spec => [](IInv /\ Provenance /\ Bounded)
    BY <1>1, <1>2, IInvInit, IInvNext, TypeCorrect, AlwaysBounded, PTL DEF Spec, IInv
  <1>4. Kept /\ [Next]_vars => Indexed'
    BY IndexedNext
  <1>5. IInv /\ Provenance /\ Bounded /\ Indexed <=> Kept
    BY DEF Kept
  <1>6. Spec => []Kept
    BY <1>3, <1>4, <1>5, IndexedInit, PTL DEF Spec
  <1>7. Kept /\ Kept' /\ [Next]_vars => [WalletIsCapped' /\ LostOnlyForCause /\ RefusedOnlyAtCap]_vars
    <2>1. Kept => WalletIsCapped
      BY IndexCaps
    <2>2. Kept' => WalletIsCapped'
      BY <2>1, PTL
    <2>3. Kept /\ [Next]_vars => LostOnlyForCause /\ RefusedOnlyAtCap
      BY NoOtherLoss, NoOtherRefusal
    <2> QED BY <2>2, <2>3
  <1> QED BY <1>6, <1>7, PTL DEF Spec, LimitsAreJust

-----------------------------------------------------------------------------
Held(n) == \E t \in Threads : n \in HeldBy(t)

\* A step that leaves these facts about a nonce alone leaves its status alone.
LEMMA StatusKept ==
  ASSUME NEW n \in Nonces, wins'[n] = wins[n],
         n \in shown' <=> n \in shown,
         n \in Stored => n \in shown, n \in Stored' => n \in shown',
         n \in shown => ((n \in Stored \/ Held(n)) <=> (n \in Stored \/ Held(n))')
  PROVE  Status(n)' = Status(n)
  BY DEF Status, Held

\* A step after which the thread holds what it held, nothing moved in or out of
\* the store, and nobody learnt or won anything, is invisible to the promise.
LEMMA InvisibleStep ==
  ASSUME IInv, OnePlace', NEW t \in Threads, UNCHANGED <<wins, shown>>,
         \A n \in shown : issuedTo'[n] = issuedTo[n],
         Stored' \cap shown = Stored \cap shown,
         HeldBy(t)' \cap shown = HeldBy(t) \cap shown,
         \A s \in Threads \ {t} : call'[s] = call[s]
  PROVE  UNCHANGED Tokens!vars
  <1>1. \A n \in Nonces : Status(n)' = Status(n)
    <2> SUFFICES ASSUME NEW n \in Nonces PROVE Status(n)' = Status(n)
      OBVIOUS
    <2>1. n \in shown => (Held(n)' <=> Held(n))
      BY HeldUnchanged DEF Held
    <2> QED BY <2>1, StatusKept DEF IInv, OnePlace
  <1>2. \A n \in Nonces : wins[n] > 0 => n \in shown
    BY DEF IInv, OnePlace
  <1> QED BY <1>1, <1>2 DEF Tokens!vars

\* A held challenge that was shown is a live one.
LEMMA HeldIsLive ==
  ASSUME IInv, NEW t \in Threads, call[t].at = "check"
  PROVE  LET n == call[t].chal.nonce
         IN  n \in Nonces /\ n \in shown /\ wins[n] = 0 /\ Status(n) = "live"
  BY FrameShapes DEF IInv, TypeOK, OnePlace, HeldBy, Status, Challenge

LEMMA AcceptRedeems ==
  ASSUME IInv, OnePlace', NEW t \in Threads, Accept(t)
  PROVE  Tokens!Next
  <1>1. PICK n \in Nonces :
          n = call[t].chal.nonce /\ n \in shown /\ wins[n] = 0 /\ Status(n) = "live"
    BY HeldIsLive DEF Accept
  <1>2. wins'[n] = 1 /\ \A m \in Nonces \ {n} : wins'[m] = wins[m]
    BY <1>1 DEF Accept, IInv, TypeOK
  <1>3. Status(n)' = "won"
    BY <1>2 DEF Status
  <1>4. HeldBy(t) = {n} /\ HeldBy(t)' = {} /\ \A s \in Threads \ {t} : HeldBy(s)' = HeldBy(s)
    BY <1>1, HeldUnchanged DEF Accept, Return, HeldBy, Idle, IInv, TypeOK
  <1>5. \A m \in Nonces \ {n} : Status(m)' = Status(m)
    BY <1>2, <1>4, StatusKept DEF Accept, Held, IInv, OnePlace, Stored
  <1>6. \A m \in Nonces : (wins'[m] > 0) <=> (m = n \/ wins[m] > 0)
    BY <1>1, <1>2
  <1>7. Tokens!Redeem(n)
    BY <1>1, <1>3, <1>5, <1>6 DEF Tokens!Redeem, Accept
  <1> QED BY <1>1, <1>7 DEF Tokens!Next

LEMMA RejectLoses ==
  ASSUME IInv, OnePlace', NEW t \in Threads, Reject(t)
  PROVE  Tokens!Next
  <1>1. PICK n \in Nonces :
          n = call[t].chal.nonce /\ n \in shown /\ wins[n] = 0 /\ Status(n) = "live"
    BY HeldIsLive DEF Reject
  <1>2. HeldBy(t) = {n} /\ HeldBy(t)' = {} /\ \A s \in Threads \ {t} : HeldBy(s)' = HeldBy(s)
    BY <1>1, HeldUnchanged DEF Reject, Return, HeldBy, Idle, IInv, TypeOK
  <1>3. Stored' = Stored /\ n \notin Stored /\ \A s \in Threads : n \notin HeldBy(s)'
    BY <1>2 DEF Reject, Stored, IInv, OnePlace
  <1>4. Status(n)' = "dead"
    BY <1>1, <1>3 DEF Status, Reject, history
  <1>5. \A m \in Nonces \ {n} : Status(m)' = Status(m)
    BY <1>2, <1>3, StatusKept DEF Reject, history, Held, IInv, OnePlace
  <1>6. Tokens!Lose(n)
    BY <1>1, <1>4, <1>5 DEF Tokens!Lose, Tokens!OthersKeptOrLost, Reject, history
  <1> QED BY <1>1, <1>6 DEF Tokens!Next

LEMMA IssuedMints ==
  ASSUME IInv, OnePlace', NEW t \in Threads, Issued(t)
  PROVE  Tokens!Next
  <1>1. PICK c \in Challenge, n \in Nonces :
          c = call[t].chal /\ n = c.nonce /\ HeldBy(t) = {n}
    BY FrameShapes DEF Issued, IInv, TypeOK, HeldBy, Challenge
  <1>2. HeldBy(t)' = {} /\ \A s \in Threads \ {t} : HeldBy(s)' = HeldBy(s)
    BY <1>1, HeldUnchanged DEF Issued, Return, HeldBy, Idle, IInv, TypeOK
  <1>3. n \in Stored' /\ Stored' \subseteq Stored \cup {n}
    BY <1>1, PutStored DEF Issued, IInv, TypeOK
  <1>4. n \notin shown /\ n \notin Stored /\ wins[n] = 0 /\ issuedTo[n] \in Wallets
    BY <1>1 DEF Issued, IInv, OnePlace, TypeOK
  <1>5. UNCHANGED <<wins, issuedTo>> /\ shown' = shown \cup {n}
    BY <1>1 DEF Issued
  <1>6. Status(n) = "unborn" /\ Status(n)' = "live"
    BY <1>3, <1>4, <1>5 DEF Status
  <1>7. \A m \in Nonces \ {n} : Held(m)' <=> Held(m)
    BY <1>1, <1>2 DEF Held
  <1>8. ASSUME NEW m \in Nonces \ {n}
        PROVE  Status(m)' = Status(m) \/ (Status(m) = "live" /\ Status(m)' = "dead")
    <2>1. m \in shown' <=> m \in shown
      BY <1>5
    <2>2. CASE m \in Stored /\ m \notin Stored'
      BY <1>5, <1>7, <2>1, <2>2 DEF Status, Held, IInv, OnePlace
    <2>3. CASE m \in Stored <=> m \in Stored'
      BY <1>5, <1>7, <2>1, <2>3, StatusKept DEF IInv, OnePlace
    <2> QED BY <1>3, <2>2, <2>3
  <1>9. \A m \in Nonces : wins[m] > 0 => m \in shown
    BY DEF IInv, OnePlace
  <1>10. PICK w \in Wallets : w = issuedTo[n]
    BY <1>4
  <1>11. Tokens!Mint(n, w)
    BY <1>1, <1>4, <1>10, <1>5, <1>6, <1>8, <1>9 DEF Tokens!Mint, Tokens!OthersKeptOrLost
  <1> QED BY <1>11 DEF Tokens!Next

LEMMA PurgeLoses ==
  ASSUME IInv, OnePlace', Purge
  PROVE  Tokens!Next \/ UNCHANGED Tokens!vars
  <1>1. Stored' \subseteq Stored /\ UNCHANGED <<call, wins, shown, issuedTo>>
    BY ForgetStored DEF Purge, PurgeExpired, Stored, history, IInv, TypeOK
  <1>2. \A m \in Nonces : Held(m)' <=> Held(m)
    BY <1>1 DEF Held, HeldBy
  <1>3. ASSUME NEW m \in Stored \ Stored'
        PROVE  Status(m) = "live" /\ Status(m)' = "dead"
    BY <1>1, <1>2 DEF Status, Held, IInv, OnePlace, TypeOK, Stored
  <1>4. ASSUME NEW m \in Nonces, m \in Stored <=> m \in Stored'
        PROVE  Status(m)' = Status(m)
    BY <1>1, <1>2, <1>4, StatusKept DEF IInv, OnePlace
  <1>5. CASE Stored' = Stored
    BY <1>1, <1>4, <1>5 DEF Tokens!vars
  <1>6. CASE Stored' # Stored
    <2>1. PICK n \in Stored : n \notin Stored'
      BY <1>1, <1>6
    <2>2. Tokens!Lose(n)
      BY <1>1, <1>3, <1>4, <2>1 DEF Tokens!Lose, Tokens!OthersKeptOrLost, Stored
    <2> QED BY <2>1, <2>2 DEF Tokens!Next, Stored
  <1> QED BY <1>5, <1>6

\* issue and verify, run by any number of threads, implement SingleUseTokens:
\* a nonce is minted once, for one wallet, and redeemed at most once; a failed
\* or an evicted one never authenticates.
THEOREM ServiceImplementsTokens == Spec => ImplementsTokens
  <1>1. Init => Tokens!Init
    <2> SUFFICES ASSUME Init PROVE Tokens!Init
      OBVIOUS
    <2>1. \A n \in Nonces : Status(n) = "unborn"
      BY DEF Init, StoreInit, Stored, Status
    <2> QED BY <2>1 DEF Init, Tokens!Init
  <1>2. IInv /\ IInv' /\ [Next]_vars => [Tokens!Next]_(Tokens!vars)
    <2> SUFFICES ASSUME IInv, OnePlace', [Next]_vars
                 PROVE  Tokens!Next \/ UNCHANGED Tokens!vars
      BY DEF IInv
    <2>1. CASE Tick \/ UNCHANGED vars
      <3>1. UNCHANGED <<byNonce, call, issuedTo, shown, wins>>
        BY <2>1 DEF Tick, vars, history
      <3>2. \A n \in Nonces : Status(n)' = Status(n)
        BY <3>1 DEF Status, HeldBy, Stored
      <3> QED BY <3>1, <3>2 DEF Tokens!vars
    <2>2. CASE Purge
      BY <2>2, PurgeLoses
    <2>3. ASSUME NEW t \in Threads, NEW w \in Wallets, NEW d \in Domains, BeginIssue(t, w, d)
          PROVE  UNCHANGED Tokens!vars
      <3>1. PICK n \in Nonces :
              /\ issuedTo[n] = Nobody
              /\ issuedTo' = [issuedTo EXCEPT ![n] = w]
              /\ call' = [call EXCEPT ![t] =
                   [at |-> "put",
                    chal |-> [nonce |-> n, wallet |-> w, domain |-> d,
                              issuedAt |-> clock, expiresAt |-> clock + TTL]]]
        BY <2>3 DEF BeginIssue
      <3>2. n \notin shown
        BY <3>1 DEF IInv, OnePlace
      <3>3. HeldBy(t) = {} /\ HeldBy(t)' = {n}
        BY <2>3, <3>1 DEF BeginIssue, Idle, HeldBy, IInv, TypeOK
      <3>4. \A s \in Threads \ {t} : call'[s] = call[s]
        BY <3>1 DEF IInv, TypeOK
      <3>5. UNCHANGED <<wins, shown>> /\ Stored' = Stored
        BY <2>3 DEF BeginIssue, Stored
      <3>6. \A m \in shown : issuedTo'[m] = issuedTo[m]
        BY <3>1, <3>2 DEF IInv, TypeOK
      <3> QED BY <3>2, <3>3, <3>4, <3>5, <3>6, InvisibleStep
    <2>4. ASSUME NEW t \in Threads, Issued(t) PROVE Tokens!Next
      BY <2>4, IssuedMints
    <2>5. ASSUME NEW t \in Threads, RateLimited(t) PROVE UNCHANGED Tokens!vars
      <3>1. HeldBy(t) \cap shown = {}
        BY <2>5 DEF RateLimited, IInv, OnePlace
      <3>2. HeldBy(t)' = {} /\ \A s \in Threads \ {t} : call'[s] = call[s]
        BY <2>5 DEF RateLimited, Return, Idle, HeldBy, IInv, TypeOK
      <3> QED BY <2>5, <3>1, <3>2, InvisibleStep
              DEF RateLimited, PutRefused, storeVars, history, Stored
    <2>6. ASSUME NEW t \in Threads, NEW d \in Domains, NEW n \in Nonces, NEW s \in Signatures,
                 BeginVerify(t, d, n, s)
          PROVE  UNCHANGED Tokens!vars
      <3>1. HeldBy(t) = {} /\ HeldBy(t)' = {} /\ \A u \in Threads \ {t} : call'[u] = call[u]
        BY <2>6 DEF BeginVerify, Idle, HeldBy, IInv, TypeOK
      <3> QED BY <2>6, <3>1, InvisibleStep DEF BeginVerify, history, Stored
    <2>7. ASSUME NEW t \in Threads, Take(t) PROVE UNCHANGED Tokens!vars
      <3>1. PICK n \in Nonces : n = call[t].nonce /\ n \in Stored
        BY <2>7, FrameShapes DEF Take, Found, IInv, TypeOK, Stored
      <3>2. Stored' = Stored \ {n} /\ UNCHANGED <<wins, shown, issuedTo>>
        BY <2>7, <3>1, ForgetStored DEF Take, Consume, history, IInv, TypeOK
      <3>3. HeldBy(t) = {} /\ HeldBy(t)' = {n}
        BY <2>7, <3>1 DEF Take, HeldBy, IInv, TypeOK, OnePlace
      <3>4. \A s \in Threads \ {t} : HeldBy(s)' = HeldBy(s)
        BY <2>7, HeldUnchanged DEF Take, IInv, TypeOK
      <3>5. \A m \in Nonces : (m \in Stored \/ Held(m))' <=> (m \in Stored \/ Held(m))
        BY <3>1, <3>2, <3>3, <3>4 DEF Held
      <3>6. \A m \in Nonces : Status(m)' = Status(m)
        BY <3>2, <3>5, StatusKept DEF IInv, OnePlace
      <3> QED BY <3>2, <3>6 DEF Tokens!vars
    <2>8. ASSUME NEW t \in Threads, Miss(t) PROVE UNCHANGED Tokens!vars
      <3>1. HeldBy(t) = {} /\ HeldBy(t)' = {} /\ \A s \in Threads \ {t} : call'[s] = call[s]
        BY <2>8 DEF Miss, Return, Idle, HeldBy, IInv, TypeOK
      <3> QED BY <2>8, <3>1, InvisibleStep DEF Miss, history, Stored
    <2>9. ASSUME NEW t \in Threads, Accept(t) \/ Reject(t) PROVE Tokens!Next
      BY <2>9, AcceptRedeems, RejectLoses
    <2> QED BY <2>1, <2>2, <2>3, <2>4, <2>5, <2>6, <2>7, <2>8, <2>9 DEF Next, Issue, Verify
  <1>3. Spec => []IInv
    BY IInvInit, IInvNext, TypeCorrect, PTL DEF Spec, IInv
  <1> QED BY <1>1, <1>2, <1>3, PTL DEF Spec, ImplementsTokens, Tokens!Spec
=============================================================================
