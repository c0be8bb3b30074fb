-------------------------- MODULE Conversation_proofs --------------------------
(***************************************************************************)
(* Theorems about Conversation, for any number of players, wallets, NFTs   *)
(* and matches.  The invariant has three parts: the order of the store is  *)
(* the states it keeps, each once (InOrder); what a state says of itself,  *)
(* of the services and of the history is true (Told); and no two states    *)
(* share a session or a match (Apart).                                     *)
(***************************************************************************)
EXTENDS Conversation, FiniteSetTheorems, TLAPS

Once(seq) == \A i, j \in DOMAIN seq : seq[i] = seq[j] => i = j
Members(seq) == {seq[i] : i \in DOMAIN seq}

InOrder ==
  /\ order \in Seq(Users) /\ Once(order)
  /\ Members(order) = DOMAIN states /\ Len(order) <= MaxUsers
  /\ states = [u \in DOMAIN states |-> states[u]]

\* What s, the state of u, says.
Told(u, s) ==
  /\ s \in UserState
  /\ s.armed => s.match # None /\ s.match.canPay
  /\ s.nonce # None => last[u] = s.nonce
  /\ s.token # None => s.token \in drawn
  /\ s.token \in DOMAIN live => live[s.token] = s.wallet
  /\ s.match # None => s.match.id <= Len(boards)

Apart(s, r) ==
  /\ s.token = r.token => s.token = None
  /\ s.match # None /\ r.match # None => s.match.id # r.match.id

Around ==
  /\ DOMAIN live \subseteq Tokens \cap drawn /\ live \in [DOMAIN live -> Wallets]
  /\ DOMAIN challenges \subseteq Nonces /\ challenges \in [DOMAIN challenges -> Wallets]
  /\ owner \in [Mints -> Wallets]
  /\ boards \in Seq([user : Users, shows : {0} \cup Ids])
  /\ rosters \subseteq [user : Users, listed : Lists]
  /\ drawn \subseteq Tokens \cup Nonces
  /\ last \in [Users -> Nonces \cup {None}]

IInv ==
  /\ InOrder /\ Around
  /\ \A u \in DOMAIN states : Told(u, states[u])
  /\ \A u, v \in DOMAIN states : u # v => Apart(states[u], states[v])

USE ConversationIsValid
-----------------------------------------------------------------------------
\* Dropping a player from an order drops that player and nobody else.
LEMMA OthersAreTheRest ==
  ASSUME NEW seq \in Seq(Users), Once(seq), NEW u
  PROVE  /\ Others(seq, u) \in Seq(Users) /\ Once(Others(seq, u))
         /\ Members(Others(seq, u)) = Members(seq) \ {u}
         /\ Len(Others(seq, u)) = IF u \in Members(seq) THEN Len(seq) - 1 ELSE Len(seq)
<1>1. CASE u \notin Members(seq)
  <2>1. Others(seq, u) = seq
    BY <1>1 DEF Others, Members
  <2> QED BY <1>1, <2>1 DEF Members
<1>2. CASE u \in Members(seq)
  <2> DEFINE place == CHOOSE i \in DOMAIN seq : seq[i] = u
             rest == [i \in 1 .. Len(seq) - 1 |-> IF i < place THEN seq[i] ELSE seq[i + 1]]
  <2>1. Others(seq, u) = rest
    BY <1>2 DEF Others, Members
  <2>2. place \in 1 .. Len(seq) /\ seq[place] = u /\ Len(seq) \in Nat
    BY <1>2 DEF Members
  <2> HIDE DEF place
  <2>3. rest \in Seq(Users) /\ Len(rest) = Len(seq) - 1 /\ DOMAIN rest = 1 .. Len(seq) - 1
    BY <2>2
  <2>4. \A i \in DOMAIN rest : rest[i] = IF i < place THEN seq[i] ELSE seq[i + 1]
    BY <2>3
  <2> HIDE DEF rest
  <2>5. Once(rest)
    BY <2>2, <2>3, <2>4 DEF Once
  <2>6. Members(rest) \subseteq Members(seq) \ {u}
    BY <2>2, <2>3, <2>4 DEF Once, Members
  <2>7. ASSUME NEW v \in Members(seq) \ {u} PROVE v \in Members(rest)
    <3>1. PICK i \in 1 .. Len(seq) : seq[i] = v
      BY DEF Members
    <3>2. i # place
      BY <2>2, <3>1
    <3>3. CASE i < place
      BY <2>2, <2>3, <2>4, <3>1, <3>3 DEF Members
    <3>4. CASE i > place
      <4>1. i - 1 \in DOMAIN rest /\ rest[i - 1] = v
        BY <2>2, <2>3, <2>4, <3>1, <3>4
      <4> QED BY <4>1 DEF Members
    <3> QED BY <2>2, <3>2, <3>3, <3>4
  <2> QED BY <1>2, <2>1, <2>3, <2>5, <2>6, <2>7
<1> QED BY <1>1, <1>2

\* What the store keeps when u's state is fetched: some of those it kept, each
\* once, and with room for u.
LEMMA KeptHasRoom ==
  ASSUME InOrder, NEW u, NEW kept \in Kept(u)
  PROVE  /\ kept \in Seq(Users) /\ Once(kept) /\ Members(kept) \subseteq DOMAIN states
         /\ Len(kept) <= MaxUsers
         /\ u \notin Members(kept) => Len(kept) < MaxUsers
<1>1. PICK k \in 0 .. Len(order) :
        kept = LET awake == SubSeq(order, k + 1, Len(order))
               IN  IF (\A i \in DOMAIN awake : awake[i] # u) /\ IsFull(Len(awake))
                   THEN Tail(awake) ELSE awake
  BY DEF Kept
<1> DEFINE awake == SubSeq(order, k + 1, Len(order))
<1>2. /\ awake \in Seq(Users) /\ Len(awake) = Len(order) - k
      /\ \A i \in DOMAIN awake : i + k \in DOMAIN order /\ awake[i] = order[i + k]
  BY DEF InOrder
<1>3. kept = IF (\A i \in DOMAIN awake : awake[i] # u) /\ IsFull(Len(awake))
             THEN Tail(awake) ELSE awake
  BY <1>1
<1> HIDE DEF awake
<1>4. Once(awake) /\ Members(awake) \subseteq DOMAIN states /\ Len(awake) <= MaxUsers
  BY <1>2 DEF InOrder, Once, Members
<1>5. CASE kept = awake
  BY <1>2, <1>3, <1>4, <1>5 DEF IsFull, Members
<1>6. CASE kept = Tail(awake) /\ IsFull(Len(awake))
  <2>1. awake # << >>
    BY <1>2, <1>6 DEF IsFull
  <2>2. /\ kept \in Seq(Users) /\ Len(kept) = Len(awake) - 1
        /\ \A i \in DOMAIN kept : i + 1 \in DOMAIN awake /\ kept[i] = awake[i + 1]
    BY <1>2, <1>6, <2>1
  <2> QED BY <1>2, <1>4, <2>2 DEF Once, Members
<1> QED BY <1>3, <1>5, <1>6

\* Serving u changes u's state only, and keeps the store in order.
LEMMA ServedAlone ==
  ASSUME InOrder, NEW u \in Users, NEW kept \in Kept(u), NEW s2, Serve(u, kept, s2)
  PROVE  /\ InOrder' /\ u \in DOMAIN states' /\ states'[u] = s2
         /\ \A v \in DOMAIN states' \ {u} : v \in DOMAIN states /\ states'[v] = states[v]
<1>1. /\ kept \in Seq(Users) /\ Once(kept) /\ Members(kept) \subseteq DOMAIN states
      /\ Len(kept) <= MaxUsers /\ (u \notin Members(kept) => Len(kept) < MaxUsers)
  BY KeptHasRoom
<1> DEFINE rest == Others(kept, u)
<1>2. /\ rest \in Seq(Users) /\ Once(rest) /\ Members(rest) = Members(kept) \ {u}
      /\ Len(rest) = IF u \in Members(kept) THEN Len(kept) - 1 ELSE Len(kept)
  BY <1>1, OthersAreTheRest
<1>3. order' = Append(rest, u) /\ DOMAIN states' = Members(kept) \cup {u}
  BY DEF Serve, Members
<1>4. states' = [v \in Members(kept) \cup {u} |-> IF v = u THEN s2 ELSE states[v]]
  BY DEF Serve, Members
<1> HIDE DEF rest
<1>5. /\ order' \in Seq(Users) /\ Len(order') = Len(rest) + 1
      /\ \A i \in DOMAIN rest : i \in DOMAIN order' /\ order'[i] = rest[i]
      /\ DOMAIN order' = DOMAIN rest \cup {Len(rest) + 1} /\ order'[Len(rest) + 1] = u
  BY <1>2, <1>3
<1>6. Members(order') = Members(rest) \cup {u}
  BY <1>5 DEF Members
<1>7. Once(order')
  <2>1. \A i \in DOMAIN rest : rest[i] # u
    BY <1>2 DEF Members
  <2> QED BY <1>2, <1>5, <2>1 DEF Once
<1>8. Len(order') <= MaxUsers
  BY <1>1, <1>2, <1>5
<1>9. InOrder'
  <2>1. states' = [v \in DOMAIN states' |-> states'[v]]
    BY <1>4
  <2> QED BY <1>2, <1>3, <1>5, <1>6, <1>7, <1>8, <2>1 DEF InOrder, Members, Once
<1> QED BY <1>1, <1>3, <1>4, <1>9

\* The state fetched for u is the one kept for u, or a new one.
LEMMA RestoredOwn ==
  ASSUME InOrder, NEW u, NEW kept \in Kept(u)
  PROVE  \/ Restored(u, kept) = Fresh
         \/ u \in DOMAIN states /\ Restored(u, kept) = states[u]
BY KeptHasRoom DEF Restored, Members

LEMMA EmptyIsAList == << >> \in Lists
<1>1. Cardinality(Mints) \in Nat
  BY FS_CardinalityType
<1>2. << >> \in [1 .. 0 -> Mints]
  OBVIOUS
<1> QED BY <1>1, <1>2 DEF Lists

\* What is fetched is true, and apart from what the others have.
LEMMA RestoredTold ==
  ASSUME IInv, NEW u \in Users, NEW kept \in Kept(u)
  PROVE  /\ Told(u, Restored(u, kept))
         /\ \A v \in DOMAIN states \ {u} : Apart(Restored(u, kept), states[v])
<1>1. CASE Restored(u, kept) = Fresh
  <2>1. Fresh.roster \in Lists
    BY EmptyIsAList DEF Fresh
  <2>2. Fresh \in UserState
    BY <2>1 DEF Fresh, UserState
  <2>3. None \notin DOMAIN live
    BY DEF IInv, Around
  <2>4. Told(u, Fresh)
    BY <2>2, <2>3 DEF Told, Fresh
  <2>5. \A v \in DOMAIN states \ {u} : Apart(Fresh, states[v])
    BY DEF Apart, Fresh
  <2> QED BY <1>1, <2>4, <2>5
<1>2. CASE u \in DOMAIN states /\ Restored(u, kept) = states[u]
  BY <1>2 DEF IInv
<1> QED BY <1>1, <1>2, RestoredOwn DEF IInv

\* A step that serves u preserves the invariant, if what u is left with is true
\* and u's own, and if what was true of the others still is.
LEMMA ServingKeeps ==
  ASSUME IInv, NEW u \in Users, NEW kept \in Kept(u), NEW s2, Serve(u, kept, s2),
         Around', Told(u, s2)',
         \A v \in DOMAIN states \ {u} : Apart(s2, states[v]),
         \A v \in Users \ {u} : \A s \in UserState : Told(v, s) => Told(v, s)'
  PROVE  IInv'
<1>1. /\ InOrder' /\ u \in DOMAIN states' /\ states'[u] = s2
      /\ \A v \in DOMAIN states' \ {u} : v \in DOMAIN states /\ states'[v] = states[v]
  BY ServedAlone DEF IInv
<1>2. \A v \in DOMAIN states : v \in Users
  BY DEF IInv, InOrder, Members
<1>3. ASSUME NEW v \in DOMAIN states' PROVE Told(v, states[v])'
  <2>1. CASE v = u
    BY <1>1, <2>1 DEF Told
  <2>2. CASE v # u
    <3>1. v \in DOMAIN states /\ v \in Users /\ states'[v] = states[v]
      BY <1>1, <1>2, <2>2
    <3>2. PICK s \in UserState : s = states[v] /\ Told(v, s)
      BY <3>1 DEF IInv, Told
    <3>3. Told(v, s)'
      BY <2>2, <3>1, <3>2
    <3> QED BY <3>1, <3>2, <3>3 DEF Told
  <2> QED BY <2>1, <2>2
<1>4. ASSUME NEW v \in DOMAIN states', NEW w \in DOMAIN states', v # w
      PROVE  Apart(states[v], states[w])'
  <2>1. CASE v = u
    BY <1>1, <1>4, <2>1 DEF Apart
  <2>2. CASE w = u
    BY <1>1, <1>4, <2>2 DEF Apart
  <2>3. CASE v # u /\ w # u
    BY <1>1, <1>4, <2>3 DEF Apart, IInv
  <2> QED BY <2>1, <2>2, <2>3
<1> QED BY <1>1, <1>3, <1>4 DEF IInv

\* As long as the services, the boards and the history only move on, what was
\* true of a player stays true.
LEMMA StaysTold ==
  ASSUME IInv,
         Len(boards) <= Len(boards'), Len(boards) \in Nat, Len(boards') \in Nat,
         drawn \subseteq drawn',
         DOMAIN live' \subseteq Tokens,
         \A t \in DOMAIN live' : t \in drawn => t \in DOMAIN live /\ live'[t] = live[t],
         NEW v, NEW s \in UserState, last'[v] = last[v], Told(v, s)
  PROVE  Told(v, s)'
<1>1. s.match # None => s.match.id <= Len(boards')
  <2> SUFFICES ASSUME s.match # None PROVE s.match.id <= Len(boards')
    OBVIOUS
  <2>1. s.match \in Match
    BY DEF UserState
  <2>2. s.match.id \in Int /\ s.match.id <= Len(boards)
    BY <2>1 DEF Match, Ids, Told
  <2> QED BY <2>2
<1>2. s.token # None => s.token \in drawn'
  BY DEF Told
<1>3. s.token \in DOMAIN live' => live'[s.token] = s.wallet
  <2> SUFFICES ASSUME s.token \in DOMAIN live' PROVE live'[s.token] = s.wallet
    OBVIOUS
  <2>1. s.token \in drawn
    BY DEF Told
  <2> QED BY <2>1 DEF Told
<1> QED BY <1>1, <1>2, <1>3 DEF Told

LEMMA StaysToldQuietly ==
  ASSUME IInv, UNCHANGED services, Around', Len(boards) <= Len(boards')
  PROVE  \A v : \A s \in UserState : Told(v, s) => Told(v, s)'
<1>1. Len(boards) \in Nat /\ Len(boards') \in Nat /\ DOMAIN live' \subseteq Tokens
  BY DEF IInv, Around
<1> QED BY <1>1, StaysTold DEF services

\* A listing is a list of what the wallet holds, each once: there is one.
LEMMA ListingIsAList ==
  ASSUME NEW w PROVE Listing(w) \in Lists
<1> DEFINE held == {m \in Mints : owner[m] = w}
           Fits(l) == \A m \in Mints :
             Cardinality({i \in DOMAIN l : l[i] = m}) = IF owner[m] = w THEN 1 ELSE 0
<1>1. IsFiniteSet(held) /\ Cardinality(held) \in Nat /\ Cardinality(held) <= Cardinality(Mints)
  BY FS_Subset, FS_CardinalityType
<1>2. PICK f : f \in Bijection(1 .. Cardinality(held), held)
  BY <1>1, FS_NatBijection, FS_CountingElements DEF ExistsBijection
<1>3. /\ f \in [1 .. Cardinality(held) -> Mints]
      /\ \A i, j \in DOMAIN f : f[i] = f[j] => i = j
      /\ \A m \in held : \E i \in DOMAIN f : f[i] = m
      /\ \A i \in DOMAIN f : f[i] \in held
  BY <1>2 DEF Bijection, Injection, Surjection, IsInjective
<1>4. f \in Lists
  <2>1. Cardinality(Mints) \in Nat
    BY FS_CardinalityType
  <2>2. Cardinality(held) \in 0 .. Cardinality(Mints)
    BY <1>1, <2>1
  <2> HIDE DEF held
  <2> QED BY <1>3, <2>2 DEF Lists
<1>5. ASSUME NEW m \in Mints
      PROVE Cardinality({i \in DOMAIN f : f[i] = m}) = IF owner[m] = w THEN 1 ELSE 0
  <2>1. CASE owner[m] = w
    <3>1. PICK i \in DOMAIN f : f[i] = m
      BY <1>3, <2>1
    <3>2. {j \in DOMAIN f : f[j] = m} = {i}
      BY <1>3, <3>1
    <3> QED BY <2>1, <3>2, FS_Singleton
  <2>2. CASE owner[m] # w
    <3>1. {j \in DOMAIN f : f[j] = m} = {}
      BY <1>3, <2>2
    <3> QED BY <2>2, <3>1, FS_EmptySet
  <2> QED BY <2>1, <2>2
<1>6. \E l \in Lists : Fits(l)
  BY <1>4, <1>5
<1>7. Listing(w) = CHOOSE l \in Lists : Fits(l)
  BY DEF Listing
<1> QED BY <1>6, <1>7

-----------------------------------------------------------------------------
\* Each step preserves the invariant.  Where the services stay as they are, it
\* is enough that u is left with what is true now.
LEMMA QuietServingKeeps ==
  ASSUME IInv, NEW u \in Users, NEW kept \in Kept(u), NEW s2, Serve(u, kept, s2),
         UNCHANGED services, Around', Len(boards) <= Len(boards'),
         Told(u, s2), \A v \in DOMAIN states \ {u} : Apart(s2, states[v])
  PROVE  IInv'
<1>1. \A v : \A s \in UserState : Told(v, s) => Told(v, s)'
  BY StaysToldQuietly
<1>2. s2 \in UserState
  BY DEF Told
<1> QED BY <1>1, <1>2, ServingKeeps

LEMMA IdlyKeeps == ASSUME IInv, NEW u \in Users, Idly(u) PROVE IInv'
<1>1. PICK kept \in Kept(u) : Serve(u, kept, Restored(u, kept))
  BY DEF Idly
<1>2. PICK r : r = Restored(u, kept)
  OBVIOUS
<1>3. Told(u, r) /\ \A v \in DOMAIN states \ {u} : Apart(r, states[v])
  BY <1>2, RestoredTold
<1>4. UNCHANGED services /\ Around' /\ Len(boards) <= Len(boards')
  BY DEF Idly, IInv, Around, services, messages
<1> QED BY <1>1, <1>2, <1>3, <1>4, QuietServingKeeps

LEMMA ConnectKeeps == ASSUME IInv, NEW u \in Users, Connect(u) PROVE IInv'
<1>1. PICK kept \in Kept(u), n \in Nonces \ drawn, w \in Wallets :
        /\ Serve(u, kept, [Restored(u, kept) EXCEPT !.nonce = n])
        /\ challenges' = With(challenges, n, w)
        /\ drawn' = drawn \cup {n}
        /\ last' = [last EXCEPT ![u] = n]
  BY DEF Connect
<1>2. PICK r : r = Restored(u, kept)
  OBVIOUS
<1>3. PICK s2 : s2 = [r EXCEPT !.nonce = n]
  OBVIOUS
<1>4. Told(u, r) /\ \A v \in DOMAIN states \ {u} : Apart(r, states[v])
  BY <1>2, RestoredTold
<1>5. UNCHANGED <<live, owner, boards, rosters>>
  BY DEF Connect, messages
<1>6. DOMAIN challenges' = DOMAIN challenges \cup {n} /\ challenges' \in [DOMAIN challenges' -> Wallets]
  BY <1>1 DEF IInv, Around, With
<1>7. Around'
  BY <1>1, <1>5, <1>6 DEF IInv, Around
<1>8. \A v \in Users \ {u} : \A s \in UserState : Told(v, s) => Told(v, s)'
  BY <1>1, <1>5 DEF Told, IInv, Around
<1>9. Told(u, s2)'
  BY <1>1, <1>3, <1>4, <1>5 DEF Told, UserState, IInv, Around
<1>10. \A v \in DOMAIN states \ {u} : Apart(s2, states[v])
  <2>1. s2.token = r.token /\ s2.match = r.match
    BY <1>3, <1>4 DEF Told, UserState
  <2> QED BY <1>4, <2>1 DEF Apart
<1> QED BY <1>1, <1>2, <1>3, <1>7, <1>8, <1>9, <1>10, ServingKeeps

LEMMA SignedKeeps == ASSUME IInv, NEW u \in Users, Signed(u) PROVE IInv'
<1>1. PICK kept \in Kept(u), n \in Nonces \cap drawn :
       LET s == [Restored(u, kept) EXCEPT !.nonce = None]
           pending == Restored(u, kept).nonce
       IN  /\ pending # None
           /\ \/ /\ Serve(u, kept, s)
                 /\ challenges' \in {challenges, Without(challenges, pending)}
                 /\ UNCHANGED <<live, drawn>>
              \/ /\ AnswersPending(n, pending)
                 /\ challenges' = Without(challenges, pending)
                 /\ \E t \in Tokens \ drawn :
                      /\ live' = With(live, t, challenges[n])
                      /\ drawn' = drawn \cup {t}
                      /\ Serve(u, kept, [s EXCEPT !.token = t, !.wallet = challenges[n],
                                                  !.mint = None])
  BY DEF Signed
<1>2. PICK r : r = Restored(u, kept)
  OBVIOUS
<1>3. PICK s : s = [r EXCEPT !.nonce = None]
  OBVIOUS
<1>4. Told(u, r) /\ \A v \in DOMAIN states \ {u} : Apart(r, states[v])
  BY <1>2, RestoredTold
<1>5. UNCHANGED <<owner, boards, rosters, last>>
  BY DEF Signed, messages
<1>6. Told(u, s) /\ \A v \in DOMAIN states \ {u} : Apart(s, states[v])
  <2>1. s.token = r.token /\ s.match = r.match /\ s.armed = r.armed /\ s.wallet = r.wallet /\ s.nonce = None
    BY <1>3, <1>4 DEF Told, UserState
  <2>2. s \in UserState
    BY <1>3, <1>4 DEF Told, UserState
  <2> QED BY <1>4, <2>1, <2>2 DEF Apart, Told
<1>7. Around /\ DOMAIN Without(challenges, r.nonce) \subseteq DOMAIN challenges
      /\ Without(challenges, r.nonce) \in [DOMAIN Without(challenges, r.nonce) -> Wallets]
  BY DEF IInv, Around, Without
<1>8. CASE /\ Serve(u, kept, s)
           /\ challenges' \in {challenges, Without(challenges, r.nonce)}
           /\ UNCHANGED <<live, drawn>>
  <2>1. Around'
    BY <1>5, <1>7, <1>8 DEF Around
  <2>2. \A v \in Users : \A q \in UserState : Told(v, q) => Told(v, q)'
    BY <1>5, <1>8 DEF Told
  <2>3. s \in UserState
    BY <1>6 DEF Told
  <2> QED BY <1>6, <1>8, <2>1, <2>2, <2>3, ServingKeeps
<1>9. ASSUME AnswersPending(n, r.nonce), challenges' = Without(challenges, r.nonce),
             NEW t \in Tokens \ drawn, NEW s2,
             live' = With(live, t, challenges[n]), drawn' = drawn \cup {t},
             s2 = [s EXCEPT !.token = t, !.wallet = challenges[n], !.mint = None],
             Serve(u, kept, s2)
      PROVE  IInv'
  <2>1. n \in DOMAIN challenges /\ challenges[n] \in Wallets
    BY <1>7, <1>9 DEF AnswersPending, Around
  <2>2. /\ DOMAIN live' = DOMAIN live \cup {t} /\ live'[t] = challenges[n]
        /\ \A o \in DOMAIN live : o # t /\ live'[o] = live[o]
        /\ live' \in [DOMAIN live' -> Wallets]
    BY <1>7, <1>9, <2>1 DEF With, Around
  <2>3. Around'
    BY <1>5, <1>7, <1>9, <2>2 DEF Around
  <2>4. s \in UserState
    BY <1>6 DEF Told
  <2>5. /\ s2 \in UserState /\ s2.token = t /\ s2.wallet = challenges[n] /\ s2.nonce = None
        /\ s2.match = s.match /\ s2.armed = s.armed
    BY <1>3, <1>4, <1>9, <2>1, <2>4 DEF UserState, Told
  <2>6. Told(u, s2)'
    BY <1>5, <1>6, <1>9, <2>2, <2>5 DEF Told
  <2>7. \A v \in Users : \A q \in UserState : Told(v, q) => Told(v, q)'
    BY <1>5, <1>7, <1>9, <2>2, <2>3 DEF Told, Around
  <2>8. ASSUME NEW v \in DOMAIN states \ {u} PROVE Apart(s2, states[v])
    <3>1. Told(v, states[v]) /\ Apart(s, states[v])
      BY <1>6 DEF IInv
    <3>2. states[v].token # t
      BY <1>9, <3>1 DEF Told
    <3> QED BY <2>5, <3>1, <3>2 DEF Apart
  <2> QED BY <1>9, <2>3, <2>6, <2>7, <2>8, ServingKeeps
<1> QED BY <1>1, <1>2, <1>3, <1>8, <1>9

LEMMA DisconnectKeeps == ASSUME IInv, NEW u \in Users, Disconnect(u) PROVE IInv'
<1>1. PICK kept \in Kept(u) :
       /\ order' = Others(kept, u)
       /\ states' = [v \in Members(kept) \ {u} |-> states[v]]
       /\ live' \in {live, Without(live, Restored(u, kept).token)}
  BY DEF Disconnect, Members
<1>2. UNCHANGED <<challenges, drawn, last, owner, boards, rosters>>
  BY DEF Disconnect, messages
<1>3. /\ kept \in Seq(Users) /\ Once(kept) /\ Members(kept) \subseteq DOMAIN states
      /\ Len(kept) <= MaxUsers
  BY KeptHasRoom DEF IInv
<1>4. InOrder'
  <2>1. /\ order' \in Seq(Users) /\ Once(order') /\ Members(order') = DOMAIN states'
        /\ Len(order') <= MaxUsers
    BY <1>1, <1>3, OthersAreTheRest
  <2>2. states' = [v \in DOMAIN states' |-> states'[v]]
    BY <1>1
  <2> QED BY <2>1, <2>2 DEF InOrder, Once, Members
<1>5. /\ DOMAIN live' \subseteq DOMAIN live /\ live' \in [DOMAIN live' -> Wallets]
      /\ \A t \in DOMAIN live' : live'[t] = live[t]
  BY <1>1 DEF Without, IInv, Around
<1>6. Around'
  BY <1>2, <1>5 DEF IInv, Around
<1>7. \A v : \A s : Told(v, s) => Told(v, s)'
  BY <1>2, <1>5 DEF Told
<1>8. \A v \in DOMAIN states' : v \in DOMAIN states /\ states'[v] = states[v]
  BY <1>1, <1>3
<1>9. ASSUME NEW v \in DOMAIN states' PROVE Told(v, states[v])'
  <2>1. PICK s : s = states[v]
    OBVIOUS
  <2>2. Told(v, s)'
    BY <1>7, <1>8, <2>1 DEF IInv
  <2> QED BY <1>8, <2>1, <2>2 DEF Told
<1>10. \A v, w \in DOMAIN states' : v # w => Apart(states[v], states[w])'
  BY <1>8 DEF IInv, Apart
<1> QED BY <1>4, <1>6, <1>9, <1>10 DEF IInv

LEMMA RosterKeeps == ASSUME IInv, NEW u \in Users, Roster(u) PROVE IInv'
<1>1. PICK kept \in Kept(u) :
       LET s == Restored(u, kept)
       IN  /\ s.token # None
           /\ \/ /\ s.token \notin DOMAIN live
                 /\ Serve(u, kept, [s EXCEPT !.token = None, !.wallet = None])
                 /\ UNCHANGED rosters
              \/ /\ s.token \in DOMAIN live
                 /\ \E listed \in {Listing(live[s.token]), << >>} :
                      /\ Serve(u, kept, [s EXCEPT !.roster = listed])
                      /\ rosters' = rosters \cup {[user |-> u, listed |-> listed]}
  BY DEF Roster
<1>2. PICK r : r = Restored(u, kept)
  OBVIOUS
<1>3. /\ r \in UserState /\ Told(u, r)
      /\ \A v \in DOMAIN states \ {u} : Apart(r, states[v])
  BY <1>2, RestoredTold DEF Told
<1>4. UNCHANGED <<services, owner, boards>> /\ None \notin DOMAIN live
  BY DEF Roster, IInv, Around
<1>5. CASE /\ Serve(u, kept, [r EXCEPT !.token = None, !.wallet = None])
           /\ UNCHANGED rosters
  <2>1. PICK s2 : s2 = [r EXCEPT !.token = None, !.wallet = None]
    OBVIOUS
  <2>2. Told(u, s2) /\ \A v \in DOMAIN states \ {u} : Apart(s2, states[v])
    BY <1>3, <1>4, <2>1 DEF Told, UserState, Apart
  <2>3. Around' /\ Len(boards) <= Len(boards')
    BY <1>4, <1>5 DEF services, IInv, Around
  <2> QED BY <1>4, <1>5, <2>1, <2>2, <2>3, QuietServingKeeps
<1>6. ASSUME NEW listed \in {Listing(live[r.token]), << >>},
             Serve(u, kept, [r EXCEPT !.roster = listed]),
             rosters' = rosters \cup {[user |-> u, listed |-> listed]}
      PROVE  IInv'
  <2>1. PICK s2 : s2 = [r EXCEPT !.roster = listed]
    OBVIOUS
  <2>2. listed \in Lists
    BY <1>6, ListingIsAList, EmptyIsAList
  <2>3. Told(u, s2) /\ \A v \in DOMAIN states \ {u} : Apart(s2, states[v])
    BY <1>3, <2>1, <2>2 DEF Told, UserState, Apart
  <2>4. Around' /\ Len(boards) <= Len(boards')
    BY <1>4, <1>6, <2>2 DEF services, IInv, Around
  <2> QED BY <1>4, <1>6, <2>1, <2>3, <2>4, QuietServingKeeps
<1> QED BY <1>1, <1>2, <1>5, <1>6

LEMMA PickKeeps ==
  ASSUME IInv, NEW u \in Users, NEW shown, NEW i, Pick(u, shown, i)
  PROVE  IInv'
<1>1. PICK kept \in Kept(u) :
       LET s == Restored(u, kept)
       IN  /\ i \in DOMAIN s.roster /\ s.token # None
           /\ \/ Serve(u, kept, [s EXCEPT !.token = None])
              \/ Serve(u, kept, [s EXCEPT !.mint = s.roster[i]])
  BY DEF Pick
<1>2. PICK r : r = Restored(u, kept)
  OBVIOUS
<1>3. /\ r \in UserState /\ Told(u, r)
      /\ \A v \in DOMAIN states \ {u} : Apart(r, states[v])
  BY <1>2, RestoredTold DEF Told
<1>4. UNCHANGED services /\ Around' /\ Len(boards) <= Len(boards') /\ None \notin DOMAIN live
  BY DEF Pick, IInv, Around, services, messages
<1>5. i \in DOMAIN r.roster => r.roster[i] \in Mints
  <2>1. r.roster \in Lists
    BY <1>3 DEF UserState
  <2> QED BY <2>1 DEF Lists
<1>6. CASE Serve(u, kept, [r EXCEPT !.token = None])
  <2>1. PICK s2 : s2 = [r EXCEPT !.token = None]
    OBVIOUS
  <2>2. Told(u, s2) /\ \A v \in DOMAIN states \ {u} : Apart(s2, states[v])
    BY <1>3, <1>4, <2>1 DEF Told, UserState, Apart
  <2> QED BY <1>4, <1>6, <2>1, <2>2, QuietServingKeeps
<1>7. CASE i \in DOMAIN r.roster /\ Serve(u, kept, [r EXCEPT !.mint = r.roster[i]])
  <2>1. PICK s2 : s2 = [r EXCEPT !.mint = r.roster[i]]
    OBVIOUS
  <2>2. Told(u, s2) /\ \A v \in DOMAIN states \ {u} : Apart(s2, states[v])
    BY <1>3, <1>5, <1>7, <2>1 DEF Told, UserState, Apart
  <2> QED BY <1>4, <1>7, <2>1, <2>2, QuietServingKeeps
<1> QED BY <1>1, <1>2, <1>6, <1>7

LEMMA PlayKeeps == ASSUME IInv, NEW u \in Users, Play(u) PROVE IInv'
<1> DEFINE id == Len(boards) + 1
<1>1. PICK kept \in Kept(u) :
        /\ \E fighter \in Fighters(Restored(u, kept)) :
             Serve(u, kept,
                   [Restored(u, kept) EXCEPT
                      !.match = [id |-> id, fighter |-> fighter, canPay |-> FALSE],
                      !.armed = FALSE, !.mint = MintAfter(Restored(u, kept), fighter)])
        /\ boards' = Append(boards, [user |-> u, shows |-> id])
  BY DEF Play
<1>2. PICK r : r = Restored(u, kept)
  OBVIOUS
<1>3. /\ r \in UserState /\ Told(u, r)
      /\ \A v \in DOMAIN states \ {u} : Apart(r, states[v])
  BY <1>2, RestoredTold DEF Told
<1>4. PICK fighter, s2 :
        /\ fighter \in Fighters(r)
        /\ s2 = [r EXCEPT !.match = [id |-> id, fighter |-> fighter, canPay |-> FALSE],
                          !.armed = FALSE, !.mint = MintAfter(r, fighter)]
        /\ Serve(u, kept, s2)
  BY <1>1, <1>2
<1>5. UNCHANGED <<services, owner, rosters>>
  BY DEF Play
<1>6. Len(boards) \in Nat /\ id \in Ids
  BY DEF Play, Ids, IInv, Around
<1>7. Around' /\ Len(boards') = id
  BY <1>1, <1>5, <1>6 DEF services, IInv, Around
<1>8. fighter \in Mints \cup {Starter} /\ MintAfter(r, fighter) \in Mints \cup {None}
  BY <1>3, <1>4 DEF Fighters, MintAfter, UserState
<1> HIDE DEF id
<1>9. /\ s2 \in UserState /\ s2.match # None /\ s2.match.id = id /\ ~ s2.armed
      /\ s2.token = r.token /\ s2.wallet = r.wallet /\ s2.nonce = r.nonce
  <2>1. [id |-> id, fighter |-> fighter, canPay |-> FALSE] \in Match
    BY <1>6, <1>8 DEF Match
  <2>2. [id |-> id, fighter |-> fighter, canPay |-> FALSE] # None
    BY NoneIsNoMatch, <2>1
  <2> QED BY <1>3, <1>4, <1>8, <2>1, <2>2 DEF UserState
<1>10. Told(u, s2)'
  BY <1>3, <1>5, <1>6, <1>7, <1>9 DEF Told, services
<1>11. ASSUME NEW v \in DOMAIN states \ {u} PROVE Apart(s2, states[v])
  <2>1. Told(v, states[v]) /\ Apart(r, states[v])
    BY <1>3 DEF IInv
  <2>2. states[v].match # None => states[v].match.id # id
    <3>1. states[v].match # None => states[v].match \in Match
      BY <2>1 DEF Told, UserState
    <3>2. states[v].match # None => states[v].match.id \in Int
      BY <3>1 DEF Match, Ids
    <3> QED BY <1>6, <2>1, <3>2 DEF Told, id
  <2> QED BY <1>9, <2>1, <2>2 DEF Apart
<1>12. \A v : \A s \in UserState : Told(v, s) => Told(v, s)'
  BY <1>5, <1>6, <1>7, StaysToldQuietly DEF id
<1> QED BY <1>4, <1>7, <1>10, <1>11, <1>12, ServingKeeps

\* A button of a board leaves the services, and the number of boards, alone.
LEMMA TapKeeps ==
  ASSUME IInv, NEW u \in Users, NEW b, NEW kept \in Kept(u), NEW r, NEW s2, NEW id,
         r = Restored(u, kept), r.match # None, Tapped(u, b), Shows(b, id), id \in {0, r.match.id},
         UNCHANGED <<services, owner, rosters>>, Serve(u, kept, s2),
         s2 \in UserState, s2.token = r.token, s2.wallet = r.wallet, s2.nonce = r.nonce,
         s2.armed => s2.match # None /\ s2.match.canPay,
         s2.match # None => s2.match.id = r.match.id
  PROVE  IInv'
<1>1. /\ r \in UserState /\ Told(u, r)
      /\ \A v \in DOMAIN states \ {u} : Apart(r, states[v])
  BY RestoredTold DEF Told
<1>2. r.match.id \in Ids
  BY <1>1 DEF UserState, Match
<1>3. Around' /\ Len(boards') = Len(boards) /\ Len(boards) \in Nat
  <2>1. boards \in Seq([user : Users, shows : {0} \cup Ids]) /\ b \in DOMAIN boards
    BY DEF IInv, Around, Tapped
  <2>2. [boards[b] EXCEPT !.shows = id] \in [user : Users, shows : {0} \cup Ids]
    <3> DEFINE Board == [user : Users, shows : {0} \cup Ids]
    <3>1. boards \in Seq(Board) /\ b \in 1 .. Len(boards)
      BY <2>1
    <3> HIDE DEF Board
    <3>2. boards[b] \in Board
      BY <3>1
    <3>3. id \in {0} \cup Ids
      BY <1>2
    <3> QED BY <3>2, <3>3 DEF Board
  <2>3. boards' = [boards EXCEPT ![b] = [boards[b] EXCEPT !.shows = id]]
    BY <2>1 DEF Shows
  <2>4. boards' \in Seq([user : Users, shows : {0} \cup Ids]) /\ Len(boards') = Len(boards)
    BY <2>1, <2>2, <2>3
  <2> QED BY <2>1, <2>4 DEF services, IInv, Around
<1>4. Told(u, s2)
  BY <1>1 DEF Told
<1>5. \A v \in DOMAIN states \ {u} : Apart(s2, states[v])
  BY <1>1 DEF Apart
<1> QED BY <1>3, <1>4, <1>5, QuietServingKeeps

LEMMA EndedEnds ==
  ASSUME NEW r \in UserState
  PROVE  /\ Ended(r) \in UserState /\ ~ Ended(r).armed /\ Ended(r).match = None
         /\ Ended(r).token = r.token /\ Ended(r).wallet = r.wallet /\ Ended(r).nonce = r.nonce
BY EmptyIsAList DEF Ended, UserState

LEMMA StanceKeeps == ASSUME IInv, NEW u \in Users, NEW b, Stance(u, b) PROVE IInv'
<1>1. PICK kept \in Kept(u) :
       LET s == Restored(u, kept)
       IN  /\ s.match # None
           /\ \/ Serve(u, kept, Ended(s)) /\ Shows(b, 0)
              \/ /\ \E paid \in BOOLEAN :
                      Serve(u, kept, [s EXCEPT !.armed = FALSE, !.match.canPay = paid])
                 /\ Shows(b, s.match.id)
  BY DEF Stance
<1>2. PICK r : r = Restored(u, kept)
  OBVIOUS
<1>3. Tapped(u, b) /\ UNCHANGED <<services, owner, rosters>>
  BY DEF Stance
<1>4. r \in UserState /\ r.match # None
  BY <1>1, <1>2, RestoredTold DEF Told
<1>5. CASE Serve(u, kept, Ended(r)) /\ Shows(b, 0)
  <2>1. PICK s2 : s2 = Ended(r)
    OBVIOUS
  <2> QED BY <1>2, <1>3, <1>4, <1>5, <2>1, EndedEnds, TapKeeps
<1>6. ASSUME NEW paid \in BOOLEAN, Shows(b, r.match.id),
             Serve(u, kept, [r EXCEPT !.armed = FALSE, !.match.canPay = paid])
      PROVE  IInv'
  <2>1. PICK s2 : s2 = [r EXCEPT !.armed = FALSE, !.match.canPay = paid]
    OBVIOUS
  <2>2. r.match \in Match
    BY <1>4 DEF UserState
  <2>3. /\ [r.match EXCEPT !.canPay = paid] \in Match
        /\ [r.match EXCEPT !.canPay = paid].id = r.match.id
    BY <2>2 DEF Match
  <2>4. /\ s2 \in UserState /\ s2.match.id = r.match.id /\ ~ s2.armed
        /\ s2.token = r.token /\ s2.wallet = r.wallet /\ s2.nonce = r.nonce
    BY <1>4, <2>1, <2>3 DEF UserState
  <2>5. Serve(u, kept, s2)
    BY <1>6, <2>1
  <2>6. PICK id : id = r.match.id
    OBVIOUS
  <2> QED BY <1>2, <1>3, <1>4, <1>6, <2>4, <2>5, <2>6, TapKeeps
<1> QED BY <1>1, <1>2, <1>5, <1>6

LEMMA SoulKeeps == ASSUME IInv, NEW u \in Users, NEW b, Soul(u, b) PROVE IInv'
<1>1. PICK kept \in Kept(u) :
       LET s == Restored(u, kept)
       IN  /\ s.match # None /\ s.match.canPay
           /\ Serve(u, kept, [s EXCEPT !.armed = ~@])
           /\ Shows(b, s.match.id)
  BY DEF Soul
<1>2. PICK r : r = Restored(u, kept)
  OBVIOUS
<1>3. PICK s2, id : s2 = [r EXCEPT !.armed = ~@] /\ id = r.match.id
  OBVIOUS
<1>4. Tapped(u, b) /\ UNCHANGED <<services, owner, rosters>>
  BY DEF Soul
<1>5. r \in UserState /\ r.match # None
  BY <1>1, <1>2, RestoredTold DEF Told
<1>6. /\ s2 \in UserState /\ s2.match = r.match
      /\ s2.token = r.token /\ s2.wallet = r.wallet /\ s2.nonce = r.nonce
  BY <1>3, <1>5 DEF UserState
<1> QED BY <1>1, <1>2, <1>3, <1>4, <1>5, <1>6, TapKeeps

LEMMA QuitKeeps == ASSUME IInv, NEW u \in Users, NEW b, Quit(u, b) PROVE IInv'
<1>1. PICK kept \in Kept(u) :
       LET s == Restored(u, kept)
       IN  s.match # None /\ Serve(u, kept, Ended(s)) /\ Shows(b, 0)
  BY DEF Quit
<1>2. PICK r, s2 : r = Restored(u, kept) /\ s2 = Ended(r)
  OBVIOUS
<1>3. Tapped(u, b) /\ UNCHANGED <<services, owner, rosters>>
  BY DEF Quit
<1>4. r \in UserState /\ r.match # None
  BY <1>1, <1>2, RestoredTold DEF Told
<1> QED BY <1>1, <1>2, <1>3, <1>4, EndedEnds, TapKeeps

\* A change of anything but the conversations that leaves no session, board or
\* challenge new.
LEMMA OutsideKeeps ==
  ASSUME IInv, UNCHANGED <<states, order, drawn, last>>, Around', Len(boards') = Len(boards),
         DOMAIN live' \subseteq DOMAIN live, \A t \in DOMAIN live' : live'[t] = live[t]
  PROVE  IInv'
<1>1. InOrder'
  BY DEF IInv, InOrder, Once, Members
<1>2. \A v : \A s : Told(v, s) => Told(v, s)'
  BY DEF Told
<1>3. ASSUME NEW v \in DOMAIN states' PROVE Told(v, states[v])'
  <2>1. PICK s : s = states[v]
    OBVIOUS
  <2> QED BY <1>2, <2>1 DEF IInv, Told
<1>4. \A v, w \in DOMAIN states' : v # w => Apart(states[v], states[w])'
  BY DEF IInv, Apart
<1> QED BY <1>1, <1>3, <1>4 DEF IInv

LEMMA RestartKeeps == ASSUME IInv, Restart PROVE IInv'
<1>1. /\ DOMAIN states' = {} /\ order' = << >> /\ DOMAIN challenges' = {}
      /\ challenges' \in [DOMAIN challenges' -> Wallets] /\ rosters' = {}
      /\ UNCHANGED <<live, drawn, last, owner>>
  BY DEF Restart, NoMap
<1>2. boards' \in Seq([user : Users, shows : {0} \cup Ids])
  <2> DEFINE Board == [user : Users, shows : {0} \cup Ids]
  <2>1. boards \in Seq(Board)
    BY DEF IInv, Around
  <2>2. \A q \in Board : [q EXCEPT !.shows = 0] \in Board
    OBVIOUS
  <2>3. boards' = [i \in 1 .. Len(boards) |-> [boards[i] EXCEPT !.shows = 0]]
    BY <2>1 DEF Restart
  <2> HIDE DEF Board
  <2>4. \A i \in 1 .. Len(boards) : boards[i] \in Board
    BY <2>1
  <2>5. boards' \in Seq(Board)
    BY <2>1, <2>2, <2>3, <2>4
  <2> QED BY <2>5 DEF Board
<1>3. InOrder'
  BY <1>1 DEF InOrder, Once, Members
<1>4. Around'
  BY <1>1, <1>2 DEF IInv, Around
<1> QED BY <1>1, <1>3, <1>4 DEF IInv

LEMMA InvariantHolds == Init => IInv
<1> SUFFICES ASSUME Init PROVE IInv
  OBVIOUS
<1>1. InOrder
  BY DEF Init, InOrder, Once, Members, NoMap
<1>2. Around
  BY DEF Init, Around, NoMap
<1> QED BY <1>1, <1>2 DEF Init, IInv, NoMap

LEMMA InvariantIsKept == IInv /\ [Next]_vars => IInv'
<1> SUFFICES ASSUME IInv, [Next]_vars PROVE IInv'
  OBVIOUS
<1>1. ASSUME NEW u \in Users, Update(u) PROVE IInv'
  BY <1>1, IdlyKeeps, ConnectKeeps, SignedKeeps, DisconnectKeeps, RosterKeeps, PickKeeps,
     PlayKeeps, StanceKeeps, SoulKeeps, QuitKeeps DEF Update
<1>2. CASE Transfer
  <2>1. UNCHANGED <<states, order, live, challenges, drawn, last, boards, rosters>>
    BY <1>2 DEF Transfer, services, messages
  <2>2. owner' \in [Mints -> Wallets]
    BY <1>2 DEF Transfer, IInv, Around
  <2> QED BY <2>1, <2>2, OutsideKeeps DEF IInv, Around
<1>3. CASE SessionEnds
  <2>1. UNCHANGED <<states, order, challenges, drawn, last, owner, boards, rosters>>
    BY <1>3 DEF SessionEnds, messages
  <2>2. /\ DOMAIN live' \subseteq DOMAIN live /\ live' \in [DOMAIN live' -> Wallets]
        /\ \A t \in DOMAIN live' : live'[t] = live[t]
    BY <1>3 DEF SessionEnds, Without, IInv, Around
  <2> QED BY <2>1, <2>2, OutsideKeeps DEF IInv, Around
<1>4. CASE ChallengeLapses
  <2>1. UNCHANGED <<states, order, live, drawn, last, owner, boards, rosters>>
    BY <1>4 DEF ChallengeLapses, messages
  <2>2. DOMAIN challenges' \subseteq Nonces /\ challenges' \in [DOMAIN challenges' -> Wallets]
    BY <1>4 DEF ChallengeLapses, Without, IInv, Around
  <2> QED BY <2>1, <2>2, OutsideKeeps DEF IInv, Around
<1>5. CASE Restart
  BY <1>5, RestartKeeps
<1>6. CASE UNCHANGED vars
  BY <1>6, OutsideKeeps DEF vars, services, messages, IInv, Around
<1> QED BY <1>1, <1>2, <1>3, <1>4, <1>5, <1>6 DEF Next

THEOREM InvariantAlways == Spec => []IInv
BY InvariantHolds, InvariantIsKept, PTL DEF Spec
-----------------------------------------------------------------------------
\* An order of the states, each once, is as long as they are many.
LEMMA OrderCounts ==
  ASSUME InOrder
  PROVE  IsFiniteSet(DOMAIN states) /\ Cardinality(DOMAIN states) = Len(order)
<1>1. order \in Bijection(1 .. Len(order), DOMAIN states)
  <2>1. /\ order \in [1 .. Len(order) -> DOMAIN states]
        /\ \A i, j \in 1 .. Len(order) : order[i] = order[j] => i = j
        /\ \A u \in DOMAIN states : \E i \in 1 .. Len(order) : order[i] = u
    BY DEF InOrder, Once, Members
  <2> QED BY <2>1 DEF Bijection, Injection, Surjection, IsInjective
<1>2. IsFiniteSet(1 .. Len(order)) /\ Cardinality(1 .. Len(order)) = Len(order)
  <2> DEFINE n == Len(order)
  <2>1. n \in Nat
    BY DEF InOrder
  <2> HIDE DEF n
  <2>2. IsFiniteSet(1 .. n) /\ Cardinality(1 .. n) = IF 1 > n THEN 0 ELSE n - 1 + 1
    BY <2>1, FS_Interval
  <2>3. IsFiniteSet(1 .. n) /\ Cardinality(1 .. n) = n
    BY <2>1, <2>2
  <2> QED BY <2>3 DEF n
<1>3. ExistsBijection(1 .. Len(order), DOMAIN states)
  BY <1>1 DEF ExistsBijection
<1> QED BY <1>2, <1>3, FS_Bijection

\* Every variable has its type in every state: BotHandlers and StateStore hold
\* what their annotations say, and the order of the store is its states.
THEOREM ConversationTypeCorrect == Spec => []TypeOK
<1>1. ASSUME IInv PROVE TypeOK
  <2>1. DOMAIN states \subseteq Users
    BY <1>1 DEF IInv, InOrder, Members
  <2>2. \A u \in DOMAIN states : states[u] \in UserState
    BY <1>1 DEF IInv, Told
  <2>3. states \in [DOMAIN states -> UserState]
    BY <1>1, <2>2 DEF IInv, InOrder
  <2>4. /\ order \in Seq(Users) /\ {order[i] : i \in DOMAIN order} = DOMAIN states
        /\ Len(order) = Cardinality(DOMAIN states)
    BY <1>1, OrderCounts DEF IInv, InOrder, Members
  <2> QED BY <1>1, <2>1, <2>3, <2>4 DEF IInv, Around, TypeOK
<1> QED BY <1>1, InvariantAlways, PTL

\* StateStore.get never lets the store grow past max_users, whatever expires.
THEOREM StoreStaysBounded == Spec => []StoreIsBounded
<1>1. IInv => StoreIsBounded
  BY OrderCounts DEF IInv, InOrder, StoreIsBounded
<1> QED BY <1>1, InvariantAlways, PTL

\* No handler leaves a soul armed for a match that is over or cannot pay it.
THEOREM ArmedCanAlwaysPay == Spec => []ArmedCanPay
<1>1. IInv => ArmedCanPay
  BY DEF IInv, Told, ArmedCanPay
<1> QED BY <1>1, InvariantAlways, PTL

\* No two conversations share a session or a match, and a session names the
\* wallet it is of.
THEOREM ConversationsStayApart == Spec => []ConversationsAreSeparate
<1>1. IInv => ConversationsAreSeparate
  BY DEF IInv, Told, Apart, ConversationsAreSeparate
<1> QED BY <1>1, InvariantAlways, PTL

-----------------------------------------------------------------------------
\* Who enters a match, or is connected, is whom the step serves.
LEMMA OnlyTheServed ==
  ASSUME IInv, NEW u \in Users, NEW kept \in Kept(u), NEW s2, Serve(u, kept, s2),
         Enters(u, s2.match) /\ s2.match.fighter # Starter
           => s2.token \in DOMAIN live /\ live[s2.token] = owner[s2.match.fighter],
         Connects(u, s2.token)
           => last[u] \in DOMAIN challenges /\ s2.wallet = challenges[last[u]]
  PROVE  EntrantsAreHeld /\ ConnectedByTheLast
<1>1. /\ u \in DOMAIN states' /\ states'[u] = s2
      /\ \A v \in DOMAIN states' \ {u} : v \in DOMAIN states /\ states'[v] = states[v]
  BY ServedAlone DEF IInv
<1>2. EntrantsAreHeld
  BY <1>1 DEF EntrantsAreHeld, Enters
<1>3. ConnectedByTheLast
  BY <1>1 DEF ConnectedByTheLast, Connects
<1> QED BY <1>2, <1>3

\* A handler that leaves the match as it is or ends it, and the token as it is
\* or forgets it, lets nobody in.
LEMMA NothingNew ==
  ASSUME IInv, NEW u \in Users, NEW kept \in Kept(u), NEW r, NEW s2,
         r = Restored(u, kept), Serve(u, kept, s2),
         s2.match # None => r.match # None /\ s2.match.id = r.match.id,
         s2.token \in {None, r.token}
  PROVE  EntrantsAreHeld /\ ConnectedByTheLast
<1>1. CASE r = Fresh
  BY <1>1, OnlyTheServed DEF Fresh, Enters, Connects
<1>2. CASE u \in DOMAIN states /\ r = states[u]
  BY <1>2, OnlyTheServed DEF Enters, Connects
<1> QED BY <1>1, <1>2, RestoredOwn DEF IInv

LEMMA StepIsFair == IInv /\ Next => EntrantsAreHeld /\ ConnectedByTheLast
<1> SUFFICES ASSUME IInv, Next PROVE EntrantsAreHeld /\ ConnectedByTheLast
  OBVIOUS
<1>1. ASSUME NEW u \in Users, NEW kept \in Kept(u)
      PROVE  Restored(u, kept) \in UserState /\ Told(u, Restored(u, kept))
  BY <1>1, RestoredTold DEF Told
<1>2. ASSUME NEW u \in Users, Idly(u) PROVE EntrantsAreHeld /\ ConnectedByTheLast
  <2>1. PICK kept, r : kept \in Kept(u) /\ r = Restored(u, kept) /\ Serve(u, kept, r)
    BY <1>2 DEF Idly
  <2> QED BY <2>1, NothingNew
<1>3. ASSUME NEW u \in Users, Connect(u) PROVE EntrantsAreHeld /\ ConnectedByTheLast
  <2>1. PICK kept, r, n, s2 :
          /\ kept \in Kept(u)
          /\ r = Restored(u, kept) /\ s2 = [r EXCEPT !.nonce = n] /\ Serve(u, kept, s2)
    BY <1>3 DEF Connect
  <2>2. s2.match = r.match /\ s2.token = r.token
    BY <1>1, <2>1 DEF UserState
  <2> QED BY <2>1, <2>2, NothingNew
<1>4. ASSUME NEW u \in Users, Signed(u) PROVE EntrantsAreHeld /\ ConnectedByTheLast
  <2>1. PICK kept, n, r, s :
          /\ kept \in Kept(u) /\ n \in Nonces \cap drawn
          /\ r = Restored(u, kept) /\ s = [r EXCEPT !.nonce = None] /\ r.nonce # None
          /\ \/ Serve(u, kept, s)
             \/ /\ AnswersPending(n, r.nonce)
                /\ \E t \in Tokens \ drawn :
                     Serve(u, kept, [s EXCEPT !.token = t, !.wallet = challenges[n],
                                              !.mint = None])
    BY <1>4 DEF Signed
  <2>2. s.match = r.match /\ s.token = r.token /\ r \in UserState /\ s \in UserState
    BY <1>1, <2>1 DEF UserState
  <2>3. CASE Serve(u, kept, s)
    BY <2>1, <2>2, <2>3, NothingNew
  <2>4. ASSUME NEW t \in Tokens \ drawn, NEW s2, AnswersPending(n, r.nonce), Serve(u, kept, s2),
               s2 = [s EXCEPT !.token = t, !.wallet = challenges[n], !.mint = None]
        PROVE  EntrantsAreHeld /\ ConnectedByTheLast
    <3>1. s2.match = r.match /\ s2.wallet = challenges[n]
      BY <2>2, <2>4 DEF UserState
    <3>2. last[u] = n /\ n \in DOMAIN challenges
      BY <1>1, <2>1, <2>4 DEF Told, AnswersPending
    <3>3. r = Restored(u, kept) /\ kept \in Kept(u)
      BY <2>1
    <3>4. r = Fresh \/ (u \in DOMAIN states /\ r = states[u])
      BY <3>3, RestoredOwn DEF IInv
    <3>5. ~ Enters(u, s2.match)
      BY <3>1, <3>4 DEF Enters, Fresh
    <3> QED BY <2>4, <3>1, <3>2, <3>5, <3>3, OnlyTheServed
  <2> QED BY <2>1, <2>3, <2>4
<1>5. ASSUME NEW u \in Users, Disconnect(u) PROVE EntrantsAreHeld /\ ConnectedByTheLast
  <2>1. PICK kept \in Kept(u) : states' = [v \in Members(kept) \ {u} |-> states[v]]
    BY <1>5 DEF Disconnect, Members
  <2>2. \A v \in DOMAIN states' : v \in DOMAIN states /\ states'[v] = states[v]
    BY <2>1, KeptHasRoom DEF IInv
  <2> QED BY <2>2 DEF EntrantsAreHeld, Enters, ConnectedByTheLast, Connects
<1>6. ASSUME NEW u \in Users, Roster(u) PROVE EntrantsAreHeld /\ ConnectedByTheLast
  <2>1. PICK kept, r, s2, listed :
          /\ kept \in Kept(u)
          /\ r = Restored(u, kept) /\ Serve(u, kept, s2)
          /\ \/ s2 = [r EXCEPT !.token = None, !.wallet = None]
             \/ s2 = [r EXCEPT !.roster = listed]
    BY <1>6 DEF Roster
  <2>2. s2.match = r.match /\ s2.token \in {None, r.token}
    BY <1>1, <2>1 DEF UserState
  <2> QED BY <2>1, <2>2, NothingNew
<1>7. ASSUME NEW u \in Users, NEW shown, NEW i, Pick(u, shown, i)
      PROVE  EntrantsAreHeld /\ ConnectedByTheLast
  <2>1. PICK kept, r, s2, m :
          /\ kept \in Kept(u)
          /\ r = Restored(u, kept) /\ Serve(u, kept, s2)
          /\ s2 = [r EXCEPT !.token = None] \/ s2 = [r EXCEPT !.mint = m]
    BY <1>7 DEF Pick
  <2>2. s2.match = r.match /\ s2.token \in {None, r.token}
    BY <1>1, <2>1 DEF UserState
  <2> QED BY <2>1, <2>2, NothingNew
<1>8. ASSUME NEW u \in Users, Play(u) PROVE EntrantsAreHeld /\ ConnectedByTheLast
  <2>1. PICK kept, r, fighter, s2 :
          /\ kept \in Kept(u)
          /\ r = Restored(u, kept) /\ fighter \in Fighters(r) /\ Serve(u, kept, s2)
          /\ s2 = [r EXCEPT !.match = [id |-> Len(boards) + 1, fighter |-> fighter,
                                       canPay |-> FALSE],
                            !.armed = FALSE, !.mint = MintAfter(r, fighter)]
    BY <1>8 DEF Play
  <2>2. s2.match.fighter = fighter /\ s2.token = r.token /\ r \in UserState
    BY <1>1, <2>1 DEF UserState
  <2>3. fighter # Starter => s2.token \in DOMAIN live /\ live[s2.token] = owner[fighter]
    BY <2>1, <2>2 DEF Fighters, Holds
  <2>4. ~ Connects(u, s2.token)
    BY <2>1, <2>2, RestoredOwn DEF Connects, Fresh, IInv
  <2> QED BY <2>1, <2>2, <2>3, <2>4, OnlyTheServed
<1>9. ASSUME NEW u \in Users, NEW b, Stance(u, b) \/ Soul(u, b) \/ Quit(u, b)
      PROVE  EntrantsAreHeld /\ ConnectedByTheLast
  <2>1. PICK kept, r, s2, paid :
          /\ kept \in Kept(u)
          /\ r = Restored(u, kept) /\ r.match # None /\ Serve(u, kept, s2)
          /\ \/ s2 = Ended(r)
             \/ s2 = [r EXCEPT !.armed = FALSE, !.match.canPay = paid]
             \/ s2 = [r EXCEPT !.armed = ~@]
    BY <1>9 DEF Stance, Soul, Quit
  <2>2. r \in UserState /\ r.match \in Match
    BY <1>1, <2>1 DEF UserState
  <2>3. s2.token = r.token /\ (s2.match # None => s2.match.id = r.match.id)
    <3>1. CASE s2 = Ended(r)
      BY <2>2, <3>1, EndedEnds
    <3>2. CASE s2 = [r EXCEPT !.armed = FALSE, !.match.canPay = paid]
      BY <2>2, <3>2 DEF UserState, Match
    <3>3. CASE s2 = [r EXCEPT !.armed = ~@]
      BY <2>2, <3>3 DEF UserState
    <3> QED BY <2>1, <3>1, <3>2, <3>3
  <2> QED BY <2>1, <2>3, NothingNew
<1>10. ASSUME UNCHANGED states PROVE EntrantsAreHeld /\ ConnectedByTheLast
  BY <1>10 DEF EntrantsAreHeld, Enters, ConnectedByTheLast, Connects
<1>11. CASE Transfer \/ SessionEnds \/ ChallengeLapses
  BY <1>10, <1>11 DEF Transfer, SessionEnds, ChallengeLapses
<1>12. CASE Restart
  BY <1>12 DEF Restart, NoMap, EntrantsAreHeld, ConnectedByTheLast
<1> QED BY <1>2, <1>3, <1>4, <1>5, <1>6, <1>7, <1>8, <1>9, <1>11, <1>12 DEF Next, Update

\* /play checks again: whoever was sold, logged out or restarted in between
\* fights with a starter.
THEOREM OnlyTheHeldFight == Spec => FightsOnlyWhatItHolds
<1>1. IInv /\ [Next]_vars => [EntrantsAreHeld]_vars
  BY StepIsFair
<1> QED BY <1>1, InvariantAlways, PTL DEF Spec, FightsOnlyWhatItHolds

\* A session is handed to a conversation only for the challenge it was shown
\* last, and names the wallet of that challenge.
THEOREM TheLastChallengeConnects == Spec => OnlyTheLastChallengeConnects
<1>1. IInv /\ [Next]_vars => [ConnectedByTheLast]_vars
  BY StepIsFair
<1> QED BY <1>1, InvariantAlways, PTL DEF Spec, OnlyTheLastChallengeConnects
=============================================================================
