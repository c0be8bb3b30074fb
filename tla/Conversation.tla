----------------------------- MODULE Conversation -----------------------------
(***************************************************************************)
(* BotHandlers over a StateStore: what the Telegram bot remembers of each  *)
(* player, and what the commands and buttons of its messages do to it.     *)
(* The loop handles one update at a time, so a handler is one step; the    *)
(* wallets, the sessions and the chain change between any two of them.     *)
(* WalletService is taken at its answers, with verification switched on;   *)
(* of a match only who fights and whether a soul can be paid is kept.      *)
(***************************************************************************)
EXTENDS Integers, FiniteSets, Sequences

CONSTANTS Users, Wallets, Mints,
          Nonces, Tokens,      \* those the services can draw in a run
          MaxUsers,            \* max_users of the StateStore
          MaxMatches,          \* bound on the matches of a run
          None, Starter        \* None; the fighter of a player without an NFT

ASSUME ConversationIsValid ==
  /\ MaxUsers \in Nat \ {0} /\ MaxMatches \in Nat /\ IsFiniteSet(Mints)
  /\ None \notin Wallets \cup Mints \cup Nonces \cup Tokens /\ Starter \notin Mints

VARIABLES states,      \* user -> UserState, for those the store keeps
          order,       \* the same users, least recently seen first
          live,        \* token -> wallet: the sessions of the session store
          challenges,  \* nonce -> wallet: the challenges outstanding
          owner,       \* mint -> wallet, on the chain
          boards,      \* for each board sent, whose it is and the match it shows
          rosters,     \* the roster messages sent: whose, and what was listed
          drawn,       \* tokens and nonces used up
          last         \* history: user -> the challenge shown to it last

services == <<live, challenges, drawn, last>>
messages == <<boards, rosters>>
vars == <<states, order, services, owner, messages>>

NoMap == [x \in {} |-> x]
Without(map, x) == [y \in DOMAIN map \ {x} |-> map[y]]
With(map, x, v) == [y \in DOMAIN map \cup {x} |-> IF y = x THEN v ELSE map[y]]

Ids == 1 .. MaxMatches
Match == [id : Ids, fighter : Mints \cup {Starter}, canPay : BOOLEAN]
ASSUME NoneIsNoMatch == None \notin Match
Lists == UNION {[1 .. n -> Mints] : n \in 0 .. Cardinality(Mints)}
UserState == [token : Tokens \cup {None}, wallet : Wallets \cup {None},
              nonce : Nonces \cup {None}, mint : Mints \cup {None},
              match : Match \cup {None}, armed : BOOLEAN, roster : Lists]
Fresh == [token |-> None, wallet |-> None, nonce |-> None, mint |-> None,
          match |-> None, armed |-> FALSE, roster |-> << >>]

Init ==
  /\ states = NoMap /\ order = << >>
  /\ live = NoMap /\ challenges = NoMap
  /\ owner \in [Mints -> Wallets]
  /\ boards = << >> /\ rosters = {}
  /\ drawn = {}
  /\ last = [u \in Users |-> None]

-----------------------------------------------------------------------------
\* StateStore.get: the idle, who are the first of the order, go; a newcomer to
\* a full store takes the place of the least recently seen.
Others(seq, u) ==
  IF \A i \in DOMAIN seq : seq[i] # u THEN seq
  ELSE LET place == CHOOSE i \in DOMAIN seq : seq[i] = u
       IN  [i \in 1 .. Len(seq) - 1 |-> IF i < place THEN seq[i] ELSE seq[i + 1]]
IsFullLate(n) == n > MaxUsers
IsFull(n) == n >= MaxUsers
Kept(u) ==
  {LET awake == SubSeq(order, k + 1, Len(order))
   IN  IF (\A i \in DOMAIN awake : awake[i] # u) /\ IsFull(Len(awake)) THEN Tail(awake) ELSE awake
     : k \in 0 .. Len(order)}
Restored(u, kept) == IF \E i \in DOMAIN kept : kept[i] = u THEN states[u] ELSE Fresh

\* u's update is handled from s, and leaves s2 behind.
Serve(u, kept, s2) ==
  /\ order' = Append(Others(kept, u), u)
  /\ states' = [v \in {kept[i] : i \in DOMAIN kept} \cup {u} |-> IF v = u THEN s2 ELSE states[v]]

\* The wallet behind a session, and whether it holds a mint.
HoldsCached(t, m) == t \in DOMAIN live
Holds(t, m) == t \in DOMAIN live /\ owner[m] = live[t]

\* end_match
EndedStillArmed(s) == [s EXCEPT !.match = None, !.roster = << >>]
Ended(s) == [s EXCEPT !.match = None, !.armed = FALSE, !.roster = << >>]

-----------------------------------------------------------------------------
\* /start, /help, /whoami, text that is no command, and every message that is
\* refused after the state was fetched.
Idly(u) ==
  /\ \E kept \in Kept(u) : Serve(u, kept, Restored(u, kept))
  /\ UNCHANGED <<services, owner, messages>>

\* /connect with an address, in a private chat.
Connect(u) ==
  /\ \E kept \in Kept(u), n \in Nonces \ drawn, w \in Wallets :
       /\ Serve(u, kept, [Restored(u, kept) EXCEPT !.nonce = n])
       /\ challenges' = With(challenges, n, w)
       /\ drawn' = drawn \cup {n}
       /\ last' = [last EXCEPT ![u] = n]
  /\ UNCHANGED <<live, owner, messages>>

\* /signed: the pending challenge is given up, though a malformed signature
\* leaves it outstanding; it connects if what was signed is that challenge, still
\* outstanding, and a session can be stored.
AnswersAny(n, pending) == n \in DOMAIN challenges
AnswersPending(n, pending) == n = pending /\ n \in DOMAIN challenges
Signed(u) ==
  /\ \E kept \in Kept(u), n \in Nonces \cap drawn :
       LET s == [Restored(u, kept) EXCEPT !.nonce = None]
           pending == Restored(u, kept).nonce
       IN  /\ pending # None
           /\ \/ /\ Serve(u, kept, s)
                 /\ challenges' \in {challenges, Without(challenges, pending)}
                 /\ UNCHANGED <<live, drawn>>
              \/ /\ AnswersPending(n, pending)
                 /\ challenges' = Without(challenges, pending)
                 /\ \E t \in Tokens \ drawn :
                      /\ live' = With(live, t, challenges[n])
                      /\ drawn' = drawn \cup {t}
                      /\ Serve(u, kept, [s EXCEPT !.token = t, !.wallet = challenges[n],
                                                  !.mint = None])
  /\ UNCHANGED <<owner, messages, last>>

\* /disconnect: the session store may fail, and the conversation is forgotten.
Disconnect(u) ==
  /\ \E kept \in Kept(u) :
       /\ order' = Others(kept, u)
       /\ states' = [v \in {kept[i] : i \in DOMAIN kept} \ {u} |-> states[v]]
       /\ live' \in {live, Without(live, Restored(u, kept).token)}
  /\ UNCHANGED <<challenges, drawn, last, owner, messages>>

\* list_owned: what the wallet holds now, in an order of the provider.
Listing(w) ==
  CHOOSE l \in Lists : \A m \in Mints :
    Cardinality({i \in DOMAIN l : l[i] = m}) = IF owner[m] = w THEN 1 ELSE 0

\* /roster and its button; providers that all fail read as nothing held.
Roster(u) ==
  /\ \E kept \in Kept(u) :
       LET s == Restored(u, kept)
       IN  /\ s.token # None
           /\ \/ /\ s.token \notin DOMAIN live
                 /\ Serve(u, kept, [s EXCEPT !.token = None, !.wallet = None])
                 /\ UNCHANGED rosters
              \/ /\ s.token \in DOMAIN live
                 /\ \E listed \in {Listing(live[s.token]), << >>} :
                      /\ Serve(u, kept, [s EXCEPT !.roster = listed])
                      /\ rosters' = rosters \cup {[user |-> u, listed |-> listed]}
  /\ UNCHANGED <<services, owner, boards>>

\* A button of a roster message carries its place in the list, not the mint.
Pick(u, shown, i) ==
  /\ [user |-> u, listed |-> shown] \in rosters /\ i \in DOMAIN shown
  /\ \E kept \in Kept(u) :
       LET s == Restored(u, kept)
       IN  /\ i \in DOMAIN s.roster /\ s.token # None
           /\ \/ /\ s.token \notin DOMAIN live
                 /\ Serve(u, kept, [s EXCEPT !.token = None])
              \/ /\ Holds(s.token, s.roster[i])
                 /\ Serve(u, kept, [s EXCEPT !.mint = s.roster[i]])
  /\ UNCHANGED <<services, owner, messages>>

\* _player_fighter: checked again for every match; the provider may be down.
Fighters(s) ==
  {Starter} \cup (IF s.token # None /\ s.mint # None /\ Holds(s.token, s.mint) THEN {s.mint} ELSE {})
MintAfter(s, fighter) == IF fighter = Starter /\ s.token # None THEN None ELSE s.mint

\* /play and its button: a match running is given up without a word.
Play(u) ==
  /\ Len(boards) < MaxMatches
  /\ \E kept \in Kept(u) :
       LET s == Restored(u, kept)
           id == Len(boards) + 1
       IN  /\ \E fighter \in Fighters(s) :
                Serve(u, kept,
                      [s EXCEPT !.match = [id |-> id, fighter |-> fighter, canPay |-> FALSE],
                                !.armed = FALSE, !.mint = MintAfter(s, fighter)])
           /\ boards' = Append(boards, [user |-> u, shows |-> id])
  /\ UNCHANGED <<services, owner, rosters>>

-----------------------------------------------------------------------------
\* The buttons of a board act on the match of the conversation, and edit the
\* message they are on.
Tapped(u, b) == b \in DOMAIN boards /\ boards[b].user = u /\ boards[b].shows # 0
Shows(b, id) == boards' = [boards EXCEPT ![b].shows = id]

Stance(u, b) ==
  /\ Tapped(u, b)
  /\ \E kept \in Kept(u) :
       LET s == Restored(u, kept)
       IN  /\ s.match # None
           /\ \/ /\ Serve(u, kept, Ended(s))
                 /\ Shows(b, 0)
              \/ /\ \E paid \in BOOLEAN :
                      Serve(u, kept, [s EXCEPT !.armed = FALSE, !.match.canPay = paid])
                 /\ Shows(b, s.match.id)
  /\ UNCHANGED <<services, owner, rosters>>

Soul(u, b) ==
  /\ Tapped(u, b)
  /\ \E kept \in Kept(u) :
       LET s == Restored(u, kept)
       IN  /\ s.match # None
           /\ s.match.canPay
           /\ Serve(u, kept, [s EXCEPT !.armed = ~@])
           /\ Shows(b, s.match.id)
  /\ UNCHANGED <<services, owner, rosters>>

Quit(u, b) ==
  /\ Tapped(u, b)
  /\ \E kept \in Kept(u) :
       LET s == Restored(u, kept)
       IN  /\ s.match # None
           /\ Serve(u, kept, Ended(s))
           /\ Shows(b, 0)
  /\ UNCHANGED <<services, owner, rosters>>

-----------------------------------------------------------------------------
\* An NFT is sold; a session expires or is revoked elsewhere; a challenge lapses.
Transfer == \E m \in Mints, w \in Wallets :
  /\ owner' = [owner EXCEPT ![m] = w]
  /\ UNCHANGED <<states, order, services, messages>>
SessionEnds == \E t \in DOMAIN live :
  /\ live' = Without(live, t)
  /\ UNCHANGED <<states, order, challenges, drawn, last, owner, messages>>
ChallengeLapses == \E n \in DOMAIN challenges :
  /\ challenges' = Without(challenges, n)
  /\ UNCHANGED <<states, order, live, drawn, last, owner, messages>>

\* The process starts again: its memory is gone, and buttons signed with the
\* key of the one before are refused.
Restart ==
  /\ states' = NoMap /\ order' = << >> /\ challenges' = NoMap
  /\ boards' = [b \in DOMAIN boards |-> [boards[b] EXCEPT !.shows = 0]] /\ rosters' = {}
  /\ UNCHANGED <<live, drawn, last, owner>>

Update(u) ==
  \/ Idly(u) \/ Connect(u) \/ Signed(u) \/ Disconnect(u) \/ Roster(u) \/ Play(u)
  \/ \E shown \in Lists, i \in 1 .. Cardinality(Mints) : Pick(u, shown, i)
  \/ \E b \in Ids : Stance(u, b) \/ Soul(u, b) \/ Quit(u, b)

Next == (\E u \in Users : Update(u)) \/ Transfer \/ SessionEnds \/ ChallengeLapses \/ Restart

Spec == Init /\ [][Next]_vars

-----------------------------------------------------------------------------
TypeOK ==
  /\ DOMAIN states \subseteq Users /\ states \in [DOMAIN states -> UserState]
  /\ order \in Seq(Users)
  /\ {order[i] : i \in DOMAIN order} = DOMAIN states /\ Len(order) = Cardinality(DOMAIN states)
  /\ DOMAIN live \subseteq Tokens /\ live \in [DOMAIN live -> Wallets]
  /\ DOMAIN challenges \subseteq Nonces /\ challenges \in [DOMAIN challenges -> Wallets]
  /\ owner \in [Mints -> Wallets]
  /\ boards \in Seq([user : Users, shows : {0} \cup Ids])
  /\ rosters \subseteq [user : Users, listed : Lists]
  /\ drawn \subseteq Tokens \cup Nonces
  /\ last \in [Users -> Nonces \cup {None}]

\* "A bounded, self-evicting map".
StoreIsBounded == Cardinality(DOMAIN states) <= MaxUsers

\* An armed soul belongs to a match that can pay for it: arming, a round, a
\* forfeit, a new match and an eviction leave none behind.
ArmedCanPay ==
  \A u \in DOMAIN states : states[u].armed => states[u].match # None /\ states[u].match.canPay

\* A live session a conversation holds is of the wallet it names, and no other
\* conversation holds it or plays its match.
ConversationsAreSeparate ==
  \A u \in DOMAIN states :
    /\ states[u].token \in DOMAIN live => live[states[u].token] = states[u].wallet
    /\ \A v \in DOMAIN states \ {u} :
         /\ states[u].token = states[v].token => states[u].token = None
         /\ states[u].match # None /\ states[v].match # None
              => states[u].match.id # states[v].match.id

\* "re-checking ownership every single match": an NFT enters a match only while
\* the wallet of a live session of that player holds it.
Enters(u, new) ==
  new # None /\ (u \notin DOMAIN states \/ states[u].match = None \/ states[u].match.id # new.id)
EntrantsAreHeld ==
  \A u \in DOMAIN states' :
    LET new == states'[u].match
    IN  Enters(u, new) /\ new.fighter # Starter
          => /\ states'[u].token \in DOMAIN live
             /\ live[states'[u].token] = owner[new.fighter]
FightsOnlyWhatItHolds == [][EntrantsAreHeld]_vars

\* "a second /connect replaces the first, so an old challenge cannot be
\* answered later": a player is connected by the last challenge it was shown.
Connects(u, t) == t # None /\ (u \notin DOMAIN states \/ states[u].token # t)
ConnectedByTheLast ==
  \A u \in DOMAIN states' :
    Connects(u, states'[u].token)
      => last[u] \in DOMAIN challenges /\ states'[u].wallet = challenges[last[u]]
OnlyTheLastChallengeConnects == [][ConnectedByTheLast]_vars

\* "Picking 'Pilot' and being handed a fighter called something else reads as
\* the bot losing your choice": a pick chooses what stood at its place.
PickIsWhatWasShown ==
  [][\A u \in Users : \A shown \in Lists : \A i \in DOMAIN shown :
       Pick(u, shown, i) => states'[u].mint \in {shown[i]} \cup {Restored(u, order).mint}]_vars

\* "a whole match is one message".
WholeMatchIsOneMessage ==
  \A b, c \in DOMAIN boards : b # c /\ boards[b].shows = boards[c].shows => boards[b].shows = 0

\* "End the session and forget the conversation entirely."
DisconnectEndsTheSession ==
  [][\A u \in DOMAIN states :
       Disconnect(u) => states[u].token \notin DOMAIN live']_vars
=============================================================================
