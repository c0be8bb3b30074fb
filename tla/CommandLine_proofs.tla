-------------------------- MODULE CommandLine_proofs --------------------------
(***************************************************************************)
(* Theorems about CommandLine for any number of processes, commands,       *)
(* wallets and NFTs, every chain of providers and every limit, and about   *)
(* Resilience, which their calls go through, for every number of callers   *)
(* and every policy.                                                       *)
(***************************************************************************)
EXTENDS CommandLine, Resilience, FiniteSetTheorems, TLAPS

\* What a look has seen of its wallet, and what is told from it.
Sees(f, own) == Held(f.wallet, own) \subseteq f.held /\ Assets \ Held(f.wallet, own) \subseteq f.lacked
Lists(f, found) ==
  Cardinality(f.held) <= Lesser(LookLimit(f), MaxPage) =>
    Assets \ (f.lacked \cup OddAssets) \subseteq found
Denied(f) == Cardinality(f.held) <= MaxPage => f.want \in f.lacked \cup OddAssets
\* A session that was issued to the wallet, and not over when the command began.
Earned(f, sessions) ==
  f.token \in DOMAIN sessions /\ sessions[f.token] = f.wallet /\ f.token \notin f.dead

Steps(f, set) == IF f.on THEN Len(set.chain) ELSE 1
\* Nothing is promised of an empty answer of this provider or chain.
MayBeEmpty(set) == set.failover \/ set.chain[1] = "null"

Asks(f, set, own, sessions) ==
  /\ f.purpose \in {"owns", "list"} /\ f.k \in 1 .. Steps(f, set) /\ f.page \in 1 .. MaxPages
  /\ Sees(f, own) /\ f.found \subseteq f.held
  /\ f.purpose = "owns" => f.want \in Assets
  /\ IF f.page = 1 THEN f.many = 0 ELSE Lists(f, f.found)
  /\ f.cmd = "play" => Earned(f, sessions)

Knows(f, set, answer) ==
  /\ answer \in Answers
  /\ answer.kind \in {"owned", "not_owned", "unavailable", "raised", "listed"}
  /\ answer.kind = "owned" => f.want \in f.held
  /\ answer.kind = "not_owned" => Denied(f)
  /\ (answer.kind = "listed" /\ f.on /\ (MayBeEmpty(set) => answer.found # {})) => Lists(f, answer.found)

Leaves(f, sessions) ==
  /\ (f.cmd = "play" /\ f.exit = "granted") => Earned(f, sessions) /\ (f.on => f.want \in f.held)
  /\ f.exit = "not_owned" => Denied(f)

LoggingIn == {"key", "open_key", "write_key", "begin", "prompt", "verify", "open_saved", "write_saved"}

\* What a command knows where it stands.
MayBeAt(at, f, set, own, sessions, alive) ==
  /\ at \in LoggingIn => f.cmd \in {"connect", "key"} /\ (at # "key" => f.wallet \in Wallets)
  /\ at \in {"open_key", "write_key"} => f.wallet \in KeyWallets
  /\ at \in {"open_saved", "write_saved"} => f.token \in Tokens
  /\ at = "audit" => /\ f.cmd \in {"connect", "key", "disconnect"} /\ f.wallet \in Wallets
                     /\ f.cmd # "disconnect" => f.token \in Tokens
  /\ at = "load" => f.cmd \in {"play", "whoami"}
  /\ (at \in {"load", "resolve"} /\ f.cmd = "play") => f.want \in Assets
  /\ at = "roster" => f.cmd = "whoami"
  /\ (at = "resolve" /\ f.cmd = "disconnect") => f.token \in DOMAIN sessions
  /\ at = "revoke" => /\ f.token \in DOMAIN sessions
                      /\ IF f.wallet = None THEN f.token \notin DOMAIN alive
                         ELSE sessions[f.token] = f.wallet
  /\ at = "ask" => Asks(f, set, own, sessions)
  /\ at = "told" => Knows(f, set, f.answer) /\ (f.cmd = "play" => Earned(f, sessions))
  /\ at = "over" => Leaves(f, sessions)

FrameFits(f, set, own, sessions, alive) ==
  /\ f \in CommandFrames /\ f.many <= LookLimit(f)
  /\ f.dead \subseteq DOMAIN sessions \ DOMAIN alive
  /\ MayBeAt(f.at, f, set, own, sessions, alive)

Ledger ==
  /\ settings \in Settings /\ owner \in [Assets -> Subjects]
  /\ \E n \in 0 .. MaxTokens : DOMAIN issued = 1 .. n
  /\ \A t \in DOMAIN issued : issued[t] \in Wallets
  /\ DOMAIN live \subseteq DOMAIN issued /\ \A t \in DOMAIN live : live[t] = issued[t]
  /\ ended \subseteq Dead /\ audit \in Counts /\ lost \in Counts
FilesOK ==
  /\ saved \in {Absent, Empty, Garbled} \cup {Remembers(t, w) : t \in Tokens, w \in Wallets}
  /\ key \in {Absent, Empty, Garbled} \cup {Keeps(w) : w \in KeyWallets}
FramesFit ==
  /\ frame \in [Processes -> CommandFrames]
  /\ \A p \in Processes : FrameFits(frame[p], settings, owner, issued, live)
IInv == Ledger /\ FilesOK /\ FramesFit /\ AuditBalances

-----------------------------------------------------------------------------
\* The fields of g are those of f, but for the place.
Like(g, f) ==
  /\ g.cmd = f.cmd /\ g.wallet = f.wallet /\ g.token = f.token /\ g.on = f.on
  /\ g.purpose = f.purpose /\ g.limit = f.limit /\ g.want = f.want /\ g.k = f.k
  /\ g.page = f.page /\ g.found = f.found /\ g.many = f.many /\ g.answer = f.answer
  /\ g.held = f.held /\ g.lacked = f.lacked /\ g.dead = f.dead

LEMMA IdleIsAFrame == Idle \in CommandFrames
  <1>1. /\ None \in Subjects /\ 0 \in 0 .. MaxTokens /\ 1 \in Nat \ {0} /\ 0 \in 0 .. MaxPages
        /\ None \in Answers /\ None \in ExitNames \cup {None} /\ None \in Assets \cup {None}
    BY ProvidersAreValid, TokensAreBounded DEF Subjects, Answers
  <1>2. "none" \in CommandNames /\ "idle" \in Places
    BY DEF CommandNames, Places
  <1> QED BY <1>1, <1>2 DEF Idle, CommandFrames

LEMMA IdleFits ==
  ASSUME NEW set, NEW own, NEW sessions, NEW alive
  PROVE  FrameFits(Idle, set, own, sessions, alive)
  <1>1. Idle.many <= LookLimit(Idle)
    BY DEF Idle, LookLimit
  <1> QED BY <1>1, IdleIsAFrame DEF FrameFits, MayBeAt, Idle, LoggingIn

\* A command that leaves without having been told anything of an NFT.
LEMMA ExitFits ==
  ASSUME NEW set, NEW own, NEW sessions, NEW alive, NEW cmd \in CommandNames, NEW exit \in ExitNames,
         exit \notin {"granted", "not_owned"}
  PROVE  FrameFits([Idle EXCEPT !.cmd = cmd, !.at = "over", !.exit = exit], set, own, sessions, alive)
  <1>1. PICK f : f = [Idle EXCEPT !.cmd = cmd, !.at = "over", !.exit = exit]
    OBVIOUS
  <1>2. "over" \in Places
    BY DEF Places
  <1>3. f \in CommandFrames
    BY <1>1, <1>2, IdleIsAFrame DEF CommandFrames
  <1>4. f.at = "over" /\ f.exit = exit /\ f.dead = {} /\ f.many = 0 /\ f.limit = 1 /\ f.purpose = "none"
    BY <1>1 DEF Idle
  <1>5. f.many <= LookLimit(f)
    BY <1>4 DEF LookLimit
  <1> QED BY <1>1, <1>3, <1>4, <1>5 DEF FrameFits, MayBeAt, LoggingIn, Leaves

LEMMA Moved ==
  ASSUME NEW f \in CommandFrames, NEW at \in Places
  PROVE  /\ [f EXCEPT !.at = at] \in CommandFrames
         /\ [f EXCEPT !.at = at].at = at
         /\ Like([f EXCEPT !.at = at], f)
  BY DEF CommandFrames, Like

-----------------------------------------------------------------------------
\* Pages.  What a wallet holds has places from 1 on, each its own, so that a
\* page is no longer than was asked for, and a first page that has room for
\* all that is held lists all of it.
LEMMA AssetsAreFinite ==
  /\ IsFiniteSet(Assets)
  /\ \A S \in SUBSET Assets : IsFiniteSet(S) /\ Cardinality(S) \in Nat
  <1>1. IsFiniteSet(Assets)
    BY ProvidersAreValid, FS_Interval DEF Assets
  <1> QED BY <1>1, FS_Subset, FS_CardinalityType

LEMMA PlacesAreDistinct ==
  ASSUME owner \in [Assets -> Subjects], NEW w, NEW a \in Held(w, owner)
  PROVE  /\ Place(a) \in 1 .. Cardinality(Held(w, owner))
         /\ \A b \in Held(w, owner) : a < b => Place(a) # Place(b)
  <1> DEFINE UpTo(x) == {b \in Held(w, owner) : b <= x}
  <1>1. \A x \in Held(w, owner) : Place(x) = Cardinality(UpTo(x))
    BY DEF Place, Held
  <1>6. \A x \in Held(w, owner) : x \in Nat
    BY ProvidersAreValid DEF Held, Assets
  <1>2. Held(w, owner) \in SUBSET Assets
    BY DEF Held
  <1>3. \A x \in Held(w, owner) : UpTo(x) \in SUBSET Held(w, owner) /\ UpTo(x) \in SUBSET Assets /\ x \in UpTo(x)
    <2> SUFFICES ASSUME NEW x \in Held(w, owner)
                 PROVE  UpTo(x) \in SUBSET Held(w, owner) /\ UpTo(x) \in SUBSET Assets /\ x \in UpTo(x)
      OBVIOUS
    <2>1. x <= x
      BY <1>6
    <2> QED BY <1>2, <2>1
  <1>4. Place(a) \in 1 .. Cardinality(Held(w, owner))
    <2>1. Cardinality(UpTo(a)) \in Nat /\ Cardinality(Held(w, owner)) \in Nat /\ IsFiniteSet(Held(w, owner))
          /\ IsFiniteSet(UpTo(a))
      BY <1>2, <1>3, AssetsAreFinite
    <2>2. Cardinality(UpTo(a)) <= Cardinality(Held(w, owner))
      BY <1>3, <2>1, FS_Subset
    <2>3. Cardinality(UpTo(a)) # 0
      BY <1>3, <2>1, FS_EmptySet
    <2> QED BY <1>1, <2>1, <2>2, <2>3
  <1>5. ASSUME NEW b \in Held(w, owner), a < b PROVE Place(a) # Place(b)
    <2>1. UpTo(a) \in SUBSET UpTo(b) /\ b \in UpTo(b) /\ b \notin UpTo(a)
      <3>1. ~(b <= a) /\ \A c \in Held(w, owner) : c <= a => c <= b
        BY <1>5, <1>6
      <3> QED BY <1>3, <3>1
    <2>2. IsFiniteSet(UpTo(b))
      BY <1>3, AssetsAreFinite
    <2>3. Cardinality(UpTo(a)) # Cardinality(UpTo(b))
      BY <2>1, <2>2, FS_Subset
    <2> QED BY <1>1, <2>3
  <1> QED BY <1>4, <1>5

LEMMA ListingFits ==
  ASSUME owner \in [Assets -> Subjects], NEW w, NEW first \in Int, NEW last \in Int
  PROVE  /\ Listing(w, first, last) \subseteq Held(w, owner)
         /\ Cardinality(Listing(w, first, last)) <= Cardinality(first .. last)
  <1> DEFINE items == Listing(w, first, last)
             places == [a \in items |-> Place(a)]
  <1>1. items \subseteq Held(w, owner) /\ \A a \in items : a \in Nat /\ Place(a) \in first .. last
    BY ProvidersAreValid DEF Listing, Held, Assets
  <1>2. \A a, b \in items : Place(a) = Place(b) => a = b
    <2> SUFFICES ASSUME NEW a \in items, NEW b \in items, a # b PROVE Place(a) # Place(b)
      OBVIOUS
    <2>1. a < b \/ b < a
      BY <1>1
    <2> QED BY <1>1, <2>1, PlacesAreDistinct
  <1>3. places \in Injection(items, first .. last)
    BY <1>1, <1>2 DEF Injection, IsInjective
  <1>4. IsFiniteSet(first .. last)
    BY FS_Interval
  <1> HIDE DEF places
  <1>5. Cardinality(items) <= Cardinality(first .. last)
    BY <1>3, <1>4, FS_Injection
  <1> QED BY <1>1, <1>5

LEMMA PageFits ==
  ASSUME owner \in [Assets -> Subjects], NEW w, NEW page \in Nat \ {0}, NEW size \in Nat
  PROVE  /\ PageOf(w, page, size) \subseteq Held(w, owner)
         /\ Cardinality(Mapped(PageOf(w, page, size))) \in 0 .. size
         /\ Cardinality(Held(w, owner)) <= size => PageOf(w, 1, size) = Held(w, owner)
  <1>1. PICK before \in Nat : before = (page - 1) * size
    OBVIOUS
  <1>2. page * size = before + size
    BY <1>1
  <1>3. PageOf(w, page, size) = Listing(w, before + 1, before + size)
    BY <1>1, <1>2 DEF PageOf
  <1>4. Cardinality(before + 1 .. before + size) = size
    <2>1. before + 1 \in Int /\ before + size \in Int
      OBVIOUS
    <2>2. Cardinality(before + 1 .. before + size) =
            IF before + 1 > before + size THEN 0 ELSE (before + size) - (before + 1) + 1
      BY <2>1, FS_Interval
    <2> QED BY <2>2
  <1>5. /\ PageOf(w, page, size) \subseteq Held(w, owner)
        /\ Cardinality(PageOf(w, page, size)) <= size
    BY <1>3, <1>4, ListingFits
  <1>6. Cardinality(Mapped(PageOf(w, page, size))) \in 0 .. size
    <2>1. PageOf(w, page, size) \in SUBSET Assets
          /\ Mapped(PageOf(w, page, size)) \in SUBSET PageOf(w, page, size)
          /\ Mapped(PageOf(w, page, size)) \in SUBSET Assets
      BY <1>5 DEF Held, Mapped
    <2>2. /\ Cardinality(PageOf(w, page, size)) \in Nat /\ IsFiniteSet(PageOf(w, page, size))
          /\ Cardinality(Mapped(PageOf(w, page, size))) \in Nat
      BY <2>1, AssetsAreFinite
    <2>3. Cardinality(Mapped(PageOf(w, page, size))) <= Cardinality(PageOf(w, page, size))
      BY <2>1, <2>2, FS_Subset
    <2> QED BY <1>5, <2>2, <2>3
  <1>7. ASSUME Cardinality(Held(w, owner)) <= size PROVE PageOf(w, 1, size) = Held(w, owner)
    <2>1. (1 - 1) * size + 1 = 1 /\ 1 * size = size
      OBVIOUS
    <2>2. PageOf(w, 1, size) = Listing(w, 1, size)
      BY <2>1 DEF PageOf
    <2>3. Cardinality(Held(w, owner)) \in Nat
      BY AssetsAreFinite DEF Held
    <2>4. \A a \in Held(w, owner) : Place(a) \in 1 .. size
      BY <1>7, <2>3, PlacesAreDistinct
    <2> QED BY <2>2, <2>4 DEF Listing
  <1> QED BY <1>5, <1>6, <1>7

-----------------------------------------------------------------------------
\* Frames as time passes.  A session once issued stays issued, and one that is
\* over does not come back.
Later(sessions, alive, sessions2, alive2) ==
  /\ DOMAIN sessions \subseteq DOMAIN sessions2
  /\ \A t \in DOMAIN sessions : sessions2[t] = sessions[t]
  /\ DOMAIN alive2 \cap DOMAIN sessions \subseteq DOMAIN alive

LEMMA FitsLater ==
  ASSUME NEW f, NEW set, NEW own, NEW sessions, NEW alive, NEW sessions2, NEW alive2,
         FrameFits(f, set, own, sessions, alive), Later(sessions, alive, sessions2, alive2)
  PROVE  FrameFits(f, set, own, sessions2, alive2)
  <1>1. Earned(f, sessions) => Earned(f, sessions2)
    BY DEF Earned, Later
  <1>2. Asks(f, set, own, sessions) => Asks(f, set, own, sessions2)
    BY <1>1 DEF Asks
  <1>3. Leaves(f, sessions) => Leaves(f, sessions2)
    BY <1>1 DEF Leaves
  <1>4. /\ f.dead \subseteq DOMAIN sessions2 \ DOMAIN alive2
        /\ f.token \in DOMAIN sessions => f.token \in DOMAIN sessions2
        /\ f.at = "revoke" => IF f.wallet = None THEN f.token \notin DOMAIN alive2
                              ELSE sessions2[f.token] = f.wallet
    BY DEF Later, FrameFits, MayBeAt
  <1> QED BY <1>1, <1>2, <1>3, <1>4 DEF FrameFits, MayBeAt

\* One process moves and the others stand.
LEMMA OthersStand ==
  ASSUME FramesFit, settings' = settings, owner' = owner, Later(issued, live, issued', live'),
         NEW p \in Processes, NEW f, frame' = [frame EXCEPT ![p] = f],
         FrameFits(f, settings, owner, issued', live')
  PROVE  FramesFit'
  <1>1. f \in CommandFrames
    BY DEF FrameFits, MayBeAt
  <1>2. frame' \in [Processes -> CommandFrames]
    BY <1>1 DEF FramesFit
  <1>3. ASSUME NEW q \in Processes PROVE FrameFits(frame'[q], settings, owner, issued', live')
    <2>1. CASE q = p
      BY <2>1 DEF FramesFit
    <2>2. CASE q # p
      <3>1. frame'[q] = frame[q] /\ FrameFits(frame[q], settings, owner, issued, live)
        BY <2>2 DEF FramesFit
      <3> QED BY <3>1, FitsLater
    <2> QED BY <2>1, <2>2
  <1> QED BY <1>2, <1>3 DEF FramesFit

LEMMA NothingChanges ==
  ASSUME UNCHANGED <<issued, live>>
  PROVE  Later(issued, live, issued', live')
  BY DEF Later

-----------------------------------------------------------------------------
\* Looks.
LEMMA FirstLookFits ==
  ASSUME NEW f \in CommandFrames, NEW k \in 0 .. 4
  PROVE  /\ [FirstLook(f) EXCEPT !.k = k] \in CommandFrames
         /\ FirstLook(f) \in CommandFrames
         /\ FirstLook(f) = [FirstLook(f) EXCEPT !.k = 1]
  <1>1. PICK g : g = FirstLook(f)
    OBVIOUS
  <1>2. 1 \in 0 .. MaxPages /\ None \in Answers /\ {} \in SUBSET Assets /\ 0 \in Nat /\ 1 \in 0 .. 4
    BY ProvidersAreValid DEF Answers
  <1>3. g = [f EXCEPT !.k = 1, !.page = 1, !.found = {}, !.many = 0, !.answer = None]
    BY <1>1 DEF FirstLook
  <1>4. g \in CommandFrames
    BY <1>2, <1>3 DEF CommandFrames
  <1>5. g.k = 1
    BY <1>3 DEF CommandFrames
  <1>6. [g EXCEPT !.k = k] \in CommandFrames
    BY <1>4 DEF CommandFrames
  <1>7. g = [g EXCEPT !.k = 1]
    BY <1>4, <1>5 DEF CommandFrames
  <1> QED BY <1>1, <1>4, <1>6, <1>7

LEMMA ChainsAreShort ==
  ASSUME NEW set \in Settings, NEW f \in CommandFrames
  PROVE  Steps(f, set) \in 1 .. 4
  BY SettingsAreValid DEF Configured, Steps, CommandFrames

\* A look of the wallet's from now on has seen what it holds now.
LEMMA LookingFits ==
  ASSUME settings \in Settings, owner \in [Assets -> Subjects], NEW sessions, NEW alive,
         NEW f \in CommandFrames, NEW purpose \in {"owns", "list"}, NEW w \in Wallets,
         f.dead \subseteq DOMAIN sessions \ DOMAIN alive,
         purpose = "owns" => f.want \in Assets,
         f.cmd = "play" => f.token \in DOMAIN sessions /\ sessions[f.token] = w /\ f.token \notin f.dead
  PROVE  FrameFits(Looking(f, purpose, w), settings, owner, sessions, alive)
  <1>1. PICK h : h = FirstLook(f)
    OBVIOUS
  <1>2. h \in CommandFrames
    <2>1. 1 \in 0 .. 4
      OBVIOUS
    <2> QED BY <1>1, <2>1, FirstLookFits
  <1>3. h = [f EXCEPT !.k = 1, !.page = 1, !.found = {}, !.many = 0, !.answer = None]
    BY <1>1 DEF FirstLook
  <1>4. /\ h.k = 1 /\ h.page = 1 /\ h.found = {} /\ h.many = 0 /\ h.cmd = f.cmd /\ h.token = f.token
        /\ h.limit = f.limit /\ h.want = f.want /\ h.dead = f.dead
    BY <1>3 DEF CommandFrames
  <1>5. PICK g : g = Looking(f, purpose, w)
    OBVIOUS
  <1>6. g = [h EXCEPT !.at = "ask", !.purpose = purpose, !.wallet = w,
                      !.held = Held(w, owner), !.lacked = Assets \ Held(w, owner)]
    BY <1>1, <1>5 DEF Looking
  <1>7. g \in CommandFrames
    <2>1. "ask" \in Places /\ w \in Subjects /\ Held(w, owner) \in SUBSET Assets
          /\ Assets \ Held(w, owner) \in SUBSET Assets
      BY DEF Places, Subjects, Held
    <2> QED BY <1>2, <1>6, <2>1 DEF CommandFrames
  <1>8. /\ g.at = "ask" /\ g.purpose = purpose /\ g.wallet = w
        /\ g.held = Held(w, owner) /\ g.lacked = Assets \ Held(w, owner)
        /\ g.k = 1 /\ g.page = 1 /\ g.found = {} /\ g.many = 0 /\ g.cmd = f.cmd /\ g.token = f.token
        /\ g.limit = f.limit /\ g.want = f.want /\ g.dead = f.dead
    BY <1>2, <1>4, <1>6 DEF CommandFrames
  <1>9. g.k \in 1 .. Steps(g, settings) /\ g.page \in 1 .. MaxPages
    BY <1>7, <1>8, ChainsAreShort, ProvidersAreValid
  <1>10. g.many <= LookLimit(g)
    BY <1>7, <1>8, ProvidersAreValid DEF LookLimit, CommandFrames
  <1>11. Asks(g, settings, owner, sessions)
    BY <1>8, <1>9 DEF Asks, Sees, Earned
  <1> QED BY <1>5, <1>7, <1>8, <1>10, <1>11 DEF FrameFits, MayBeAt, LoggingIn

\* What a process that asks knows: its frame, and the world it asks in.
Asking(f) ==
  /\ FrameFits(f, settings, owner, issued, live) /\ f.at = "ask"
  /\ settings \in Settings /\ owner \in [Assets -> Subjects]

\* The next provider of the chain is asked from its first page.
LEMMA NextLookFits ==
  ASSUME NEW f, Asking(f), NEW answer, FallsThrough(f, answer)
  PROVE  FrameFits(NextLook(f), settings, owner, issued, live)
  <1>1. f \in CommandFrames /\ Asks(f, settings, owner, issued)
    BY DEF Asking, FrameFits, MayBeAt
  <1>2. f.on /\ f.k + 1 \in 1 .. Steps(f, settings) /\ f.k + 1 \in 0 .. 4
    <2>1. Steps(f, settings) \in 1 .. 4 /\ f.k \in 1 .. Steps(f, settings)
      BY <1>1, ChainsAreShort DEF Asking, Asks
    <2>2. f.on /\ f.k < Len(Chain(f.on))
      BY DEF FallsThrough, IsChainOn
    <2>3. Len(Chain(f.on)) = Steps(f, settings)
      BY <2>2 DEF Chain, Steps
    <2>4. PICK n \in 1 .. 4, k \in Int : n = Steps(f, settings) /\ k = f.k /\ k \in 1 .. n
      BY <2>1
    <2>5. k < n
      BY <2>2, <2>3, <2>4
    <2>6. k + 1 \in 1 .. n /\ k + 1 \in 0 .. 4
      BY <2>4, <2>5
    <2> QED BY <2>2, <2>4, <2>6
  <1>3. PICK g : g = NextLook(f)
    OBVIOUS
  <1>4. PICK h : h = FirstLook(f)
    OBVIOUS
  <1>5. h \in CommandFrames /\ g \in CommandFrames
    BY <1>1, <1>2, <1>3, <1>4, FirstLookFits DEF NextLook
  <1>6. h = [f EXCEPT !.k = 1, !.page = 1, !.found = {}, !.many = 0, !.answer = None]
    BY <1>4 DEF FirstLook
  <1>7. g = [h EXCEPT !.k = f.k + 1]
    BY <1>3, <1>4 DEF NextLook
  <1>8. /\ h.page = 1 /\ h.found = {} /\ h.many = 0 /\ h.at = f.at /\ h.wallet = f.wallet /\ h.cmd = f.cmd
        /\ h.token = f.token /\ h.on = f.on /\ h.purpose = f.purpose /\ h.limit = f.limit /\ h.want = f.want
        /\ h.held = f.held /\ h.lacked = f.lacked /\ h.dead = f.dead
    BY <1>1, <1>6 DEF CommandFrames
  <1>9. /\ g.page = 1 /\ g.found = {} /\ g.many = 0 /\ g.at = f.at /\ g.wallet = f.wallet /\ g.cmd = f.cmd
        /\ g.token = f.token /\ g.on = f.on /\ g.purpose = f.purpose /\ g.limit = f.limit /\ g.want = f.want
        /\ g.held = f.held /\ g.lacked = f.lacked /\ g.dead = f.dead /\ g.k = f.k + 1
    BY <1>5, <1>7, <1>8 DEF CommandFrames
  <1>10. Asks(g, settings, owner, issued)
    <2>1. g.k \in 1 .. Steps(g, settings) /\ g.page \in 1 .. MaxPages
      BY <1>2, <1>9, ProvidersAreValid DEF Steps
    <2> QED BY <1>1, <1>9, <2>1 DEF Asks, Sees, Earned
  <1>11. g.many <= LookLimit(g)
    BY <1>5, <1>9, ProvidersAreValid DEF LookLimit, CommandFrames
  <1>12. f.dead \subseteq DOMAIN issued \ DOMAIN live /\ f.at = "ask"
    BY DEF Asking, FrameFits, MayBeAt
  <1> QED BY <1>3, <1>5, <1>9, <1>10, <1>11, <1>12 DEF FrameFits, MayBeAt, LoggingIn

\* The look is over, with an answer that is so.
LEMMA ToldFits ==
  ASSUME NEW f, Asking(f), NEW answer, Knows(f, settings, answer)
  PROVE  FrameFits([f EXCEPT !.at = "told", !.answer = answer], settings, owner, issued, live)
  <1>1. f \in CommandFrames /\ Asks(f, settings, owner, issued) /\ f.many <= LookLimit(f)
        /\ f.dead \subseteq DOMAIN issued \ DOMAIN live
    BY DEF Asking, FrameFits, MayBeAt
  <1>2. PICK g : g = [f EXCEPT !.at = "told", !.answer = answer]
    OBVIOUS
  <1>3. g \in CommandFrames
    <2>1. "told" \in Places /\ answer \in Answers
      BY DEF Places, Knows
    <2> QED BY <1>1, <1>2, <2>1 DEF CommandFrames
  <1>4. /\ g.at = "told" /\ g.answer = answer /\ g.wallet = f.wallet /\ g.cmd = f.cmd /\ g.many = f.many
        /\ g.token = f.token /\ g.on = f.on /\ g.purpose = f.purpose /\ g.limit = f.limit /\ g.want = f.want
        /\ g.held = f.held /\ g.lacked = f.lacked /\ g.dead = f.dead
    BY <1>1, <1>2 DEF CommandFrames
  <1>5. g.many <= LookLimit(g)
    BY <1>1, <1>4 DEF LookLimit
  <1>6. Knows(g, settings, g.answer)
    BY <1>4 DEF Knows, Lists, Denied, LookLimit
  <1>7. g.cmd = "play" => Earned(g, issued)
    BY <1>1, <1>4 DEF Asks, Earned
  <1> QED BY <1>1, <1>2, <1>3, <1>4, <1>5, <1>6, <1>7 DEF FrameFits, MayBeAt, LoggingIn

LEMMA SettleFits ==
  ASSUME FramesFit, NEW p \in Processes, Asking(frame[p]), NEW answer, Settle(p, answer),
         ~FallsThrough(frame[p], answer) => Knows(frame[p], settings, ChainSays(frame[p], answer)),
         UNCHANGED <<settings, owner, issued, live>>
  PROVE  FramesFit'
  <1>1. Later(issued, live, issued', live')
    BY NothingChanges
  <1>2. CASE FallsThrough(frame[p], answer)
    <2>1. PICK f : f = frame[p]
      OBVIOUS
    <2>2. PICK g : g = NextLook(f)
      OBVIOUS
    <2>3. FrameFits(g, settings, owner, issued', live')
      BY <1>2, <2>1, <2>2, NextLookFits
    <2>4. frame' = [frame EXCEPT ![p] = g]
      BY <1>2, <2>1, <2>2 DEF Settle, Becomes
    <2> QED BY <1>1, <2>3, <2>4, OthersStand
  <1>3. CASE ~FallsThrough(frame[p], answer)
    <2>1. PICK f : f = frame[p]
      OBVIOUS
    <2>2. PICK said : said = ChainSays(f, answer)
      OBVIOUS
    <2>3. PICK g : g = [f EXCEPT !.at = "told", !.answer = said]
      OBVIOUS
    <2>4. FrameFits(g, settings, owner, issued', live')
      BY <1>3, <2>1, <2>2, <2>3, ToldFits
    <2>5. frame' = [frame EXCEPT ![p] = g]
      BY <1>3, <2>1, <2>2, <2>3 DEF Settle, Becomes
    <2> QED BY <1>1, <2>4, <2>5, OthersStand
  <1> QED BY <1>2, <1>3

-----------------------------------------------------------------------------
\* One page of a look.
LEMMA LimitsAreLimits ==
  ASSUME NEW f \in CommandFrames
  PROVE  LookLimit(f) \in Nat \ {0}
  BY ProvidersAreValid DEF LookLimit, CommandFrames

\* The page that a look of f reads next.
NextItems(f) == PageOf(f.wallet, f.page, PageSize(f))

LEMMA PagesCollect ==
  ASSUME NEW f, Asking(f)
  PROVE  /\ Collected(f, NextItems(f)) \subseteq f.held
         /\ Collected(f, NextItems(f)) \in SUBSET Assets
         /\ Counted(f, NextItems(f)) \in Nat
         /\ Counted(f, NextItems(f)) <= LookLimit(f)
         /\ Lists(f, Collected(f, NextItems(f)))
  <1>1. f \in CommandFrames /\ Asks(f, settings, owner, issued) /\ f.many <= LookLimit(f)
    BY DEF Asking, FrameFits, MayBeAt
  <1>2. owner \in [Assets -> Subjects]
    BY DEF Asking
  <1>3. PICK limit \in Nat \ {0} : limit = LookLimit(f)
    BY <1>1, LimitsAreLimits
  <1>4. PICK many \in Nat : many = f.many
    BY <1>1 DEF CommandFrames
  <1>5. PICK page \in Nat \ {0} : page = f.page
    BY <1>1, ProvidersAreValid DEF Asks
  <1>6. PICK size \in Nat : size = PageSize(f) /\ size <= limit - many /\ size <= MaxPage
                           /\ (size = limit - many \/ size = MaxPage)
    BY <1>1, <1>3, <1>4, ProvidersAreValid DEF PageSize, Lesser
  <1>7. PICK items : items = NextItems(f)
    OBVIOUS
  <1>8. /\ items \subseteq Held(f.wallet, owner)
        /\ Cardinality(Mapped(items)) \in 0 .. size
        /\ (page = 1 /\ Cardinality(Held(f.wallet, owner)) <= size) => items = Held(f.wallet, owner)
    <2>1. items = PageOf(f.wallet, page, size)
      BY <1>5, <1>6, <1>7 DEF NextItems
    <2> QED BY <1>2, <2>1, PageFits
  <1>9. Held(f.wallet, owner) \subseteq f.held /\ Assets \ Held(f.wallet, owner) \subseteq f.lacked
        /\ f.found \subseteq f.held /\ f.held \in SUBSET Assets
    BY <1>1 DEF Asks, Sees, CommandFrames
  <1>10. Collected(f, items) \subseteq f.held /\ Collected(f, items) \in SUBSET Assets
    BY <1>8, <1>9 DEF Collected, Mapped
  <1>11. Counted(f, items) \in Nat /\ Counted(f, items) <= LookLimit(f)
    <2>1. PICK n \in 0 .. size : n = Cardinality(Mapped(items))
      BY <1>8
    <2>2. many + n \in Nat /\ many + n <= limit
      BY <1>6, <2>1
    <2> QED BY <1>3, <1>4, <2>1, <2>2 DEF Counted
  <1>12. Lists(f, Collected(f, items))
    <2>1. CASE page = 1
      <3> SUFFICES ASSUME Cardinality(f.held) <= Lesser(limit, MaxPage)
                   PROVE  Assets \ (f.lacked \cup OddAssets) \subseteq Collected(f, items)
        BY <1>3 DEF Lists
      <3>1. many = 0
        BY <1>1, <1>4, <1>5, <2>1 DEF Asks
      <3>2. size = Lesser(limit, MaxPage)
        BY <1>3, <1>4, <1>6, <3>1 DEF PageSize
      <3>3. Cardinality(Held(f.wallet, owner)) <= size
        <4>1. PICK n \in Nat : n = Cardinality(f.held)
          BY <1>9, AssetsAreFinite
        <4>2. IsFiniteSet(f.held) /\ Held(f.wallet, owner) \in SUBSET f.held
          BY <1>9, AssetsAreFinite
        <4>3. PICK m \in Nat : m = Cardinality(Held(f.wallet, owner))
          BY <4>2, FS_Subset, FS_CardinalityType
        <4>4. m <= n
          BY <4>1, <4>2, <4>3, FS_Subset
        <4>5. n <= size
          BY <3>2, <4>1
        <4>6. m <= size
          BY <4>4, <4>5
        <4> QED BY <4>3, <4>6
      <3>4. items = Held(f.wallet, owner)
        BY <1>8, <2>1, <3>3
      <3> QED BY <1>9, <3>4 DEF Collected, Mapped
    <2>2. CASE page # 1
      BY <1>1, <1>5, <2>2 DEF Asks, Lists, Collected
    <2> QED BY <2>1, <2>2
  <1> QED BY <1>7, <1>10, <1>11, <1>12

\* Enough has not been found: the look goes on with what it has.
LEMMA NextPageFits ==
  ASSUME NEW f, Asking(f), ~IsListed(f, NextItems(f))
  PROVE  FrameFits([f EXCEPT !.found = Collected(f, NextItems(f)), !.many = Counted(f, NextItems(f)),
                             !.page = NextPage(f)], settings, owner, issued, live)
  <1>1. f \in CommandFrames /\ Asks(f, settings, owner, issued) /\ f.at = "ask"
        /\ f.dead \subseteq DOMAIN issued \ DOMAIN live
    BY DEF Asking, FrameFits, MayBeAt
  <1>2. PICK found \in SUBSET Assets : found = Collected(f, NextItems(f))
    BY PagesCollect
  <1>3. PICK many \in Nat : many = Counted(f, NextItems(f))
    BY PagesCollect
  <1>4. PICK page \in 1 .. MaxPages : page = NextPage(f) /\ page # 1
    <2>1. f.page \in 1 .. MaxPages /\ ~(NextPage(f) > MaxPages)
      BY <1>1 DEF Asks, IsListed
    <2> QED BY <2>1, ProvidersAreValid DEF NextPage
  <1>5. PICK g : g = [f EXCEPT !.found = found, !.many = many, !.page = page]
    OBVIOUS
  <1>6. g \in CommandFrames
    <2>1. page \in 0 .. MaxPages
      BY ProvidersAreValid
    <2> QED BY <1>1, <1>5, <2>1 DEF CommandFrames
  <1>7. /\ g.found = found /\ g.many = many /\ g.page = page
        /\ g.at = f.at /\ g.answer = f.answer /\ g.wallet = f.wallet /\ g.cmd = f.cmd /\ g.k = f.k
        /\ g.token = f.token /\ g.on = f.on /\ g.purpose = f.purpose /\ g.limit = f.limit /\ g.want = f.want
        /\ g.held = f.held /\ g.lacked = f.lacked /\ g.dead = f.dead
    BY <1>1, <1>5 DEF CommandFrames
  <1>8. many <= LookLimit(f) /\ found \subseteq f.held /\ Lists(f, found)
    BY <1>2, <1>3, PagesCollect
  <1>9. g.many <= LookLimit(g) /\ Lists(g, g.found)
    BY <1>7, <1>8 DEF LookLimit, Lists
  <1>10. Asks(g, settings, owner, issued)
    BY <1>1, <1>4, <1>7, <1>8, <1>9 DEF Asks, Sees, Steps, Earned
  <1>11. FrameFits(g, settings, owner, issued, live)
    BY <1>1, <1>6, <1>7, <1>9, <1>10 DEF FrameFits, MayBeAt, LoggingIn
  <1> QED BY <1>2, <1>3, <1>4, <1>5, <1>11

-----------------------------------------------------------------------------
\* The answers.
LEMMA AnswersAreAnswers ==
  /\ Unavailable \in Answers /\ Unavailable.kind = "unavailable"
  /\ Raised \in Answers /\ Raised.kind = "raised"
  /\ [kind |-> "owned"] \in Answers /\ [kind |-> "not_owned"] \in Answers
  /\ \A found \in SUBSET Assets, many \in Nat :
       /\ Listed(found, many) \in Answers
       /\ Listed(found, many).kind = "listed" /\ Listed(found, many).found = found
  BY DEF Answers, Unavailable, Raised, Listed

\* An empty list of the null provider, or after a failure, promises nothing.
LEMMA AnEmptyListIsKnown ==
  ASSUME NEW f, NEW set, f.on => MayBeEmpty(set)
  PROVE  Knows(f, set, Listed({}, 0))
  <1>1. PICK answer : answer = Listed({}, 0)
    OBVIOUS
  <1>2. {} \in SUBSET Assets /\ 0 \in Nat
    OBVIOUS
  <1>3. answer \in Answers /\ answer.kind = "listed" /\ answer.found = {}
    BY <1>1, <1>2, AnswersAreAnswers
  <1> QED BY <1>1, <1>3 DEF Knows

LEMMA NoAnswerIsKnown ==
  ASSUME NEW f, NEW set
  PROVE  Knows(f, set, Unavailable) /\ Knows(f, set, Raised)
  BY AnswersAreAnswers DEF Knows

LEMMA NullIsKnown ==
  ASSUME NEW f, Asking(f), Chain(f.on)[f.k] = "null", ~FallsThrough(f, AnswerOfNull(f))
  PROVE  Knows(f, settings, ChainSays(f, AnswerOfNull(f)))
  <1>1. CASE f.purpose = "owns"
    <2>1. AnswerOfNull(f) = Unavailable
      BY <1>1 DEF AnswerOfNull
    <2>2. ChainSays(f, AnswerOfNull(f)) = Unavailable
      BY <2>1, AnswersAreAnswers DEF ChainSays
    <2> QED BY <2>2, NoAnswerIsKnown
  <1>2. CASE f.purpose # "owns"
    <2>1. AnswerOfNull(f) = Listed({}, 0)
      BY <1>2 DEF AnswerOfNull
    <2>2. {} \in SUBSET Assets /\ 0 \in Nat
      OBVIOUS
    <2>3. Listed({}, 0).kind = "listed" /\ Listed({}, 0).found = {}
      BY <2>2, AnswersAreAnswers
    <2>4. ChainSays(f, AnswerOfNull(f)) = Listed({}, 0)
      BY <2>1, <2>3 DEF ChainSays
    <2>5. ASSUME f.on PROVE MayBeEmpty(settings)
      <3>1. f \in CommandFrames /\ Asks(f, settings, owner, issued) /\ settings \in Settings
        BY DEF Asking, FrameFits, MayBeAt
      <3>2. CASE settings.failover
        BY <3>2 DEF MayBeEmpty
      <3>3. CASE ~settings.failover
        <4>1. Len(settings.chain) = 1
          BY <3>1, <3>3, SettingsAreValid DEF Configured
        <4>2. f.k = 1
          BY <2>5, <3>1, <4>1 DEF Asks, Steps
        <4> QED BY <2>5, <4>2 DEF MayBeEmpty, Chain
      <3> QED BY <3>2, <3>3
    <2> QED BY <2>4, <2>5, AnEmptyListIsKnown
  <1> QED BY <1>1, <1>2

LEMMA FailureIsKnown ==
  ASSUME NEW f, Asking(f)
  PROVE  Knows(f, settings, ChainSays(f, AnswerOfFailure(f)))
  <1>1. CASE f.purpose = "owns"
    <2>1. AnswerOfFailure(f) = Unavailable
      BY <1>1 DEF AnswerOfFailure
    <2>2. ChainSays(f, AnswerOfFailure(f)) = Unavailable
      BY <2>1, AnswersAreAnswers DEF ChainSays
    <2> QED BY <2>2, NoAnswerIsKnown
  <1>2. CASE f.purpose # "owns"
    <2>1. AnswerOfFailure(f) = Raised
      BY <1>2 DEF AnswerOfFailure
    <2>2. CASE IsChainOn(f.on)
      <3>1. ChainSays(f, AnswerOfFailure(f)) = Listed({}, 0)
        BY <2>1, <2>2, AnswersAreAnswers DEF ChainSays
      <3>2. MayBeEmpty(settings)
        BY <2>2 DEF IsChainOn, MayBeEmpty
      <3> QED BY <3>1, <3>2, AnEmptyListIsKnown
    <2>3. CASE ~IsChainOn(f.on)
      <3>1. ChainSays(f, AnswerOfFailure(f)) = Raised
        BY <2>1, <2>3 DEF ChainSays
      <3> QED BY <3>1, NoAnswerIsKnown
    <2> QED BY <2>2, <2>3
  <1> QED BY <1>1, <1>2

\* What a look that is given all its pages answers.
LEMMA PagesAreKnown ==
  ASSUME NEW f, Asking(f)
  PROVE  Knows(f, settings, ChainSays(f, AnswerOfPages(f, NextItems(f))))
  <1>1. PICK found \in SUBSET Assets : found = Collected(f, NextItems(f))
    BY PagesCollect
  <1>2. PICK many \in Nat : many = Counted(f, NextItems(f))
    BY PagesCollect
  <1>3. found \subseteq f.held /\ Lists(f, found)
    BY <1>1, PagesCollect
  <1>4. CASE f.purpose = "owns" /\ f.want \in found
    <2>1. AnswerOfPages(f, NextItems(f)) = [kind |-> "owned"]
      BY <1>1, <1>4 DEF AnswerOfPages, OwnedOrNot
    <2>2. ChainSays(f, AnswerOfPages(f, NextItems(f))) = [kind |-> "owned"]
      BY <2>1 DEF ChainSays
    <2>3. Knows(f, settings, [kind |-> "owned"])
      BY <1>3, <1>4, AnswersAreAnswers DEF Knows
    <2> QED BY <2>2, <2>3
  <1>5. CASE f.purpose = "owns" /\ f.want \notin found
    <2>1. AnswerOfPages(f, NextItems(f)) = [kind |-> "not_owned"]
      BY <1>1, <1>5 DEF AnswerOfPages, OwnedOrNot
    <2>2. ChainSays(f, AnswerOfPages(f, NextItems(f))) = [kind |-> "not_owned"]
      BY <2>1 DEF ChainSays
    <2>3. Denied(f)
      <3>1. f.want \in Assets
        BY <1>5 DEF Asking, FrameFits, MayBeAt, Asks
      <3>2. Lesser(LookLimit(f), MaxPage) = MaxPage
        BY <1>5, ProvidersAreValid DEF LookLimit, Lesser
      <3> QED BY <1>3, <1>5, <3>1, <3>2 DEF Lists, Denied
    <2>4. Knows(f, settings, [kind |-> "not_owned"])
      BY <2>3, AnswersAreAnswers DEF Knows
    <2> QED BY <2>2, <2>4
  <1>6. CASE f.purpose # "owns"
    <2>1. PICK answer : answer = Listed(found, many)
      OBVIOUS
    <2>2. answer \in Answers /\ answer.kind = "listed" /\ answer.found = found
      BY <2>1, AnswersAreAnswers
    <2>3. AnswerOfPages(f, NextItems(f)) = answer
      BY <1>1, <1>2, <1>6, <2>1 DEF AnswerOfPages
    <2>4. ChainSays(f, AnswerOfPages(f, NextItems(f))) = answer
      BY <2>2, <2>3 DEF ChainSays
    <2>5. Knows(f, settings, answer)
      BY <1>3, <2>2 DEF Knows
    <2> QED BY <2>4, <2>5
  <1> QED BY <1>4, <1>5, <1>6

LEMMA AskFits ==
  ASSUME Ledger, FramesFit, NEW p \in Processes, Ask(p), UNCHANGED <<settings, owner>>
  PROVE  FramesFit'
  <1>1. UNCHANGED <<settings, owner, issued, live>>
    BY DEF Ask, service
  <1>2. Asking(frame[p])
    BY DEF Asking, Ask, IsAt, Ledger, FramesFit
  <1>3. PICK f : f = frame[p]
    OBVIOUS
  <1>4. Asking(f)
    BY <1>2, <1>3
  <1>5. CASE Chain(f.on)[f.k] = "null"
    <2>1. Settle(p, AnswerOfNull(f))
      BY <1>3, <1>5 DEF Ask
    <2>2. ~FallsThrough(f, AnswerOfNull(f)) => Knows(f, settings, ChainSays(f, AnswerOfNull(f)))
      BY <1>4, <1>5, NullIsKnown
    <2> QED BY <1>1, <1>2, <1>3, <2>1, <2>2, SettleFits
  <1>6. CASE Chain(f.on)[f.k] # "null"
    <2>1. CASE Settle(p, AnswerOfFailure(f))
      <3>1. Knows(f, settings, ChainSays(f, AnswerOfFailure(f)))
        BY <1>4, FailureIsKnown
      <3> QED BY <1>1, <1>2, <1>3, <2>1, <3>1, SettleFits
    <2>2. CASE IsListed(f, NextItems(f)) /\ Settle(p, AnswerOfPages(f, NextItems(f)))
      <3>1. Knows(f, settings, ChainSays(f, AnswerOfPages(f, NextItems(f))))
        BY <1>4, PagesAreKnown
      <3> QED BY <1>1, <1>2, <1>3, <2>2, <3>1, SettleFits
    <2>3. CASE /\ ~IsListed(f, NextItems(f))
               /\ Becomes(p, [f EXCEPT !.found = Collected(f, NextItems(f)),
                                       !.many = Counted(f, NextItems(f)), !.page = NextPage(f)])
      <3>1. PICK g : g = [f EXCEPT !.found = Collected(f, NextItems(f)),
                                  !.many = Counted(f, NextItems(f)), !.page = NextPage(f)]
        OBVIOUS
      <3>2. FrameFits(g, settings, owner, issued', live')
        BY <1>1, <1>4, <2>3, <3>1, NextPageFits
      <3>3. frame' = [frame EXCEPT ![p] = g]
        BY <2>3, <3>1 DEF Becomes
      <3>4. Later(issued, live, issued', live')
        BY <1>1, NothingChanges
      <3> QED BY <1>1, <3>2, <3>3, <3>4, OthersStand
    <2> QED BY <1>3, <1>6, <2>1, <2>2, <2>3 DEF Ask, NextItems
  <1> QED BY <1>5, <1>6

-----------------------------------------------------------------------------
\* A command's steps, other than those of a look.
LEMMA GoesFits ==
  ASSUME FramesFit, NEW p \in Processes, NEW at \in Places, Goes(p, at),
         settings' = settings, owner' = owner, Later(issued, live, issued', live'),
         MayBeAt(at, frame[p], settings, owner, issued', live')
  PROVE  FramesFit'
  <1>1. PICK f : f = frame[p]
    OBVIOUS
  <1>2. FrameFits(f, settings, owner, issued', live')
    BY <1>1, FitsLater DEF FramesFit
  <1>3. PICK g : g = [f EXCEPT !.at = at]
    OBVIOUS
  <1>4. f \in CommandFrames
    BY <1>2 DEF FrameFits
  <1>5. g \in CommandFrames /\ g.at = at /\ Like(g, f)
    BY <1>3, <1>4, Moved
  <1>6. g.many <= LookLimit(g) /\ g.dead \subseteq DOMAIN issued' \ DOMAIN live'
    BY <1>2, <1>5 DEF FrameFits, LookLimit, Like
  <1>7. g.exit = f.exit
    BY <1>3, <1>4 DEF CommandFrames
  <1>8. MayBeAt(at, g, settings, owner, issued', live')
    <2>1. Asks(f, settings, owner, issued') => Asks(g, settings, owner, issued')
      BY <1>5 DEF Asks, Sees, Lists, LookLimit, Earned, Steps, Like
    <2>2. /\ Knows(f, settings, f.answer) => Knows(g, settings, g.answer)
          /\ Earned(f, issued') => Earned(g, issued')
          /\ Leaves(f, issued') => Leaves(g, issued')
      BY <1>5, <1>7 DEF Knows, Denied, Leaves, Lists, LookLimit, Earned, Like
    <2> QED BY <1>1, <1>5, <2>1, <2>2 DEF MayBeAt, Like
  <1>9. FrameFits(g, settings, owner, issued', live')
    BY <1>5, <1>6, <1>8 DEF FrameFits
  <1>10. frame' = [frame EXCEPT ![p] = g]
    BY <1>1, <1>3 DEF Goes
  <1> QED BY <1>9, <1>10, OthersStand

LEMMA ExitsFit ==
  ASSUME FramesFit, NEW p \in Processes, NEW exit \in ExitNames, exit \notin {"granted", "not_owned"},
         Exits(p, exit), settings' = settings, owner' = owner, Later(issued, live, issued', live')
  PROVE  FramesFit'
  <1>1. PICK cmd \in CommandNames : cmd = frame[p].cmd
    BY DEF FramesFit, CommandFrames
  <1>2. PICK g : g = [Idle EXCEPT !.cmd = cmd, !.at = "over", !.exit = exit]
    OBVIOUS
  <1>3. FrameFits(g, settings, owner, issued', live')
    BY <1>2, ExitFits
  <1>4. frame' = [frame EXCEPT ![p] = g]
    BY <1>1, <1>2 DEF Exits
  <1> QED BY <1>3, <1>4, OthersStand

LEMMA IdlesFit ==
  ASSUME FramesFit, NEW p \in Processes, Becomes(p, Idle), settings' = settings, owner' = owner,
         Later(issued, live, issued', live')
  PROVE  FramesFit'
  BY IdleFits, OthersStand DEF Becomes

\* What a step may rely on about the process that takes it.
LEMMA FrameFacts ==
  ASSUME FramesFit, NEW p \in Processes
  PROVE  /\ frame[p] \in CommandFrames /\ frame[p].many <= LookLimit(frame[p])
         /\ frame[p].dead \subseteq DOMAIN issued \ DOMAIN live
         /\ MayBeAt(frame[p].at, frame[p], settings, owner, issued, live)
  BY DEF FramesFit, FrameFits

LEMMA PlacesAreNamed ==
  {"idle", "key", "open_key", "write_key", "begin", "prompt", "verify", "audit", "open_saved",
   "write_saved", "load", "resolve", "revoke", "roster", "ask", "told", "over"} \subseteq Places
  BY DEF Places
LEMMA ExitsAreNamed ==
  {"off", "uncaught", "cancelled", "refused", "connected", "not_connected", "expired", "shown", "was_over",
   "disconnected"} \subseteq ExitNames
  BY DEF ExitNames

LEMMA LoadKeyFits ==
  ASSUME FilesOK, FramesFit, NEW p \in Processes, LoadKey(p)
  PROVE  FramesFit'
  <1>1. PICK f \in CommandFrames : f = frame[p]
    BY FrameFacts
  <1>2. f.at = "key" /\ f.cmd \in {"connect", "key"} /\ f.many <= LookLimit(f)
        /\ f.dead \subseteq DOMAIN issued \ DOMAIN live
    BY <1>1, FrameFacts DEF LoadKey, IsAt, MayBeAt, LoggingIn
  <1>3. settings' = settings /\ owner' = owner /\ issued' = issued /\ live' = live
        /\ Later(issued, live, issued', live')
    BY NothingChanges DEF LoadKey, Keep, service
  <1>4. ASSUME NEW w \in KeyWallets, NEW at \in {"open_key", "begin"},
               Becomes(p, [f EXCEPT !.at = at, !.wallet = w])
        PROVE  FramesFit'
    <2>1. PICK g : g = [f EXCEPT !.at = at, !.wallet = w]
      OBVIOUS
    <2>2. w \in Wallets /\ w \in Subjects /\ at \in Places
      BY CommandsAreBounded, PlacesAreNamed DEF Subjects
    <2>3. g \in CommandFrames /\ g.at = at /\ g.wallet = w /\ g.cmd = f.cmd /\ g.dead = f.dead
          /\ g.many = f.many /\ g.purpose = f.purpose /\ g.limit = f.limit
      BY <1>1, <2>1, <2>2 DEF CommandFrames
    <2>4. FrameFits(g, settings, owner, issued', live')
      BY <1>2, <1>3, <2>2, <2>3 DEF FrameFits, MayBeAt, LoggingIn, LookLimit
    <2>5. frame' = [frame EXCEPT ![p] = g]
      BY <1>4, <2>1 DEF Becomes
    <2> QED BY <1>3, <2>4, <2>5, OthersStand
  <1>5. CASE key = Absent /\ \E w \in KeyWallets : Becomes(p, [frame[p] EXCEPT !.at = "open_key", !.wallet = w])
    BY <1>1, <1>4, <1>5
  <1>6. CASE key.is = "key" /\ Becomes(p, [frame[p] EXCEPT !.at = "begin", !.wallet = key.wallet])
    <2>1. key.wallet \in KeyWallets
      BY <1>6 DEF FilesOK, Keeps, Absent, Empty, Garbled
    <2> QED BY <1>1, <1>4, <1>6, <2>1
  <1>7. CASE key \in {Empty, Garbled} /\ Exits(p, "uncaught")
    BY <1>3, <1>7, ExitsAreNamed, ExitsFit
  <1> QED BY <1>5, <1>6, <1>7 DEF LoadKey

\* The steps of a login between its reads and writes.
LEMMA LoginGoesOn ==
  ASSUME FramesFit, NEW p \in Processes,
         OpenKey(p) \/ WriteKey(p) \/ Begin(p) \/ Prompt(p) \/ OpenSaved(p) \/ WriteSaved(p)
  PROVE  FramesFit'
  <1>1. PICK f \in CommandFrames : f = frame[p] /\ MayBeAt(f.at, f, settings, owner, issued, live)
    BY FrameFacts
  <1>2. settings' = settings /\ owner' = owner /\ issued' = issued /\ live' = live
        /\ Later(issued, live, issued', live')
    BY NothingChanges DEF OpenKey, WriteKey, Begin, Prompt, OpenSaved, WriteSaved, Challenge, Keep, service
  <1>3. ASSUME NEW at \in Places, Goes(p, at), MayBeAt(at, f, settings, owner, issued, live)
        PROVE  FramesFit'
    BY <1>1, <1>2, <1>3, GoesFits
  <1>4. CASE OpenKey(p)
    <2>1. MayBeAt("write_key", f, settings, owner, issued, live)
      BY <1>1, <1>4 DEF OpenKey, IsAt, MayBeAt, LoggingIn
    <2> QED BY <1>3, <1>4, <2>1, PlacesAreNamed DEF OpenKey
  <1>5. CASE WriteKey(p)
    <2>1. MayBeAt("begin", f, settings, owner, issued, live)
      BY <1>1, <1>5 DEF WriteKey, IsAt, MayBeAt, LoggingIn
    <2> QED BY <1>3, <1>5, <2>1, PlacesAreNamed DEF WriteKey
  <1>6. CASE Begin(p)
    <2>1. PICK at \in {"verify", "prompt"} : Goes(p, at)
      BY <1>6 DEF Begin, Challenge
    <2>2. MayBeAt(at, f, settings, owner, issued, live)
      BY <1>1, <1>6 DEF Begin, IsAt, MayBeAt, LoggingIn
    <2> QED BY <1>3, <2>1, <2>2, PlacesAreNamed
  <1>7. CASE Prompt(p)
    <2>1. MayBeAt("verify", f, settings, owner, issued, live)
      BY <1>1, <1>7 DEF Prompt, IsAt, MayBeAt, LoggingIn
    <2>2. CASE Goes(p, "verify")
      BY <1>3, <2>1, <2>2, PlacesAreNamed
    <2>3. CASE Exits(p, "cancelled")
      BY <1>2, <2>3, ExitsAreNamed, ExitsFit
    <2> QED BY <1>7, <2>2, <2>3 DEF Prompt
  <1>8. CASE OpenSaved(p)
    <2>1. MayBeAt("write_saved", f, settings, owner, issued, live)
      BY <1>1, <1>8 DEF OpenSaved, IsAt, MayBeAt, LoggingIn
    <2> QED BY <1>3, <1>8, <2>1, PlacesAreNamed DEF OpenSaved
  <1>9. CASE WriteSaved(p)
    BY <1>2, <1>9, ExitsAreNamed, ExitsFit DEF WriteSaved
  <1> QED BY <1>4, <1>5, <1>6, <1>7, <1>8, <1>9

\* The token of a new session is none that was issued before.
LEMMA TokensAreNew ==
  ASSUME Ledger, Cardinality(DOMAIN issued) < MaxTokens
  PROVE  /\ Cardinality(DOMAIN issued) + 1 \in Tokens
         /\ Cardinality(DOMAIN issued) + 1 \notin DOMAIN issued
         /\ DOMAIN issued \cup {Cardinality(DOMAIN issued) + 1} = 1 .. Cardinality(DOMAIN issued) + 1
  <1>1. PICK n \in Nat : DOMAIN issued = 1 .. n
    BY TokensAreBounded DEF Ledger
  <1>2. Cardinality(DOMAIN issued) = n
    BY <1>1, FS_Interval
  <1>3. n < MaxTokens
    BY <1>2
  <1>4. n + 1 \in 1 .. MaxTokens /\ n + 1 \notin 1 .. n /\ 1 .. n \cup {n + 1} = 1 .. n + 1
    BY <1>3, TokensAreBounded
  <1> QED BY <1>1, <1>2, <1>4 DEF Tokens

LEMMA IssueFits ==
  ASSUME Ledger, FramesFit, NEW p \in Processes, IsAt(p, "verify"), Issue(p), UNCHANGED <<settings, owner>>
  PROVE  FramesFit'
  <1>1. PICK f : f = frame[p] /\ f \in CommandFrames
    BY FrameFacts
  <1>2. f.at = "verify" /\ f.cmd \in {"connect", "key"} /\ f.many <= LookLimit(f) /\ f.wallet \in Wallets
        /\ f.dead \subseteq DOMAIN issued \ DOMAIN live
    BY <1>1, FrameFacts DEF IsAt, MayBeAt, LoggingIn
  <1>3. PICK t : t = Cardinality(DOMAIN issued) + 1
    OBVIOUS
  <1>4. t \in Tokens /\ t \notin DOMAIN issued
    BY <1>3, TokensAreNew DEF Issue
  <1>5. issued' = Over(issued, t, f.wallet) /\ live' = Over(live, t, f.wallet)
        /\ Becomes(p, [f EXCEPT !.at = "audit", !.token = t])
    BY <1>1, <1>3 DEF Issue
  <1>6. Later(issued, live, issued', live')
    BY <1>4, <1>5 DEF Later, Over
  <1>7. PICK g : g = [f EXCEPT !.at = "audit", !.token = t]
    OBVIOUS
  <1>8. g \in CommandFrames /\ g.at = "audit" /\ g.token = t /\ g.cmd = f.cmd /\ g.wallet = f.wallet
        /\ g.many = f.many /\ g.purpose = f.purpose /\ g.limit = f.limit /\ g.dead = f.dead
    <2>1. t \in 0 .. MaxTokens /\ "audit" \in Places
      BY <1>4, PlacesAreNamed, TokensAreBounded DEF Tokens
    <2> QED BY <1>1, <1>7, <2>1 DEF CommandFrames
  <1>9. g.dead \subseteq DOMAIN issued' \ DOMAIN live'
    BY <1>2, <1>6, <1>8 DEF Later
  <1>10. FrameFits(g, settings, owner, issued', live')
    BY <1>2, <1>4, <1>8, <1>9 DEF FrameFits, MayBeAt, LoggingIn, LookLimit
  <1>11. frame' = [frame EXCEPT ![p] = g]
    BY <1>5, <1>7 DEF Becomes
  <1> QED BY <1>6, <1>10, <1>11, OthersStand

LEMMA CompleteFits ==
  ASSUME Ledger, FramesFit, NEW p \in Processes, Complete(p)
  PROVE  FramesFit'
  <1>1. IsAt(p, "verify") /\ UNCHANGED <<settings, owner>>
    BY DEF Complete, Keep
  <1>2. CASE Issue(p)
    BY <1>1, <1>2, IssueFits
  <1>3. CASE Refuse(p)
    <2>1. Later(issued, live, issued', live')
      BY <1>3, NothingChanges DEF Refuse, service
    <2> QED BY <1>1, <1>3, <2>1, ExitsAreNamed, ExitsFit DEF Refuse
  <1> QED BY <1>2, <1>3 DEF Complete

LEMMA RecordConnectFits ==
  ASSUME FramesFit, NEW p \in Processes, RecordConnect(p)
  PROVE  FramesFit'
  <1>1. settings' = settings /\ owner' = owner /\ issued' = issued /\ live' = live
        /\ Later(issued, live, issued', live')
    BY NothingChanges DEF RecordConnect, RecordLogin, Keep
  <1>2. MayBeAt("open_saved", frame[p], settings, owner, issued, live)
    BY FrameFacts DEF RecordConnect, IsAt, MayBeAt, LoggingIn
  <1> QED BY <1>1, <1>2, PlacesAreNamed, GoesFits DEF RecordConnect, RecordLogin

LEMMA LoadSavedFits ==
  ASSUME FilesOK, FramesFit, NEW p \in Processes, LoadSaved(p)
  PROVE  FramesFit'
  <1>1. PICK f : f = frame[p] /\ f \in CommandFrames
    BY FrameFacts
  <1>2. /\ f.at = "load" /\ f.cmd \in {"play", "whoami"} /\ (f.cmd = "play" => f.want \in Assets)
        /\ f.many <= LookLimit(f) /\ f.dead \subseteq DOMAIN issued \ DOMAIN live
    BY <1>1, FrameFacts DEF LoadSaved, IsAt, MayBeAt
  <1>3. settings' = settings /\ owner' = owner /\ issued' = issued /\ live' = live
        /\ Later(issued, live, issued', live')
    BY NothingChanges DEF LoadSaved, Keep, service
  <1>4. CASE saved.is # "session"
    <2>1. Exits(p, "not_connected")
      BY <1>4 DEF LoadSaved
    <2> QED BY <1>3, <2>1, ExitsAreNamed, ExitsFit
  <1>5. CASE saved.is = "session"
    <2>1. PICK t : t = saved.token /\ t \in Tokens
      BY <1>5 DEF FilesOK, Remembers, Absent, Empty, Garbled
    <2>2. PICK g : g = [f EXCEPT !.at = "resolve", !.token = t]
      OBVIOUS
    <2>3. g \in CommandFrames /\ g.at = "resolve" /\ g.cmd = f.cmd /\ g.want = f.want
          /\ g.many = f.many /\ g.purpose = f.purpose /\ g.limit = f.limit /\ g.dead = f.dead
      <3>1. t \in 0 .. MaxTokens /\ "resolve" \in Places
        BY <2>1, PlacesAreNamed, TokensAreBounded DEF Tokens
      <3> QED BY <1>1, <2>2, <3>1 DEF CommandFrames
    <2>4. FrameFits(g, settings, owner, issued', live')
      BY <1>2, <1>3, <2>3 DEF FrameFits, MayBeAt, LoggingIn, LookLimit
    <2>5. frame' = [frame EXCEPT ![p] = g]
      BY <1>1, <1>5, <2>1, <2>2 DEF LoadSaved, Becomes
    <2> QED BY <1>3, <2>4, <2>5, OthersStand
  <1> QED BY <1>4, <1>5

\* Play: a session that has just been resolved is one that earns.
LEMMA ResolvedEarns ==
  ASSUME Ledger, NEW f, f.dead \subseteq DOMAIN issued \ DOMAIN live, f.token \in DOMAIN live
  PROVE  /\ live[f.token] \in Wallets /\ f.token \in DOMAIN issued
         /\ issued[f.token] = live[f.token] /\ f.token \notin f.dead
  BY DEF Ledger

LEMMA PlayFits ==
  ASSUME Ledger, FramesFit, NEW p \in Processes, Play(p)
  PROVE  FramesFit'
  <1>1. PICK f : f = frame[p] /\ f \in CommandFrames
    BY FrameFacts
  <1>2. /\ f.at = "resolve" /\ f.cmd = "play" /\ f.want \in Assets
        /\ f.many <= LookLimit(f) /\ f.dead \subseteq DOMAIN issued \ DOMAIN live
    BY <1>1, FrameFacts DEF Play, IsAt, MayBeAt
  <1>3. settings' = settings /\ owner' = owner /\ issued' = issued /\ live' = live
        /\ Later(issued, live, issued', live')
    BY NothingChanges DEF Play, FighterFor, Keep, service
  <1>4. settings \in Settings /\ owner \in [Assets -> Subjects]
    BY DEF Ledger
  <1>5. CASE f.token \notin DOMAIN live
    <2>1. Exits(p, "expired")
      BY <1>1, <1>5 DEF Play, FighterFor
    <2> QED BY <1>3, <2>1, ExitsAreNamed, ExitsFit
  <1>6. CASE f.token \in DOMAIN live /\ ~f.on
    <2>1. PICK w : w = live[f.token] /\ w \in Wallets /\ f.token \in DOMAIN issued
                   /\ issued[f.token] = w /\ f.token \notin f.dead
      BY <1>2, <1>6, ResolvedEarns
    <2>2. PICK g : g = [f EXCEPT !.at = "over", !.exit = "granted", !.wallet = w]
      OBVIOUS
    <2>3. g \in CommandFrames /\ g.at = "over" /\ g.cmd = f.cmd /\ g.want = f.want /\ g.wallet = w
          /\ g.exit = "granted" /\ g.token = f.token /\ g.on = f.on
          /\ g.many = f.many /\ g.purpose = f.purpose /\ g.limit = f.limit /\ g.dead = f.dead
      <3>1. w \in Subjects /\ "over" \in Places /\ "granted" \in ExitNames
        BY <2>1, PlacesAreNamed DEF Subjects, ExitNames
      <3> QED BY <1>1, <2>2, <3>1 DEF CommandFrames
    <2>4. Leaves(g, issued)
      BY <1>6, <2>1, <2>3 DEF Leaves, Earned
    <2>5. FrameFits(g, settings, owner, issued', live')
      BY <1>2, <1>3, <2>3, <2>4 DEF FrameFits, MayBeAt, LoggingIn, LookLimit
    <2>6. frame' = [frame EXCEPT ![p] = g]
      BY <1>1, <1>6, <2>1, <2>2 DEF Play, FighterFor, Becomes
    <2> QED BY <1>3, <2>5, <2>6, OthersStand
  <1>7. CASE f.token \in DOMAIN live /\ f.on
    <2>1. PICK w : w = live[f.token] /\ w \in Wallets /\ f.token \in DOMAIN issued
                   /\ issued[f.token] = w /\ f.token \notin f.dead
      BY <1>2, <1>7, ResolvedEarns
    <2>2. PICK g : g = Looking(f, "owns", w)
      OBVIOUS
    <2>3. FrameFits(g, settings, owner, issued', live')
      BY <1>1, <1>2, <1>3, <1>4, <2>1, <2>2, LookingFits
    <2>4. frame' = [frame EXCEPT ![p] = g]
      BY <1>1, <1>7, <2>1, <2>2 DEF Play, FighterFor, Becomes
    <2> QED BY <1>3, <2>3, <2>4, OthersStand
  <1> QED BY <1>5, <1>6, <1>7

LEMMA WhoAmIFits ==
  ASSUME FramesFit, NEW p \in Processes, WhoAmI(p)
  PROVE  FramesFit'
  <1>1. settings' = settings /\ owner' = owner /\ issued' = issued /\ live' = live
        /\ Later(issued, live, issued', live')
    BY NothingChanges DEF WhoAmI, Keep, service
  <1>2. MayBeAt("roster", frame[p], settings, owner, issued, live)
    BY DEF WhoAmI, MayBeAt, LoggingIn
  <1>3. Exits(p, "expired") \/ Exits(p, "shown") \/ Goes(p, "roster")
    BY DEF WhoAmI
  <1>4. CASE Goes(p, "roster")
    BY <1>1, <1>2, <1>4, PlacesAreNamed, GoesFits
  <1>5. CASE Exits(p, "expired")
    BY <1>1, <1>5, ExitsAreNamed, ExitsFit
  <1>6. CASE Exits(p, "shown")
    BY <1>1, <1>6, ExitsAreNamed, ExitsFit
  <1> QED BY <1>3, <1>4, <1>5, <1>6

LEMMA ShowRosterFits ==
  ASSUME Ledger, FramesFit, NEW p \in Processes, ShowRoster(p)
  PROVE  FramesFit'
  <1>1. PICK f : f = frame[p] /\ f \in CommandFrames
    BY FrameFacts
  <1>2. f.cmd = "whoami" /\ f.dead \subseteq DOMAIN issued \ DOMAIN live
    BY <1>1, FrameFacts DEF ShowRoster, IsAt, MayBeAt
  <1>3. settings' = settings /\ owner' = owner /\ issued' = issued /\ live' = live
        /\ Later(issued, live, issued', live')
    BY NothingChanges DEF ShowRoster, Roster, Keep, service
  <1>4. settings \in Settings /\ owner \in [Assets -> Subjects]
    BY DEF Ledger
  <1>5. CASE f.token \notin DOMAIN live
    <2>1. Exits(p, "uncaught")
      BY <1>1, <1>5 DEF ShowRoster, Roster
    <2> QED BY <1>3, <2>1, ExitsAreNamed, ExitsFit
  <1>6. CASE f.token \in DOMAIN live
    <2>1. PICK w \in Wallets : w = live[f.token]
      BY <1>2, <1>6, ResolvedEarns
    <2>2. PICK limit \in Nat \ {0} : limit = Lesser(f.limit, MaxRoster)
      BY <1>1, ProvidersAreValid DEF Lesser, CommandFrames
    <2>3. PICK h : h = [f EXCEPT !.limit = limit]
      OBVIOUS
    <2>4. h \in CommandFrames /\ h.cmd = f.cmd /\ h.dead = f.dead
      BY <1>1, <2>2, <2>3 DEF CommandFrames
    <2>5. PICK g : g = Looking(h, "list", w)
      OBVIOUS
    <2>6. FrameFits(g, settings, owner, issued', live')
      BY <1>2, <1>3, <1>4, <2>1, <2>4, <2>5, LookingFits
    <2>7. frame' = [frame EXCEPT ![p] = g]
      BY <1>1, <1>6, <2>1, <2>2, <2>3, <2>5 DEF ShowRoster, Roster, Becomes
    <2> QED BY <1>3, <2>6, <2>7, OthersStand
  <1> QED BY <1>5, <1>6

LEMMA DisconnectFits ==
  ASSUME Ledger, FramesFit, NEW p \in Processes, Disconnect(p)
  PROVE  FramesFit'
  <1>1. PICK f : f = frame[p] /\ f \in CommandFrames
    BY FrameFacts
  <1>2. f.cmd = "disconnect" /\ f.many <= LookLimit(f) /\ f.dead \subseteq DOMAIN issued \ DOMAIN live
        /\ MayBeAt(f.at, f, settings, owner, issued, live)
    BY <1>1, FrameFacts DEF Disconnect
  <1>3. settings' = settings /\ owner' = owner /\ issued' = issued
    BY DEF Disconnect, Keep, ResolveToRevoke, Revoke, RecordRevocation, service
  <1>4. CASE IsAt(p, "resolve") /\ ResolveToRevoke(p)
    <2>1. live' = live /\ Later(issued, live, issued', live')
      BY <1>3, <1>4, NothingChanges DEF ResolveToRevoke, service
    <2>2. f.at = "resolve" /\ f.token \in DOMAIN issued
      BY <1>1, <1>2, <1>4 DEF IsAt, MayBeAt
    <2>3. PICK w \in Subjects : /\ w = IF f.token \in DOMAIN live THEN live[f.token] ELSE None
                               /\ IF w = None THEN f.token \notin DOMAIN live ELSE issued[f.token] = w
      BY <2>2, ProvidersAreValid DEF Ledger, Subjects
    <2>4. PICK g : g = [f EXCEPT !.at = "revoke", !.wallet = w]
      OBVIOUS
    <2>5. g \in CommandFrames /\ g.at = "revoke" /\ g.cmd = f.cmd /\ g.wallet = w /\ g.token = f.token
          /\ g.many = f.many /\ g.purpose = f.purpose /\ g.limit = f.limit /\ g.dead = f.dead
      BY <1>1, <2>3, <2>4, PlacesAreNamed DEF CommandFrames
    <2>6. FrameFits(g, settings, owner, issued', live')
      BY <1>2, <1>3, <2>1, <2>2, <2>3, <2>5 DEF FrameFits, MayBeAt, LoggingIn, LookLimit
    <2>7. frame' = [frame EXCEPT ![p] = g]
      BY <1>1, <1>4, <2>3, <2>4 DEF ResolveToRevoke, Becomes
    <2> QED BY <1>3, <2>1, <2>6, <2>7, OthersStand
  <1>5. CASE IsAt(p, "revoke") /\ Revoke(p)
    <2>1. Later(issued, live, issued', live')
      BY <1>3, <1>5 DEF Revoke, Without, Later
    <2>2. f.at = "revoke" /\ f.token \in DOMAIN issued /\ (f.wallet # None => issued[f.token] = f.wallet)
      BY <1>1, <1>2, <1>5 DEF IsAt, MayBeAt
    <2>3. CASE Ended(f.token) /\ f.wallet # None
      <3>1. Goes(p, "audit")
        BY <1>1, <1>5, <2>3 DEF Revoke
      <3>2. f.wallet \in Wallets
        BY <2>2, <2>3 DEF Ledger
      <3>3. MayBeAt("audit", f, settings, owner, issued', live')
        BY <1>2, <3>2 DEF MayBeAt, LoggingIn
      <3> QED BY <1>1, <1>3, <2>1, <3>1, <3>3, PlacesAreNamed, GoesFits
    <2>4. CASE ~(Ended(f.token) /\ f.wallet # None)
      <3>1. Exits(p, "was_over")
        BY <1>1, <1>5, <2>4 DEF Revoke
      <3> QED BY <1>3, <2>1, <3>1, ExitsAreNamed, ExitsFit
    <2> QED BY <2>3, <2>4
  <1>6. CASE IsAt(p, "audit") /\ RecordRevocation(p)
    <2>1. Later(issued, live, issued', live')
      BY <1>6, NothingChanges DEF RecordRevocation
    <2> QED BY <1>3, <1>6, <2>1, ExitsAreNamed, ExitsFit DEF RecordRevocation
  <1> QED BY <1>4, <1>5, <1>6 DEF Disconnect

\* A command leaves with what it was told.
LEMMA ToldLeaves ==
  ASSUME Ledger, FramesFit, NEW p \in Processes, IsAt(p, "told"), UNCHANGED <<settings, owner, issued, live>>,
         NEW exit \in ExitNames, Becomes(p, [frame[p] EXCEPT !.at = "over", !.exit = exit]),
         (frame[p].cmd = "play" /\ exit = "granted") => frame[p].answer.kind = "owned",
         exit = "not_owned" => frame[p].answer.kind = "not_owned"
  PROVE  FramesFit'
  <1>1. PICK f : f = frame[p] /\ f \in CommandFrames
    BY FrameFacts
  <1>2. /\ Knows(f, settings, f.answer) /\ (f.cmd = "play" => Earned(f, issued))
        /\ f.many <= LookLimit(f) /\ f.dead \subseteq DOMAIN issued \ DOMAIN live
    BY <1>1, FrameFacts DEF IsAt, MayBeAt
  <1>3. Later(issued, live, issued', live') /\ issued' = issued /\ live' = live
    BY NothingChanges
  <1>4. PICK g : g = [f EXCEPT !.at = "over", !.exit = exit]
    OBVIOUS
  <1>5. g \in CommandFrames /\ g.at = "over" /\ g.exit = exit /\ g.wallet = f.wallet /\ g.cmd = f.cmd /\ g.many = f.many
        /\ g.token = f.token /\ g.on = f.on /\ g.purpose = f.purpose /\ g.limit = f.limit /\ g.want = f.want
        /\ g.held = f.held /\ g.lacked = f.lacked /\ g.dead = f.dead
    BY <1>1, <1>4, PlacesAreNamed DEF CommandFrames
  <1>6. Leaves(g, issued)
    BY <1>1, <1>2, <1>5 DEF Leaves, Knows, Earned, Denied
  <1>7. FrameFits(g, settings, owner, issued', live')
    BY <1>2, <1>3, <1>5, <1>6 DEF FrameFits, MayBeAt, LoggingIn, LookLimit
  <1>8. frame' = [frame EXCEPT ![p] = g]
    BY <1>1, <1>4 DEF Becomes
  <1> QED BY <1>3, <1>7, <1>8, OthersStand

LEMMA ToldGoesOn ==
  ASSUME Ledger, FramesFit, NEW p \in Processes, Told(p)
  PROVE  FramesFit'
  <1>1. IsAt(p, "told") /\ UNCHANGED <<settings, owner, issued, live>>
    BY DEF Told, Gate, Keep, service
  <1>2. frame[p].answer.kind \in {"owned", "not_owned", "unavailable", "raised", "listed"}
    BY <1>1, FrameFacts DEF IsAt, MayBeAt, Knows
  <1>3. CASE frame[p].cmd = "play" /\ Gate(p)
    <2>1. PICK exit : /\ exit = IF Grants(frame[p].answer) THEN "granted"
                                ELSE IF frame[p].answer.kind = "not_owned" THEN "not_owned" ELSE "unconfirmed"
                      /\ Becomes(p, [frame[p] EXCEPT !.at = "over", !.exit = exit])
      BY <1>3 DEF Gate
    <2>2. exit \in ExitNames
      BY <2>1 DEF ExitNames
    <2>3. /\ exit = "granted" => frame[p].answer.kind = "owned"
          /\ exit = "not_owned" => frame[p].answer.kind = "not_owned"
      BY <2>1 DEF Grants
    <2> QED BY <1>1, <2>1, <2>2, <2>3, ToldLeaves
  <1>4. CASE /\ frame[p].cmd # "play"
             /\ Becomes(p, [frame[p] EXCEPT !.at = "over", !.exit = frame[p].answer.kind])
    <2>1. PICK exit \in ExitNames : exit = frame[p].answer.kind
      BY <1>2 DEF ExitNames
    <2>2. Becomes(p, [frame[p] EXCEPT !.at = "over", !.exit = exit])
      BY <1>4, <2>1
    <2> QED BY <1>1, <1>4, <2>1, <2>2, ToldLeaves
  <1> QED BY <1>3, <1>4 DEF Told

\* Where a command begins.
New(cmd, at) == [Idle EXCEPT !.cmd = cmd, !.at = at, !.on = settings.on]

LEMMA NewFrame ==
  ASSUME settings \in Settings, NEW cmd \in CommandNames, NEW at \in Places
  PROVE  /\ New(cmd, at) \in CommandFrames /\ New(cmd, at).cmd = cmd /\ New(cmd, at).at = at
         /\ New(cmd, at).many = 0 /\ New(cmd, at).dead = {}
  <1>1. settings.on \in BOOLEAN
    BY SettingsAreValid DEF Configured
  <1>2. PICK h : h = New(cmd, at)
    OBVIOUS
  <1>3. h = [Idle EXCEPT !.cmd = cmd, !.at = at, !.on = settings.on]
    BY <1>2 DEF New
  <1>4. h \in CommandFrames
    BY <1>1, <1>3, IdleIsAFrame DEF CommandFrames
  <1>5. Idle.many = 0 /\ Idle.dead = {}
    BY DEF Idle
  <1>6. h.many = Idle.many /\ h.dead = Idle.dead /\ h.cmd = cmd /\ h.at = at
    BY <1>3, IdleIsAFrame DEF CommandFrames
  <1> QED BY <1>2, <1>4, <1>5, <1>6

LEMMA CommandsAreNamed ==
  {"connect", "key", "play", "whoami", "wallet", "disconnect"} \subseteq CommandNames
  BY DEF CommandNames

\* A new frame that fits where it begins.
LEMMA Begun ==
  ASSUME FramesFit, NEW p \in Processes, UNCHANGED <<settings, owner, issued, live>>,
         NEW g \in CommandFrames, Becomes(p, g), g.many = 0, g.dead \subseteq DOMAIN issued \ DOMAIN live,
         MayBeAt(g.at, g, settings, owner, issued, live)
  PROVE  FramesFit'
  <1>1. g.many <= LookLimit(g)
    BY LimitsAreLimits
  <1>2. Later(issued, live, issued', live') /\ issued' = issued /\ live' = live
    BY NothingChanges
  <1>3. FrameFits(g, settings, owner, issued', live')
    BY <1>1, <1>2 DEF FrameFits
  <1> QED BY <1>2, <1>3, OthersStand DEF Becomes

WalletBegins(p, forced, n, a, w) ==
  LET f == [New("wallet", "ask") EXCEPT !.on = settings.on \/ forced, !.limit = n, !.want = a]
  IN  Becomes(p, IF ~f.on THEN [f EXCEPT !.at = "over", !.exit = "off"]
                 ELSE Looking(f, IF a = None THEN "list" ELSE "owns", w))

LEMMA OptionsAreFields ==
  ASSUME NEW f \in CommandFrames, NEW on \in BOOLEAN, NEW n \in Nat \ {0}
  PROVE  /\ [f EXCEPT !.on = on, !.limit = n] \in CommandFrames
         /\ \A a \in Assets \cup {None} : [f EXCEPT !.on = on, !.limit = n, !.want = a] \in CommandFrames
  <1>1. [f EXCEPT !.on = on, !.limit = n] \in CommandFrames
    BY DEF CommandFrames
  <1>2. ASSUME NEW a \in Assets \cup {None}
        PROVE  [f EXCEPT !.on = on, !.limit = n, !.want = a] \in CommandFrames
    BY DEF CommandFrames
  <1> QED BY <1>1, <1>2

LEMMA RunBegins ==
  ASSUME NEW p \in Processes, Run(p)
  PROVE  \/ \E w \in Named : Becomes(p, [New("connect", "begin") EXCEPT !.wallet = w])
         \/ Becomes(p, New("key", "key"))
         \/ \E a \in Wanted : Becomes(p, [New("play", "load") EXCEPT !.want = a, !.dead = Dead])
         \/ \E forced \in BOOLEAN, n \in Limits :
              Becomes(p, [New("whoami", "load") EXCEPT !.on = settings.on \/ forced, !.limit = n])
         \/ \E forced \in BOOLEAN, n \in Limits, a \in Wanted \cup {None}, w \in Named :
              WalletBegins(p, forced, n, a, w)
         \/ \E t \in DOMAIN issued : Becomes(p, [New("disconnect", "resolve") EXCEPT !.token = t])
  BY DEF Run, New, WalletBegins

LEMMA RunFits ==
  ASSUME Ledger, FramesFit, NEW p \in Processes, Run(p)
  PROVE  FramesFit'
  <1>1. UNCHANGED <<settings, owner, issued, live>>
    BY DEF Run, service
  <1>2. settings \in Settings /\ owner \in [Assets -> Subjects] /\ settings.on \in BOOLEAN
    BY SettingsAreValid DEF Ledger, Configured
  <1>3. ASSUME NEW w \in Named, Becomes(p, [New("connect", "begin") EXCEPT !.wallet = w])
        PROVE  FramesFit'
    <2>1. PICK h : h = New("connect", "begin")
      OBVIOUS
    <2>2. h \in CommandFrames /\ h.cmd = "connect" /\ h.at = "begin" /\ h.many = 0 /\ h.dead = {}
      BY <1>2, <2>1, NewFrame, CommandsAreNamed, PlacesAreNamed
    <2>3. PICK g : g = [h EXCEPT !.wallet = w]
      OBVIOUS
    <2>4. w \in Wallets /\ w \in Subjects
      BY CommandsAreBounded DEF Subjects
    <2>5. g \in CommandFrames /\ g.cmd = "connect" /\ g.at = "begin" /\ g.many = 0 /\ g.dead = {} /\ g.wallet = w
      BY <2>2, <2>3, <2>4 DEF CommandFrames
    <2>6. MayBeAt(g.at, g, settings, owner, issued, live)
      BY <2>4, <2>5 DEF MayBeAt, LoggingIn
    <2> QED BY <1>1, <1>3, <2>1, <2>3, <2>5, <2>6, Begun
  <1>4. ASSUME Becomes(p, New("key", "key"))
        PROVE  FramesFit'
    <2>1. PICK h : h = New("key", "key")
      OBVIOUS
    <2>2. h \in CommandFrames /\ h.cmd = "key" /\ h.at = "key" /\ h.many = 0 /\ h.dead = {}
      BY <1>2, <2>1, NewFrame, CommandsAreNamed, PlacesAreNamed
    <2>3. MayBeAt(h.at, h, settings, owner, issued, live)
      BY <2>2 DEF MayBeAt, LoggingIn
    <2> QED BY <1>1, <1>4, <2>1, <2>2, <2>3, Begun
  <1>5. ASSUME NEW a \in Wanted, Becomes(p, [New("play", "load") EXCEPT !.want = a, !.dead = Dead])
        PROVE  FramesFit'
    <2>1. PICK h : h = New("play", "load")
      OBVIOUS
    <2>2. h \in CommandFrames /\ h.cmd = "play" /\ h.at = "load" /\ h.many = 0
      BY <1>2, <2>1, NewFrame, CommandsAreNamed, PlacesAreNamed
    <2>3. PICK dead \in SUBSET Tokens : dead = DOMAIN issued \ DOMAIN live /\ dead = Dead
      <3>1. \A t \in DOMAIN issued : t \in Tokens
        BY TokensAreBounded DEF Ledger, Tokens
      <3> QED BY <3>1 DEF Dead
    <2>4. PICK g : g = [h EXCEPT !.want = a, !.dead = dead]
      OBVIOUS
    <2>5. a \in Assets
      BY CommandsAreBounded
    <2>6. g \in CommandFrames /\ g.cmd = "play" /\ g.at = "load" /\ g.many = 0 /\ g.dead = dead /\ g.want = a
      BY <2>2, <2>3, <2>4, <2>5 DEF CommandFrames
    <2>7. MayBeAt(g.at, g, settings, owner, issued, live)
      BY <2>5, <2>6 DEF MayBeAt, LoggingIn
    <2> QED BY <1>1, <1>5, <2>1, <2>3, <2>4, <2>6, <2>7, Begun
  <1>6. ASSUME NEW forced \in BOOLEAN, NEW n \in Limits,
               Becomes(p, [New("whoami", "load") EXCEPT !.on = settings.on \/ forced, !.limit = n])
        PROVE  FramesFit'
    <2>1. PICK h : h = New("whoami", "load")
      OBVIOUS
    <2>2. h \in CommandFrames /\ h.cmd = "whoami" /\ h.at = "load" /\ h.many = 0 /\ h.dead = {}
      BY <1>2, <2>1, NewFrame, CommandsAreNamed, PlacesAreNamed
    <2>3. PICK on : on \in BOOLEAN /\ on = (settings.on \/ forced)
      OBVIOUS
    <2>4. on \in BOOLEAN
      BY <2>3
    <2>5. PICK g : g = [h EXCEPT !.on = on, !.limit = n]
      OBVIOUS
    <2>6. n \in Nat \ {0}
      BY CommandsAreBounded
    <2>7. g \in CommandFrames /\ g.cmd = "whoami" /\ g.at = "load" /\ g.many = 0 /\ g.dead = {}
      <3>1. g \in CommandFrames
        BY <2>2, <2>4, <2>5, <2>6, OptionsAreFields
      <3>2. g.cmd = h.cmd /\ g.at = h.at /\ g.many = h.many /\ g.dead = h.dead
        BY <2>2, <2>5 DEF CommandFrames
      <3> QED BY <2>2, <3>1, <3>2
    <2>8. MayBeAt(g.at, g, settings, owner, issued, live)
      BY <2>7 DEF MayBeAt, LoggingIn
    <2> QED BY <1>1, <1>6, <2>1, <2>3, <2>5, <2>7, <2>8, Begun
  <1>7. ASSUME NEW forced \in BOOLEAN, NEW n \in Limits, NEW a \in Wanted \cup {None}, NEW w \in Named,
               WalletBegins(p, forced, n, a, w)
        PROVE  FramesFit'
    <2>1. PICK h : h = New("wallet", "ask")
      OBVIOUS
    <2>2. h \in CommandFrames /\ h.cmd = "wallet" /\ h.many = 0 /\ h.dead = {}
      BY <1>2, <2>1, NewFrame, CommandsAreNamed, PlacesAreNamed
    <2>3. PICK on : on \in BOOLEAN /\ on = (settings.on \/ forced)
      OBVIOUS
    <2>4. on \in BOOLEAN
      BY <2>3
    <2>5. PICK f : f = [h EXCEPT !.on = on, !.limit = n, !.want = a]
      OBVIOUS
    <2>6. n \in Nat \ {0} /\ a \in Assets \cup {None} /\ w \in Wallets /\ (a # None => a \in Assets)
      BY CommandsAreBounded
    <2>7. f \in CommandFrames /\ f.cmd = "wallet" /\ f.many = 0 /\ f.dead = {} /\ f.want = a
      <3>1. n \in Nat \ {0} /\ a \in Assets \cup {None}
        BY <2>6
      <3>2. f \in CommandFrames
        BY <2>2, <2>4, <2>5, <3>1, OptionsAreFields
      <3>3. f.cmd = h.cmd /\ f.many = h.many /\ f.dead = h.dead /\ f.want = a
        BY <2>2, <2>5 DEF CommandFrames
      <3> QED BY <2>2, <3>2, <3>3
    <2>8. Becomes(p, IF ~f.on THEN [f EXCEPT !.at = "over", !.exit = "off"]
                     ELSE Looking(f, IF a = None THEN "list" ELSE "owns", w))
      BY <1>7, <2>1, <2>3, <2>5 DEF WalletBegins
    <2>9. CASE ~f.on
      <3>1. PICK g : g = [f EXCEPT !.at = "over", !.exit = "off"]
        OBVIOUS
      <3>2. g \in CommandFrames /\ g.cmd = "wallet" /\ g.many = 0 /\ g.dead = {} /\ g.at = "over" /\ g.exit = "off"
        BY <2>7, <3>1, PlacesAreNamed, ExitsAreNamed DEF CommandFrames
      <3>3. MayBeAt(g.at, g, settings, owner, issued, live)
        BY <3>2 DEF MayBeAt, LoggingIn, Leaves
      <3>4. Becomes(p, g)
        BY <2>8, <2>9, <3>1
      <3> QED BY <1>1, <3>2, <3>3, <3>4, Begun
    <2>10. CASE f.on
      <3>1. PICK purpose \in {"owns", "list"} : purpose = IF a = None THEN "list" ELSE "owns"
        OBVIOUS
      <3>2. PICK g : g = Looking(f, purpose, w)
        OBVIOUS
      <3>3. FrameFits(g, settings, owner, issued, live)
        BY <1>2, <2>6, <2>7, <3>1, <3>2, LookingFits
      <3>4. frame' = [frame EXCEPT ![p] = g]
        BY <2>8, <2>10, <3>1, <3>2 DEF Becomes
      <3>5. Later(issued, live, issued', live') /\ issued' = issued /\ live' = live
        BY <1>1, NothingChanges
      <3> QED BY <1>1, <3>3, <3>4, <3>5, OthersStand
    <2> QED BY <2>9, <2>10
  <1>8. ASSUME NEW t \in DOMAIN issued, Becomes(p, [New("disconnect", "resolve") EXCEPT !.token = t])
        PROVE  FramesFit'
    <2>1. PICK h : h = New("disconnect", "resolve")
      OBVIOUS
    <2>2. h \in CommandFrames /\ h.cmd = "disconnect" /\ h.at = "resolve" /\ h.many = 0 /\ h.dead = {}
      BY <1>2, <2>1, NewFrame, CommandsAreNamed, PlacesAreNamed
    <2>3. PICK g : g = [h EXCEPT !.token = t]
      OBVIOUS
    <2>4. t \in 0 .. MaxTokens
      BY TokensAreBounded DEF Ledger
    <2>5. g \in CommandFrames /\ g.cmd = "disconnect" /\ g.at = "resolve" /\ g.many = 0 /\ g.dead = {} /\ g.token = t
      BY <2>2, <2>3, <2>4 DEF CommandFrames
    <2>6. MayBeAt(g.at, g, settings, owner, issued, live)
      BY <2>5 DEF MayBeAt, LoggingIn
    <2> QED BY <1>1, <1>8, <2>1, <2>3, <2>5, <2>6, Begun
  <1> QED BY <1>3, <1>4, <1>5, <1>6, <1>7, <1>8, RunBegins

LEMMA CrashFits ==
  ASSUME FramesFit, NEW p \in Processes, Crash(p)
  PROVE  FramesFit'
  <1>1. Becomes(p, Idle) /\ UNCHANGED <<settings, owner, issued, live>>
    BY DEF Crash
  <1> QED BY <1>1, NothingChanges, IdlesFit

LEMMA EndFits ==
  ASSUME FramesFit, NEW p \in Processes, End(p)
  PROVE  FramesFit'
  <1>1. Becomes(p, Idle) /\ UNCHANGED <<settings, owner, issued, live>>
    BY DEF End, Keep, service
  <1> QED BY <1>1, NothingChanges, IdlesFit

LEMMA SessionEndsFits ==
  ASSUME FramesFit, SessionEnds, Keep
  PROVE  FramesFit'
  <1>1. UNCHANGED <<settings, owner, issued, frame>> /\ Later(issued, live, issued', live')
    BY DEF SessionEnds, Without, Keep, Later
  <1> QED BY <1>1, FitsLater DEF FramesFit

\* Whoever looks while an NFT is sold has seen both worlds.
LEMMA SaleFits ==
  ASSUME Ledger, FramesFit, Sale, settings' = settings
  PROVE  FramesFit'
  <1>1. issued' = issued /\ live' = live /\ owner' \in [Assets -> Subjects]
    BY DEF Sale, Ledger
  <1>2. ASSUME NEW p \in Processes
        PROVE  frame'[p] \in CommandFrames /\ FrameFits(frame'[p], settings, owner', issued, live)
    <2>1. PICK f : f = frame[p] /\ f \in CommandFrames
      BY FrameFacts
    <2>2. f.many <= LookLimit(f) /\ f.dead \subseteq DOMAIN issued \ DOMAIN live
          /\ MayBeAt(f.at, f, settings, owner, issued, live)
      BY <2>1, FrameFacts
    <2>3. CASE ~IsAt(p, "ask")
      <3>1. frame'[p] = f /\ f.at # "ask"
        BY <2>1, <2>3 DEF Sale, IsAt
      <3> QED BY <2>1, <2>2, <3>1 DEF FrameFits, MayBeAt
    <2>4. CASE IsAt(p, "ask")
      <3>1. PICK now \in SUBSET Assets : now = Held(f.wallet, owner')
        BY DEF Held
      <3>2. PICK g : g = [f EXCEPT !.held = @ \cup now, !.lacked = @ \cup (Assets \ now)]
        OBVIOUS
      <3>3. frame'[p] = g
        BY <2>1, <2>4, <3>1, <3>2 DEF Sale
      <3>4. g \in CommandFrames /\ g.held = f.held \cup now /\ g.lacked = f.lacked \cup (Assets \ now)
            /\ g.at = f.at /\ g.wallet = f.wallet /\ g.cmd = f.cmd /\ g.k = f.k /\ g.page = f.page
            /\ g.token = f.token /\ g.on = f.on /\ g.purpose = f.purpose /\ g.limit = f.limit /\ g.want = f.want
            /\ g.found = f.found /\ g.many = f.many /\ g.dead = f.dead
        BY <2>1, <3>1, <3>2 DEF CommandFrames
      <3>5. Asks(f, settings, owner, issued) /\ f.at = "ask"
        BY <2>1, <2>2, <2>4 DEF IsAt, MayBeAt
      <3>6. Lists(f, f.found) => Lists(g, g.found)
        <4>1. f.held \in SUBSET g.held /\ IsFiniteSet(g.held) /\ Cardinality(g.held) \in Nat
              /\ Cardinality(f.held) \in Nat
          BY <2>1, <3>1, <3>4, AssetsAreFinite DEF CommandFrames
        <4>2. Cardinality(f.held) <= Cardinality(g.held)
          BY <4>1, FS_Subset
        <4>3. PICK n \in Nat : n = Lesser(LookLimit(f), MaxPage)
          BY <2>1, LimitsAreLimits, ProvidersAreValid DEF Lesser
        <4>4. Lesser(LookLimit(g), MaxPage) = n
          BY <3>4, <4>3 DEF LookLimit
        <4>5. Cardinality(g.held) <= n => Cardinality(f.held) <= n
          BY <4>1, <4>2
        <4> QED BY <3>4, <4>3, <4>4, <4>5 DEF Lists
      <3>7. Sees(g, owner') /\ g.found \subseteq g.held
        BY <3>1, <3>4, <3>5 DEF Sees, Asks
      <3>8. Asks(g, settings, owner', issued)
        BY <3>4, <3>5, <3>6, <3>7 DEF Asks, Steps, Earned
      <3>9. g.many <= LookLimit(g)
        BY <2>2, <3>4 DEF LookLimit
      <3> QED BY <2>2, <3>3, <3>4, <3>5, <3>8, <3>9 DEF FrameFits, MayBeAt, LoggingIn
    <2> QED BY <2>3, <2>4
  <1>3. frame' \in [Processes -> CommandFrames]
    <2>1. frame' = [p \in Processes |-> frame'[p]]
      BY DEF Sale
    <2> QED BY <1>2, <2>1
  <1> QED BY <1>1, <1>2, <1>3 DEF FramesFit

LEMMA FramesStayFit ==
  ASSUME IInv, Next
  PROVE  FramesFit'
  <1>1. Ledger /\ FilesOK /\ FramesFit
    BY DEF IInv
  <1>2. CASE World
    <2>1. CASE SessionEnds /\ UNCHANGED files /\ Keep
      BY <1>1, <2>1, SessionEndsFits
    <2>2. CASE Sale /\ UNCHANGED <<settings, files, commands>>
      BY <1>1, <2>2, SaleFits
    <2> QED BY <1>2, <2>1, <2>2 DEF World
  <1>3. ASSUME NEW p \in Processes, Step(p)
        PROVE  FramesFit'
    <2>1. CASE LoadKey(p)
      BY <1>1, <2>1, LoadKeyFits
    <2>2. CASE OpenKey(p) \/ WriteKey(p) \/ Begin(p) \/ OpenSaved(p) \/ WriteSaved(p)
      BY <1>1, <2>2, LoginGoesOn
    <2>3. CASE Complete(p)
      BY <1>1, <2>3, CompleteFits
    <2>4. CASE RecordConnect(p)
      BY <1>1, <2>4, RecordConnectFits
    <2>5. CASE LoadSaved(p)
      BY <1>1, <2>5, LoadSavedFits
    <2>6. CASE Play(p)
      BY <1>1, <2>6, PlayFits
    <2>7. CASE WhoAmI(p)
      BY <1>1, <2>7, WhoAmIFits
    <2>8. CASE ShowRoster(p)
      BY <1>1, <2>8, ShowRosterFits
    <2>9. CASE Disconnect(p)
      BY <1>1, <2>9, DisconnectFits
    <2>10. CASE AskProvider(p)
      <3>1. Ask(p) /\ UNCHANGED <<settings, owner>>
        BY <2>10 DEF AskProvider, Keep
      <3> QED BY <1>1, <3>1, AskFits
    <2>11. CASE Told(p)
      BY <1>1, <2>11, ToldGoesOn
    <2>12. CASE End(p)
      BY <1>1, <2>12, EndFits
    <2> QED BY <1>3, <2>1, <2>2, <2>3, <2>4, <2>5, <2>6, <2>7, <2>8, <2>9, <2>10, <2>11, <2>12 DEF Step
  <1>4. ASSUME NEW p \in Processes, Run(p) \/ Prompt(p) \/ Crash(p)
        PROVE  FramesFit'
    BY <1>1, <1>4, RunFits, LoginGoesOn, CrashFits
  <1> QED BY <1>2, <1>3, <1>4 DEF Next

-----------------------------------------------------------------------------
\* Where a step leads, and who else stays where he was.
Alone(p, f) == frame' = [frame EXCEPT ![p] = f]

LEMMA WhereItLeads ==
  ASSUME FramesFit, NEW p \in Processes
  PROVE  /\ \A f : Alone(p, f) => frame'[p] = f /\ \A q \in Processes \ {p} : frame'[q] = frame[q]
         /\ \A at : Goes(p, at) =>
              /\ frame'[p].at = at /\ frame'[p].cmd = frame[p].cmd /\ frame'[p].wallet = frame[p].wallet
              /\ \A q \in Processes \ {p} : frame'[q] = frame[q]
         /\ \A exit : Exits(p, exit) =>
              frame'[p].at = "over" /\ \A q \in Processes \ {p} : frame'[q] = frame[q]
  <1>1. ASSUME NEW f, Alone(p, f)
        PROVE  frame'[p] = f /\ \A q \in Processes \ {p} : frame'[q] = frame[q]
    BY <1>1 DEF FramesFit, Alone
  <1>2. ASSUME NEW at, Goes(p, at)
        PROVE  /\ frame'[p].at = at /\ frame'[p].cmd = frame[p].cmd /\ frame'[p].wallet = frame[p].wallet
               /\ \A q \in Processes \ {p} : frame'[q] = frame[q]
    <2>1. PICK g : g = [frame[p] EXCEPT !.at = at]
      OBVIOUS
    <2>2. Alone(p, g)
      BY <1>2, <2>1 DEF Goes, Alone
    <2>3. g.at = at /\ g.cmd = frame[p].cmd /\ g.wallet = frame[p].wallet
      BY <2>1, FrameFacts DEF CommandFrames
    <2> QED BY <1>1, <2>2, <2>3
  <1>3. ASSUME NEW exit, Exits(p, exit)
        PROVE  frame'[p].at = "over" /\ \A q \in Processes \ {p} : frame'[q] = frame[q]
    <2>1. PICK cmd : cmd = frame[p].cmd
      OBVIOUS
    <2>2. PICK g : g = [Idle EXCEPT !.cmd = cmd, !.at = "over", !.exit = exit]
      OBVIOUS
    <2>3. Alone(p, g)
      BY <1>3, <2>1, <2>2 DEF Exits, Alone
    <2>4. g.at = "over"
      BY <2>2 DEF Idle
    <2> QED BY <1>1, <2>3, <2>4
  <1> QED BY <1>1, <1>2, <1>3

\* A step that neither begins nor ends the writing of a record.
Apart(p) ==
  /\ frame[p].at # "audit" /\ frame'[p].at # "audit"
  /\ \A q \in Processes \ {p} : frame'[q] = frame[q]

LEMMA LooksAsk ==
  ASSUME NEW f \in CommandFrames
  PROVE  /\ \A purpose, w : Looking(f, purpose, w).at = "ask"
         /\ NextLook(f).at = f.at
  <1>1. PICK h : h = FirstLook(f)
    OBVIOUS
  <1>2. h \in CommandFrames
    <2>1. 1 \in 0 .. 4
      OBVIOUS
    <2> QED BY <1>1, <2>1, FirstLookFits
  <1>3. h = [f EXCEPT !.k = 1, !.page = 1, !.found = {}, !.many = 0, !.answer = None]
    BY <1>1 DEF FirstLook
  <1>4. h.at = f.at
    BY <1>3 DEF CommandFrames
  <1>5. ASSUME NEW purpose, NEW w PROVE Looking(f, purpose, w).at = "ask"
    BY <1>1, <1>2 DEF Looking, CommandFrames
  <1>6. NextLook(f).at = f.at
    BY <1>1, <1>2, <1>4 DEF NextLook, CommandFrames
  <1> QED BY <1>5, <1>6

LEMMA BecomesApart ==
  ASSUME FramesFit, NEW p \in Processes, frame[p].at # "audit", NEW g, Becomes(p, g), g.at # "audit"
  PROVE  Apart(p)
  BY WhereItLeads DEF Alone, Becomes, Apart

LEMMA QuietSteps ==
  ASSUME FramesFit, NEW p \in Processes
  PROVE  /\ \A at : Goes(p, at) /\ at # "audit" /\ frame[p].at # "audit" => Apart(p)
         /\ \A exit : Exits(p, exit) /\ frame[p].at # "audit" => Apart(p)
         /\ LoadKey(p) => Apart(p)
         /\ LoadSaved(p) => Apart(p)
         /\ ResolveToRevoke(p) /\ IsAt(p, "resolve") => Apart(p)
         /\ Play(p) => Apart(p)
         /\ ShowRoster(p) => Apart(p)
         /\ Ask(p) => Apart(p)
         /\ Told(p) => Apart(p)
         /\ End(p) => Apart(p)
         /\ Run(p) => Apart(p)
  <1>1. PICK f : f = frame[p] /\ f \in CommandFrames
    BY FrameFacts
  <1>2. ASSUME NEW at, Goes(p, at), at # "audit", frame[p].at # "audit" PROVE Apart(p)
    BY <1>2, WhereItLeads DEF Apart
  <1>3. ASSUME NEW exit, Exits(p, exit), frame[p].at # "audit" PROVE Apart(p)
    BY <1>3, WhereItLeads DEF Apart
  <1>4. ASSUME LoadKey(p) PROVE Apart(p)
    <2>1. f.at = "key"
      BY <1>1, <1>4 DEF LoadKey, IsAt
    <2>2. ASSUME NEW w, NEW at, at # "audit", Becomes(p, [f EXCEPT !.at = at, !.wallet = w]) PROVE Apart(p)
      <3>1. PICK g : g = [f EXCEPT !.at = at, !.wallet = w]
        OBVIOUS
      <3>2. g.at = at
        BY <1>1, <3>1 DEF CommandFrames
      <3> QED BY <1>1, <2>1, <2>2, <3>1, <3>2, BecomesApart
    <2>3. \/ \E w : Becomes(p, [f EXCEPT !.at = "open_key", !.wallet = w])
          \/ Becomes(p, [f EXCEPT !.at = "begin", !.wallet = key.wallet])
          \/ Exits(p, "uncaught")
      BY <1>1, <1>4 DEF LoadKey
    <2> QED BY <1>1, <1>3, <2>1, <2>2, <2>3
  <1>5. ASSUME LoadSaved(p) PROVE Apart(p)
    <2>1. f.at = "load"
      BY <1>1, <1>5 DEF LoadSaved, IsAt
    <2>2. CASE Exits(p, "not_connected")
      BY <1>1, <1>3, <2>1, <2>2
    <2>3. CASE Becomes(p, [f EXCEPT !.at = "resolve", !.token = saved.token])
      <3>1. PICK g : g = [f EXCEPT !.at = "resolve", !.token = saved.token]
        OBVIOUS
      <3>2. g.at = "resolve"
        BY <1>1, <3>1 DEF CommandFrames
      <3> QED BY <1>1, <2>1, <2>3, <3>1, <3>2, BecomesApart
    <2> QED BY <1>1, <1>5, <2>2, <2>3 DEF LoadSaved
  <1>6. ASSUME ResolveToRevoke(p), IsAt(p, "resolve") PROVE Apart(p)
    <2>1. PICK w : Becomes(p, [f EXCEPT !.at = "revoke", !.wallet = w])
      BY <1>1, <1>6 DEF ResolveToRevoke
    <2>2. PICK g : g = [f EXCEPT !.at = "revoke", !.wallet = w]
      OBVIOUS
    <2>3. g.at = "revoke" /\ f.at = "resolve"
      BY <1>1, <1>6, <2>2 DEF CommandFrames, IsAt
    <2> QED BY <1>1, <2>1, <2>2, <2>3, BecomesApart
  <1>7. ASSUME Play(p) PROVE Apart(p)
    <2>1. f.at = "resolve"
      BY <1>1, <1>7 DEF Play, IsAt
    <2>2. CASE Exits(p, "expired")
      BY <1>1, <1>3, <2>1, <2>2
    <2>3. CASE Becomes(p, [f EXCEPT !.at = "over", !.exit = "granted", !.wallet = live[f.token]])
      <3>1. PICK g : g = [f EXCEPT !.at = "over", !.exit = "granted", !.wallet = live[f.token]]
        OBVIOUS
      <3>2. g.at = "over"
        BY <1>1, <3>1 DEF CommandFrames
      <3> QED BY <1>1, <2>1, <2>3, <3>1, <3>2, BecomesApart
    <2>4. CASE Becomes(p, Looking(f, "owns", live[f.token]))
      <3>1. Looking(f, "owns", live[f.token]).at = "ask"
        BY <1>1, LooksAsk
      <3> QED BY <1>1, <2>1, <2>4, <3>1, BecomesApart
    <2> QED BY <1>1, <1>7, <2>2, <2>3, <2>4 DEF Play, FighterFor
  <1>8. ASSUME ShowRoster(p) PROVE Apart(p)
    <2>1. f.at = "roster"
      BY <1>1, <1>8 DEF ShowRoster, IsAt
    <2>2. CASE Exits(p, "uncaught")
      BY <1>1, <1>3, <2>1, <2>2
    <2>3. CASE Becomes(p, Looking([f EXCEPT !.limit = Lesser(f.limit, MaxRoster)], "list", live[f.token]))
      <3>1. PICK limit \in Nat \ {0} : limit = Lesser(f.limit, MaxRoster)
        BY <1>1, ProvidersAreValid DEF Lesser, CommandFrames
      <3>2. PICK h : h = [f EXCEPT !.limit = limit]
        OBVIOUS
      <3>3. h \in CommandFrames
        BY <1>1, <3>1, <3>2 DEF CommandFrames
      <3>4. Looking(h, "list", live[f.token]).at = "ask"
        BY <3>3, LooksAsk
      <3>5. Becomes(p, Looking(h, "list", live[f.token]))
        BY <2>3, <3>1, <3>2
      <3> QED BY <1>1, <2>1, <3>4, <3>5, BecomesApart
    <2> QED BY <1>1, <1>8, <2>2, <2>3 DEF ShowRoster, Roster
  <1>9. ASSUME Ask(p) PROVE Apart(p)
    <2>1. f.at = "ask"
      BY <1>1, <1>9 DEF Ask, IsAt
    <2>2. ASSUME NEW answer, Settle(p, answer) PROVE Apart(p)
      <3>1. CASE Becomes(p, NextLook(f))
        BY <1>1, <2>1, <3>1, LooksAsk, BecomesApart
      <3>2. CASE Becomes(p, [f EXCEPT !.at = "told", !.answer = ChainSays(f, answer)])
        <4>1. PICK g : g = [f EXCEPT !.at = "told", !.answer = ChainSays(f, answer)]
          OBVIOUS
        <4>2. g.at = "told"
          BY <1>1, <4>1 DEF CommandFrames
        <4> QED BY <1>1, <2>1, <3>2, <4>1, <4>2, BecomesApart
      <3> QED BY <1>1, <2>2, <3>1, <3>2 DEF Settle
    <2>3. ASSUME NEW items, Becomes(p, [f EXCEPT !.found = Collected(f, items), !.many = Counted(f, items),
                                              !.page = NextPage(f)])
          PROVE  Apart(p)
      <3>1. PICK g : g = [f EXCEPT !.found = Collected(f, items), !.many = Counted(f, items), !.page = NextPage(f)]
        OBVIOUS
      <3>2. g.at = f.at
        BY <1>1, <3>1 DEF CommandFrames
      <3> QED BY <1>1, <2>1, <2>3, <3>1, <3>2, BecomesApart
    <2>4. \/ \E answer : Settle(p, answer)
          \/ \E items : Becomes(p, [f EXCEPT !.found = Collected(f, items), !.many = Counted(f, items),
                                            !.page = NextPage(f)])
      BY <1>1, <1>9 DEF Ask
    <2> QED BY <2>2, <2>3, <2>4
  <1>10. ASSUME Told(p) PROVE Apart(p)
    <2>1. f.at = "told" /\ \E exit : Becomes(p, [f EXCEPT !.at = "over", !.exit = exit])
      BY <1>1, <1>10 DEF Told, Gate, IsAt
    <2>2. PICK exit : Becomes(p, [f EXCEPT !.at = "over", !.exit = exit])
      BY <2>1
    <2>3. PICK g : g = [f EXCEPT !.at = "over", !.exit = exit]
      OBVIOUS
    <2>4. g.at = "over"
      BY <1>1, <2>3 DEF CommandFrames
    <2> QED BY <1>1, <2>1, <2>2, <2>3, <2>4, BecomesApart
  <1>11. ASSUME End(p) PROVE Apart(p)
    <2>1. Becomes(p, Idle) /\ frame[p].at # "audit" /\ Idle.at # "audit"
      BY <1>11 DEF End, IsAt, Idle
    <2> QED BY <2>1, BecomesApart
  <1>12. ASSUME Run(p) PROVE Apart(p)
    <2>1. f.at = "idle"
      BY <1>1, <1>12 DEF Run, IsAt
    <2>2. ASSUME NEW forced \in BOOLEAN, NEW n, NEW a, NEW w, WalletBegins(p, forced, n, a, w)
          PROVE  \E g : Becomes(p, g) /\ g.at # "audit"
      <3>1. PICK h : h = New("wallet", "ask")
        OBVIOUS
      <3>2. PICK g : g = [h EXCEPT !.on = settings.on \/ forced, !.limit = n, !.want = a]
        OBVIOUS
      <3>3. Becomes(p, IF ~g.on THEN [g EXCEPT !.at = "over", !.exit = "off"]
                       ELSE Looking(g, IF a = None THEN "list" ELSE "owns", w))
        BY <2>2, <3>1, <3>2 DEF WalletBegins
      <3>4. [g EXCEPT !.at = "over", !.exit = "off"].at = "over"
        BY <3>1, <3>2 DEF New, Idle
      <3>5. \A purpose : Looking(g, purpose, w).at = "ask"
        BY <3>1, <3>2 DEF New, Idle, Looking, FirstLook
      <3> QED BY <3>3, <3>4, <3>5
    <2>3. /\ \A w : [New("connect", "begin") EXCEPT !.wallet = w].at # "audit"
          /\ New("key", "key").at # "audit"
          /\ \A a : [New("play", "load") EXCEPT !.want = a, !.dead = Dead].at # "audit"
          /\ \A on, n : [New("whoami", "load") EXCEPT !.on = on, !.limit = n].at # "audit"
          /\ \A t : [New("disconnect", "resolve") EXCEPT !.token = t].at # "audit"
      BY DEF New, Idle
    <2>4. \E g : Becomes(p, g) /\ g.at # "audit"
      BY <1>12, <2>2, <2>3, RunBegins
    <2> QED BY <1>1, <2>1, <2>4, BecomesApart
  <1> QED BY <1>2, <1>3, <1>4, <1>5, <1>6, <1>7, <1>8, <1>9, <1>10, <1>11, <1>12

-----------------------------------------------------------------------------
\* The trail.
LoginsOf(w) == {t \in DOMAIN issued : issued[t] = w}
EndsOf(w) == {t \in ended : issued[t] = w}
Booked(event, w) == audit[<<event, w>>] + lost[<<event, w>>]
Balanced(w) ==
  /\ Cardinality(LoginsOf(w)) = Booked("auth_succeeded", w) + Cardinality(Writing({"connect", "key"}, w))
  /\ Cardinality(EndsOf(w)) = Booked("session_revoked", w) + Cardinality(Writing({"disconnect"}, w))

LEMMA BalancedMeans ==
  /\ AuditBalances <=> \A w \in Wallets : Balanced(w)
  /\ AuditBalances' <=> \A w \in Wallets : Balanced(w)'
  BY DEF AuditBalances, Balanced, LoginsOf, EndsOf, Booked

LEMMA TrailIsFinite ==
  ASSUME Ledger, NEW w \in Wallets
  PROVE  /\ IsFiniteSet(LoginsOf(w)) /\ Cardinality(LoginsOf(w)) \in Nat
         /\ IsFiniteSet(EndsOf(w)) /\ Cardinality(EndsOf(w)) \in Nat
         /\ \A event \in Events : Booked(event, w) \in Nat
         /\ \A cmds : IsFiniteSet(Writing(cmds, w)) /\ Cardinality(Writing(cmds, w)) \in Nat
  <1>1. PICK n \in Nat : DOMAIN issued = 1 .. n
    BY TokensAreBounded DEF Ledger
  <1>2. IsFiniteSet(DOMAIN issued)
    BY <1>1, FS_Interval
  <1>3. LoginsOf(w) \in SUBSET DOMAIN issued /\ EndsOf(w) \in SUBSET DOMAIN issued
    BY DEF LoginsOf, EndsOf, Ledger, Dead
  <1>4. \A event \in Events : Booked(event, w) \in Nat
    <2> SUFFICES ASSUME NEW event \in Events PROVE Booked(event, w) \in Nat
      OBVIOUS
    <2>1. audit[<<event, w>>] \in Nat /\ lost[<<event, w>>] \in Nat
      BY DEF Ledger, Counts
    <2> QED BY <2>1 DEF Booked
  <1>5. ASSUME NEW cmds PROVE IsFiniteSet(Writing(cmds, w)) /\ Cardinality(Writing(cmds, w)) \in Nat
    <2>1. Writing(cmds, w) \in SUBSET Processes
      BY DEF Writing
    <2> QED BY <2>1, CommandsAreBounded, FS_Subset, FS_CardinalityType
  <1> QED BY <1>2, <1>3, <1>4, <1>5, FS_Subset, FS_CardinalityType

\* Who writes, when one process moves.
LEMMA WritersStay ==
  ASSUME NEW p \in Processes, Apart(p), NEW cmds, NEW w
  PROVE  Writing(cmds, w)' = Writing(cmds, w)
  BY DEF Apart, Writing, IsAt

LEMMA WriterJoins ==
  ASSUME NEW p \in Processes, frame[p].at # "audit", frame'[p].at = "audit",
         \A q \in Processes \ {p} : frame'[q] = frame[q], NEW cmds, NEW w
  PROVE  /\ p \notin Writing(cmds, w)
         /\ (frame'[p].cmd \in cmds /\ frame'[p].wallet = w) => Writing(cmds, w)' = Writing(cmds, w) \cup {p}
         /\ ~(frame'[p].cmd \in cmds /\ frame'[p].wallet = w) => Writing(cmds, w)' = Writing(cmds, w)
  BY DEF Writing, IsAt

LEMMA WriterLeaves ==
  ASSUME NEW p \in Processes, frame[p].at = "audit", frame'[p].at # "audit",
         \A q \in Processes \ {p} : frame'[q] = frame[q], NEW cmds, NEW w
  PROVE  /\ Writing(cmds, w)' = Writing(cmds, w) \ {p}
         /\ p \in Writing(cmds, w) <=> frame[p].cmd \in cmds /\ frame[p].wallet = w
  BY DEF Writing, IsAt

LEMMA QuietKeepsBalance ==
  ASSUME AuditBalances, NEW p \in Processes, Apart(p), UNCHANGED <<issued, ended, audit, lost>>
  PROVE  AuditBalances'
  <1>1. ASSUME NEW w \in Wallets PROVE Balanced(w)'
    <2>1. LoginsOf(w)' = LoginsOf(w) /\ EndsOf(w)' = EndsOf(w)
          /\ Booked("auth_succeeded", w)' = Booked("auth_succeeded", w)
          /\ Booked("session_revoked", w)' = Booked("session_revoked", w)
      BY DEF LoginsOf, EndsOf, Booked
    <2>2. /\ Writing({"connect", "key"}, w)' = Writing({"connect", "key"}, w)
          /\ Writing({"disconnect"}, w)' = Writing({"disconnect"}, w)
      BY WritersStay
    <2>3. Balanced(w)
      BY BalancedMeans
    <2> QED BY <2>1, <2>2, <2>3 DEF Balanced
  <1> QED BY <1>1, BalancedMeans

\* One more record of the event, written or lost.
BooksOne(event, w) ==
  \A e \in Events, v \in Wallets :
    Booked(e, v)' = IF e = event /\ v = w THEN Booked(e, v) + 1 ELSE Booked(e, v)

LEMMA WriteBooksOne ==
  ASSUME Ledger, NEW event \in Events, NEW w \in Wallets,
         \/ audit' = [audit EXCEPT ![<<event, w>>] = @ + 1] /\ lost' = lost
         \/ lost' = [lost EXCEPT ![<<event, w>>] = @ + 1] /\ audit' = audit
  PROVE  /\ BooksOne(event, w)
         /\ audit' \in Counts /\ lost' \in Counts
  <1>1. audit \in [Events \X Wallets -> Nat] /\ lost \in [Events \X Wallets -> Nat]
    BY DEF Ledger, Counts
  <1>2. PICK x \in Events \X Wallets : x = <<event, w>>
    OBVIOUS
  <1>3. ASSUME NEW e \in Events, NEW v \in Wallets
        PROVE  Booked(e, v)' = IF e = event /\ v = w THEN Booked(e, v) + 1 ELSE Booked(e, v)
    <2>1. PICK y \in Events \X Wallets : y = <<e, v>>
      OBVIOUS
    <2>2. y = x <=> e = event /\ v = w
      BY <1>2, <2>1
    <2>3. audit'[y] + lost'[y] = IF y = x THEN audit[y] + lost[y] + 1 ELSE audit[y] + lost[y]
      <3>1. audit[y] \in Nat /\ lost[y] \in Nat
        BY <1>1
      <3>2. CASE audit' = [audit EXCEPT ![x] = @ + 1] /\ lost' = lost
        <4>1. audit'[y] = IF y = x THEN audit[y] + 1 ELSE audit[y]
          BY <1>1, <3>2
        <4> QED BY <3>1, <3>2, <4>1
      <3>3. CASE lost' = [lost EXCEPT ![x] = @ + 1] /\ audit' = audit
        <4>1. lost'[y] = IF y = x THEN lost[y] + 1 ELSE lost[y]
          BY <1>1, <3>3
        <4> QED BY <3>1, <3>3, <4>1
      <3> QED BY <1>2, <3>2, <3>3
    <2>4. Booked(e, v) = audit[y] + lost[y] /\ Booked(e, v)' = audit'[y] + lost'[y]
      BY <2>1 DEF Booked
    <2> QED BY <2>2, <2>3, <2>4
  <1>4. audit' \in Counts /\ lost' \in Counts
    <2>1. \/ audit' = [audit EXCEPT ![x] = @ + 1] /\ lost' = lost
          \/ lost' = [lost EXCEPT ![x] = @ + 1] /\ audit' = audit
      BY <1>2
    <2>2. audit[x] + 1 \in Nat /\ lost[x] + 1 \in Nat
      BY <1>1
    <2> QED BY <1>1, <2>1, <2>2 DEF Counts
  <1> QED BY <1>3, <1>4 DEF BooksOne

\* The record that a process was to write is in the books, and it writes no more.
LEMMA RecordKeepsBalance ==
  ASSUME Ledger, AuditBalances, NEW p \in Processes, frame[p].at = "audit", frame'[p].at # "audit",
         \A q \in Processes \ {p} : frame'[q] = frame[q], UNCHANGED <<issued, ended>>,
         frame[p].cmd \in {"connect", "key", "disconnect"}, frame[p].wallet \in Wallets,
         NEW event, event = IF frame[p].cmd = "disconnect" THEN "session_revoked" ELSE "auth_succeeded",
         BooksOne(event, frame[p].wallet)
  PROVE  AuditBalances'
  <1>1. "auth_succeeded" \in Events /\ "session_revoked" \in Events
    BY DEF Events
  <1>2. ASSUME NEW w \in Wallets, NEW e \in Events, NEW cmds,
               frame[p].cmd \in cmds <=> e = event,
               NEW n \in Nat, n = Booked(e, w) + Cardinality(Writing(cmds, w))
        PROVE  n = Booked(e, w)' + Cardinality(Writing(cmds, w)')
    <2>1. Booked(e, w) \in Nat /\ IsFiniteSet(Writing(cmds, w)) /\ Cardinality(Writing(cmds, w)) \in Nat
      BY TrailIsFinite
    <2>2. Booked(e, w)' = IF e = event /\ w = frame[p].wallet THEN Booked(e, w) + 1 ELSE Booked(e, w)
      BY DEF BooksOne
    <2>3. Cardinality(Writing(cmds, w)') = IF e = event /\ w = frame[p].wallet
                                           THEN Cardinality(Writing(cmds, w)) - 1 ELSE Cardinality(Writing(cmds, w))
      <3>1. /\ Writing(cmds, w)' = Writing(cmds, w) \ {p}
            /\ p \in Writing(cmds, w) <=> e = event /\ w = frame[p].wallet
        BY <1>2, WriterLeaves
      <3>2. PICK S : S = Writing(cmds, w)
        OBVIOUS
      <3>3. Cardinality(S \ {p}) = IF p \in S THEN Cardinality(S) - 1 ELSE Cardinality(S)
        BY <2>1, <3>2, FS_RemoveElement
      <3> QED BY <3>1, <3>2, <3>3
    <2> QED BY <1>2, <2>1, <2>2, <2>3
  <1>3. ASSUME NEW w \in Wallets PROVE Balanced(w)'
    <2>1. Balanced(w) /\ LoginsOf(w)' = LoginsOf(w) /\ EndsOf(w)' = EndsOf(w)
      BY BalancedMeans DEF LoginsOf, EndsOf
    <2>2. Cardinality(LoginsOf(w)) \in Nat /\ Cardinality(EndsOf(w)) \in Nat
      BY TrailIsFinite
    <2>3. /\ frame[p].cmd \in {"connect", "key"} <=> "auth_succeeded" = event
          /\ frame[p].cmd \in {"disconnect"} <=> "session_revoked" = event
      OBVIOUS
    <2>4. Cardinality(LoginsOf(w)) = Booked("auth_succeeded", w)' + Cardinality(Writing({"connect", "key"}, w)')
      BY <1>1, <1>2, <2>1, <2>2, <2>3 DEF Balanced
    <2>5. Cardinality(EndsOf(w)) = Booked("session_revoked", w)' + Cardinality(Writing({"disconnect"}, w)')
      BY <1>1, <1>2, <2>1, <2>2, <2>3 DEF Balanced
    <2> QED BY <2>1, <2>4, <2>5 DEF Balanced
  <1> QED BY <1>3, BalancedMeans

\* A login: one session more, and one process that is to record it.
LEMMA IssueKeepsBalance ==
  ASSUME Ledger, FramesFit, AuditBalances, NEW p \in Processes, IsAt(p, "verify"), Issue(p)
  PROVE  AuditBalances'
  <1>1. PICK f : f = frame[p] /\ f \in CommandFrames
    BY FrameFacts
  <1>2. f.at = "verify" /\ f.cmd \in {"connect", "key"} /\ f.wallet \in Wallets
    BY <1>1, FrameFacts DEF IsAt, MayBeAt, LoggingIn
  <1>3. PICK t : t = Cardinality(DOMAIN issued) + 1
    OBVIOUS
  <1>4. t \in Tokens /\ t \notin DOMAIN issued
    BY <1>3, TokensAreNew DEF Issue
  <1>5. /\ issued' = Over(issued, t, f.wallet) /\ UNCHANGED <<ended, audit, lost>>
        /\ Becomes(p, [f EXCEPT !.at = "audit", !.token = t])
    BY <1>1, <1>3 DEF Issue
  <1>6. PICK g : g = [f EXCEPT !.at = "audit", !.token = t]
    OBVIOUS
  <1>7. g.at = "audit" /\ g.cmd = f.cmd /\ g.wallet = f.wallet
    BY <1>1, <1>6 DEF CommandFrames
  <1>8. frame'[p] = g /\ \A q \in Processes \ {p} : frame'[q] = frame[q]
    BY <1>5, <1>6, WhereItLeads DEF Alone, Becomes
  <1>9. ASSUME NEW w \in Wallets PROVE Balanced(w)'
    <2>1. Balanced(w) /\ EndsOf(w)' = EndsOf(w)
          /\ \A event : Booked(event, w)' = Booked(event, w)
      <3>1. \A u \in ended : u \in DOMAIN issued /\ issued'[u] = issued[u]
        BY <1>4, <1>5 DEF Ledger, Dead, Over
      <3>2. EndsOf(w)' = EndsOf(w)
        BY <1>5, <3>1 DEF EndsOf
      <3> QED BY <1>5, <3>2, BalancedMeans DEF Booked
    <2>2. Writing({"disconnect"}, w)' = Writing({"disconnect"}, w)
      <3>1. ~(g.cmd \in {"disconnect"} /\ g.wallet = w)
        BY <1>2, <1>7
      <3> QED BY <1>1, <1>2, <1>7, <1>8, <3>1, WriterJoins
    <2>3. CASE w = f.wallet
      <3>1. LoginsOf(w)' = LoginsOf(w) \cup {t} /\ t \notin LoginsOf(w)
        BY <1>4, <1>5, <2>3 DEF LoginsOf, Over
      <3>2. Writing({"connect", "key"}, w)' = Writing({"connect", "key"}, w) \cup {p}
            /\ p \notin Writing({"connect", "key"}, w)
        <4>1. g.cmd \in {"connect", "key"} /\ g.wallet = w
          BY <1>2, <1>7, <2>3
        <4> QED BY <1>1, <1>2, <1>7, <1>8, <4>1, WriterJoins
      <3>3. Cardinality(LoginsOf(w)') = Cardinality(LoginsOf(w)) + 1
        BY <3>1, TrailIsFinite, FS_AddElement
      <3>4. Cardinality(Writing({"connect", "key"}, w)') = Cardinality(Writing({"connect", "key"}, w)) + 1
        BY <3>2, TrailIsFinite, FS_AddElement
      <3>5. Booked("auth_succeeded", w) \in Nat /\ Cardinality(Writing({"connect", "key"}, w)) \in Nat
        BY TrailIsFinite DEF Events
      <3> QED BY <2>1, <2>2, <3>3, <3>4, <3>5 DEF Balanced
    <2>4. CASE w # f.wallet
      <3>1. LoginsOf(w)' = LoginsOf(w)
        BY <1>4, <1>5, <2>4 DEF LoginsOf, Over
      <3>2. Writing({"connect", "key"}, w)' = Writing({"connect", "key"}, w)
        <4>1. ~(g.cmd \in {"connect", "key"} /\ g.wallet = w)
          BY <1>7, <2>4
        <4> QED BY <1>1, <1>2, <1>7, <1>8, <4>1, WriterJoins
      <3> QED BY <2>1, <2>2, <3>1, <3>2 DEF Balanced
    <2> QED BY <2>3, <2>4
  <1> QED BY <1>9, BalancedMeans

\* A revocation: the session that it ended is one it will record, of the same wallet.
LEMMA RevokeKeepsBalance ==
  ASSUME Ledger, FramesFit, AuditBalances, NEW p \in Processes, frame[p].cmd = "disconnect",
         IsAt(p, "revoke"), Revoke(p)
  PROVE  AuditBalances'
  <1>1. PICK f : f = frame[p] /\ f \in CommandFrames
    BY FrameFacts
  <1>2. PICK t : t = f.token
    OBVIOUS
  <1>3. f.at = "revoke" /\ f.cmd = "disconnect" /\ t \in DOMAIN issued
        /\ IF f.wallet = None THEN t \notin DOMAIN live ELSE issued[t] = f.wallet
    BY <1>1, <1>2, FrameFacts DEF IsAt, MayBeAt
  <1>4. UNCHANGED <<issued, audit, lost>>
    BY DEF Revoke
  <1>5. CASE t \notin DOMAIN live
    <2>1. ended' = ended /\ Exits(p, "was_over")
      BY <1>1, <1>2, <1>5 DEF Revoke, Ended
    <2>2. Apart(p)
      BY <1>1, <1>3, <2>1, QuietSteps
    <2> QED BY <1>4, <2>1, <2>2, QuietKeepsBalance
  <1>6. CASE t \in DOMAIN live
    <2>1. f.wallet # None /\ issued[t] = f.wallet /\ t \notin ended
      BY <1>3, <1>6 DEF Ledger, Dead
    <2>2. ended' = ended \cup {t} /\ Goes(p, "audit")
      BY <1>1, <1>2, <1>6, <2>1 DEF Revoke, Ended
    <2>3. frame'[p].at = "audit" /\ frame'[p].cmd = f.cmd /\ frame'[p].wallet = f.wallet
          /\ \A q \in Processes \ {p} : frame'[q] = frame[q]
      BY <1>1, <2>2, WhereItLeads
    <2>4. ASSUME NEW w \in Wallets PROVE Balanced(w)'
      <3>1. Balanced(w) /\ LoginsOf(w)' = LoginsOf(w)
            /\ \A event : Booked(event, w)' = Booked(event, w)
        BY <1>4, BalancedMeans DEF LoginsOf, Booked
      <3>2. Writing({"connect", "key"}, w)' = Writing({"connect", "key"}, w)
        <4>1. ~(frame'[p].cmd \in {"connect", "key"} /\ frame'[p].wallet = w)
          BY <1>3, <2>3
        <4> QED BY <1>1, <1>3, <2>3, <4>1, WriterJoins
      <3>3. CASE w = f.wallet
        <4>1. EndsOf(w)' = EndsOf(w) \cup {t} /\ t \notin EndsOf(w)
          BY <1>4, <2>1, <2>2, <3>3 DEF EndsOf
        <4>2. Writing({"disconnect"}, w)' = Writing({"disconnect"}, w) \cup {p}
              /\ p \notin Writing({"disconnect"}, w)
          <5>1. frame'[p].cmd \in {"disconnect"} /\ frame'[p].wallet = w
            BY <1>3, <2>3, <3>3
          <5> QED BY <1>1, <1>3, <2>3, <5>1, WriterJoins
        <4>3. Cardinality(EndsOf(w)') = Cardinality(EndsOf(w)) + 1
          BY <4>1, TrailIsFinite, FS_AddElement
        <4>4. Cardinality(Writing({"disconnect"}, w)') = Cardinality(Writing({"disconnect"}, w)) + 1
          BY <4>2, TrailIsFinite, FS_AddElement
        <4>5. Booked("session_revoked", w) \in Nat /\ Cardinality(Writing({"disconnect"}, w)) \in Nat
          BY TrailIsFinite DEF Events
        <4> QED BY <3>1, <3>2, <4>3, <4>4, <4>5 DEF Balanced
      <3>4. CASE w # f.wallet
        <4>1. EndsOf(w)' = EndsOf(w)
          BY <1>4, <2>1, <2>2, <3>4 DEF EndsOf
        <4>2. Writing({"disconnect"}, w)' = Writing({"disconnect"}, w)
          <5>1. ~(frame'[p].cmd \in {"disconnect"} /\ frame'[p].wallet = w)
            BY <2>3, <3>4
          <5> QED BY <1>1, <1>3, <2>3, <5>1, WriterJoins
        <4> QED BY <3>1, <3>2, <4>1, <4>2 DEF Balanced
      <3> QED BY <3>3, <3>4
    <2> QED BY <2>4, BalancedMeans
  <1> QED BY <1>5, <1>6

LEMMA BalanceStays ==
  ASSUME IInv, Next
  PROVE  AuditBalances'
  <1>1. Ledger /\ FilesOK /\ FramesFit /\ AuditBalances
    BY DEF IInv
  <1>2. ASSUME World PROVE AuditBalances'
    <2>1. UNCHANGED <<issued, ended, audit, lost>>
      BY <1>2 DEF World, SessionEnds, Sale
    <2>2. \A q \in Processes :
            /\ frame'[q].at = "audit" <=> frame[q].at = "audit"
            /\ frame[q].at = "audit" => frame'[q] = frame[q]
      <3>1. CASE SessionEnds
        BY <3>1 DEF SessionEnds
      <3>2. CASE Sale
        <4> SUFFICES ASSUME NEW q \in Processes
                     PROVE  /\ frame'[q].at = "audit" <=> frame[q].at = "audit"
                            /\ frame[q].at = "audit" => frame'[q] = frame[q]
          OBVIOUS
        <4>1. CASE ~IsAt(q, "ask")
          BY <3>2, <4>1 DEF Sale
        <4>2. CASE IsAt(q, "ask")
          <5>1. PICK f : f = frame[q] /\ f \in CommandFrames
            BY <1>1, FrameFacts
          <5>2. PICK held, lacked : frame'[q] = [f EXCEPT !.held = held, !.lacked = lacked]
            BY <3>2, <4>2, <5>1 DEF Sale
          <5>3. frame'[q].at = f.at
            BY <5>1, <5>2 DEF CommandFrames
          <5> QED BY <4>2, <5>1, <5>3 DEF IsAt
        <4> QED BY <4>1, <4>2
      <3> QED BY <1>2, <3>1, <3>2 DEF World
    <2>3. ASSUME NEW w \in Wallets PROVE Balanced(w)'
      <3>1. Balanced(w) /\ LoginsOf(w)' = LoginsOf(w) /\ EndsOf(w)' = EndsOf(w)
            /\ \A event : Booked(event, w)' = Booked(event, w)
        BY <1>1, <2>1, BalancedMeans DEF LoginsOf, EndsOf, Booked
      <3>2. /\ Writing({"connect", "key"}, w)' = Writing({"connect", "key"}, w)
            /\ Writing({"disconnect"}, w)' = Writing({"disconnect"}, w)
        BY <2>2 DEF Writing, IsAt
      <3> QED BY <3>1, <3>2 DEF Balanced
    <2> QED BY <2>3, BalancedMeans
  <1>3. ASSUME NEW p \in Processes, Apart(p), UNCHANGED <<issued, ended, audit, lost>> PROVE AuditBalances'
    BY <1>1, <1>3, QuietKeepsBalance
  <1>4. ASSUME NEW p \in Processes, IsAt(p, "audit"), frame'[p].at # "audit",
               \A q \in Processes \ {p} : frame'[q] = frame[q], UNCHANGED <<issued, ended>>,
               LET event == IF frame[p].cmd = "disconnect" THEN "session_revoked" ELSE "auth_succeeded"
               IN  \/ audit' = [audit EXCEPT ![<<event, frame[p].wallet>>] = @ + 1] /\ lost' = lost
                   \/ lost' = [lost EXCEPT ![<<event, frame[p].wallet>>] = @ + 1] /\ audit' = audit
        PROVE  AuditBalances'
    <2>1. frame[p].cmd \in {"connect", "key", "disconnect"} /\ frame[p].wallet \in Wallets
      BY <1>1, <1>4, FrameFacts DEF IsAt, MayBeAt
    <2>2. PICK event \in Events :
            event = IF frame[p].cmd = "disconnect" THEN "session_revoked" ELSE "auth_succeeded"
      BY DEF Events
    <2>3. PICK w \in Wallets : w = frame[p].wallet
      BY <2>1
    <2>4. \/ audit' = [audit EXCEPT ![<<event, w>>] = @ + 1] /\ lost' = lost
          \/ lost' = [lost EXCEPT ![<<event, w>>] = @ + 1] /\ audit' = audit
      BY <1>4, <2>2, <2>3
    <2>5. BooksOne(event, w)
      BY <1>1, <2>4, WriteBooksOne
    <2> QED BY <1>1, <1>4, <2>1, <2>2, <2>3, <2>5, RecordKeepsBalance DEF IsAt
  <1>5. ASSUME NEW p \in Processes, Step(p) PROVE AuditBalances'
    <2>1. CASE LoadKey(p) \/ LoadSaved(p) \/ Play(p) \/ ShowRoster(p) \/ AskProvider(p) \/ Told(p) \/ End(p)
      <3>1. UNCHANGED <<issued, ended, audit, lost>>
        BY <2>1 DEF LoadKey, LoadSaved, Play, FighterFor, ShowRoster, Roster, AskProvider, Ask, Told, Gate, End, service
      <3>2. Apart(p)
        BY <1>1, <2>1, QuietSteps DEF AskProvider
      <3> QED BY <1>3, <3>1, <3>2
    <2>2. CASE OpenKey(p) \/ WriteKey(p) \/ Begin(p) \/ OpenSaved(p) \/ WriteSaved(p) \/ WhoAmI(p)
      <3>1. UNCHANGED <<issued, ended, audit, lost>>
        BY <2>2 DEF OpenKey, WriteKey, Begin, Challenge, OpenSaved, WriteSaved, WhoAmI, service
      <3>2. frame[p].at # "audit"
        BY <2>2 DEF OpenKey, WriteKey, Begin, OpenSaved, WriteSaved, WhoAmI, IsAt
      <3>3. (\E at : Goes(p, at) /\ at # "audit") \/ \E exit : Exits(p, exit)
        BY <2>2 DEF OpenKey, WriteKey, Begin, Challenge, OpenSaved, WriteSaved, WhoAmI
      <3>4. Apart(p)
        BY <1>1, <3>2, <3>3, QuietSteps
      <3> QED BY <1>3, <3>1, <3>4
    <2>3. CASE Complete(p)
      <3>1. CASE Refuse(p)
        <4>1. UNCHANGED <<issued, ended, audit, lost>> /\ frame[p].at # "audit" /\ Exits(p, "refused")
          BY <2>3, <3>1 DEF Complete, Refuse, service, IsAt
        <4>2. Apart(p)
          BY <1>1, <4>1, QuietSteps
        <4> QED BY <1>3, <4>1, <4>2
      <3>2. CASE Issue(p)
        BY <1>1, <2>3, <3>2, IssueKeepsBalance DEF Complete
      <3> QED BY <2>3, <3>1, <3>2 DEF Complete
    <2>4. CASE RecordConnect(p)
      <3>1. IsAt(p, "audit") /\ Goes(p, "open_saved") /\ UNCHANGED <<issued, ended>>
            /\ frame[p].cmd # "disconnect" /\ Write("auth_succeeded", frame[p].wallet)
        BY <2>4 DEF RecordConnect, RecordLogin
      <3>2. frame'[p].at # "audit" /\ \A q \in Processes \ {p} : frame'[q] = frame[q]
        BY <1>1, <3>1, WhereItLeads
      <3> QED BY <1>4, <3>1, <3>2 DEF Write
    <2>5. CASE Disconnect(p)
      <3>1. frame[p].cmd = "disconnect"
        BY <2>5 DEF Disconnect
      <3>2. CASE IsAt(p, "resolve") /\ ResolveToRevoke(p)
        <4>1. UNCHANGED <<issued, ended, audit, lost>>
          BY <3>2 DEF ResolveToRevoke, service
        <4>2. Apart(p)
          BY <1>1, <3>2, QuietSteps
        <4> QED BY <1>3, <4>1, <4>2
      <3>3. CASE IsAt(p, "revoke") /\ Revoke(p)
        BY <1>1, <3>1, <3>3, RevokeKeepsBalance
      <3>4. CASE IsAt(p, "audit") /\ RecordRevocation(p)
        <4>1. Exits(p, "disconnected") /\ UNCHANGED <<issued, ended>> /\ Write("session_revoked", frame[p].wallet)
          BY <3>4 DEF RecordRevocation
        <4>2. frame'[p].at # "audit" /\ \A q \in Processes \ {p} : frame'[q] = frame[q]
          BY <1>1, <4>1, WhereItLeads
        <4> QED BY <1>4, <3>1, <3>4, <4>1, <4>2 DEF Write
      <3> QED BY <2>5, <3>2, <3>3, <3>4 DEF Disconnect
    <2> QED BY <1>5, <2>1, <2>2, <2>3, <2>4, <2>5 DEF Step
  <1>6. ASSUME NEW p \in Processes, Run(p) \/ Prompt(p) PROVE AuditBalances'
    <2>1. UNCHANGED <<issued, ended, audit, lost>>
      BY <1>6 DEF Run, Prompt, service
    <2>2. Apart(p)
      BY <1>1, <1>6, QuietSteps DEF Prompt, IsAt
    <2> QED BY <1>3, <2>1, <2>2
  <1>7. ASSUME NEW p \in Processes, Crash(p) PROVE AuditBalances'
    <2>1. Becomes(p, Idle) /\ UNCHANGED <<issued, ended, audit>>
      BY <1>7 DEF Crash
    <2>2. frame'[p] = Idle /\ \A q \in Processes \ {p} : frame'[q] = frame[q]
      BY <1>1, <2>1, WhereItLeads DEF Alone, Becomes
    <2>3. frame'[p].at # "audit"
      BY <2>2 DEF Idle
    <2>4. CASE IsAt(p, "audit")
      BY <1>4, <1>7, <2>1, <2>2, <2>3, <2>4 DEF Crash, RecordOf
    <2>5. CASE ~IsAt(p, "audit")
      <3>1. lost' = lost /\ Apart(p)
        BY <1>7, <2>2, <2>3, <2>5 DEF Crash, Apart, IsAt
      <3> QED BY <1>3, <2>1, <3>1
    <2> QED BY <2>4, <2>5
  <1> QED BY <1>2, <1>5, <1>6, <1>7 DEF Next

-----------------------------------------------------------------------------
LEMMA LedgerStays ==
  ASSUME IInv, Next
  PROVE  Ledger'
  <1>1. Ledger /\ FramesFit
    BY DEF IInv
  <1>2. ASSUME UNCHANGED <<settings, owner, live, issued, ended, audit, lost>> PROVE Ledger'
    BY <1>1, <1>2 DEF Ledger, Dead
  <1>3. ASSUME World PROVE Ledger'
    <2>1. CASE SessionEnds /\ UNCHANGED files /\ Keep
      BY <1>1, <2>1 DEF SessionEnds, Keep, Without, Ledger, Dead
    <2>2. CASE Sale /\ UNCHANGED <<settings, files, commands>>
      BY <1>1, <2>2 DEF Sale, Ledger, Dead
    <2> QED BY <1>3, <2>1, <2>2 DEF World
  <1>4. ASSUME UNCHANGED <<settings, owner, live, issued, ended>>, audit' \in Counts, lost' \in Counts PROVE Ledger'
    BY <1>1, <1>4 DEF Ledger, Dead
  <1>5. ASSUME NEW p \in Processes, Step(p) PROVE Ledger'
    <2>1. CASE \/ LoadKey(p) \/ LoadSaved(p) \/ Play(p) \/ ShowRoster(p) \/ AskProvider(p) \/ Told(p) \/ End(p)
               \/ OpenKey(p) \/ WriteKey(p) \/ Begin(p) \/ OpenSaved(p) \/ WriteSaved(p) \/ WhoAmI(p)
      BY <1>2, <2>1 DEF LoadKey, LoadSaved, Play, FighterFor, ShowRoster, Roster, AskProvider, Ask, Told, Gate, End,
           OpenKey, WriteKey, Begin, Challenge, OpenSaved, WriteSaved, WhoAmI, service, Keep
    <2>2. CASE Complete(p)
      <3>1. CASE Refuse(p)
        BY <1>2, <2>2, <3>1 DEF Complete, Refuse, service, Keep
      <3>2. CASE Issue(p)
        <4>1. PICK t : t = Cardinality(DOMAIN issued) + 1
          OBVIOUS
        <4>2. t \in Tokens /\ t \notin DOMAIN issued /\ DOMAIN issued \cup {t} = 1 .. t
          BY <1>1, <3>2, <4>1, TokensAreNew DEF Issue
        <4>3. PICK w \in Wallets : w = frame[p].wallet
          BY <1>1, <2>2, FrameFacts DEF Complete, IsAt, MayBeAt, LoggingIn
        <4>4. /\ issued' = Over(issued, t, w) /\ live' = Over(live, t, w)
              /\ UNCHANGED <<settings, owner, ended, audit, lost>>
          BY <2>2, <3>2, <4>1, <4>3 DEF Complete, Issue, Keep
        <4>5. DOMAIN issued' = 1 .. t /\ t \in 0 .. MaxTokens
          BY <4>2, <4>4, TokensAreBounded DEF Over, Tokens
        <4>6. \A u \in DOMAIN issued' : issued'[u] \in Wallets
          BY <1>1, <4>2, <4>4 DEF Over, Ledger
        <4>7. DOMAIN live' \subseteq DOMAIN issued' /\ \A u \in DOMAIN live' : live'[u] = issued'[u]
          BY <1>1, <4>2, <4>4 DEF Over, Ledger
        <4>8. ended' \subseteq DOMAIN issued' \ DOMAIN live'
          BY <1>1, <4>2, <4>4 DEF Over, Ledger, Dead
        <4> QED BY <1>1, <4>4, <4>5, <4>6, <4>7, <4>8 DEF Ledger, Dead
      <3> QED BY <2>2, <3>1, <3>2 DEF Complete
    <2>3. CASE RecordConnect(p)
      <3>1. PICK w \in Wallets : w = frame[p].wallet
        BY <1>1, <2>3, FrameFacts DEF RecordConnect, IsAt, MayBeAt
      <3>2. Write("auth_succeeded", w) /\ UNCHANGED <<settings, owner, live, issued, ended>>
        BY <2>3, <3>1 DEF RecordConnect, RecordLogin, Keep
      <3>3. audit' \in Counts /\ lost' \in Counts
        BY <1>1, <3>2, WriteBooksOne DEF Write, Events
      <3> QED BY <1>4, <3>2, <3>3
    <2>4. CASE Disconnect(p)
      <3>1. CASE ResolveToRevoke(p)
        BY <1>2, <2>4, <3>1 DEF Disconnect, ResolveToRevoke, service, Keep
      <3>2. CASE Revoke(p)
        <4>1. UNCHANGED <<settings, owner, issued, audit, lost>>
          BY <2>4, <3>2 DEF Disconnect, Revoke, Keep
        <4>2. PICK t : /\ live' = Without(live, {t})
                       /\ ended' = IF t \in DOMAIN live THEN ended \cup {t} ELSE ended
          BY <3>2 DEF Revoke
        <4> QED BY <1>1, <4>1, <4>2 DEF Ledger, Dead, Without
      <3>3. CASE IsAt(p, "audit") /\ RecordRevocation(p)
        <4>1. PICK w \in Wallets : w = frame[p].wallet
          BY <1>1, <3>3, FrameFacts DEF IsAt, MayBeAt
        <4>2. Write("session_revoked", w) /\ UNCHANGED <<settings, owner, live, issued, ended>>
          BY <2>4, <3>3, <4>1 DEF Disconnect, RecordRevocation, Keep
        <4>3. audit' \in Counts /\ lost' \in Counts
          BY <1>1, <4>2, WriteBooksOne DEF Write, Events
        <4> QED BY <1>4, <4>2, <4>3
      <3> QED BY <2>4, <3>1, <3>2, <3>3 DEF Disconnect
    <2> QED BY <1>5, <2>1, <2>2, <2>3, <2>4 DEF Step
  <1>6. ASSUME NEW p \in Processes, Run(p) \/ Prompt(p) PROVE Ledger'
    BY <1>2, <1>6 DEF Run, Prompt, service, Keep
  <1>7. ASSUME NEW p \in Processes, Crash(p) PROVE Ledger'
    <2>1. UNCHANGED <<settings, owner, live, issued, ended, audit>>
      BY <1>7 DEF Crash
    <2>2. CASE ~IsAt(p, "audit")
      BY <1>2, <1>7, <2>1, <2>2 DEF Crash
    <2>3. CASE IsAt(p, "audit")
      <3>1. PICK w \in Wallets : w = frame[p].wallet
        BY <1>1, <2>3, FrameFacts DEF IsAt, MayBeAt
      <3>2. PICK event \in Events : RecordOf(frame[p]) = <<event, w>>
        BY <3>1 DEF RecordOf, Events
      <3>3. lost' = [lost EXCEPT ![<<event, w>>] = @ + 1]
        BY <1>7, <2>3, <3>2 DEF Crash
      <3>4. audit' \in Counts /\ lost' \in Counts
        BY <1>1, <2>1, <3>3, WriteBooksOne
      <3> QED BY <1>4, <2>1, <3>4
    <2> QED BY <2>2, <2>3
  <1> QED BY <1>3, <1>5, <1>6, <1>7 DEF Next

LEMMA FilesStayOK ==
  ASSUME IInv, Next
  PROVE  FilesOK'
  <1>1. FilesOK /\ FramesFit
    BY DEF IInv
  <1>2. ASSUME UNCHANGED files PROVE FilesOK'
    BY <1>1, <1>2 DEF FilesOK, files
  <1>3. ASSUME World PROVE FilesOK'
    BY <1>2, <1>3 DEF World
  <1>4. ASSUME NEW p \in Processes, Step(p) PROVE FilesOK'
    <2>1. CASE \/ LoadKey(p) \/ LoadSaved(p) \/ Play(p) \/ ShowRoster(p) \/ AskProvider(p) \/ Told(p) \/ End(p)
               \/ Begin(p) \/ Complete(p) \/ RecordConnect(p) \/ WhoAmI(p) \/ Disconnect(p)
      BY <1>2, <2>1 DEF LoadKey, LoadSaved, Play, ShowRoster, AskProvider, Told, End, Begin, Complete, RecordConnect,
           WhoAmI, Disconnect
    <2>2. CASE OpenKey(p)
      BY <1>1, <2>2 DEF OpenKey, FilesOK
    <2>3. CASE OpenSaved(p)
      BY <1>1, <2>3 DEF OpenSaved, FilesOK
    <2>4. CASE WriteKey(p)
      <3>1. PICK w \in KeyWallets : w = frame[p].wallet
        BY <1>1, <2>4, FrameFacts DEF WriteKey, IsAt, MayBeAt
      <3>2. key' \in {Keeps(w), Garbled} /\ saved' = saved
        BY <2>4, <3>1 DEF WriteKey, Overwritten
      <3> QED BY <1>1, <3>2 DEF FilesOK
    <2>5. CASE WriteSaved(p)
      <3>1. PICK w \in Wallets, t \in Tokens : w = frame[p].wallet /\ t = frame[p].token
        BY <1>1, <2>5, FrameFacts DEF WriteSaved, IsAt, MayBeAt, LoggingIn
      <3>2. saved' \in {Remembers(t, w), Garbled} /\ key' = key
        BY <2>5, <3>1 DEF WriteSaved, Overwritten
      <3> QED BY <1>1, <3>2 DEF FilesOK
    <2> QED BY <1>4, <2>1, <2>2, <2>3, <2>4, <2>5 DEF Step
  <1>5. ASSUME NEW p \in Processes, Run(p) \/ Prompt(p) \/ Crash(p) PROVE FilesOK'
    BY <1>2, <1>5 DEF Run, Prompt, Crash
  <1> QED BY <1>3, <1>4, <1>5 DEF Next

-----------------------------------------------------------------------------
\* The theorems.
LEMMA IInvInit == Init => IInv
  <1> SUFFICES ASSUME Init PROVE IInv
    OBVIOUS
  <1>1. PICK w \in Earlier : /\ live = IF w = None THEN NoSessions ELSE [t \in {1} |-> w]
                             /\ audit = IF w = None THEN Nothing ELSE [Nothing EXCEPT ![<<"auth_succeeded", w>>] = 1]
    BY DEF Init, ServiceInit
  <1>2. issued = live /\ ended = {} /\ lost = Nothing /\ frame = [p \in Processes |-> Idle]
        /\ settings \in Settings /\ owner \in [Assets -> Subjects] /\ key = Absent
    BY CommandsAreBounded DEF Init, ServiceInit
  <1>3. w \in Wallets \/ w = None
    BY TokensAreBounded
  <1>4. Nothing \in Counts /\ \A x \in Events \X Wallets : Nothing[x] = 0
    BY DEF Nothing, Counts
  <1>5. audit \in Counts
    <2>1. CASE w = None
      BY <1>1, <1>4, <2>1
    <2>2. CASE w # None
      <3>1. PICK x \in Events \X Wallets : x = <<"auth_succeeded", w>>
        BY <1>3, <2>2 DEF Events
      <3>2. audit = [Nothing EXCEPT ![x] = 1]
        BY <1>1, <2>2, <3>1
      <3> QED BY <1>4, <3>2 DEF Counts
    <2> QED BY <2>1, <2>2
  <1>6. /\ DOMAIN issued = IF w = None THEN 1 .. 0 ELSE 1 .. 1
        /\ \A t \in DOMAIN issued : issued[t] = w /\ w \in Wallets
    <2>1. CASE w = None
      <3>1. DOMAIN issued = {} /\ 1 .. 0 = {}
        BY <1>1, <1>2, <2>1 DEF NoSessions
      <3> QED BY <2>1, <3>1
    <2>2. CASE w # None
      <3>1. issued = [t \in {1} |-> w] /\ 1 .. 1 = {1}
        BY <1>1, <1>2, <2>2
      <3> QED BY <1>3, <2>2, <3>1
    <2> QED BY <2>1, <2>2
  <1>7. Ledger
    <2>1. \E n \in 0 .. MaxTokens : DOMAIN issued = 1 .. n
      <3>1. 0 \in 0 .. MaxTokens /\ 1 \in 0 .. MaxTokens
        BY TokensAreBounded
      <3>2. DOMAIN issued = 1 .. 0 \/ DOMAIN issued = 1 .. 1
        BY <1>6
      <3> QED BY <3>1, <3>2
    <2> QED BY <1>2, <1>4, <1>5, <1>6, <2>1 DEF Ledger, Dead
  <1>8. FilesOK
    <2>1. saved = Absent \/ (saved = Remembers(1, live[1]) /\ live # NoSessions)
      BY DEF Init
    <2>2. CASE saved = Absent
      BY <1>2, <2>2 DEF FilesOK
    <2>3. CASE saved = Remembers(1, live[1]) /\ live # NoSessions
      <3>1. w # None
        BY <1>1, <2>3
      <3>2. 1 \in DOMAIN issued
        BY <1>6, <3>1
      <3>3. live[1] \in Wallets
        BY <1>2, <1>6, <3>2
      <3>4. 1 \in Tokens
        BY TokensAreBounded DEF Tokens
      <3> QED BY <1>2, <2>3, <3>3, <3>4 DEF FilesOK
    <2> QED BY <2>1, <2>2, <2>3
  <1>9. FramesFit
    BY <1>2, IdleIsAFrame, IdleFits DEF FramesFit
  <1>10. ASSUME NEW v \in Wallets PROVE Balanced(v)
    <2>1. Writing({"connect", "key"}, v) = {} /\ Writing({"disconnect"}, v) = {} /\ EndsOf(v) = {}
      BY <1>2 DEF Writing, IsAt, Idle, EndsOf
    <2>2. <<"auth_succeeded", v>> \in Events \X Wallets /\ <<"session_revoked", v>> \in Events \X Wallets
      BY DEF Events
    <2>3. lost[<<"auth_succeeded", v>>] = 0 /\ lost[<<"session_revoked", v>>] = 0
      BY <1>2, <1>4, <2>2
    <2>4. audit[<<"session_revoked", v>>] = 0
      BY <1>1, <1>4, <2>2 DEF Counts
    <2>5. CASE w # None /\ v = w
      <3>1. LoginsOf(v) = {1}
        <4>1. DOMAIN issued = {1}
          BY <1>6, <2>5
        <4> QED BY <1>6, <2>5, <4>1 DEF LoginsOf
      <3>2. Cardinality({1}) = 1
        BY FS_Singleton
      <3>3. audit[<<"auth_succeeded", v>>] = 1
        BY <1>1, <1>4, <2>2, <2>5 DEF Counts
      <3> QED BY <2>1, <2>3, <2>4, <3>1, <3>2, <3>3, FS_EmptySet DEF Balanced, Booked
    <2>6. CASE ~(w # None /\ v = w)
      <3>1. LoginsOf(v) = {}
        BY <1>6, <2>6, ProvidersAreValid DEF LoginsOf
      <3>2. audit[<<"auth_succeeded", v>>] = 0
        BY <1>1, <1>4, <2>2, <2>6 DEF Counts
      <3> QED BY <2>1, <2>3, <2>4, <3>1, <3>2, FS_EmptySet DEF Balanced, Booked
    <2> QED BY <2>5, <2>6
  <1> QED BY <1>7, <1>8, <1>9, <1>10, BalancedMeans DEF IInv

LEMMA IInvNext == IInv /\ [Next]_vars => IInv'
  <1> SUFFICES ASSUME IInv, [Next]_vars PROVE IInv'
    OBVIOUS
  <1>1. CASE Next
    BY <1>1, LedgerStays, FilesStayOK, FramesStayFit, BalanceStays DEF IInv
  <1>2. CASE UNCHANGED vars
    <2>1. UNCHANGED <<settings, owner, live, issued, ended, audit, lost, saved, key, frame>>
      BY <1>2 DEF vars, service, files
    <2>2. Ledger' /\ FilesOK' /\ FramesFit'
      BY <2>1 DEF IInv, Ledger, Dead, FilesOK, FramesFit
    <2>3. AuditBalances'
      BY <2>1 DEF IInv, AuditBalances, Writing, IsAt
    <2> QED BY <2>2, <2>3 DEF IInv
  <1> QED BY <1>1, <1>2

LEMMA IInvParts == IInv => TypeOK /\ GrantsAreEarned /\ AnswersAreHonest
  <1> SUFFICES ASSUME IInv PROVE TypeOK /\ GrantsAreEarned /\ AnswersAreHonest
    OBVIOUS
  <1>1. Ledger /\ FilesOK /\ FramesFit
    BY DEF IInv
  <1>2. TypeOK
    <2>1. DOMAIN issued \subseteq Tokens
      BY <1>1, TokensAreBounded DEF Ledger, Tokens
    <2>2. \A p \in Processes : frame[p].many <= LookLimit(frame[p])
      BY <1>1, FrameFacts
    <2> QED BY <1>1, <2>1, <2>2 DEF TypeOK, Ledger, FilesOK, FramesFit
  <1>3. GrantsAreEarned
    BY <1>1, FrameFacts DEF GrantsAreEarned, Exited, IsAt, MayBeAt, Leaves, Earned
  <1>4. DenialsAreAnswered
    BY <1>1, FrameFacts DEF DenialsAreAnswered, Exited, IsAt, MayBeAt, Leaves, Denied
  <1>5. RosterMissesNothing
    BY <1>1, FrameFacts DEF RosterMissesNothing, MayBeAt, Knows, Lists, MayBeEmpty
  <1> QED BY <1>2, <1>3, <1>4, <1>5 DEF AnswersAreHonest

\* Type correctness of the commands and the wallets they use.
THEOREM CommandsStayTyped == Spec => []TypeOK
  BY IInvInit, IInvNext, IInvParts, PTL DEF Spec

\* fighter_for is the gate: no interleaving of logins, revocations, sales,
\* crashes and failing providers lets a player use an NFT without a session
\* that was issued to his wallet and was not over when the command began, or,
\* where ownership is enforced, without having held it during the check.
THEOREM TheGateHolds == Spec => []GrantsAreEarned
  BY IInvInit, IInvNext, IInvParts, PTL DEF Spec

\* verify_ownership denies, and list_owned leaves out, nothing that the wallet
\* held from the first page to the last, when it fits a page and the limit.
THEOREM OutagesDenyNobody == Spec => []AnswersAreHonest
  BY IInvInit, IInvNext, IInvParts, PTL DEF Spec

\* The audit trail has one login for every session and one revocation for every
\* session that a revoke ended, but for what the sink or a crash lost.
THEOREM TrailBalances == Spec => []AuditBalances
  <1>1. IInv => AuditBalances
    BY DEF IInv
  <1> QED BY <1>1, IInvInit, IInvNext, PTL DEF Spec

-----------------------------------------------------------------------------
\* Resilience: the calls of the providers.
\* An operation started with time left has not run past it by its length, and
\* a backoff fits in what is left.
TimeKept ==
  \A c \in Callers :
    /\ call[c].at = "calling" => call[c].left + call[c].ran >= 1
    /\ call[c].at = "sleeping" => call[c].wait <= call[c].left \/ call[c].wait = 0
    /\ call[c].at \in {"top", "sleeping"} => call[c].left > -OpTimeout

\* What is behind a count: an open breaker, or a probe, saw a whole run.
RunSeen ==
  /\ opened # Never => streak = Threshold
  /\ opened = Never => failures <= streak

CallInv == CallTypeOK /\ OpenMeansThreshold /\ TimeKept /\ RunSeen

LEMMA CallInvInit == CallInit => CallInv
  <1> SUFFICES ASSUME CallInit PROVE CallInv
    OBVIOUS
  <1>1. CallTypeOK
    <2>1. call \in [Callers -> Frames]
      BY DEF CallInit, Frames
    <2>2. failures \in Nat /\ streak \in 0 .. Threshold
      BY PolicyIsValid DEF CallInit
    <2>3. opened \in (0 .. Cooldown) \cup {Never} /\ healthy \in BOOLEAN /\ probing \in BOOLEAN
      BY DEF CallInit
    <2> QED BY <2>1, <2>2, <2>3 DEF CallTypeOK
  <1>2. OpenMeansThreshold /\ TimeKept /\ RunSeen
    BY PolicyIsValid DEF CallInit, OpenMeansThreshold, TimeKept, RunSeen, NoCall
  <1> QED BY <1>1, <1>2 DEF CallInv

-----------------------------------------------------------------------------
\* The breaker's part of the invariant, for each of its methods.
BreakerOK ==
  /\ failures \in Nat
  /\ opened \in (0 .. Cooldown) \cup {Never}
  /\ streak \in 0 .. Threshold
  /\ probing \in BOOLEAN
  /\ OpenMeansThreshold /\ RunSeen

LEMMA HalfOpenKeeps ==
  ASSUME BreakerOK, HalfOpen, UNCHANGED streak
  PROVE  BreakerOK'
  <1>1. CASE CooldownOver
    <2>1. opened # Never /\ opened' = Never /\ failures' = Threshold - 1 /\ probing' = TRUE
      BY <1>1 DEF HalfOpen, CooldownOver
    <2>2. streak = Threshold
      BY <2>1 DEF BreakerOK, RunSeen
    <2>3. failures' \in Nat /\ failures' < Threshold /\ failures' <= streak' /\ streak' \in 0 .. Threshold
      BY <2>1, <2>2, PolicyIsValid
    <2> QED BY <2>1, <2>3 DEF BreakerOK, OpenMeansThreshold, RunSeen
  <1>2. CASE ~CooldownOver
    BY <1>2 DEF HalfOpen, breaker, BreakerOK, OpenMeansThreshold, RunSeen
  <1> QED BY <1>1, <1>2

LEMMA SuccessKeeps ==
  ASSUME RecordSuccess, streak' = 0, probing' = FALSE
  PROVE  BreakerOK'
  <1>1. opened' = Never /\ failures' = 0 /\ probing' \in BOOLEAN
    BY DEF RecordSuccess
  <1>2. failures' \in Nat /\ failures' < Threshold /\ failures' <= streak' /\ streak' \in 0 .. Threshold
    BY <1>1, PolicyIsValid
  <1> QED BY <1>1, <1>2 DEF BreakerOK, OpenMeansThreshold, RunSeen

LEMMA FailureKeeps ==
  ASSUME BreakerOK, RecordFailure, probing' = FALSE,
         streak' = IF streak = Threshold THEN streak ELSE streak + 1
  PROVE  BreakerOK' /\ (opened = Never /\ opened' # Never => streak' = Threshold)
  <1>1. CASE Trips(failures + 1)
    <2>1. opened = Never /\ opened' = 0 /\ failures' = failures + 1 /\ failures' >= Threshold
      BY <1>1 DEF RecordFailure, Trips
    <2>2. failures < Threshold /\ failures <= streak
      BY <2>1 DEF BreakerOK, OpenMeansThreshold, RunSeen
    <2>3. streak' = Threshold
      BY <2>1, <2>2, PolicyIsValid DEF BreakerOK
    <2>4. failures' \in Nat /\ ~(failures' < Threshold) /\ 0 # Never /\ 0 \in 0 .. Cooldown
      BY <2>1, PolicyIsValid DEF BreakerOK
    <2>5. opened' # Never /\ opened' \in (0 .. Cooldown) \cup {Never} /\ probing' \in BOOLEAN
      BY <2>1, <2>4
    <2>6. streak' \in 0 .. Threshold
      BY <2>3, PolicyIsValid
    <2> QED BY <2>3, <2>4, <2>5, <2>6 DEF BreakerOK, OpenMeansThreshold, RunSeen
  <1>2. CASE ~Trips(failures + 1)
    <2>1. opened' = opened /\ failures' = failures + 1
      BY <1>2 DEF RecordFailure
    <2>2. failures \in Nat /\ streak \in 0 .. Threshold /\ Threshold \in Nat
      BY PolicyIsValid DEF BreakerOK
    <2>7. streak' \in 0 .. Threshold
      <3>1. CASE streak = Threshold
        BY <2>2, <3>1
      <3>2. CASE streak # Threshold
        <4>1. streak' = streak + 1
          BY <3>2
        <4> QED BY <2>2, <3>2, <4>1
      <3> QED BY <3>1, <3>2
    <2>8. failures' \in Nat
      BY <2>1, <2>2
    <2>9. probing' \in BOOLEAN
      OBVIOUS
    <2>3. failures' \in Nat /\ streak' \in 0 .. Threshold /\ probing' \in BOOLEAN
      BY <2>7, <2>8, <2>9
    <2>4. opened' \in (0 .. Cooldown) \cup {Never}
      BY <2>1 DEF BreakerOK
    <2>5. CASE opened = Never
      <3>1. failures' < Threshold
        BY <1>2, <2>1, <2>2, <2>5 DEF Trips
      <3>2. failures <= streak
        BY <2>5 DEF BreakerOK, RunSeen
      <3>3. failures' <= streak'
        BY <2>1, <2>2, <3>1, <3>2
      <3> QED BY <2>1, <2>3, <2>4, <2>5, <3>1, <3>3 DEF BreakerOK, OpenMeansThreshold, RunSeen
    <2>6. CASE opened # Never
      <3>1. ~(failures < Threshold) /\ streak = Threshold
        BY <2>6 DEF BreakerOK, OpenMeansThreshold, RunSeen
      <3>2. ~(failures' < Threshold) /\ streak' = Threshold
        BY <2>1, <2>2, <3>1
      <3> QED BY <2>1, <2>3, <2>4, <2>6, <3>2 DEF BreakerOK, OpenMeansThreshold, RunSeen
    <2> QED BY <2>5, <2>6
  <1> QED BY <1>1, <1>2

\* A caller's part: it moves to a frame that is typed and keeps its time.
FrameOK(f) ==
  /\ f \in Frames
  /\ f.at = "calling" => f.left + f.ran >= 1
  /\ f.at = "sleeping" => f.wait <= f.left \/ f.wait = 0
  /\ f.at \in {"top", "sleeping"} => f.left > -OpTimeout

CallsOK == call \in [Callers -> Frames] /\ \A c \in Callers : FrameOK(call[c])

LEMMA CallInvParts == CallInv <=> BreakerOK /\ CallsOK /\ healthy \in BOOLEAN
  BY DEF CallInv, CallTypeOK, BreakerOK, CallsOK, TimeKept, FrameOK

LEMMA GotoKeeps ==
  ASSUME CallsOK, NEW c \in Callers, NEW f, FrameOK(f), Goto(c, f)
  PROVE  CallsOK'
  BY DEF CallsOK, Goto, FrameOK

LEMMA NoCallIsOK == FrameOK(NoCall)
  BY DEF FrameOK, Frames, NoCall

\* What a frame's own fields are, given where it is.
LEMMA FrameFields ==
  ASSUME NEW f, FrameOK(f), f # NoCall
  PROVE  /\ f.at \in {"top", "calling", "sleeping"}
         /\ f.attempt \in 1 .. Attempts
         /\ f.left \in Left
         /\ f.left \in Int
         /\ f.at = "calling" => f.ran \in 0 .. OpTimeout /\ f.probe \in BOOLEAN
         /\ f.at = "sleeping" => f.wait \in 0 .. MaxDelay
  BY PolicyIsValid DEF FrameOK, Frames, NoCall, Left

LEMMA CallStepKeeps ==
  ASSUME BreakerOK, CallsOK, healthy \in BOOLEAN, NEW c \in Callers, CallStep(c)
  PROVE  BreakerOK' /\ CallsOK' /\ healthy' \in BOOLEAN
  <1> DEFINE f == call[c]
  <1>0. FrameOK(f) /\ NoCall.at = "idle" /\ (f.at # "idle" => f # NoCall)
    BY DEF CallsOK, NoCall
  <1>1. CASE BeginCall(c)
    <2>1. FrameOK([at |-> "top", attempt |-> 1, left |-> Budget])
      BY PolicyIsValid DEF FrameOK, Frames, Left
    <2>2. CallsOK'
      BY <1>1, <2>1, GotoKeeps DEF BeginCall
    <2> QED BY <1>1, <2>2 DEF BeginCall, BreakerOK, OpenMeansThreshold, RunSeen, breaker, history
  <1>2. CASE OutOfTime(c) \/ Refused(c) \/ Escape(c)
    <2>1. CallsOK'
      BY <1>2, NoCallIsOK, GotoKeeps DEF OutOfTime, Refused, Escape
    <2> QED BY <1>2, <2>1 DEF OutOfTime, Refused, Escape, BreakerOK, OpenMeansThreshold, RunSeen,
                              breaker, history
  <1>3. CASE Start(c)
    <2>1. BreakerOK' /\ healthy' = healthy
      BY <1>3, HalfOpenKeeps DEF Start
    <2>2. probing' \in BOOLEAN
      BY <2>1 DEF BreakerOK
    <2>3. f # NoCall /\ f.left > 0
      BY <1>0, <1>3 DEF Start
    <2>4. FrameOK([at |-> "calling", attempt |-> f.attempt, left |-> f.left,
                   ran |-> 0, probe |-> probing'])
      BY <1>0, <2>2, <2>3, FrameFields, PolicyIsValid DEF FrameOK, Frames
    <2>5. CallsOK'
      BY <1>3, <2>4, GotoKeeps DEF Start
    <2> QED BY <2>1, <2>5
  <1>4. CASE Succeed(c) \/ FailPermanently(c)
    <2>1. CallsOK'
      BY <1>4, NoCallIsOK, GotoKeeps DEF Succeed, FailPermanently
    <2>2. BreakerOK' /\ healthy' = healthy
      BY <1>4, SuccessKeeps DEF Succeed, FailPermanently
    <2> QED BY <2>1, <2>2
  <1>5. CASE FailTransiently(c)
    <2>1. BreakerOK' /\ healthy' = healthy
      BY <1>5, FailureKeeps DEF FailTransiently
    <2>2. f # NoCall /\ f.at = "calling"
      BY <1>0, <1>5 DEF FailTransiently
    <2>3. ASSUME NEW w \in Waits(f.left), f.attempt # Attempts
          PROVE  FrameOK([at |-> "sleeping", attempt |-> f.attempt, left |-> f.left, wait |-> w])
      <3>1. f.left + f.ran >= 1 /\ f.ran \in 0 .. OpTimeout /\ f.left \in Int
        BY <1>0, <2>2, FrameFields DEF FrameOK
      <3>2. f.left > -OpTimeout
        BY <3>1, PolicyIsValid
      <3>3. w \in 0 .. MaxDelay /\ (w <= f.left \/ w = 0)
        BY <2>3 DEF Waits
      <3>4. f.attempt \in 1 .. Attempts - 1 /\ f.left \in Left
        <4>1. f.attempt \in 1 .. Attempts /\ f.left \in Left
          BY <1>0, <2>2, FrameFields
        <4> QED BY <2>3, <4>1, PolicyIsValid
      <3> QED BY <3>2, <3>3, <3>4 DEF FrameOK, Frames
    <2>4. CallsOK'
      BY <1>5, <2>3, NoCallIsOK, GotoKeeps DEF FailTransiently
    <2> QED BY <2>1, <2>4
  <1>6. CASE Wake(c)
    <2>1. f # NoCall /\ f.at = "sleeping" /\ f.left > -OpTimeout
      BY <1>0, <1>6 DEF Wake, FrameOK
    <2>2. f.attempt + 1 \in 1 .. Attempts
      BY <1>0, <2>1, PolicyIsValid DEF FrameOK, Frames, NoCall
    <2>3. FrameOK([at |-> "top", attempt |-> f.attempt + 1, left |-> f.left])
      BY <1>0, <2>1, <2>2, FrameFields DEF FrameOK, Frames
    <2>4. CallsOK'
      BY <1>6, <2>3, GotoKeeps DEF Wake
    <2> QED BY <1>6, <2>4 DEF Wake, BreakerOK, OpenMeansThreshold, RunSeen, breaker, history
  <1> QED BY <1>1, <1>2, <1>3, <1>4, <1>5, <1>6 DEF CallStep

LEMMA TickKeeps ==
  ASSUME BreakerOK, CallsOK, healthy \in BOOLEAN, Tick
  PROVE  BreakerOK' /\ CallsOK' /\ healthy' \in BOOLEAN
  <1>1. opened' \in (0 .. Cooldown) \cup {Never} /\ (opened' = Never <=> opened = Never)
    <2>1. CASE opened = Never \/ opened >= Cooldown
      BY <2>1 DEF Tick, BreakerOK
    <2>2. CASE ~(opened = Never \/ opened >= Cooldown)
      <3>1. opened \in 0 .. Cooldown /\ opened' = opened + 1
        BY <2>2 DEF Tick, BreakerOK
      <3>2. opened' \in 0 .. Cooldown
        BY <2>2, <3>1, PolicyIsValid
      <3>3. opened' # Never
        BY <3>2, PolicyIsValid
      <3> QED BY <2>2, <3>2, <3>3
    <2> QED BY <2>1, <2>2
  <1>2. BreakerOK' /\ healthy' \in BOOLEAN
    BY <1>1 DEF Tick, BreakerOK, OpenMeansThreshold, RunSeen, history
  <1>3. ASSUME NEW c \in Callers
        PROVE  FrameOK(Elapsed(call[c]))
    <2> DEFINE f == call[c]
    <2>0. FrameOK(f) /\ f \in Frames
      BY DEF CallsOK, FrameOK
    <2>1. CASE f = NoCall
      BY <2>1, NoCallIsOK DEF Elapsed, NoCall
    <2>2. CASE f.at = "top" /\ f # NoCall
      <3>1. f \in [at : {"top"}, attempt : 1 .. Attempts, left : Left]
        BY <2>0, <2>2 DEF Frames
      <3>2. CASE f.left > 0
        <4>1. Elapsed(f) = [at |-> "top", attempt |-> f.attempt, left |-> f.left - 1]
          BY <3>1, <3>2 DEF Elapsed
        <4>2. f.left - 1 \in Left /\ f.left - 1 > -OpTimeout
          BY <3>1, <3>2, PolicyIsValid DEF Left
        <4>3. f.attempt \in 1 .. Attempts
          BY <3>1
        <4> QED BY <4>1, <4>2, <4>3 DEF FrameOK, Frames
      <3>3. CASE ~(f.left > 0)
        BY <2>0, <2>2, <3>3 DEF Elapsed
      <3> QED BY <3>2, <3>3
    <2>3. CASE f.at = "calling" /\ f # NoCall
      <3>1. f \in [at : {"calling"}, attempt : 1 .. Attempts, left : Left, ran : 0 .. OpTimeout,
                   probe : BOOLEAN]
        BY <2>0, <2>3 DEF Frames
      <3>2. f.ran < OpTimeout /\ f.left + f.ran >= 1
        BY <2>0, <2>3 DEF Tick, FrameOK
      <3>3. Elapsed(f) = [at |-> "calling", attempt |-> f.attempt, left |-> f.left - 1,
                          ran |-> f.ran + 1, probe |-> f.probe]
        BY <3>1 DEF Elapsed
      <3>4. /\ f.attempt \in 1 .. Attempts /\ f.probe \in BOOLEAN
            /\ f.left \in Left /\ f.ran \in 0 .. OpTimeout
        BY <3>1
      <3>5. f.left - 1 \in Left /\ f.ran + 1 \in 0 .. OpTimeout /\ (f.left - 1) + (f.ran + 1) >= 1
        BY <3>2, <3>4, PolicyIsValid DEF Left
      <3> QED BY <3>3, <3>4, <3>5 DEF FrameOK, Frames
    <2>4. CASE f.at = "sleeping" /\ f # NoCall
      <3>1. f \in [at : {"sleeping"}, attempt : 1 .. Attempts - 1, left : Left, wait : 0 .. MaxDelay]
        BY <2>0, <2>4 DEF Frames
      <3>2. f.wait > 0 /\ f.wait <= f.left
        BY <2>0, <2>4, <3>1 DEF Tick, FrameOK
      <3>3. Elapsed(f) = [at |-> "sleeping", attempt |-> f.attempt, left |-> f.left - 1,
                          wait |-> f.wait - 1]
        BY <3>1 DEF Elapsed
      <3>4. f.attempt \in 1 .. Attempts - 1 /\ f.left \in Left /\ f.wait \in 0 .. MaxDelay
        BY <3>1
      <3>5. /\ f.left - 1 \in Left /\ f.wait - 1 \in 0 .. MaxDelay
            /\ f.wait - 1 <= f.left - 1 /\ f.left - 1 > -OpTimeout
        BY <3>2, <3>4, PolicyIsValid DEF Left
      <3> QED BY <3>3, <3>4, <3>5 DEF FrameOK, Frames
    <2> QED BY <2>0, <2>1, <2>2, <2>3, <2>4, FrameFields
  <1>4. call' = [c \in Callers |-> Elapsed(call[c])]
    BY DEF Tick
  <1>5. CallsOK'
    BY <1>3, <1>4 DEF CallsOK, FrameOK
  <1> QED BY <1>2, <1>5

LEMMA CallInvNext == CallInv /\ [CallNext]_callVars => CallInv'
  <1> SUFFICES ASSUME BreakerOK, CallsOK, healthy \in BOOLEAN, [CallNext]_callVars
               PROVE  BreakerOK' /\ CallsOK' /\ healthy' \in BOOLEAN
    <2>1. CallInv' <=> BreakerOK' /\ CallsOK' /\ healthy' \in BOOLEAN
      BY CallInvParts DEF CallInv, CallTypeOK, BreakerOK, CallsOK, TimeKept, FrameOK, OpenMeansThreshold, RunSeen
    <2> QED BY <2>1, CallInvParts
  <1>1. CASE UNCHANGED callVars
    BY <1>1 DEF callVars, history, BreakerOK, CallsOK, FrameOK, OpenMeansThreshold, RunSeen
  <1>2. CASE \E c \in Callers : CallStep(c)
    BY <1>2, CallStepKeeps
  <1>3. CASE Peek
    BY <1>3, HalfOpenKeeps DEF Peek, CallsOK, FrameOK
  <1>4. CASE Reset
    BY <1>4, SuccessKeeps DEF Reset, CallsOK, FrameOK
  <1>5. CASE Tick
    BY <1>5, TickKeeps
  <1>6. CASE Weather
    BY <1>6 DEF Weather, breaker, history, BreakerOK, CallsOK, FrameOK, OpenMeansThreshold, RunSeen
  <1> QED BY <1>1, <1>2, <1>3, <1>4, <1>5, <1>6 DEF CallNext

-----------------------------------------------------------------------------
\* The breaker, the frames and the histories keep their types.
THEOREM BreakerTypeCorrect == CallSpec => []CallTypeOK
  BY CallInvInit, CallInvNext, PTL DEF CallSpec, CallInv

\* Under any interleaving of callers the breaker is closed exactly while its
\* counter is below the threshold.
THEOREM BreakerIsConsistent == CallSpec => []OpenMeansThreshold
  BY CallInvInit, CallInvNext, PTL DEF CallSpec, CallInv

\* A call never runs or waits a whole operation past its budget.
THEOREM CallsAreBounded == CallSpec => []OverrunIsOneOperation
  <1>1. CallInv => OverrunIsOneOperation
    <2> SUFFICES ASSUME BreakerOK, CallsOK, NEW c \in Callers, call[c] # NoCall
                 PROVE  call[c].left > -OpTimeout
      BY CallInvParts DEF OverrunIsOneOperation
    <2>1. FrameOK(call[c])
      BY DEF CallsOK
    <2>2. CASE call[c].at = "calling"
      <3>1. call[c].left \in Int /\ call[c].ran \in 0 .. OpTimeout /\ call[c].left + call[c].ran >= 1
        BY <2>1, <2>2, FrameFields DEF FrameOK
      <3> QED BY <3>1, PolicyIsValid
    <2>3. CASE call[c].at # "calling"
      BY <2>1, <2>3, FrameFields DEF FrameOK
    <2> QED BY <2>2, <2>3
  <1> QED BY <1>1, CallInvInit, CallInvNext, PTL DEF CallSpec

\* The breaker opens only on a run of Threshold recorded failures.
THEOREM BreakerOpensOnARun == CallSpec => OpensOnlyOnARun
  <1>1. CallInv /\ [CallNext]_callVars => [opened = Never /\ opened' # Never => streak' = Threshold]_callVars
    <2> SUFFICES ASSUME BreakerOK, [CallNext]_callVars, opened = Never, opened' # Never
                 PROVE  streak' = Threshold
      BY CallInvParts
    <2>1. CASE UNCHANGED callVars
      BY <2>1 DEF callVars
    <2>2. ASSUME NEW c \in Callers, CallStep(c)
          PROVE  streak' = Threshold
      <3>1. CASE FailTransiently(c)
        BY <3>1, FailureKeeps DEF FailTransiently
      <3>2. CASE ~FailTransiently(c)
        BY <2>2, <3>2 DEF CallStep, BeginCall, OutOfTime, Refused, Start, Succeed, FailPermanently, Escape,
                          Wake, HalfOpen, CooldownOver, RecordSuccess, breaker
      <3> QED BY <3>1, <3>2
    <2>3. CASE Peek \/ Reset \/ Tick \/ Weather
      BY <2>3 DEF Peek, Reset, Tick, Weather, HalfOpen, CooldownOver, RecordSuccess, breaker
    <2> QED BY <2>1, <2>2, <2>3 DEF CallNext
  <1> QED BY <1>1, CallInvInit, CallInvNext, PTL DEF CallSpec, OpensOnlyOnARun
=============================================================================
