------------------------- MODULE SessionService_proofs -------------------------
(***************************************************************************)
(* Theorems about SessionService for every number of threads, tokens and   *)
(* wallets: the types, that the service implements SessionLives, and that  *)
(* its limit is kept by calls that come one after the other.               *)
(***************************************************************************)
EXTENDS MCSessionService, FiniteSetTheorems, TLAPS

\* A drawn token is held by one issue, which has not put it yet, or was put.
TokensAreFresh ==
  /\ \A th \in Threads, t \in Tokens : Holds(th, t) => t \in drawn /\ t \notin DOMAIN store
  /\ \A th, other \in Threads, t \in Tokens : Holds(th, t) /\ Holds(other, t) => th = other
  /\ DOMAIN store \subseteq drawn

IInv == TypeOK /\ TokensAreFresh

-----------------------------------------------------------------------------
LEMMA MapsHaveTypes ==
  ASSUME NEW map
  PROVE  map \in SessionMaps <=> map \in [DOMAIN map -> Session] /\ DOMAIN map \subseteq Tokens
  BY DEF SessionMaps

LEMMA WithoutIsAMap ==
  ASSUME NEW map \in SessionMaps, NEW T
  PROVE  Without(map, T) \in SessionMaps /\ DOMAIN Without(map, T) = DOMAIN map \ T
  <1>1. map \in [DOMAIN map -> Session] /\ DOMAIN map \subseteq Tokens
    BY MapsHaveTypes
  <1>2. Without(map, T) \in [DOMAIN map \ T -> Session]
    BY <1>1 DEF Without
  <1> QED BY <1>1, <1>2 DEF SessionMaps, Without

LEMMA WithIsAMap ==
  ASSUME NEW map \in SessionMaps, NEW t \in Tokens, NEW s \in Session
  PROVE  With(map, t, s) \in SessionMaps /\ DOMAIN With(map, t, s) = DOMAIN map \cup {t}
  <1>1. map \in [DOMAIN map -> Session] /\ DOMAIN map \subseteq Tokens
    BY MapsHaveTypes
  <1>2. With(map, t, s) \in [DOMAIN map \cup {t} -> Session]
    BY <1>1 DEF With
  <1> QED BY <1>1, <1>2 DEF SessionMaps, With

LEMMA NewSessionIsTyped ==
  ASSUME NEW w \in Wallets, now \in Times
  PROVE  NewSession(w, now) \in Session
  <1>1. now + TTL \in 0 .. MaxTime + TTL
    BY SessionTimesAreValid DEF Times
  <1> QED BY <1>1 DEF NewSession, Session

\* The fields of a frame, given where it is.
LEMMA FrameFields ==
  ASSUME NEW f \in Frames
  PROVE  /\ f.at \in Issuing => f.token \in Tokens /\ f.session \in Session /\ f.began \in Times
         /\ f.at = "evict" => f.victim \in Tokens
         /\ f.at \in {"found", "expired"} => f.token \in Tokens /\ f.session \in Session
         /\ f.at = "sweep" => f.began \in Times
  BY DEF Frames, Issuing, Idle

\* Going on from a step of issue other than the eviction keeps the frame typed.
LEMMA OnwardIsTyped ==
  ASSUME NEW f \in Frames, f.at \in {"issue", "purge", "recount", "oldest"},
         NEW at \in {"purge", "recount", "oldest", "put"}
  PROVE  [f EXCEPT !.at = at] \in Frames
  <1>1. f \in [at : {"issue", "purge", "recount", "oldest", "put"}, token : Tokens,
               session : Session, began : Times]
    BY DEF Frames, Idle
  <1> QED BY <1>1 DEF Frames

-----------------------------------------------------------------------------
LEMMA IInvInit == Init => IInv
  <1> SUFFICES ASSUME Init PROVE IInv
    OBVIOUS
  <1>1. NoSessions \in [{} -> Session] /\ DOMAIN NoSessions = {}
    BY DEF NoSessions
  <1>2. store \in SessionMaps
    BY <1>1 DEF Init, SessionMaps
  <1>3. now \in Times
    BY SessionTimesAreValid DEF Init, Times
  <1> QED BY <1>1, <1>2, <1>3 DEF Init, IInv, TypeOK, TokensAreFresh, Holds, Issuing, Idle, Frames

\* A step of one thread that takes sessions out of the store, draws nothing,
\* and leaves the thread with the token it held or with none.
LEMMA TakingKeeps ==
  ASSUME IInv, NEW th \in Threads, NEW f \in Frames, Goto(th, f),
         \A t \in Tokens : f.at \in Issuing /\ f.token = t => Holds(th, t),
         NEW T, store' = Without(store, T), UNCHANGED drawn, now' \in Times
  PROVE  IInv'
  <1>1. store' \in SessionMaps /\ DOMAIN store' \subseteq DOMAIN store
    BY WithoutIsAMap DEF IInv, TypeOK
  <1>2. frame' \in [Threads -> Frames]
    BY DEF IInv, TypeOK, Goto
  <1>3. \A x \in Threads, t \in Tokens : Holds(x, t)' => Holds(x, t)
    BY DEF IInv, TypeOK, Goto, Holds
  <1> QED BY <1>1, <1>2, <1>3 DEF IInv, TypeOK, TokensAreFresh

\* A store from which nothing is taken is as it was.
LEMMA TakingNothing ==
  ASSUME store \in SessionMaps
  PROVE  store = Without(store, {})
  <1>1. store \in [DOMAIN store -> Session]
    BY MapsHaveTypes
  <1> QED BY <1>1 DEF Without

LEMMA IdleIsFree == Idle \in Frames /\ Idle.at \notin Issuing
  BY DEF Frames, Idle, Issuing

LEMMA IssueKeeps ==
  ASSUME IInv, NEW th \in Threads, Issue(th)
  PROVE  IInv'
  <1> DEFINE f == frame[th]
  <1>0. f \in Frames /\ store = Without(store, {}) /\ now \in Times
    BY TakingNothing DEF IInv, TypeOK
  <1>1. CASE BeginIssue(th)
    <2>1. PICK t \in Tokens \ drawn, w \in Wallets :
            /\ drawn' = drawn \cup {t}
            /\ Goto(th, [at |-> "issue", token |-> t, session |-> NewSession(w, now),
                         began |-> now])
      BY <1>1 DEF BeginIssue
    <2> DEFINE g == [at |-> "issue", token |-> t, session |-> NewSession(w, now), began |-> now]
    <2>2. g \in Frames
      BY <1>0, NewSessionIsTyped DEF Frames
    <2>3. frame' \in [Threads -> Frames] /\ frame'[th] = g
      BY <2>1, <2>2 DEF IInv, TypeOK, Goto
    <2>4. \A x \in Threads, u \in Tokens : Holds(x, u)' <=> IF x = th THEN u = t ELSE Holds(x, u)
      BY <2>1, <2>3 DEF IInv, TypeOK, Goto, Holds, Issuing
    <2>5. store' = store /\ now' = now /\ t \notin DOMAIN store
      BY <1>1 DEF BeginIssue, IInv, TokensAreFresh
    <2>6. TokensAreFresh'
      BY <2>1, <2>4, <2>5 DEF IInv, TokensAreFresh
    <2> QED BY <2>1, <2>3, <2>5, <2>6 DEF IInv, TypeOK
  <1>2. CASE Count(th) \/ Recount(th)
    <2>1. PICK at \in {"purge", "recount", "oldest", "put"} : Onward(th, at)
      BY <1>2 DEF Count, Recount
    <2>2. f.at \in {"issue", "purge", "recount", "oldest"}
      BY <1>2 DEF Count, Recount
    <2>3. [f EXCEPT !.at = at] \in Frames /\ Goto(th, [f EXCEPT !.at = at])
      BY <1>0, <2>1, <2>2, OnwardIsTyped DEF Onward
    <2>4. \A t \in Tokens : [f EXCEPT !.at = at].token = t => Holds(th, t)
      BY <1>0, <2>2 DEF Holds, Issuing, Frames, Idle
    <2>5. store' = Without(store, {}) /\ UNCHANGED drawn /\ now' \in Times
      BY <1>0, <1>2 DEF Count, Recount
    <2> QED BY <2>3, <2>4, <2>5, TakingKeeps
  <1>3. CASE Purge(th)
    <2>1. f.at = "purge" /\ Goto(th, [f EXCEPT !.at = "recount"])
      BY <1>3 DEF Purge, Onward
    <2>2. [f EXCEPT !.at = "recount"] \in Frames
      BY <1>0, <2>1, OnwardIsTyped
    <2>3. \A t \in Tokens : [f EXCEPT !.at = "recount"].token = t => Holds(th, t)
      BY <1>0, <2>1 DEF Holds, Issuing, Frames, Idle
    <2> QED BY <1>0, <1>3, <2>1, <2>2, <2>3, TakingKeeps DEF Purge
  <1>4. CASE ChooseVictim(th)
    <2>1. f.at = "oldest" /\ store' = Without(store, {}) /\ UNCHANGED drawn /\ now' \in Times
      BY <1>0, <1>4 DEF ChooseVictim
    <2>2. CASE Onward(th, "put")
      <3>1. [f EXCEPT !.at = "put"] \in Frames /\ Goto(th, [f EXCEPT !.at = "put"])
        BY <1>0, <2>1, <2>2, OnwardIsTyped DEF Onward
      <3>2. \A t \in Tokens : [f EXCEPT !.at = "put"].token = t => Holds(th, t)
        BY <1>0, <2>1 DEF Holds, Issuing, Frames, Idle
      <3> QED BY <2>1, <3>1, <3>2, TakingKeeps
    <2>3. CASE ~Onward(th, "put")
      <3>1. PICK v \in Victims :
              Goto(th, [at |-> "evict", token |-> f.token, session |-> f.session,
                        began |-> f.began, victim |-> v])
        BY <1>4, <2>3 DEF ChooseVictim
      <3>2. v \in Tokens
        BY MapsHaveTypes DEF Victims, Oldest, IInv, TypeOK
      <3>3. f.token \in Tokens /\ f.session \in Session /\ f.began \in Times
        BY <1>0, <2>1, FrameFields DEF Issuing
      <3>4. [at |-> "evict", token |-> f.token, session |-> f.session,
             began |-> f.began, victim |-> v] \in Frames
        BY <3>2, <3>3 DEF Frames
      <3>5. \A t \in Tokens : f.token = t => Holds(th, t)
        BY <2>1 DEF Holds, Issuing
      <3> QED BY <2>1, <3>1, <3>4, <3>5, TakingKeeps
    <2> QED BY <2>2, <2>3
  <1>5. CASE Evict(th)
    <2>1. f.at = "evict"
      BY <1>5 DEF Evict
    <2>2. f.token \in Tokens /\ f.session \in Session /\ f.began \in Times
      BY <1>0, <2>1, FrameFields DEF Issuing
    <2>3. [at |-> "put", token |-> f.token, session |-> f.session, began |-> f.began] \in Frames
      BY <2>2 DEF Frames
    <2>4. \A t \in Tokens : f.token = t => Holds(th, t)
      BY <2>1 DEF Holds, Issuing
    <2> QED BY <1>0, <1>5, <2>3, <2>4, TakingKeeps DEF Evict
  <1>6. CASE Put(th)
    <2>1. f.at = "put" /\ f.token \in Tokens /\ f.session \in Session
      BY <1>0, <1>6, FrameFields DEF Put, Issuing
    <2>2. store' \in SessionMaps /\ DOMAIN store' = DOMAIN store \cup {f.token}
      BY <1>6, <2>1, WithIsAMap DEF Put, IInv, TypeOK
    <2>3. Holds(th, f.token)
      BY <2>1 DEF Holds, Issuing
    <2>4. frame' \in [Threads -> Frames] /\ frame'[th] = Idle
      BY <1>6, IdleIsFree DEF IInv, TypeOK, Put, Return, Goto
    <2>5. \A x \in Threads, t \in Tokens : Holds(x, t)' => x # th /\ Holds(x, t)
      BY <1>6, <2>4, IdleIsFree DEF IInv, TypeOK, Put, Return, Goto, Holds
    <2>6. TokensAreFresh'
      BY <1>6, <2>1, <2>2, <2>3, <2>5 DEF Put, IInv, TokensAreFresh
    <2> QED BY <1>6, <2>2, <2>4, <2>6 DEF Put, IInv, TypeOK
  <1> QED BY <1>1, <1>2, <1>3, <1>4, <1>5, <1>6 DEF Issue

LEMMA OthersKeep ==
  ASSUME IInv, NEW th \in Threads,
         Resolve(th) \/ Revoke(th) \/ RevokeWallet(th) \/ BeginSweep(th) \/ Sweep(th)
  PROVE  IInv'
  <1> DEFINE f == frame[th]
  <1>0. f \in Frames /\ store = Without(store, {}) /\ now \in Times
    BY TakingNothing DEF IInv, TypeOK
  <1>1. CASE Get(th)
    <2>1. PICK t \in DOMAIN store : Goto(th, [at |-> "found", token |-> t, session |-> store[t]])
      BY <1>1 DEF Get
    <2>2. t \in Tokens /\ store[t] \in Session
      BY MapsHaveTypes DEF IInv, TypeOK
    <2>3. [at |-> "found", token |-> t, session |-> store[t]] \in Frames
      BY <2>2 DEF Frames
    <2>4. "found" \notin Issuing
      BY DEF Issuing
    <2> QED BY <1>0, <1>1, <2>1, <2>3, <2>4, TakingKeeps DEF Get
  <1>2. CASE Judge(th)
    <2>1. f.at = "found" /\ f.token \in Tokens /\ f.session \in Session
      BY <1>0, <1>2, FrameFields DEF Judge
    <2>2. CASE Return(th)
      BY <1>0, <1>2, <2>2, IdleIsFree, TakingKeeps DEF Judge, Return
    <2>3. CASE Onward(th, "expired")
      <3>1. [f EXCEPT !.at = "expired"] \in Frames
        BY <1>0, <2>1 DEF Frames, Idle
      <3>2. [f EXCEPT !.at = "expired"].at \notin Issuing
        BY <1>0, <2>1 DEF Frames, Idle, Issuing
      <3> QED BY <1>0, <1>2, <2>3, <3>1, <3>2, TakingKeeps DEF Judge, Onward
    <2> QED BY <1>2, <2>2, <2>3 DEF Judge
  <1>3. CASE DropOnSight(th)
    BY <1>0, <1>3, IdleIsFree, TakingKeeps DEF DropOnSight, Return
  <1>4. CASE Revoke(th) \/ RevokeWallet(th)
    <2>1. PICK T : store' = Without(store, T)
      BY <1>4 DEF Revoke, RevokeWallet
    <2>2. frame' = frame /\ Goto(th, f)
      BY <1>4 DEF Revoke, RevokeWallet, Goto, IInv, TypeOK
    <2>3. \A t \in Tokens : f.at \in Issuing /\ f.token = t => Holds(th, t)
      BY DEF Holds
    <2>4. UNCHANGED drawn /\ now' \in Times
      BY <1>0, <1>4 DEF Revoke, RevokeWallet
    <2> QED BY <1>0, <2>1, <2>2, <2>3, <2>4, TakingKeeps
  <1>5. CASE BeginSweep(th)
    <2>1. [at |-> "sweep", began |-> now] \in Frames /\ "sweep" \notin Issuing
      BY <1>0 DEF Frames, Issuing
    <2> QED BY <1>0, <1>5, <2>1, TakingKeeps DEF BeginSweep
  <1>6. CASE Sweep(th)
    BY <1>0, <1>6, IdleIsFree, TakingKeeps DEF Sweep, Return
  <1> QED BY <1>1, <1>2, <1>3, <1>4, <1>5, <1>6 DEF Resolve

LEMMA IInvNext == IInv /\ [Next]_vars => IInv'
  <1> SUFFICES ASSUME IInv, [Next]_vars PROVE IInv'
    OBVIOUS
  <1>1. CASE UNCHANGED vars
    BY <1>1 DEF vars, IInv, TypeOK, TokensAreFresh, Holds
  <1>2. CASE Tick
    BY <1>2 DEF Tick, IInv, TypeOK, TokensAreFresh, Holds
  <1>3. CASE \E th \in Threads : Issue(th)
    BY <1>3, IssueKeeps
  <1>4. CASE \E th \in Threads : Resolve(th) \/ Revoke(th) \/ RevokeWallet(th) \/ BeginSweep(th)
                                   \/ Sweep(th)
    BY <1>4, OthersKeep
  <1> QED BY <1>1, <1>2, <1>3, <1>4 DEF Next

\* The store, the frames of all calls and the drawn tokens keep their types.
THEOREM SessionTypeCorrect == Spec => []TypeOK
  BY IInvInit, IInvNext, PTL DEF Spec, IInv

-----------------------------------------------------------------------------
\* A step that only takes sessions out of the store ends them.
LEMMA TakingEnds ==
  ASSUME IInv, NEW T, store' = Without(store, T), (drawn \ Pending)' = drawn \ Pending
  PROVE  Lives!Next
  <1> DEFINE dropped == T \cap DOMAIN store
  <1>1. store' = Without(store, dropped)
    <2>1. DOMAIN store \ T = DOMAIN store \ dropped
      OBVIOUS
    <2> QED BY <2>1 DEF Without
  <1>2. Lives!End(dropped)
    BY <1>1 DEF Lives!End, Lives!Without, Without
  <1> QED BY <1>2 DEF Lives!Next

LEMMA StepImplements ==
  ASSUME IInv, [Next]_vars
  PROVE  [Lives!Next]_<<store, drawn \ Pending>>
  <1> USE DEF Issuing
  <1>0. frame \in [Threads -> Frames] /\ store \in SessionMaps /\ drawn \subseteq Tokens
        /\ Idle.at = "idle"
    BY DEF IInv, TypeOK, Idle
  <1>1. CASE UNCHANGED vars
    BY <1>1 DEF vars, Pending, Holds
  <1>2. CASE Tick
    BY <1>2 DEF Tick, Pending, Holds
  <1>3. ASSUME NEW th \in Threads, BeginIssue(th)
        PROVE  UNCHANGED <<store, drawn \ Pending>>
    <2>1. PICK t \in Tokens \ drawn, w \in Wallets :
            /\ drawn' = drawn \cup {t}
            /\ Goto(th, [at |-> "issue", token |-> t, session |-> NewSession(w, now),
                         began |-> now])
      BY <1>3 DEF BeginIssue
    <2>2. \A x \in Threads, u \in Tokens : Holds(x, u)' <=> IF x = th THEN u = t ELSE Holds(x, u)
      BY <1>0, <2>1 DEF Goto, Holds
    <2>3. \A u \in Tokens : ~Holds(th, u)
      BY <1>0, <1>3 DEF BeginIssue, Holds
    <2>4. Pending' = Pending \cup {t}
      BY <1>3, <2>2, <2>3 DEF Pending
    <2> QED BY <1>3, <2>1, <2>4 DEF BeginIssue
  <1>4. ASSUME NEW th \in Threads,
               Count(th) \/ Purge(th) \/ Recount(th) \/ ChooseVictim(th) \/ Evict(th)
        PROVE  (drawn \ Pending)' = drawn \ Pending
    <2>1. frame[th].at \in Issuing \ {"put"} /\ drawn' = drawn
      BY <1>4 DEF Count, Purge, Recount, ChooseVictim, Evict
    <2>2. frame'[th].at \in Issuing /\ frame'[th].token = frame[th].token
          /\ \A x \in Threads \ {th} : frame'[x] = frame[x]
      <3>1. frame[th] \in Frames /\ frame[th] # Idle
        BY <1>0, <2>1
      <3>2. frame[th] \in [at : {"issue", "purge", "recount", "oldest", "put"}, token : Tokens,
                           session : Session, began : Times]
            \/ frame[th] \in [at : {"evict"}, token : Tokens, session : Session,
                              began : Times, victim : Tokens]
        BY <2>1, <3>1 DEF Frames
      <3> QED BY <1>0, <1>4, <3>2
              DEF Count, Purge, Recount, ChooseVictim, Evict, Onward, Goto
    <2>3. \A x \in Threads, u \in Tokens : Holds(x, u)' <=> Holds(x, u)
      BY <2>1, <2>2 DEF Holds
    <2> QED BY <2>1, <2>3 DEF Pending
  <1>5. ASSUME NEW th \in Threads, Put(th)
        PROVE  Lives!Next
    <2> DEFINE t == frame[th].token
               s == frame[th].session
    <2>1. t \in Tokens /\ s \in Session /\ Holds(th, t)
      BY <1>0, <1>5, FrameFields DEF Put, Holds
    <2>2. \A x \in Threads, u \in Tokens : Holds(x, u)' <=> x # th /\ Holds(x, u)
      BY <1>0, <1>5 DEF Put, Return, Goto, Holds
    <2>3. Pending' = Pending \ {t}
      BY <2>1, <2>2 DEF Pending, Holds, IInv, TokensAreFresh
    <2>4. (drawn \ Pending)' = (drawn \ Pending) \cup {t} /\ t \notin drawn \ Pending
      BY <1>5, <2>1, <2>3 DEF Put, Pending, IInv, TokensAreFresh
    <2>5. store' = With(Without(store, {}), t, s)
      BY <1>0, <1>5, TakingNothing DEF Put
    <2>6. Lives!Start(t, s, {})
      BY <2>4, <2>5 DEF Lives!Start, Lives!With, Lives!Without, With, Without
    <2> QED BY <2>1, <2>6 DEF Lives!Next, Lives!Session, Session
  <1>6. ASSUME NEW th \in Threads,
               Resolve(th) \/ Revoke(th) \/ RevokeWallet(th) \/ BeginSweep(th) \/ Sweep(th)
        PROVE  (drawn \ Pending)' = drawn \ Pending
    <2>1. drawn' = drawn /\ frame[th].at \notin Issuing
      BY <1>0, <1>6 DEF Resolve, Get, Judge, DropOnSight, Revoke, RevokeWallet, BeginSweep, Sweep
    <2>2. frame'[th].at \notin Issuing /\ \A x \in Threads \ {th} : frame'[x] = frame[x]
      <3>1. CASE Judge(th)
        <4>1. frame[th] \in [at : {"found", "expired"}, token : Tokens, session : Session]
          BY <1>0, <3>1 DEF Judge, Frames
        <4> QED BY <1>0, <3>1, <4>1 DEF Judge, Onward, Return, Goto
      <3>2. CASE ~Judge(th)
        BY <1>0, <1>6, <2>1, <3>2 DEF Resolve, Get, DropOnSight, Revoke, RevokeWallet, BeginSweep,
                                      Sweep, Return, Goto
      <3> QED BY <3>1, <3>2
    <2>3. \A x \in Threads, u \in Tokens : Holds(x, u)' <=> Holds(x, u)
      BY <2>1, <2>2 DEF Holds
    <2> QED BY <2>1, <2>3 DEF Pending
  <1>7. ASSUME NEW th \in Threads,
               \/ Count(th) \/ Purge(th) \/ Recount(th) \/ ChooseVictim(th) \/ Evict(th)
               \/ Resolve(th) \/ Revoke(th) \/ RevokeWallet(th) \/ BeginSweep(th) \/ Sweep(th)
        PROVE  Lives!Next
    <2>1. \E T : store' = Without(store, T)
      BY <1>0, <1>7, TakingNothing
         DEF Count, Purge, Recount, ChooseVictim, Evict, Resolve, Get, Judge, DropOnSight, Revoke,
             RevokeWallet, BeginSweep, Sweep
    <2> QED BY <1>4, <1>6, <1>7, <2>1, TakingEnds
  <1> QED BY <1>1, <1>2, <1>3, <1>5, <1>7 DEF Next, Issue

\* The service implements the abstract store of session lives: whatever the
\* interleaving of its calls and whatever the clock shows, a session starts
\* once, is not altered, and does not come back.
THEOREM ServiceImplementsLives == Spec => ImplementsLives
  <1>1. Init => Lives!Init
    BY DEF Init, Lives!Init, Lives!NoSessions, NoSessions, Pending
  <1>2. IInv /\ [Next]_vars => [Lives!Next]_<<store, drawn \ Pending>>
    BY StepImplements
  <1> QED BY <1>1, <1>2, IInvInit, IInvNext, PTL DEF Spec, ImplementsLives, Lives!Spec
-----------------------------------------------------------------------------
\* While no two calls have overlapped at most one is under way, and what it has
\* found out about the store still holds.
Fits(f, map) ==
  /\ (f.at \in {"oldest", "evict"} \/ (f.at = "recount" /\ Cardinality(DOMAIN map) >= MaxSessions)) =>
       \A t \in DOMAIN map : ~IsExpired(map[t], f.began)
  /\ f.at \in {"oldest", "evict"} => Cardinality(DOMAIN map) >= MaxSessions
  /\ f.at = "evict" => f.victim \in Oldest(map)
  /\ f.at = "put" => Cardinality(DOMAIN map) < MaxSessions
Alone ==
  /\ \A th, other \in Threads : frame[th] # Idle /\ frame[other] # Idle => th = other
  /\ Cardinality(DOMAIN store) <= MaxSessions
  /\ \A th \in Threads : Fits(frame[th], store)
StoreIsFinite == IsFiniteSet(DOMAIN store)
InTurn == IInv /\ StoreIsFinite /\ (overlapped \/ Alone)

LEMMA IdleFits ==
  ASSUME NEW map
  PROVE  Fits(Idle, map)
  BY DEF Fits, Idle

\* Taking sessions out makes the store no larger, and smaller if it takes any.
LEMMA TakingShrinks ==
  ASSUME NEW map \in SessionMaps, IsFiniteSet(DOMAIN map), NEW T
  PROVE  /\ IsFiniteSet(DOMAIN Without(map, T))
         /\ Cardinality(DOMAIN Without(map, T)) \in Nat /\ Cardinality(DOMAIN map) \in Nat
         /\ Cardinality(DOMAIN Without(map, T)) <= Cardinality(DOMAIN map)
         /\ T \cap DOMAIN map # {} => Cardinality(DOMAIN Without(map, T)) < Cardinality(DOMAIN map)
  <1>1. PICK all, rest : all = DOMAIN map /\ rest = DOMAIN Without(map, T)
    OBVIOUS
  <1>2. rest = all \ T /\ rest \in SUBSET all /\ IsFiniteSet(all)
    BY <1>1, WithoutIsAMap
  <1>3. /\ IsFiniteSet(rest) /\ Cardinality(rest) <= Cardinality(all)
        /\ Cardinality(all) = Cardinality(rest) => all = rest
        /\ Cardinality(rest) \in Nat /\ Cardinality(all) \in Nat
    BY <1>2, FS_Subset, FS_CardinalityType
  <1>4. T \cap all # {} => all # rest
    BY <1>2
  <1> QED BY <1>1, <1>3, <1>4

LEMMA PuttingGrows ==
  ASSUME NEW map \in SessionMaps, IsFiniteSet(DOMAIN map), NEW t \in Tokens, NEW s \in Session
  PROVE  /\ IsFiniteSet(DOMAIN With(map, t, s))
         /\ Cardinality(DOMAIN With(map, t, s)) <= Cardinality(DOMAIN map) + 1
  <1>1. PICK all : all = DOMAIN map
    OBVIOUS
  <1>2. DOMAIN With(map, t, s) = all \cup {t} /\ IsFiniteSet(all)
    BY <1>1, WithIsAMap
  <1>3. /\ IsFiniteSet(all \cup {t}) /\ Cardinality(all) \in Nat
        /\ Cardinality(all \cup {t}) = IF t \in all THEN Cardinality(all) ELSE Cardinality(all) + 1
    BY <1>2, FS_AddElement, FS_CardinalityType, Zenon
  <1> QED BY <1>1, <1>2, <1>3

\* A call that goes on with no other beside it.
LEMMA GoesAlone ==
  ASSUME InTurn, ~overlapped, ~Overlaps, NEW th \in Threads, NEW f \in Frames, f # frame[th], Goto(th, f),
         Cardinality(DOMAIN store') <= MaxSessions, Fits(f, store')
  PROVE  Alone'
  <1>0. frame \in [Threads -> Frames]
    BY DEF InTurn, IInv, TypeOK
  <1>1. frame'[th] = f /\ \A other \in Threads \ {th} : frame'[other] = frame[other]
    BY <1>0 DEF Goto
  <1>2. <<store, frame, drawn>>' # <<store, frame, drawn>>
    BY <1>1
  <1>3. \A other \in Threads \ {th} : frame'[other] = Idle
    BY <1>1, <1>2 DEF Overlaps
  <1>4. \A other \in Threads \ {th} : Fits(frame'[other], store')
    BY <1>3, IdleFits
  <1> QED BY <1>1, <1>3, <1>4 DEF Alone

\* A method of the store that is called with no call under way.
LEMMA TakesAlone ==
  ASSUME InTurn, ~overlapped, ~Overlaps, NEW T, store' = Without(store, T), UNCHANGED frame
  PROVE  Alone'
  <1>1. CASE store' = store
    BY <1>1 DEF InTurn, Alone
  <1>2. CASE store' # store
    <2>1. \A th \in Threads : frame'[th] = Idle
      BY <1>2 DEF Overlaps
    <2>2. /\ Cardinality(DOMAIN store') <= Cardinality(DOMAIN store)
          /\ Cardinality(DOMAIN store') \in Nat /\ Cardinality(DOMAIN store) \in Nat
      BY TakingShrinks DEF InTurn, IInv, TypeOK, StoreIsFinite
    <2>3. Cardinality(DOMAIN store') <= MaxSessions
      BY <2>2, MaxSessionsIsValid DEF InTurn, Alone
    <2> QED BY <2>1, <2>3, IdleFits DEF Alone
  <1> QED BY <1>1, <1>2

LEMMA FiniteNext ==
  ASSUME IInv, StoreIsFinite, [Next]_vars
  PROVE  StoreIsFinite'
  <1>1. CASE UNCHANGED store
    BY <1>1 DEF StoreIsFinite
  <1>2. ASSUME NEW T, store' = Without(store, T) PROVE StoreIsFinite'
    BY <1>2, TakingShrinks DEF IInv, TypeOK, StoreIsFinite
  <1>3. ASSUME NEW th \in Threads, Put(th) PROVE StoreIsFinite'
    <2>1. frame[th].token \in Tokens /\ frame[th].session \in Session
      BY <1>3, FrameFields DEF Put, Issuing, IInv, TypeOK
    <2> QED BY <1>3, <2>1, PuttingGrows DEF Put, IInv, TypeOK, StoreIsFinite
  <1>4. ASSUME NEW th \in Threads, Revoke(th) \/ RevokeWallet(th) PROVE StoreIsFinite'
    BY <1>2, <1>4 DEF Revoke, RevokeWallet
  <1> QED BY <1>1, <1>2, <1>3, <1>4
          DEF Next, Issue, Resolve, BeginIssue, Count, Purge, Recount, ChooseVictim, Evict, Get, Judge,
              DropOnSight, BeginSweep, Sweep, Tick, vars

LEMMA IssueAlone ==
  ASSUME InTurn, ~overlapped, ~Overlaps, NEW th \in Threads, Issue(th), IInv'
  PROVE  Alone'
  <1> DEFINE f == frame[th]
  <1>0. /\ f \in Frames /\ frame \in [Threads -> Frames] /\ frame' \in [Threads -> Frames]
        /\ store \in SessionMaps /\ IsFiniteSet(DOMAIN store) /\ Fits(f, store) /\ Idle.at = "idle"
        /\ Cardinality(DOMAIN store) <= MaxSessions /\ Cardinality(DOMAIN store) \in Nat
    BY FS_CardinalityType DEF InTurn, IInv, TypeOK, StoreIsFinite, Alone, Idle
  <1>a. ASSUME NEW g, Goto(th, g) PROVE g \in Frames
    <2>1. frame'[th] = g
      BY <1>0, <1>a DEF Goto
    <2> QED BY <1>0, <2>1
  <1>1. CASE BeginIssue(th)
    <2>1. PICK t \in Tokens, w \in Wallets :
            Goto(th, [at |-> "issue", token |-> t, session |-> NewSession(w, now), began |-> now])
      BY <1>1 DEF BeginIssue
    <2>2. PICK g : g = [at |-> "issue", token |-> t, session |-> NewSession(w, now), began |-> now]
      OBVIOUS
    <2>3. Fits(g, store) /\ f # g /\ store' = store
      BY <1>0, <1>1, <2>2 DEF Fits, BeginIssue
    <2> QED BY <1>0, <1>a, <2>1, <2>2, <2>3, GoesAlone
  <1>2. CASE Count(th)
    <2>1. PICK g : g = [f EXCEPT !.at = IF IsFull THEN "purge" ELSE "recount"]
      OBVIOUS
    <2>2. Goto(th, g) /\ store' = store /\ f.at = "issue"
      BY <1>2, <2>1 DEF Count, Onward
    <2>3. g.at = IF IsFull THEN "purge" ELSE "recount"
      BY <1>0, <2>1, <2>2 DEF Frames, Idle
    <2>4. Fits(g, store) /\ f # g
      BY <2>2, <2>3 DEF Fits, IsFull
    <2> QED BY <1>0, <1>a, <2>2, <2>4, GoesAlone
  <1>3. CASE Purge(th)
    <2>1. PICK g : g = [f EXCEPT !.at = "recount"]
      OBVIOUS
    <2>2. Goto(th, g) /\ store' = Without(store, SweptAt(f.began)) /\ f.at = "purge"
      BY <1>3, <2>1 DEF Purge, Onward
    <2>3. g.at = "recount" /\ g.began = f.began
      BY <1>0, <2>1, <2>2 DEF Frames, Idle
    <2>4. \A t \in DOMAIN store' : ~IsExpired(store'[t], f.began)
      BY <2>2 DEF Without, SweptAt
    <2>5. Fits(g, store') /\ f # g
      BY <2>2, <2>3, <2>4 DEF Fits
    <2>6. Cardinality(DOMAIN store') <= MaxSessions
      BY <1>0, <2>2, TakingShrinks, MaxSessionsIsValid
    <2> QED BY <1>a, <2>2, <2>5, <2>6, GoesAlone
  <1>4. CASE Recount(th)
    <2>1. PICK g : g = [f EXCEPT !.at = IF IsFull THEN "oldest" ELSE "put"]
      OBVIOUS
    <2>2. Goto(th, g) /\ store' = store /\ f.at = "recount"
      BY <1>4, <2>1 DEF Recount, Onward
    <2>3. g.at = (IF IsFull THEN "oldest" ELSE "put") /\ g.began = f.began
      BY <1>0, <2>1, <2>2 DEF Frames, Idle
    <2>4. Fits(g, store) /\ f # g
      BY <1>0, <2>2, <2>3, MaxSessionsIsValid DEF Fits, IsFull
    <2> QED BY <1>0, <1>a, <2>2, <2>4, GoesAlone
  <1>5. CASE ChooseVictim(th)
    <2>1. f.at = "oldest" /\ store' = store
      BY <1>5 DEF ChooseVictim
    <2>2. Cardinality(DOMAIN store) >= MaxSessions
      BY <1>0, <2>1 DEF Fits
    <2>3. DOMAIN store # {}
      BY <2>2, FS_EmptySet, MaxSessionsIsValid
    <2>4. PICK v \in Victims : Goto(th, [at |-> "evict", token |-> f.token, session |-> f.session,
                                         began |-> f.began, victim |-> v])
      BY <1>5, <2>3 DEF ChooseVictim
    <2>5. PICK g : g = [at |-> "evict", token |-> f.token, session |-> f.session,
                        began |-> f.began, victim |-> v]
      OBVIOUS
    <2>6. g.at = "evict" /\ g.began = f.began /\ g.victim = v
      BY <2>5
    <2>7. Fits(g, store) /\ f # g
      BY <1>0, <2>1, <2>2, <2>6 DEF Fits, Victims
    <2> QED BY <1>0, <1>a, <2>1, <2>4, <2>5, <2>7, GoesAlone
  <1>6. CASE Evict(th)
    <2>1. PICK g : g = [at |-> "put", token |-> f.token, session |-> f.session, began |-> f.began]
      OBVIOUS
    <2>2. Goto(th, g) /\ store' = Without(store, {f.victim}) /\ f.at = "evict"
      BY <1>6, <2>1 DEF Evict
    <2>3. f.victim \in DOMAIN store
      BY <1>0, <2>2 DEF Fits, Oldest
    <2>4. {f.victim} \cap DOMAIN store # {}
      BY <2>3
    <2>5. /\ Cardinality(DOMAIN store') < Cardinality(DOMAIN store)
          /\ Cardinality(DOMAIN store') \in Nat
      BY <1>0, <2>2, <2>4, TakingShrinks
    <2>6. Cardinality(DOMAIN store') < MaxSessions
      BY <1>0, <2>5, MaxSessionsIsValid
    <2>7. Fits(g, store') /\ f # g
      BY <2>1, <2>2, <2>6 DEF Fits
    <2> QED BY <1>a, <2>2, <2>5, <2>6, <2>7, GoesAlone, MaxSessionsIsValid
  <1>7. CASE Put(th)
    <2>1. Goto(th, Idle) /\ store' = With(store, f.token, f.session) /\ f.at = "put"
      BY <1>7 DEF Put, Return
    <2>2. f.token \in Tokens /\ f.session \in Session
      BY <1>0, <2>1, FrameFields DEF Issuing
    <2>3. Cardinality(DOMAIN store) < MaxSessions
      BY <1>0, <2>1 DEF Fits
    <2>4. /\ Cardinality(DOMAIN store') <= Cardinality(DOMAIN store) + 1
          /\ Cardinality(DOMAIN store') \in Nat
      BY <1>0, <2>1, <2>2, PuttingGrows, FS_CardinalityType
    <2>5. Cardinality(DOMAIN store') <= MaxSessions
      BY <1>0, <2>3, <2>4, MaxSessionsIsValid
    <2>6. f # Idle
      BY <1>0, <2>1
    <2> QED BY <1>a, <2>1, <2>5, <2>6, IdleFits, GoesAlone
  <1> QED BY <1>1, <1>2, <1>3, <1>4, <1>5, <1>6, <1>7 DEF Issue

LEMMA OthersAlone ==
  ASSUME InTurn, ~overlapped, ~Overlaps, NEW th \in Threads, IInv',
         Resolve(th) \/ BeginSweep(th) \/ Sweep(th)
  PROVE  Alone'
  <1> DEFINE f == frame[th]
  <1>0. /\ f \in Frames /\ frame \in [Threads -> Frames] /\ frame' \in [Threads -> Frames]
        /\ store \in SessionMaps /\ IsFiniteSet(DOMAIN store) /\ Idle.at = "idle"
        /\ Cardinality(DOMAIN store) <= MaxSessions /\ Cardinality(DOMAIN store) \in Nat
    BY FS_CardinalityType DEF InTurn, IInv, TypeOK, StoreIsFinite, Alone, Idle
  <1>1. ASSUME NEW g, Goto(th, g), g # f, g.at \notin {"recount", "oldest", "evict", "put"},
               Cardinality(DOMAIN store') <= MaxSessions
        PROVE  Alone'
    <2>1. g \in Frames
      <3>1. frame'[th] = g
        BY <1>0, <1>1 DEF Goto
      <3> QED BY <1>0, <3>1
    <2>2. Fits(g, store')
      BY <1>1 DEF Fits
    <2> QED BY <1>1, <2>1, <2>2, GoesAlone
  <1>2. ASSUME NEW T, store' = Without(store, T)
        PROVE  Cardinality(DOMAIN store') <= MaxSessions
    BY <1>0, <1>2, TakingShrinks, MaxSessionsIsValid
  <1>3. CASE Get(th)
    <2>1. PICK t \in DOMAIN store : Goto(th, [at |-> "found", token |-> t, session |-> store[t]])
      BY <1>3 DEF Get
    <2> QED BY <1>0, <1>1, <1>3, <2>1 DEF Get
  <1>4. CASE Judge(th)
    <2>1. [f EXCEPT !.at = "expired"].at = "expired" /\ f.at = "found"
      BY <1>0, <1>4 DEF Judge, Frames, Idle
    <2>2. CASE IsExpired(f.session, now)
      BY <1>0, <1>1, <1>4, <2>1, <2>2 DEF Judge, Onward
    <2>3. CASE ~IsExpired(f.session, now)
      BY <1>0, <1>1, <1>4, <2>1, <2>3 DEF Judge, Return
    <2> QED BY <2>2, <2>3
  <1>5. CASE DropOnSight(th) \/ Sweep(th)
    <2>1. Cardinality(DOMAIN store') <= MaxSessions
      BY <1>2, <1>5 DEF DropOnSight, Sweep
    <2>2. Goto(th, Idle) /\ f # Idle
      BY <1>0, <1>5 DEF DropOnSight, Sweep, Return
    <2> QED BY <1>0, <1>1, <2>1, <2>2
  <1>6. CASE BeginSweep(th)
    <2>1. Goto(th, [at |-> "sweep", began |-> now]) /\ store' = store /\ f = Idle
      BY <1>6 DEF BeginSweep
    <2> QED BY <1>0, <1>1, <2>1
  <1> QED BY <1>3, <1>4, <1>5, <1>6 DEF Resolve

LEMMA InTurnNext == InTurn /\ [MCNext]_<<vars, overlapped>> => InTurn'
  <1> SUFFICES ASSUME InTurn, [MCNext]_<<vars, overlapped>> PROVE InTurn'
    OBVIOUS
  <1>1. [Next]_vars /\ IInv' /\ StoreIsFinite'
    BY IInvNext, FiniteNext DEF InTurn, MCNext
  <1>2. ASSUME ~overlapped' PROVE Alone'
    <2>1. ~overlapped
      BY <1>2 DEF MCNext
    <2>4. Alone
      BY <2>1 DEF InTurn
    <2>2. CASE UNCHANGED <<store, frame>>
      BY <2>2, <2>4 DEF Alone
    <2>3. CASE ~(UNCHANGED <<store, frame>>)
      <3>1. Next /\ ~Overlaps /\ ~Tick
        BY <1>2, <2>3 DEF MCNext, vars, Tick
      <3>2. PICK th \in Threads : \/ Issue(th) \/ Resolve(th)
                                  \/ Revoke(th) \/ RevokeWallet(th)
                                  \/ BeginSweep(th) \/ Sweep(th)
        BY <3>1 DEF Next
      <3>3. CASE Issue(th)
        BY <1>1, <2>1, <2>4, <3>1, <3>3, IssueAlone
      <3>4. CASE Resolve(th) \/ BeginSweep(th) \/ Sweep(th)
        BY <1>1, <2>1, <2>4, <3>1, <3>4, OthersAlone
      <3>5. CASE Revoke(th)
        <4>1. PICK t \in drawn : store' = Without(store, {t})
          BY <3>5 DEF Revoke
        <4> QED BY <2>1, <2>4, <3>1, <3>5, <4>1, TakesAlone DEF Revoke
      <3>6. CASE RevokeWallet(th)
        <4>1. PICK w \in Wallets : store' = Without(store, OfWallet(store, w))
          BY <3>6 DEF RevokeWallet
        <4> QED BY <2>1, <2>4, <3>1, <3>6, <4>1, TakesAlone DEF RevokeWallet
      <3> QED BY <3>2, <3>3, <3>4, <3>5, <3>6
    <2> QED BY <2>2, <2>3
  <1> QED BY <1>1, <1>2 DEF InTurn

LEMMA InTurnInit == MCInit => InTurn
  <1> SUFFICES ASSUME MCInit PROVE InTurn
    OBVIOUS
  <1>1. Init /\ DOMAIN store = {}
    BY DEF MCInit, Init, NoSessions
  <1>2. IInv /\ StoreIsFinite /\ Cardinality(DOMAIN store) = 0
    BY <1>1, IInvInit, FS_EmptySet DEF StoreIsFinite
  <1>3. \A th \in Threads : frame[th] = Idle
    BY <1>1 DEF Init
  <1> QED BY <1>2, <1>3, IdleFits, MaxSessionsIsValid DEF InTurn, Alone

\* The limit of issue, for every number of threads and every limit: as long as
\* the calls come one after the other the store holds no more than max_sessions,
\* and a login gives up only the session nearest expiry of a store that is full
\* of sessions that have not expired.
THEOREM LoginsKeepTheLimit == MCSpec => LimitIsJust
  <1>1. InTurn => SessionsAreBounded
    BY DEF InTurn, SessionsAreBounded, Alone
  <1>2. InTurn => EvictsOnlyWhenFullOfLive
    BY DEF InTurn, EvictsOnlyWhenFullOfLive, Alone, Evict, Fits, IsFull, SweptAt
  <1>3. InTurn' => SessionsAreBounded'
    BY <1>1, PTL
  <1>4. InTurn /\ InTurn' /\ [MCNext]_<<vars, overlapped>>
          => [SessionsAreBounded' /\ EvictsOnlyWhenFullOfLive]_<<vars, overlapped>>
    BY <1>2, <1>3
  <1> QED BY <1>4, InTurnInit, InTurnNext, PTL DEF MCSpec, LimitIsJust
=============================================================================
