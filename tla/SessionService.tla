---------------------------- MODULE SessionService ----------------------------
(***************************************************************************)
(* SessionService over the InMemorySessionStore, called by threads.  The   *)
(* store's methods hold its lock and are one step each; between two of     *)
(* them, and between a read of the clock and its use, the others run.      *)
(***************************************************************************)
EXTENDS SessionMaps

CONSTANTS Threads,
          MaxSessions

ASSUME MaxSessionsIsValid == MaxSessions \in Nat \ {0}

VARIABLES store,  \* _sessions
          now,    \* what the clock shows
          frame,  \* thread -> where it is in a method of the service
          drawn   \* the tokens secrets.token_urlsafe has produced

vars == <<store, now, frame, drawn>>

Idle == [at |-> "idle"]
Frames ==
  {Idle}
    \cup [at : {"issue", "purge", "recount", "oldest", "put"}, token : Tokens, session : Session,
          began : Times]
    \cup [at : {"evict"}, token : Tokens, session : Session, began : Times, victim : Tokens]
    \cup [at : {"found", "expired"}, token : Tokens, session : Session]
    \cup [at : {"sweep"}, began : Times]

Init ==
  /\ store = NoSessions
  /\ now = 0
  /\ frame = [th \in Threads |-> Idle]
  /\ drawn = {}

Goto(th, f) == frame' = [frame EXCEPT ![th] = f]
Return(th) == Goto(th, Idle)
Onward(th, at) == Goto(th, [frame[th] EXCEPT !.at = at])

-----------------------------------------------------------------------------
IsFullLate == Cardinality(DOMAIN store) > MaxSessions
IsFull == Cardinality(DOMAIN store) >= MaxSessions

\* issue: the clock is read and the token drawn.
BeginIssue(th) ==
  /\ frame[th] = Idle
  /\ \E t \in Tokens \ drawn, w \in Wallets :
       /\ drawn' = drawn \cup {t}
       /\ Goto(th, [at |-> "issue", token |-> t, session |-> NewSession(w, now), began |-> now])
  /\ UNCHANGED <<store, now>>

\* The first look at the size: purge if full.
Count(th) ==
  /\ frame[th].at = "issue"
  /\ Onward(th, IF IsFull THEN "purge" ELSE "recount")
  /\ UNCHANGED <<store, now, drawn>>

SweptAt(at) == {t \in DOMAIN store : IsExpired(store[t], at)}

Purge(th) ==
  /\ frame[th].at = "purge"
  /\ store' = Without(store, SweptAt(frame[th].began))
  /\ Onward(th, "recount")
  /\ UNCHANGED <<now, drawn>>

\* The second look, whatever the first one saw.
Recount(th) ==
  /\ frame[th].at = "recount"
  /\ Onward(th, IF IsFull THEN "oldest" ELSE "put")
  /\ UNCHANGED <<store, now, drawn>>

VictimsLatest ==
  {t \in DOMAIN store : \A u \in DOMAIN store : store[t].expires >= store[u].expires}
Victims == Oldest(store)

\* oldest_token_hash answers None on an empty store.
ChooseVictim(th) ==
  /\ frame[th].at = "oldest"
  /\ \/ DOMAIN store = {} /\ Onward(th, "put")
     \/ \E v \in Victims :
          Goto(th, [at |-> "evict", token |-> frame[th].token, session |-> frame[th].session,
                    began |-> frame[th].began, victim |-> v])
  /\ UNCHANGED <<store, now, drawn>>

Evict(th) ==
  /\ frame[th].at = "evict"
  /\ store' = Without(store, {frame[th].victim})
  /\ Goto(th, [at |-> "put", token |-> frame[th].token, session |-> frame[th].session,
               began |-> frame[th].began])
  /\ UNCHANGED <<now, drawn>>

Put(th) ==
  /\ frame[th].at = "put"
  /\ store' = With(store, frame[th].token, frame[th].session)
  /\ Return(th)
  /\ UNCHANGED <<now, drawn>>

-----------------------------------------------------------------------------
\* resolve: the store is asked; None ends the call with nothing changed.
Get(th) ==
  /\ frame[th] = Idle
  /\ \E t \in DOMAIN store :
       Goto(th, [at |-> "found", token |-> t, session |-> store[t]])
  /\ UNCHANGED <<store, now, drawn>>

\* Then the clock is read: a live session is handed out, an expired one dropped.
Judge(th) ==
  /\ frame[th].at = "found"
  /\ IF IsExpired(frame[th].session, now) THEN Onward(th, "expired") ELSE Return(th)
  /\ UNCHANGED <<store, now, drawn>>

DropOnSightRenewing(th) ==
  /\ frame[th].at = "expired"
  /\ store' = With(store, frame[th].token, NewSession(frame[th].session.wallet, now))
  /\ Return(th)
  /\ UNCHANGED <<now, drawn>>
DropOnSight(th) ==
  /\ frame[th].at = "expired"
  /\ store' = Without(store, {frame[th].token})
  /\ Return(th)
  /\ UNCHANGED <<now, drawn>>

-----------------------------------------------------------------------------
\* revoke and revoke_wallet are one call of the store.
Revoke(th) ==
  /\ frame[th] = Idle
  /\ \E t \in drawn : store' = Without(store, {t})
  /\ UNCHANGED <<now, frame, drawn>>

RevokeWallet(th) ==
  /\ frame[th] = Idle
  /\ \E w \in Wallets : store' = Without(store, OfWallet(store, w))
  /\ UNCHANGED <<now, frame, drawn>>

\* purge_expired: the clock, then the store.
BeginSweep(th) ==
  /\ frame[th] = Idle
  /\ Goto(th, [at |-> "sweep", began |-> now])
  /\ UNCHANGED <<store, now, drawn>>

Sweep(th) ==
  /\ frame[th].at = "sweep"
  /\ store' = Without(store, SweptAt(frame[th].began))
  /\ Return(th)
  /\ UNCHANGED <<now, drawn>>

\* The wall clock may be set back.
Tick == now' \in Times /\ UNCHANGED <<store, frame, drawn>>

Issue(th) ==
  \/ BeginIssue(th) \/ Count(th) \/ Purge(th) \/ Recount(th)
  \/ ChooseVictim(th) \/ Evict(th) \/ Put(th)
Resolve(th) == Get(th) \/ Judge(th) \/ DropOnSight(th)

Next ==
  \/ \E th \in Threads :
       \/ Issue(th) \/ Resolve(th)
       \/ Revoke(th) \/ RevokeWallet(th)
       \/ BeginSweep(th) \/ Sweep(th)
  \/ Tick

Spec == Init /\ [][Next]_vars

-----------------------------------------------------------------------------
TypeOK ==
  /\ store \in SessionMaps
  /\ now \in Times
  /\ frame \in [Threads -> Frames]
  /\ drawn \subseteq Tokens

\* The tokens an issue has drawn and not put yet.
Issuing == {"issue", "purge", "recount", "oldest", "evict", "put"}
Holds(th, t) == frame[th].at \in Issuing /\ frame[th].token = t
Pending == {t \in Tokens : \E th \in Threads : Holds(th, t)}

\* Whatever the interleaving of issue, resolve, revoke and purge, a session is
\* put once, is not altered, and does not come back after its end.
Lives == INSTANCE SessionLives WITH live <- store, spent <- drawn \ Pending
ImplementsLives == Lives!Spec

\* "cannot grow memory without limit": even with a slot of slack for every call
\* running beside another, which is all that a race of two puts explains.
OvershootIsBounded == Cardinality(DOMAIN store) < MaxSessions + Cardinality(Threads)
=============================================================================
