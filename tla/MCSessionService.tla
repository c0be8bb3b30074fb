--------------------------- MODULE MCSessionService ---------------------------
(***************************************************************************)
(* Small instances of SessionService, with a history: whether a call of    *)
(* one thread has ever gone on beside a call of another.  What the service *)
(* promises of its size and of its evictions, it keeps for calls that come *)
(* one after the other.                                                    *)
(***************************************************************************)
EXTENDS SessionService, TLC

VARIABLE overlapped

\* Some thread is within a call while another one acts.
Overlaps ==
  /\ <<store, frame, drawn>>' # <<store, frame, drawn>>
  /\ \E th \in Threads : frame[th] # Idle /\ frame'[th] = frame[th]

MCInit == Init /\ overlapped = FALSE
MCNext == Next /\ overlapped' = (overlapped \/ Overlaps)
MCSpec == MCInit /\ [][MCNext]_<<vars, overlapped>>

\* "Bound on stored sessions" of src/src/rivalforge/auth/session.py: while calls
\* come one after the other the store never exceeds max_sessions.
SessionsAreBounded == overlapped \/ Cardinality(DOMAIN store) <= MaxSessions

\* "drop the one nearest expiry": while calls come one after the other, the
\* session given up is the one nearest expiry of a store full of live ones.
EvictsOnlyWhenFullOfLive ==
  \A th \in Threads : Evict(th) =>
    \/ overlapped
    \/ /\ IsFull /\ SweptAt(frame[th].began) = {}
       /\ frame[th].victim \in Oldest(store)

\* The limit of issue, both ways: it is kept, and nothing is given up that need not be.
LimitIsJust == [][SessionsAreBounded' /\ EvictsOnlyWhenFullOfLive]_<<vars, overlapped>>

Interchangeable == Permutations(Tokens) \cup Permutations(Wallets) \cup Permutations(Threads)
=============================================================================
