----------------------------- MODULE SessionLives -----------------------------
(***************************************************************************)
(* What a session store promises: a session starts once, is never altered, *)
(* and once ended, by whatever cause, it is never live again.              *)
(***************************************************************************)
EXTENDS SessionMaps

VARIABLES live,   \* token -> session
          spent   \* the tokens that have been live

Init == live = NoSessions /\ spent = {}

Start(t, s, dropped) ==
  /\ t \notin spent
  /\ live' = With(Without(live, dropped), t, s)
  /\ spent' = spent \cup {t}

End(dropped) == live' = Without(live, dropped) /\ UNCHANGED spent

Next ==
  \E dropped \in SUBSET DOMAIN live :
    \/ End(dropped)
    \/ \E t \in Tokens, s \in Session : Start(t, s, dropped)

Spec == Init /\ [][Next]_<<live, spent>>
=============================================================================
