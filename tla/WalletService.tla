---------------------------- MODULE WalletService ----------------------------
(***************************************************************************)
(* auth/service.py with the audit trail around it (auth/audit.py), over    *)
(* sessions at the level of SessionLives: a session starts once and may    *)
(* end at any time.  Callers are processes; each is in one command at a    *)
(* time, whose frame says where it stands.  An action here is a part of a  *)
(* method between two of the moments at which something else may happen.   *)
(* Malformed addresses and the rate limit on challenges, which a process   *)
(* with its own store never meets, are left out, and so are the records    *)
(* of challenges, refusals and checks, which are written and not read.     *)
(***************************************************************************)
EXTENDS WalletProviders

CONSTANTS Processes,
          Earlier,      \* whose session may be there at first, or None
          MaxTokens,    \* bounds: on the sessions of a run,
          MaxMishaps    \* and on the sales, crashes and records that fail

ASSUME TokensAreBounded == MaxTokens \in Nat \ {0} /\ MaxMishaps \in Nat /\ Earlier \subseteq Wallets \cup {None}

VARIABLES live,     \* the sessions: token -> wallet
          issued,   \* history: every session there has been, token -> wallet
          ended,    \* history: tokens a revoke took out of the store
          audit,    \* the sink: event and wallet -> records of it
          lost,     \* history: the records that were not written
          mishaps,  \* how many there have been
          frame     \* process -> the frame of its command

Tokens == 1 .. MaxTokens
Events == {"auth_succeeded", "session_revoked"}
Subjects == Wallets \cup {None}
Counts == [Events \X Wallets -> Nat]

Over(map, t, w) == [u \in DOMAIN map \cup {t} |-> IF u = t THEN w ELSE map[u]]
Without(map, T) == [t \in DOMAIN map \ T |-> map[t]]
Dead == DOMAIN issued \ DOMAIN live

\* Held, lacked and dead are history: what the wallet held and did not hold at
\* some moment of the look, the sessions that were over before the command.
Idle == [cmd |-> "none", at |-> "idle", wallet |-> None, token |-> 0, on |-> FALSE,
         purpose |-> "none", limit |-> 1, want |-> None, k |-> 0, page |-> 0, found |-> {}, many |-> 0,
         answer |-> None, held |-> {}, lacked |-> {}, dead |-> {}, exit |-> None]

IsAt(p, at) == frame[p].at = at
Becomes(p, f) == frame' = [frame EXCEPT ![p] = f]
Goes(p, at) == frame' = [frame EXCEPT ![p].at = at]
Exits(p, exit) == frame' = [frame EXCEPT ![p] = [Idle EXCEPT !.cmd = frame[p].cmd, !.at = "over", !.exit = exit]]
service == <<live, issued, ended, audit, lost, mishaps>>
Mishap == mishaps < MaxMishaps /\ mishaps' = mishaps + 1

\* At first there are no sessions, or one of an earlier command.
NoSessions == [t \in {} |-> None]
Nothing == [e \in Events \X Wallets |-> 0]
ServiceInit ==
  /\ \E w \in Earlier :
       /\ live = IF w = None THEN NoSessions ELSE [t \in {1} |-> w]
       /\ audit = IF w = None THEN Nothing ELSE [Nothing EXCEPT ![<<"auth_succeeded", w>>] = 1]
  /\ issued = live /\ ended = {} /\ lost = Nothing /\ mishaps = 0
  /\ frame = [p \in Processes |-> Idle]

\* AuditTrail.record: a sink that raises is logged and swallowed.
Write(event, w) ==
  \/ audit' = [audit EXCEPT ![<<event, w>>] = @ + 1] /\ UNCHANGED <<lost, mishaps>>
  \/ lost' = [lost EXCEPT ![<<event, w>>] = @ + 1] /\ Mishap /\ UNCHANGED audit

-----------------------------------------------------------------------------
\* begin: the challenge is the process's own.
Challenge(p, next) == Goes(p, next) /\ UNCHANGED service

\* complete, refused: one message whatever the reason.
Refuse(p) == Exits(p, "refused") /\ UNCHANGED service

\* complete, proved: the session is in the store before the record is in the trail.
Issue(p) ==
  /\ Cardinality(DOMAIN issued) < MaxTokens
  /\ LET t == Cardinality(DOMAIN issued) + 1
     IN  /\ live' = Over(live, t, frame[p].wallet) /\ issued' = Over(issued, t, frame[p].wallet)
         /\ Becomes(p, [frame[p] EXCEPT !.at = "audit", !.token = t])
  /\ UNCHANGED <<ended, audit, lost, mishaps>>

RecordLogin(p, next) ==
  Write("auth_succeeded", frame[p].wallet) /\ Goes(p, next) /\ UNCHANGED <<live, issued, ended>>

\* disconnect: resolve, then revoke, then the record when one was ended.
ResolveToRevoke(p) ==
  /\ Becomes(p, [frame[p] EXCEPT !.at = "revoke",
                   !.wallet = IF frame[p].token \in DOMAIN live THEN live[frame[p].token] ELSE None])
  /\ UNCHANGED service

EndedAnyway(t) == TRUE
Ended(t) == t \in DOMAIN live
Revoke(p) ==
  LET t == frame[p].token
  IN  /\ live' = Without(live, {t})
      /\ ended' = IF t \in DOMAIN live THEN ended \cup {t} ELSE ended
      /\ IF Ended(t) /\ frame[p].wallet # None THEN Goes(p, "audit") ELSE Exits(p, "was_over")
      /\ UNCHANGED <<issued, audit, lost, mishaps>>

RecordRevocation(p) ==
  Write("session_revoked", frame[p].wallet) /\ Exits(p, "disconnected") /\ UNCHANGED <<live, issued, ended>>

-----------------------------------------------------------------------------
\* What a look of purpose, for the wallet, starts from.
Looking(f, purpose, w) ==
  [FirstLook(f) EXCEPT !.at = "ask", !.purpose = purpose, !.wallet = w,
     !.held = Held(w, owner), !.lacked = Assets \ Held(w, owner)]

\* fighter_for: the session first, then the holdings, asked anew at every use.
FighterFor(p) ==
  LET f == frame[p]
  IN  /\ IF f.token \notin DOMAIN live THEN Exits(p, "expired")
         ELSE IF ~f.on THEN Becomes(p, [f EXCEPT !.at = "over", !.exit = "granted", !.wallet = live[f.token]])
         ELSE Becomes(p, Looking(f, "owns", live[f.token]))
      /\ UNCHANGED service

\* roster: wallet_for again, then the listing, of no more than MAX_ROSTER.
Roster(p) ==
  LET f == frame[p]
  IN  /\ IF f.token \notin DOMAIN live THEN Exits(p, "uncaught")
         ELSE Becomes(p, Looking([f EXCEPT !.limit = Lesser(f.limit, MaxRoster)], "list", live[f.token]))
      /\ UNCHANGED service

\* One provider's step: a page, or its failure; then the chain goes on or ends.
Settle(p, answer) ==
  LET f == frame[p]
  IN  IF FallsThrough(f, answer) THEN Becomes(p, NextLook(f))
      ELSE Becomes(p, [f EXCEPT !.at = "told", !.answer = ChainSays(f, answer)])

Ask(p) ==
  LET f == frame[p]
      items == PageOf(f.wallet, f.page, PageSize(f))
  IN  /\ IsAt(p, "ask")
      /\ IF Chain(f.on)[f.k] = "null" THEN Settle(p, AnswerOfNull(f))
         ELSE \/ Settle(p, AnswerOfFailure(f))
              \/ IF IsListed(f, items) THEN Settle(p, AnswerOfPages(f, items))
                 ELSE Becomes(p, [f EXCEPT !.found = Collected(f, items), !.many = Counted(f, items),
                                          !.page = NextPage(f)])
      /\ UNCHANGED service

GrantsUnlessDenied(answer) == answer.kind # "not_owned"
Grants(answer) == answer.kind = "owned"

\* The rest of fighter_for: the grant, or one of two refusals.
Gate(p) ==
  LET f == frame[p]
  IN  /\ Becomes(p, [f EXCEPT !.at = "over",
                       !.exit = IF Grants(f.answer) THEN "granted"
                                ELSE IF f.answer.kind = "not_owned" THEN "not_owned" ELSE "unconfirmed"])
      /\ UNCHANGED service

-----------------------------------------------------------------------------
\* A session expires or is evicted (SessionLives!End).
SessionEnds ==
  \E t \in DOMAIN live : live' = Without(live, {t})
  /\ UNCHANGED <<issued, ended, audit, lost, mishaps, frame>>

\* An NFT is sold: the looks under way have seen both worlds.  One sold while
\* nobody looks is one that had another holder at first.
Sale ==
  /\ Mishap /\ \E p \in Processes : IsAt(p, "ask")
  /\ \E a \in Assets, w \in Subjects : owner[a] # w /\ owner' = [owner EXCEPT ![a] = w]
  /\ frame' = [p \in Processes |->
       IF ~IsAt(p, "ask") THEN frame[p]
       ELSE [frame[p] EXCEPT !.held = @ \cup Held(frame[p].wallet, owner'),
                             !.lacked = @ \cup (Assets \ Held(frame[p].wallet, owner'))]]
  /\ UNCHANGED <<live, issued, ended, audit, lost>>
=============================================================================
