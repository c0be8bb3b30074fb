---------------------------- MODULE TelegramLoop -----------------------------
(***************************************************************************)
(* run_forever and Bot of telegram/bot.py over TelegramAPI: the process    *)
(* polls for updates, hands each to the handlers and performs the actions  *)
(* they return.  Telegram keeps an update until a later poll asks for what *)
(* lies beyond it; the offset is in the memory of the process, which may   *)
(* be stopped, give up or be killed, and started again.  Of a handler only *)
(* the actions it returns are kept, and the rate limiter it asks first.    *)
(* A call is taken with its retries; a breaker that is open answers as an  *)
(* endpoint that is down.  The time of a backoff is left out.              *)
(***************************************************************************)
EXTENDS RateLimiter, Sequences

CONSTANTS MaxUpdates,    \* bound on the updates of a run
          Limit,         \* the most updates one poll returns
          MaxFailures,   \* _MAX_CONSECUTIVE_FAILURES
          MaxEnds,       \* bound on signals and kills together
          MaxBlocked,    \* bound on the players that block the bot at a time
          MayRevoke      \* whether the token may be revoked in a run

ASSUME LoopIsPositive ==
  /\ MaxUpdates \in Nat /\ Limit \in Nat \ {0} /\ MaxFailures \in Nat \ {0}
  /\ MaxEnds \in Nat /\ MaxBlocked \in Nat /\ MayRevoke \in BOOLEAN

VARIABLES updates,    \* who sent what: update id -> user
          acked,      \* updates up to this one are gone from Telegram's queue
          up,         \* the Bot API can be reached
          revoked,    \* the token has been revoked
          blocked,    \* players that messages can no longer be sent to
          pc,         \* where the process is; "ended" with its exit code in code
          code,
          offset,     \* the next update to ask for, 0 before the first
          batch,      \* updates of this poll not yet handed to the handlers
          actions,    \* what is left to do for the update in hand
          stopping,   \* _stopping
          failures,   \* polls that failed in a row
          ends,           \* history: counted against MaxEnds
          handled,        \* history: updates handled by some process
          times           \* history: how often this process handled each, up to 2

world == <<updates, acked, up, revoked, blocked>>
process == <<pc, code, offset, batch, actions, stopping, failures, times>>
history == <<ends, handled>>
limiter == <<buckets, eager>>
vars == <<world, process, history, limiter>>

Kinds == {"message", "button"}
Ids == 1 .. MaxUpdates
Unhandled == [id \in Ids |-> 0]
Codes == {"none", "ok", "permanent", "transient"}

\* The actions a handler returns: a refused message is dropped in silence, a
\* button is acknowledged first, and an error of its own leaves nothing to do.
Replies(kind, admitted) ==
  IF kind = "message" THEN IF admitted THEN {<<>>, <<"send">>} ELSE {<<>>}
  ELSE IF admitted THEN {<<>>, <<"answer">>, <<"answer", "edit">>} ELSE {<<"answer">>}

-----------------------------------------------------------------------------
\* TelegramAPI: how a call ends.  401 and 403 are permanent, whether the token
\* is revoked or the player has blocked the bot; what cannot be reached, 429 and
\* 5xx are transient.  A late acknowledgement of a button is swallowed.
CallFails == ~up
CallRefused == up /\ revoked
Outcomes(action, u) ==
  IF CallFails THEN {"transient"}
  ELSE IF action = "answer" THEN {"ok"}
  ELSE IF revoked \/ u \in blocked THEN {"permanent"} ELSE {"ok"}

Init ==
  /\ LimiterInit
  /\ updates = << >> /\ acked = 0
  /\ up = TRUE /\ revoked = FALSE /\ blocked = {}
  /\ pc = "starting" /\ code = "none" /\ offset = 0 /\ batch = << >> /\ actions = << >>
  /\ stopping = FALSE /\ failures = 0
  /\ ends = 0 /\ handled = {} /\ times = Unhandled

\* An exit leaves nothing of the process but its code.
Exit(c) ==
  /\ pc' = "ended" /\ code' = c
  /\ offset' = 0 /\ batch' = << >> /\ actions' = << >> /\ stopping' = FALSE /\ failures' = 0
  /\ times' = Unhandled
  /\ UNCHANGED <<world, history, limiter>>

\* Bot.start: getMe and deleteWebhook, whose failure of either kind is an exit.
Start ==
  /\ pc = "starting" /\ up /\ ~revoked
  /\ pc' = "looping"
  /\ UNCHANGED <<world, history, limiter, code, offset, batch, actions, stopping, failures, times>>
StartFails ==
  /\ pc = "starting"
  /\ \/ CallFails /\ Exit("transient")
     \/ CallRefused /\ Exit("permanent")

\* The flag is read between polls only.
StopCleanlyOnceBusy == pc = "looping" /\ stopping /\ offset # 0 /\ Exit("ok")
StopCleanly == pc = "looping" /\ stopping /\ Exit("ok")

\* What Telegram holds beyond n, oldest first, as much as fits an answer.
Due(n) ==
  LET first == IF n > acked THEN n ELSE acked
      many == Least(Limit, Len(updates) - first)
  IN  IF many > 0 THEN [i \in 1 .. many |-> first + i] ELSE << >>

\* A poll that reaches Telegram acknowledges all below the offset, even when its
\* answer is lost.
AcknowledgedBeyond == IF offset > acked THEN offset ELSE acked
Acknowledged == IF offset - 1 > acked THEN offset - 1 ELSE acked
Poll ==
  /\ pc = "looping" /\ ~stopping /\ up /\ ~revoked
  /\ acked' = Acknowledged
  /\ batch' = Due(Acknowledged)
  /\ pc' = "handling"
  /\ UNCHANGED <<updates, up, revoked, blocked, code, offset, actions, stopping, failures, times,
                 history, limiter>>
PollRefused == pc = "looping" /\ ~stopping /\ CallRefused /\ Exit("permanent")
FailureCountReset == 1
FailureCount == failures + 1
GivesUp == FailureCount >= MaxFailures
PollGivesUp == pc = "looping" /\ ~stopping /\ CallFails /\ GivesUp /\ Exit("transient")
PollFailsForgetting ==
  /\ pc = "looping" /\ ~stopping /\ CallFails /\ ~GivesUp
  /\ failures' = FailureCount
  /\ acked' \in {acked, Acknowledged} /\ offset' = 0
  /\ UNCHANGED <<updates, up, revoked, blocked, pc, code, batch, actions, stopping,
                 times, history, limiter>>
PollFails ==
  /\ pc = "looping" /\ ~stopping /\ CallFails /\ ~GivesUp
  /\ failures' = FailureCount
  /\ acked' \in {acked, Acknowledged}
  /\ UNCHANGED <<updates, up, revoked, blocked, pc, code, offset, batch, actions, stopping,
                 times, history, limiter>>

\* The offset advances before the handlers see the update.  Whether it is a
\* message or a button is left open until then.
User(id) == updates[id]
NextOffset(id) == id + 1
Handle ==
  /\ pc = "handling" /\ batch # << >> /\ actions = << >>
  /\ LET id == Head(batch)
     IN  /\ offset' = NextOffset(id)
         /\ batch' = Tail(batch)
         /\ handled' = handled \cup {id}
         /\ times' = [times EXCEPT ![id] = Least(2, @ + 1)]
         /\ \E admitted \in BOOLEAN :
              /\ Check(User(id), admitted)
              /\ \E kind \in Kinds : actions' \in Replies(kind, admitted)
  /\ UNCHANGED <<world, pc, code, stopping, failures, ends>>

\* One action of _perform: a transient failure drops the rest of the reply, a
\* permanent one is raised through poll_once and ends run.
Perform ==
  /\ pc = "handling" /\ actions # << >>
  /\ LET outcomes == Outcomes(Head(actions), User(offset - 1))
     IN  \/ /\ "ok" \in outcomes
            /\ actions' = Tail(actions)
            /\ UNCHANGED <<world, pc, code, offset, batch, stopping, failures, times, history, limiter>>
         \/ /\ "transient" \in outcomes
            /\ actions' = << >>
            /\ UNCHANGED <<world, pc, code, offset, batch, stopping, failures, times, history, limiter>>
         \/ "permanent" \in outcomes /\ Exit("permanent")

\* A poll that was served forgets the failures before it.
PollDone ==
  /\ pc = "handling" /\ batch = << >> /\ actions = << >>
  /\ pc' = "looping" /\ failures' = 0
  /\ UNCHANGED <<world, code, offset, batch, actions, stopping, times, history, limiter>>
-----------------------------------------------------------------------------
\* SIGINT or SIGTERM; the process is killed; whoever runs the bot starts it again.
Signal ==
  /\ pc # "ended" /\ ~stopping /\ ends < MaxEnds
  /\ stopping' = TRUE /\ ends' = ends + 1
  /\ UNCHANGED <<world, pc, code, offset, batch, actions, failures, times, handled, limiter>>
Kill ==
  /\ pc # "ended" /\ ends < MaxEnds
  /\ pc' = "ended" /\ code' = "none" /\ ends' = ends + 1
  /\ offset' = 0 /\ batch' = << >> /\ actions' = << >> /\ stopping' = FALSE /\ failures' = 0
  /\ times' = Unhandled
  /\ UNCHANGED <<world, handled, limiter>>
Restart ==
  /\ pc = "ended"
  /\ pc' = "starting" /\ code' = "none"
  /\ buckets' = NoBuckets /\ eager' = AllFull
  /\ UNCHANGED <<world, offset, batch, actions, stopping, failures, times, history>>

\* The players, the network, and the owner of the token, which once revoked is
\* refused for good: outages after that are left out.
NewUpdate(u) ==
  /\ Len(updates) < MaxUpdates
  /\ updates' = Append(updates, u)
  /\ UNCHANGED <<acked, up, revoked, blocked, process, history, limiter>>
Network ==
  /\ ~revoked /\ up' = ~up
  /\ UNCHANGED <<updates, acked, revoked, blocked, process, history, limiter>>
Block(u) ==
  /\ u \notin blocked /\ Cardinality(blocked) < MaxBlocked
  /\ blocked' = blocked \cup {u}
  /\ UNCHANGED <<updates, acked, up, revoked, process, history, limiter>>
Unblock(u) ==
  /\ u \in blocked /\ blocked' = blocked \ {u}
  /\ UNCHANGED <<updates, acked, up, revoked, process, history, limiter>>
Revoke ==
  /\ MayRevoke /\ up /\ ~revoked /\ revoked' = TRUE
  /\ UNCHANGED <<updates, acked, up, blocked, process, history, limiter>>
Tick == LimiterTick /\ UNCHANGED <<world, process, history>>

Run == Start \/ StartFails \/ StopCleanly \/ Poll \/ PollRefused \/ PollGivesUp \/ PollFails
       \/ Handle \/ Perform \/ PollDone
Environment ==
  \/ Signal \/ Kill \/ Network \/ Revoke \/ Tick
  \/ \E u \in Users : Block(u) \/ Unblock(u) \/ NewUpdate(u)
Next == Run \/ Restart \/ Environment

Spec == Init /\ [][Next]_vars

\* The process runs, and is started again when it has ended.
FairSpec == Spec /\ WF_vars(Run) /\ WF_vars(Restart)

-----------------------------------------------------------------------------
TypeOK ==
  /\ LimiterTypeOK
  /\ updates \in Seq(Users) /\ Len(updates) <= MaxUpdates
  /\ acked \in 0 .. Len(updates)
  /\ up \in BOOLEAN /\ revoked \in BOOLEAN /\ blocked \subseteq Users
  /\ pc \in {"starting", "looping", "handling", "ended"} /\ code \in Codes
  /\ offset \in 0 .. MaxUpdates + 1 /\ batch \in Seq(1 .. Len(updates))
  /\ actions \in Seq({"send", "answer", "edit"})
  /\ stopping \in BOOLEAN /\ failures \in 0 .. MaxFailures - 1
  /\ ends \in 0 .. MaxEnds /\ handled \subseteq Ids /\ times \in [Ids -> 0 .. 2]

\* No update is lost: what Telegram has dropped from its queue was handed to the
\* handlers by some process, whether that ended before its next poll or was killed
\* in the middle of a batch (the offset of poll_once).
AckedWasHandled == 1 .. acked \subseteq handled

\* A process hands no update to its handlers twice, however its polls fail: the
\* offset it asks for is beyond all it has seen (poll_once).
HandledOncePerProcess == \A id \in Ids : times[id] <= 1

\* Asked to stop, the process ends, even while Telegram cannot be reached (run).
StopsWhenAsked == stopping ~> ~stopping

\* Every update is handled in the end by some process, once Telegram can be reached
\* and the token and the players let the replies through.
EveryUpdateIsHandled ==
  <>[](up /\ ~revoked /\ blocked = {}) => []<>(DOMAIN updates \subseteq handled)

\* A dead endpoint ends the process rather than being retried for ever (the
\* comment at _MAX_CONSECUTIVE_FAILURES).
DeadEndpointIsReported == <>[]~up => []<>(pc = "ended")

\* "One player's failed reply must not stop the others' matches" (the comment in
\* poll_once): only a token that is no longer good ends the process for good.
OneReplyStopsNobody == code = "permanent" => revoked
=============================================================================
