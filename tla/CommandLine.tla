----------------------------- MODULE CommandLine -----------------------------
(***************************************************************************)
(* The commands of cli/main.py that use a wallet, each a process of its    *)
(* own: connect, whoami, play and wallet, beside the bot's /disconnect.    *)
(* Processes share the session store, the file that remembers the token    *)
(* and the test key; a process may be killed at any point.  Commands that  *)
(* only print, and matches themselves, are left out.                       *)
(***************************************************************************)
EXTENDS WalletService

CONSTANTS Commands,      \* those of a run, of {"connect", "key", "play", "whoami", "wallet", "disconnect"}
          Holdings,      \* who may hold the assets at first
          KeyWallets,    \* the wallets of generated test keys
          Named,         \* the wallets named to connect and to wallet
          Limits,        \* the --limit of whoami and of wallet
          Wanted,        \* the assets asked for with --mint
          MaxCommands    \* bound on the commands of a run

ASSUME CommandsAreBounded ==
  /\ MaxCommands \in Nat
  /\ Processes \subseteq Nat /\ IsFiniteSet(Processes) /\ Holdings \subseteq [Assets -> Subjects]
  /\ Limits \subseteq Nat \ {0} /\ KeyWallets \cup Named \subseteq Wallets /\ Wanted \subseteq Assets

VARIABLES saved,   \* session.json
          key,     \* the test key file
          commands   \* how many there have been

files == <<saved, key>>
vars == <<settings, owner, service, frame, files, commands>>

\* A file is absent, empty, unreadable, or what was written.
Absent == [is |-> "absent"]
Empty == [is |-> "empty"]
Garbled == [is |-> "garbled"]
Remembers(token, w) == [is |-> "session", token |-> token, wallet |-> w]
Keeps(w) == [is |-> "key", wallet |-> w]
\* Text written over a longer one leaves its tail.
Overwritten(old, new) == IF old \in {Empty, new} THEN {new} ELSE {new, Garbled}

Init ==
  /\ settings \in Settings
  /\ owner \in Holdings
  /\ ServiceInit
  /\ saved = IF live = NoSessions THEN Absent ELSE Remembers(1, live[1])
  /\ key = Absent
  /\ commands = 0

Keep == UNCHANGED <<settings, owner, commands>>

-----------------------------------------------------------------------------
\* Processes are alike: a command takes the free one of the lowest number.
Run(p) ==
  /\ IsAt(p, "idle") /\ \A q \in Processes : q < p => ~IsAt(q, "idle")
  /\ commands < MaxCommands /\ commands' = commands + 1
  /\ LET new(cmd, at) == [Idle EXCEPT !.cmd = cmd, !.at = at, !.on = settings.on]
     IN  \/ /\ "connect" \in Commands
            /\ \E w \in Named : Becomes(p, [new("connect", "begin") EXCEPT !.wallet = w])
         \/ "key" \in Commands /\ Becomes(p, new("key", "key"))
         \/ /\ "play" \in Commands
            /\ \E a \in Wanted : Becomes(p, [new("play", "load") EXCEPT !.want = a, !.dead = Dead])
         \/ /\ "whoami" \in Commands
            /\ \E forced \in BOOLEAN, n \in Limits :
                 Becomes(p, [new("whoami", "load") EXCEPT !.on = settings.on \/ forced, !.limit = n])
         \/ /\ "wallet" \in Commands
            /\ \E forced \in BOOLEAN, n \in Limits, a \in Wanted \cup {None}, w \in Named :
                 LET f == [new("wallet", "ask") EXCEPT !.on = settings.on \/ forced, !.limit = n, !.want = a]
                 IN  Becomes(p, IF ~f.on THEN [f EXCEPT !.at = "over", !.exit = "off"]
                                ELSE Looking(f, IF a = None THEN "list" ELSE "owns", w))
         \/ /\ "disconnect" \in Commands
            /\ \E t \in DOMAIN issued : Becomes(p, [new("disconnect", "resolve") EXCEPT !.token = t])
  /\ UNCHANGED <<settings, owner, service, files>>

\* cmd_connect --key: load the test key, or generate and save one.
LoadKey(p) ==
  /\ IsAt(p, "key")
  /\ \/ key = Absent /\ \E w \in KeyWallets : Becomes(p, [frame[p] EXCEPT !.at = "open_key", !.wallet = w])
     \/ key.is = "key" /\ Becomes(p, [frame[p] EXCEPT !.at = "begin", !.wallet = key.wallet])
     \/ key \in {Empty, Garbled} /\ Exits(p, "uncaught")
  /\ UNCHANGED <<service, files>> /\ Keep
OpenKey(p) ==
  /\ IsAt(p, "open_key") /\ key' = Empty /\ Goes(p, "write_key")
  /\ UNCHANGED <<service, saved>> /\ Keep
WriteKey(p) ==
  /\ IsAt(p, "write_key") /\ key' \in Overwritten(key, Keeps(frame[p].wallet)) /\ Goes(p, "begin")
  /\ UNCHANGED <<service, saved>> /\ Keep

Begin(p) ==
  /\ IsAt(p, "begin") /\ Challenge(p, IF frame[p].cmd = "key" THEN "verify" ELSE "prompt")
  /\ UNCHANGED files /\ Keep
\* The player pastes a signature, good or bad, or gives up.
Prompt(p) ==
  /\ IsAt(p, "prompt") /\ (Goes(p, "verify") \/ Exits(p, "cancelled"))
  /\ UNCHANGED <<service, files>> /\ Keep
Complete(p) == IsAt(p, "verify") /\ (Refuse(p) \/ Issue(p)) /\ UNCHANGED files /\ Keep
RecordConnect(p) ==
  /\ IsAt(p, "audit") /\ frame[p].cmd \in {"connect", "key"} /\ RecordLogin(p, "open_saved")
  /\ UNCHANGED files /\ Keep

\* _save_session truncates the file, then writes it; _load_session reads it.
OpenSaved(p) ==
  /\ IsAt(p, "open_saved") /\ saved' = Empty /\ Goes(p, "write_saved")
  /\ UNCHANGED <<service, key>> /\ Keep
WriteSaved(p) ==
  /\ IsAt(p, "write_saved") /\ saved' \in Overwritten(saved, Remembers(frame[p].token, frame[p].wallet))
  /\ Exits(p, "connected")
  /\ UNCHANGED <<service, key>> /\ Keep
LoadSaved(p) ==
  /\ IsAt(p, "load")
  /\ IF saved.is # "session" THEN Exits(p, "not_connected")
     ELSE Becomes(p, [frame[p] EXCEPT !.at = "resolve", !.token = saved.token])
  /\ UNCHANGED <<service, files>> /\ Keep

\* What resolving the token leads to, in each command.
Play(p) == IsAt(p, "resolve") /\ frame[p].cmd = "play" /\ FighterFor(p) /\ UNCHANGED files /\ Keep
WhoAmI(p) ==
  /\ IsAt(p, "resolve") /\ frame[p].cmd = "whoami"
  /\ IF frame[p].token \notin DOMAIN live THEN Exits(p, "expired")
     ELSE IF frame[p].on THEN Goes(p, "roster") ELSE Exits(p, "shown")
  /\ UNCHANGED <<service, files>> /\ Keep
ShowRoster(p) == IsAt(p, "roster") /\ Roster(p) /\ UNCHANGED files /\ Keep
Disconnect(p) ==
  /\ frame[p].cmd = "disconnect"
  /\ \/ IsAt(p, "resolve") /\ ResolveToRevoke(p)
     \/ IsAt(p, "revoke") /\ Revoke(p)
     \/ IsAt(p, "audit") /\ RecordRevocation(p)
  /\ UNCHANGED files /\ Keep

AskProvider(p) == Ask(p) /\ UNCHANGED files /\ Keep
\* The gate of play; whoami and wallet print what they were told.
Told(p) ==
  /\ IsAt(p, "told")
  /\ \/ frame[p].cmd = "play" /\ Gate(p)
     \/ frame[p].cmd # "play" /\ Becomes(p, [frame[p] EXCEPT !.at = "over", !.exit = frame[p].answer.kind])
          /\ UNCHANGED service
  /\ UNCHANGED files /\ Keep
End(p) == IsAt(p, "over") /\ Becomes(p, Idle) /\ UNCHANGED <<service, files>> /\ Keep

\* The event and the wallet of the record that a command is about to write.
RecordOf(f) == <<IF f.cmd = "disconnect" THEN "session_revoked" ELSE "auth_succeeded", f.wallet>>
\* A process is killed with its command unfinished; the record it was about to write is never written.
Crash(p) ==
  /\ frame[p].at \notin {"idle", "over"} /\ Mishap
  /\ Becomes(p, Idle)
  /\ lost' = IF ~IsAt(p, "audit") THEN lost ELSE [lost EXCEPT ![RecordOf(frame[p])] = @ + 1]
  /\ UNCHANGED <<settings, owner, live, issued, ended, audit, files, commands>>

World ==
  \/ SessionEnds /\ UNCHANGED files /\ Keep
  \/ Sale /\ UNCHANGED <<settings, files, commands>>

Step(p) ==
  \/ LoadKey(p) \/ OpenKey(p) \/ WriteKey(p) \/ Begin(p) \/ Complete(p) \/ RecordConnect(p)
  \/ OpenSaved(p) \/ WriteSaved(p) \/ LoadSaved(p) \/ Play(p) \/ WhoAmI(p) \/ ShowRoster(p)
  \/ Disconnect(p) \/ AskProvider(p) \/ Told(p) \/ End(p)
Next == World \/ \E p \in Processes : Run(p) \/ Prompt(p) \/ Crash(p) \/ Step(p)

Spec == Init /\ [][Next]_vars
FairSpec == Spec /\ \A p \in Processes : WF_vars(Step(p))

-----------------------------------------------------------------------------
Answers == {None, Unavailable, Raised, [kind |-> "owned"], [kind |-> "not_owned"]}
             \cup [kind : {"listed"}, found : SUBSET Assets, many : Nat]
CommandNames == {"none", "connect", "key", "play", "whoami", "wallet", "disconnect"}
Places == {"idle", "key", "open_key", "write_key", "begin", "prompt", "verify", "audit", "open_saved",
           "write_saved", "load", "resolve", "revoke", "roster", "ask", "told", "over"}
ExitNames == {"off", "uncaught", "cancelled", "refused", "connected", "not_connected", "expired",
              "shown", "granted", "unconfirmed", "was_over", "disconnected",
              "owned", "not_owned", "unavailable", "raised", "listed"}
CommandFrames ==
  [cmd : CommandNames, at : Places, wallet : Subjects, token : 0 .. MaxTokens, on : BOOLEAN,
   purpose : {"none", "owns", "list"}, limit : Nat \ {0}, want : Assets \cup {None},
   k : 0 .. 4, page : 0 .. MaxPages, found : SUBSET Assets, many : Nat, answer : Answers,
   held : SUBSET Assets, lacked : SUBSET Assets, dead : SUBSET Tokens, exit : ExitNames \cup {None}]
TypeOK ==
  /\ owner \in [Assets -> Subjects]
  /\ DOMAIN issued \subseteq Tokens /\ \A t \in DOMAIN issued : issued[t] \in Wallets
  /\ DOMAIN live \subseteq DOMAIN issued /\ \A t \in DOMAIN live : live[t] = issued[t]
  /\ ended \subseteq Dead /\ audit \in Counts /\ lost \in Counts
  /\ saved \in {Absent, Empty, Garbled} \cup {Remembers(t, w) : t \in Tokens, w \in Wallets}
  /\ key \in {Absent, Empty, Garbled} \cup {Keeps(w) : w \in KeyWallets}
  /\ frame \in [Processes -> CommandFrames]
  /\ \A p \in Processes : frame[p].many <= LookLimit(frame[p])

Exited(p, cmd, exit) == IsAt(p, "over") /\ frame[p].cmd = cmd /\ frame[p].exit = exit

\* "This is the gate" (fighter_for): an NFT is played only by a command whose
\* session had been issued to a wallet that proved itself, was not over before
\* the command began and, where ownership is enforced, whose wallet held the NFT
\* at some moment of the check: never because nobody could be asked.
GrantsAreEarned ==
  \A p \in Processes : Exited(p, "play", "granted") =>
    LET f == frame[p]
    IN  /\ f.token \in DOMAIN issued /\ issued[f.token] = f.wallet /\ f.token \notin f.dead
        /\ f.on => f.want \in f.held

\* "Conflating the two would deny players during an outage" (verify_ownership of
\* adapters.py): who is told that the NFT is not theirs did not hold it at some
\* moment of the check, if the wallet fits a page and the item can be read.
DenialsAreAnswered ==
  \A p \in Processes :
    /\ Exited(p, "play", "not_owned") \/ Exited(p, "wallet", "not_owned")
    /\ Cardinality(frame[p].held) <= MaxPage
    => frame[p].want \in frame[p].lacked \cup OddAssets

\* A wallet that fits the limit and one page is listed in full by a provider
\* that answers: what it held from the first page to the last is in the roster.
\* Of an empty answer of the null provider or of a failover chain nothing is
\* said: see OutageIsNotAnEmptyRoster.
RosterMissesNothing ==
  \A p \in Processes : frame[p].at = "told" /\ frame[p].answer.kind = "listed" /\ frame[p].on =>
    LET f == frame[p]
    IN  /\ settings.failover \/ settings.chain[1] = "null" => f.answer.found # {}
        /\ Cardinality(f.held) <= Lesser(LookLimit(f), MaxPage)
        => Assets \ (f.lacked \cup OddAssets) \subseteq f.answer.found

\* What the player is told of a wallet is so: a refusal and a listing alike.
AnswersAreHonest == DenialsAreAnswered /\ RosterMissesNothing

\* The trail has one login for every session and one revocation for every session
\* that a revoke ended, for the right wallet, but for the records that the sink
\* or a crash lost: two disconnects at once do not audit one session twice.
Writing(cmds, w) == {p \in Processes : IsAt(p, "audit") /\ frame[p].cmd \in cmds /\ frame[p].wallet = w}
AuditBalances ==
  \A w \in Wallets :
    LET records(event) == audit[<<event, w>>] + lost[<<event, w>>]
        sessionsIn(T) == Cardinality({t \in T : issued[t] = w})
    IN  /\ sessionsIn(DOMAIN issued) = records("auth_succeeded") + Cardinality(Writing({"connect", "key"}, w))
        /\ sessionsIn(ended) = records("session_revoked") + Cardinality(Writing({"disconnect"}, w))

\* Every command ends, whatever the providers answer and whoever else runs
\* ("Bounded", list_owned), once nobody is asked for a signature.
CommandsEnd == \A p \in Processes : ~IsAt(p, "idle") ~> (IsAt(p, "idle") \/ IsAt(p, "prompt"))

\* "The NFTs `wallet` holds" (list_owned): none of them twice.
RosterListsEachOnce == \A p \in Processes : frame[p].answer # None /\ frame[p].answer.kind = "listed" =>
  frame[p].answer.many = Cardinality(frame[p].answer.found)

\* "An outage is surfaced rather than silently returning an empty roster, which
\* would look to a player like 'your NFTs are gone'" (roster in auth/service.py).
OutageIsNotAnEmptyRoster ==
  \A p \in Processes : Exited(p, "whoami", "listed") /\ frame[p].answer.found = {} =>
    \/ "null" \in ToSet(settings.chain)
    \/ frame[p].lacked = Assets

\* A session that ends while whoami runs is reported like one that ended before.
WhoAmIIsCaught == \A p \in Processes : ~Exited(p, "whoami", "uncaught")

\* A crash while the test key is saved does not leave a key that cannot be loaded.
KeyCanBeLoaded == \A p \in Processes : ~Exited(p, "key", "uncaught")
=============================================================================
