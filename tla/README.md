# RivalForge Arena in TLA+

RivalForge Arena is a Python program for sixty-second duels between NFT fighters. A player connects
a wallet by signing a text, picks an NFT the wallet holds, and plays a match against an agent, on the
command line or in a Telegram chat. This directory holds TLA+ models of it, TLC configurations that
check them on small instances, and proofs that TLAPS checks for every value of the constants.

Every definition is translated from the Python source, read with its tests and docs; `PROJECT.json`
names, for each definition, the lines it stands for. All paths below are under
`src/src/rivalforge/`.

    tlc -workers 2 -config ChallengeReplay.cfg MCChallengeService.tla
    tlapm ChallengeService_proofs.tla

## 1. Inventory

| Component | State it keeps | Operations | Made correct by | Status |
|---|---|---|---|---|
| Wallet challenges: `auth/challenge.py`, `auth/store.py` | pending challenges by nonce, an index per wallet, one lock | `issue`, `verify`; `put`, `consume`, `purge_expired`, `live_for` | a nonce logs in once, and its own wallet only; the store is bounded, and loses or refuses a challenge only for cause | modelled, proved |
| Sessions: `auth/session.py`, `auth/session_store.py` (memory) | sessions by token hash | `issue`, `resolve`, `revoke`, `revoke_wallet`, `purge_expired` | a session starts once and never comes back; a full store gives up the session nearest expiry | modelled, proved |
| Session file: `FileSessionStore` | a JSON file and a temporary, shared by processes | the same, each a read and a replace | the file is never torn, and holds what acknowledged calls made | modelled, proved |
| Wallet service, audit: `auth/service.py`, `auth/audit.py` | none of its own; a bounded audit trail | `begin`, `complete`, `disconnect`, `roster`, `fighter_for` | ownership is checked at every use, unavailable fails closed, a failed audit write breaks nothing | modelled, proved |
| Wallet providers: `plugins/adapters.py`, `plugins/ports.py` | a breaker each | `verify_ownership`, `list_owned`, alone or as a failover chain | three-valued answers: a failure is not a denial, a listing misses nothing | modelled, proved |
| Command line: `cli/main.py`, `cli/wiring.py`, `cli/localkey.py` | `session.json`, the test key file | `connect`, `whoami`, `play`, `watch`, `wallet`, `fighter` | every command ends, with a grant only for a held NFT | modelled, proved |
| Match engine: `engine/match.py`, `resolve.py`, `balance.py` | two combatants, the round, the bars at its start, the outcome | `submit`, `play` | simultaneous resolution, durations, rewind, a verdict that fits the bars, an end | modelled, proved |
| Random numbers, fighters: `engine/rng.py`, `engine/fighter.py` | a 64-bit word | `below`, `choice`, `chance`, `fork`, `derive_fighter` | a seed replays; every fighter is legal | modelled, the draw proved |
| Agents: `agents/builtin.py` | a stream | `decide` | an agent sees the state before the round | modelled |
| Content: `content/schema.py`, `content/loader.py` | none | loading, triangles, ranks | damage stays in range on what can be loaded | partly |
| Retries and breaker: `plugins/resilience.py` | consecutive failures, the time it opened; a deadline per call | `call_with_retries`; `before_call`, `record_success`, `record_failure`, `is_open`, `reset` | bounded calls, a consistent breaker, a recovery that is noticed | modelled, proved |
| Player stores: `store/`, `MemoryPlayerStore` | tables of players and sessions | one SQL statement each, through the retries | no result lost, one row per wallet | modelled, proved |
| Telegram loop, client: `telegram/bot.py`, `api.py` | the offset, the failures in a row | `start`, `poll_once`, `run`, `stop` | an update is handled once per process and at least once in all | modelled, proved |
| Conversations: `telegram/handlers.py`, `telegram/state.py` | per user: token, wallet, pending nonce, mint, match, armed soul, roster; a bounded map | commands and buttons | a match uses only what the wallet holds now; the last challenge counts; nothing is left armed | partly (see 6), proved |
| Telegram security: `telegram/security.py` | the callback key; token buckets | `sign`, `verify`; `check`, `_evict_stale` | a button is its owner's; a bounded, exact limiter | partly, the limiter proved |
| Toggles, registries, validation, redaction, rendering, `src/tools` | resolved once at start, or none | sequential | covered by tests | not modelled (see 6) |

**How they interact.** The bot's loop is one thread: it polls, hands each update to `BotHandlers.handle`
and sends the actions it returns. A handler fetches the user's state, calls `WalletService` (which
calls challenge service, session service, ownership provider and audit trail in turn) and
`Match.submit`. The command line does the same in a process per command, and by default both use the
same session file. Every outbound call, HTTP or SQL, goes through `call_with_retries` and a breaker
shared by all callers of one adapter. The stores take a lock per method and call themselves thread-safe,
for a webhook front end that would call them from several threads.

**What is hard.** A service method makes several store calls with the lock released in between, and
reads the wall clock before it takes the lock; the clock may be set back. Two processes share a file
whose lock is local to one. Late answers of calls let in earlier reach a breaker that has changed state;
the answer of a committed statement is lost and the statement sent again. NFTs are sold between two pages
of one listing. Buttons of old messages act on new state. Conversations expire, are evicted, or die with
the process between a command and its sequel, and so does the offset of the loop. A match has to be fair
between simultaneous decisions that code must visit in some order, and every roll has to come from the
same place in its stream whoever else draws. `PROJECT.json` lists each of these hazards at its line.

## 2. Modules

| Module | What it is |
|---|---|
| `SingleUseTokens` | abstract: a nonce is minted, then redeemed once or lost |
| `ChallengeStore` | the operators of `InMemoryChallengeStore` |
| `ChallengeService` | `issue` and `verify` by concurrent threads over the store; implements `SingleUseTokens` |
| `SessionLives` | abstract: a session starts once, is not altered, and never comes back |
| `SessionMaps` | session maps and their operators, shared by the stores |
| `SessionService` | the service over the in-memory store, by threads; implements `SessionLives` |
| `FileSessionStore` | the file store and the file system under it, by processes that fail and die; implements `SessionLives` for one process |
| `Resilience` | `call_with_retries` over a shared `CircuitBreaker`, in real time |
| `Duel` | the match engine, over any hits and rolls |
| `Damage`, `Rng`, `Agents` | `compute_damage` in fixed point; streams and draws; the four agents as functions of a view |
| `Fighters` | the draw of a fighter's stats |
| `LocalMatch` | composes `Duel`, `Damage`, `Rng`, `Agents` and `Fighters`: the matches of `play`, `watch` and `watch --rounds`, each round one step of `Duel` |
| `Conversation` | the Telegram handlers over the conversation store, sessions, challenges and NFTs |
| `RateLimiter` | the token buckets, with the eagerly filled ones as history |
| `TelegramLoop` | the loop over the Bot API, Telegram's queue, crashes and restarts; asks `RateLimiter` |
| `PlayerStores` | the player port in Postgres and in memory, by threads |
| `WalletProviders` | DAS, null and failover providers over NFTs that are sold meanwhile |
| `WalletService` | the service and the audit trail, composed with `WalletProviders` |
| `CommandLine` | the commands as processes over `WalletService` and the files they share |
| `MC*` | what TLC needs besides the constants: symmetry sets, arenas, tapes, conjunctions for a run |
| `*_proofs` | theorems about the module of that name; `LocalMatch_proofs` also has those about `Duel` and `Fighters`, `CommandLine_proofs` those about `Resilience` |

**State and actions against the code.**

*Challenges.* `byNonce` and `byWallet` are `_by_nonce` and `_by_wallet`. The store's methods hold its
lock, so each is one step; `call` holds the locals of a thread inside `issue` or `verify`, between the
clock reading, the store call and the verdict. A signature is who made it and the nonce of the text it
covers: the text names the nonce, and is rebuilt from the stored challenge. Ties between challenges
that expire together are left open.

*Duel.* `submit` is synchronous, so a round is one step, built of functions in the code's order: rewind
target, soul actions A then B, both strikes, hazards, ticks, soul awards, verdict. `compute_damage` is
abstracted to a set `Hits`; a roll is a choice. One counter stands for the status dictionary, since only
an arena's single hazard inflicts one. `barLog`, `felt` and `spells` are history.

*Local matches.* `LocalMatch` fills what `Duel` leaves open: a hit is `ComputeDamage` of `Damage` on a word
of the match's stream, a hazard roll a word of the hazard stream, and a decision what `Agents` answers to a
`View`, or what a person types (a soul is readied over several lines before the stance ends the turn).
A stream is a seed and the label it was forked under; `taken` counts the words drawn from each. Damage is
in thousandths with each stage rounded down, where the program keeps a double. `log` and `earlier` are
history: what each match of two commands was made of. Two oddities were met: the last branch of
`DefensiveAgent` (`builtin.py:114`) is never reached, as a fighter with the souls to pay has already spent
them, and a fighter's `focus` stat takes part in no formula of the engine.

*Fighters.* The hash of a mint settles the archetype and each draw, so over all mints every draw of a
positive weight happens; `Archetypes` are the biases the schema lets through.

*Resilience.* The monotonic clock appears as what the code reads of it: the age of the open breaker, the
time left to a deadline, the time an operation has run, the rest of a backoff; `Tick` moves them all. The
shape of the backoff is any wait up to its cap, which is what full jitter does.

*Sessions.* Each method of the store is a step, each method of the service several: `issue` is
`BeginIssue`, `Count`, `Purge`, `Recount`, `ChooseVictim`, `Evict`, `Put`. A token is a value drawn once.

*Session file.* A process is a program on the file, one call at a time, since its own lock orders its
threads. Reading and deciding is one step (a writer can only be seen whole or torn, and both are in the
file's state), then open with truncation, dump, rename, clean-up. A file holds a map, nothing, or text
that does not parse. A descriptor follows its file through a rename. Dump and rename may fail, and a
process may die anywhere and start again.

*Conversation.* One update is one step, as the loop handles one at a time. `states` with `order` is
`StateStore` (`last_seen` only orders); expiry takes any prefix of the order. `boards` and `rosters` are
the messages in the chat whose buttons can still be tapped. Verification is switched on and
`WalletService` is taken at its answers; of a match, the fighter and whether a soul can be paid are kept.
A restart loses memory, pending challenges and the validity of buttons (the key is drawn per process),
and keeps the session file.

*Telegram loop.* `pc` walks through `start`, the poll, and for each update of the batch the handler and its
actions, one call a step, so that an outage, a signal, a kill or a revoked token may come between any two.
`acked` is what Telegram has dropped: everything below the offset of a poll that reached it. A call is
taken with its retries, and an open breaker answers as an endpoint that is down. `Replies` are the actions
of a handler, one more for a button, and none when the limiter refuses. `RateLimiter` counts tokens in
units, so a bucket can hold a fraction, and keeps of the clock the age of each bucket.

*Player stores.* A method of Postgres is one statement: connect if there is no connection, execute (which
takes effect at once), read the answer, or fail, close the connection all threads share, and try again.
The memory store reads and writes in two steps, as it takes no lock.

*Wallets and commands.* A look at the providers is a page at a time, and NFTs are sold between pages.
`frame` holds where a process stands in its command; an action is a part of a method between two moments
at which something else may happen: the session store, the provider, the audit sink, a file. Saving a
file is two steps, truncate and write, and a process may be killed between them. A session is taken at the
level of `SessionLives`: it starts once, and may end at any time. What the pages have shown is a set, with
the number of items apart: two pages may show one NFT twice when others change hands between them.

## 3. Runs

| Run | Bounds | What it shows |
|---|---|---|
| `ChallengeReplay` | 2 threads, 2 nonces, 2 wallets, 2 domains, clock 0..2 that may go back 2 | `SingleUse`, `OnlyTheSignerLogsIn`, and the refinement `ImplementsTokens`, in every interleaving |
| `ChallengeLimits` | 3 nonces, 2 wallets, store of 2, 1 per wallet, clock forward only | `StoreIsBounded`; `LimitsAreJust`: the wallet cap holds, and a challenge is lost or refused only for cause |
| `Duel` | bars of 3, 4 rounds, hits 1 and 3, five arenas with every effect and hazard, all attunements | the verdict is what the bars settle, a double knockout by the bars of a round earlier; rewind goes back one round, a burn lasts its duration, no first-mover advantage, every match ends |
| `Resilience` | 2 callers, 2 attempts, threshold 2, cooldown 2, budget 3, operation 2, delay 3 | a call overruns by less than one operation, the breaker opens only on a run of failures, calls return and recovery is noticed |
| `SessionService` | 2 threads, 4 tokens, 2 wallets, store of 2, clock set at will | `ImplementsLives` in every interleaving; `LimitIsJust`: while no two calls overlapped, the bound holds and eviction takes only from a store full of live sessions |
| `FileSessionStore` | 1 process, 3 tokens, 2 wallets, file of 2 | atomic under failure and death at any step, bounded; `ImplementsLives` |
| `Conversation` | 2 users, room for 1, 2 wallets, 1 NFT, 2 nonces, 2 tokens, 2 matches | only a held NFT enters a match, only the last challenge connects, no soul stays armed, the store stays bounded |
| `TelegramLoop` | 3 players, 3 updates, 2 to a poll, a limiter of 2 buckets, 2 failures to give up, 1 signal or kill, 1 blocked player, a token that may be revoked | no process handles an update twice, lazy buckets allow what eager ones would, a stop is obeyed, every update is handled in the end, a dead endpoint is reported |
| `PlayerStores` | 2 threads, 2 players, 1 wallet, 1 token, 3 calls of 2 attempts, at most 1 point a result | every result is accounted for whatever answers are lost; one row per wallet, and a revoked session stays away |
| `CommandLine` | 2 processes, 2 commands, 2 wallets, 3 NFTs (one the mapping drops), 1 mishap, pages as far as 3 | a grant is earned at the time of the match, a denial was answered and a listing misses nothing, the audit trail balances, every command ends |
| `LocalMatch` | the numbers of `balance.py` and the content files on the six battlefields, words of 32 values, 4 seeds, two pairs of fighters, every pair of agents, 2 or 4 lines typed | fighters are legal, matches replay exactly, no agent sees the stance it answers |
| `TelegramLoopOneReplyStopsNobody` (violated) | as `TelegramLoop` | a player who has blocked the bot ends the process for everybody; the docstring of `poll_once` promises otherwise |

**Why these bounds are enough.** What the challenge and session services can get wrong is a matter of
two calls: two threads, with a victim and a rival, and a store small enough that the second put evicts.
The third nonce of `ChallengeLimits` makes the store full with an unrelated challenge in it. A
clock of 0..2 with a lifetime of 1 has a before, a within and an after for each item. A duel with bars of
3 has standing, one-hit, burnt and down; four rounds let a burn of two be refreshed and run out, and
reach the limit. Two callers are one that is late and one that trips the breaker, and two attempts
have a backoff between them. In `Conversation` the single seat is contested, so eviction happens at every
point of a flow; two nonces and two tokens allow a second `/connect`, and the NFT can be sold between any
two updates. In `TelegramLoop` the first poll can return a full batch with one update left behind, and
three senders compete for two buckets; senders appear in the order of their numbers (`SendersInOrder`),
which loses only renamings. In `PlayerStores` two attempts allow one lost answer with the other thread's
call between, and one wallet is what two players quarrel about. `CommandLine` needs a login, and a second
command that meets its session, files and audit record; a process takes the lowest free slot, and an NFT
is sold only while someone looks, since a sale before or after changes nothing a command sees.

**Deadlock** is checked, except where a bound of the model stops it: nonces, tokens, commands and updates
run out, and a decided match is over.

**Fairness.** `play` is a loop that keeps submitting, hence `WF(Next)` in `Duel`: nothing is assumed of the
agents or the rolls. In `Resilience` threads are scheduled (`WF(Step(c))`: operations end by their own
timeout, and callers are loops that call again), time passes (`SF(Tick)`), and a call does not lose its
whole budget every time between computing its deadline and asking the breaker (`SF(Start(c))`). The
dependency may go up and down for ever; `RecoveryIsNoticed` speaks of one that is up for good. In
`TelegramLoop` the process runs (`WF(Run)`: every call ends by its timeout) and whoever supervises it starts
it again (`WF(Restart)`: `docs/TELEGRAM.md` speaks of container restarts); `EveryUpdateIsHandled` supposes a network that is up
in the end and a token that is not revoked. In `CommandLine` a process runs (`WF(Step(p))`); nothing is
assumed of sales, sessions or a person who may leave a prompt unanswered before the command is begun.

**More configurations.** `ChallengeGaps`, `CommandLineGaps`, `ConversationGaps`, `DuelGaps`,
`FileSessionGaps`, `LocalMatchGaps` and `SessionGaps` hold sentences of the docs, or what one might expect
of the code, that the code does not keep. Leave one in to see its counterexample. The last two rows go
with the configuration of the run, in the place of its properties:

| Configuration, module | Properties it refutes |
|---|---|
| `ChallengeGaps`, `MCChallengeService` | `IndexIsBounded`, `LiveForCountsOutstanding`: the index names evicted nonces; the cap is not affected |
| `SessionGaps`, `SessionService` | `OvershootIsBounded`: racing logins that pick one victim leave the store larger each time |
| `FileSessionGaps`, `MCFileSessionStore` | `NeverTorn`, `EndedIsNotResurrected`: two processes share the name of the temporary, and no lock |
| `DuelGaps`, `MCDuel` | `ChillLastsAsDesigned`: a chill of two rounds weakens one round of attacks; `DoubleKnockoutGoesToTheLeader`: `match.py:502` and `docs/GAME_DESIGN.md:122` give a double knockout to who held more at the start of that round, the code to who did when the round before began |
| `LocalMatchGaps`, `MCLocalMatch` | `PointsAreProportional`: `rng.py:91` and `docs/SECURITY.md:110` promise a uniform integer, but `below` accepts one word too many and 0 is drawn more often; `TallyIsTheWatchedMatch`: a tally builds both agents anew for every round |
| `ConversationGaps`, `MCConversation` | `PickIsWhatWasShown`, `WholeMatchIsOneMessage`, `DisconnectEndsTheSession` |
| `CommandLineGaps`, `MCCommandLine` | `KeyCanBeLoaded`, `WhoAmIIsCaught`, `OutageIsNotAnEmptyRoster`, `RosterListsEachOnce` |
| `Resilience`, `MCResilience` | invariants `OneProbeAtATime`, `BudgetIsTheBackstop`, property `OpenForTheCooldown`: all waiting callers probe; an operation is not cut at the deadline; a late success closes an open breaker |
| `PlayerStores`, `MCPlayerStores` | `ResultsCountOnce`, `RowsCanBeLoaded`, `WalletsAreUniqueEverywhere` |

`PointsAreProportional` fails by one word of 32, which could be the fault of so short a word; the theorem
`BelowFavoursZero` says that it is not. A word more or less in 2^64 is not something a player could notice:
it is the claim that is wrong, and the rejection that does not do what it is there for.

## 4. Theorems

| Theorem | For every | From |
|---|---|---|
| `TypeCorrect`, `NonceIsSingleUse`, `StoreStaysBounded`, `TheSignerLogsIn`, `ServiceImplementsTokens` (challenges) | number of threads, nonces, wallets, domains; limits; clock | `OnePlace`: a challenge is in the store or in one frame, never in two places and never once accepted; `Provenance`: wherever it is, it names the wallet its nonce was drawn for |
| `LimitsHold` | the same, by a clock not set back | `Indexed`: the index of a wallet is within the cap, names nonces of its own, and names every one in the store that has not expired |
| `DuelTypeCorrect`, `VerdictIsWhatTheBarsShow`, `DuelStaysInTheLimit`, `RewindGoesBackOneRound` | arena, set of hits, balance | `LogAgrees`: the round-start bars are those the log holds, so that those a double knockout is decided on are the bars when the last round but one began |
| `BurnsRunTheirCourse` | the same | `BurnInv`: what is left of a burn and what has been felt of it make a whole burn |
| `NobodyMovesFirst` | the same | no invariant: each stage of a round commutes with swapping the fighters, one lemma a stage |
| `BreakerTypeCorrect`, `BreakerIsConsistent`, `CallsAreBounded`, `BreakerOpensOnARun` | number of callers, policy | `TimeKept` (an operation has not outrun what was left at its start) and `RunSeen` (what is behind a count) |
| `SessionTypeCorrect`, `ServiceImplementsLives` | number of threads, tokens, wallets | `TokensAreFresh`: a drawn token is held by one `issue` that has not put it, or was put |
| `LoginsKeepTheLimit` | the same | `InTurn`: while no two calls have overlapped at most one is under way, and what it found out about the store still holds |
| `FileTypeCorrect`, `FileStaysBounded` | number of processes on one file | `AllFit`: whatever a process has decided to write and whatever either file holds is within the limit when it is read, a torn text included |
| `OneWriterIsNeverTorn`, `OneWriterIsAtomic`, `OneWriterImplementsLives` | one process on the file | `WriteUnderWay`: what the temporary and the descriptor hold at each step of a write; `TokensAreFresh`: a call adds a token no reader has seen |
| `LoopTypeCorrect`, `NothingAckedIsLost`, `NoProcessRepeats`, `LimiterIsBounded`, `LimiterIsExact` | number of players, updates, batch, buckets, failures | `Progress`: what the process has handled lies below its offset, what it holds of a batch follows at the offset, and what is acknowledged was handled; `Limited`: a bucket not kept would be full |
| `ConversationTypeCorrect`, `StoreStaysBounded`, `ArmedCanAlwaysPay`, `ConversationsStayApart`, `OnlyTheHeldFight`, `TheLastChallengeConnects` | number of players, wallets, NFTs, matches | `InOrder` (the order is the states, each once), `Told` (what a state says of the services and the history is true) and `Apart` (no two states share a session or a match) |
| `TablesStaySound`, `ResultsAreAccountedFor` | number of threads, players, tokens, wallets; calls, attempts | `FramesFit` (what a call has in hand fits where it stands), `SessionsFit`, `OneRowPerWallet`, and for each player `Accounted`: the row against the three counts |
| `CommandsStayTyped`, `TheGateHolds`, `OutagesDenyNobody`, `TrailBalances` | number of processes, commands, wallets, NFTs, pages; every chain of providers and limit; mishaps | `FramesFit`: what a command knows at each place it may stand, of its session, its look and its answer; `Ledger` and `AuditBalances`: sessions that are over were issued, and the trail against who is about to write |
| `TheSeedReplays`, `NoAgentPeeks` | lineup of commands, content, balance, tape of words, entry of each stream | `ReplayInv`: the log of a match is what its rules make of the decisions in it, round by round, with the words the two streams had given by then, and so is the log of the match before where that one had the same seed, fighters and arena |
| `EveryMatchIsADuel` | the same, with `Hits` all numbers from `MinDamage` | `Frame`: the commands left have streams on the tape, what has been taken and played is typed, the last hits are hits; with the invariants of `Duel` |
| `BelowFavoursZero` | bound and width of a word | counting: q blocks of t words hold each residue q times, and the word that `below` accepts after them is the next 0 |
| `EveryMintDerives` | bounds and budget that fit together, archetype, draw | the points left fit in the room the stats have left |

None of the safety properties is inductive alone. `SingleUse`, for example, is preserved by `Accept`
only because the accepted challenge is not also in the store or in another thread's hands, so the
invariant is `TypeOK /\ OnePlace /\ SingleUse`. `OnlyTheLastChallengeConnects` needs that the pending nonce
of a conversation is the last one shown, which an eviction forgets and a restart clears. `NoProcessRepeats`
needs where the batch stands to the offset, since a batch delivered again begins below it. The proofs
follow one shape: lemmas about the operators, a lemma for the initial state and one per action that keep
`IInv`, and a temporal step by PTL. The refinements show that initial states map to initial states, and
each step to a step of the abstract specification or a stutter. `OutagesDenyNobody` turns on one page: a
wallet that fits a page is on the first one whole, whatever it held later is of no promise, and later
pages only add; `TheGateHolds` on another: a session that is over never
comes back, so whoever resolved one had an issued one when the command began. Most type
invariants of the proved modules are theorems that no run repeats.

`VerdictIsWhatTheBarsShow` settles every verdict, a double knockout included: there the winner is at zero,
and who it is depends on the bars one round earlier than the docs say. The theorem states what the code does.

The assumptions are those the modules name: limits and lifetimes are natural numbers, mostly positive, as
the constructors demand, sentinels are not data, and NFTs, threads
and processes are finitely many where they are counted.

`TheSeedReplays` compares two matches by showing that each log satisfies one recurrence, whose terms the
logs fix; two series that start alike and go on alike are one (`SeriesAgree`, by well-foundedness of the
naturals as a set, since induction over a predicate is out of the prover's reach).

`EveryMatchIsADuel` carries what is proved of `Duel`, where decisions and hits are arbitrary, over to the
matches that are played: whatever an agent is shown and has drawn it answers with a stance (`AgentsAnswer`),
a stream finds a word that `below` accepts within one run through the tape (`ZeroComesBy`), and
`compute_damage` ends in a whole number that is not below `MinDamage` (`DamageHasAFloor`). `Hits` is a bound
for TLC, which enumerates it; the theorem lifts it (`HitsAreWhole`), and what stays with TLC is that the
real balance keeps its damage within 1 to 99.

**Only model-checked.** Liveness (the prover does not do `ENABLED`), and the bound of 99 on the damage of
the real balance.

## 5. Plan

Done, in this order: challenges, duel, resilience, sessions, session file, conversation, the loop with its
limiter, player stores, providers with the wallet service and the command line, local matches; then the
proofs. Left:

1. `Conversation` over `WalletService` itself, with the audit trail and providers that are asked page by
   page, in place of its answers.
2. An abstract ladder that the two player stores implement, and the precedence of toggles.

## 6. Not modelled

HTTP and SQL encoding, argument parsing, prompts and rendering are I/O and formatting without state.
Validation and redaction are pure functions on text with property-based tests. Toggles and registries are
resolved once at start, in one thread; of content loading the ranges the schema lets through are modelled,
reading and checking the text of the files is not. A
hazard effect is supposed to be one the engine knows (`DuelConstants`), as it is in the shipped files. The
loader takes any identifier for it (`schema.py:229`), although `resolve.py:50` and `resolve.py:220` say that
it checks; with another name the first hazard to strike would raise a `ValueError` in the middle of a round,
which `Duel` does not model. `src/tools` is an offline simulation over the match
engine and a test harness. The arithmetic of ed25519, HMAC, splitmix64 and blake2b is abstracted to what it
guarantees. Of the Telegram side the text of messages and chats that are not private are left out, and
`Conversation` takes the wallet service at its answers; the ring buffer of the audit trail is large enough
for every run of `CommandLine`.
