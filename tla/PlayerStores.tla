---------------------------- MODULE PlayerStores -----------------------------
(***************************************************************************)
(* The two implementations of the player port, and the session table       *)
(* beside the players in Postgres: store/postgres.py with the record       *)
(* checks of store/records.py, MemoryPlayerStore of plugins/adapters.py.   *)
(* The audit table takes one statement as these do.  Threads share an      *)
(* adapter.  In Postgres a method is one statement, which takes effect at  *)
(* once on the server and is retried when anything fails before its answer *)
(* is read, over a connection that all threads of the adapter share and    *)
(* that any of them closes when its statement fails.  A refusal by an open *)
(* breaker and a budget that has run out are calls that raise before their *)
(* last attempt.                                                           *)
(* Names, times and the ids that do not validate are left out.             *)
(***************************************************************************)
EXTENDS Integers, FiniteSets

CONSTANTS Players, Wallets, Tokens, Threads,
          Backends,       \* the player stores of a run, of {"postgres", "memory"}
          Statements,     \* the calls threads make: see Statement
          Attempts,       \* attempts of the retry policy
          MaxPoints,      \* MAX_POINTS
          MaxCalls,       \* bound on the calls of a run
          None

ASSUME StoresArePositive ==
  /\ Attempts \in Nat \ {0} /\ MaxPoints \in Nat /\ MaxCalls \in Nat
  /\ None \notin Wallets /\ Backends \subseteq {"postgres", "memory"}
  /\ IsFiniteSet(Threads)

\* The statements, with their parameters as validated before they are sent.
Statement ==
  [kind : {"result"}, player : Players, won : BOOLEAN, delta : Int]
    \cup [kind : {"upsert"}, player : Players, wallet : Wallets \cup {None}, points : 0 .. MaxPoints]
    \cup [kind : {"get"}, player : Players]
    \cup [kind : {"put", "delete"}, token : Tokens]

ASSUME StatementsAreValid == Statements \subseteq Statement /\ None \notin Statement

VARIABLES backend,    \* the player store in use
          players,    \* the players table: player -> row, for those registered
          sessions,   \* the sessions table: tokens present
          up,         \* the database can be reached
          conn,       \* whether the adapter has a connection it thinks open
          call,       \* thread -> the frame of its call
          calls,      \* history: calls begun
          told,       \* history: player -> results acknowledged since it was upserted
          untold,     \* history: player -> results applied since whose call never said so
          opened, closed   \* history: tokens whose put and whose delete were acknowledged

tables == <<players, sessions>>
history == <<told, untold, opened, closed>>
vars == <<backend, tables, up, conn, call, calls, history>>

Row == [wallet : Wallets \cup {None}, points : Nat, wins : Nat, losses : Nat]
NewRow(wallet, points) == [wallet |-> wallet, points |-> points, wins |-> 0, losses |-> 0]
Plus(x, y) == IF x + y < 0 THEN 0 ELSE x + y
With(map, x, v) == [y \in DOMAIN map \cup {x} |-> IF y = x THEN v ELSE map[y]]
Tally(p) == players[p].wins + players[p].losses

\* A frame: where the call stands, its statement and the attempts it has left;
\* on is the connection it holds, current being the adapter's; fresh says that
\* the result it applied is still in the row; answer is what was read.
Frame(at, stmt, left) ==
  [at |-> at, stmt |-> stmt, left |-> left, on |-> "none", fresh |-> FALSE, answer |-> None]
Idle == Frame("idle", None, 0)
Goto(t, at) == call' = [call EXCEPT ![t].at = at]
Return(t) == call' = [call EXCEPT ![t] = Idle]
InCall(t, at) == call[t].at = at

Init ==
  /\ backend \in Backends
  /\ players = [p \in {} |-> NewRow(None, 0)] /\ sessions = {}
  /\ up = TRUE /\ conn = FALSE
  /\ call = [t \in Threads |-> Idle] /\ calls = 0
  /\ told = [p \in Players |-> 0] /\ untold = [p \in Players |-> 0]
  /\ opened = {} /\ closed = {}

-----------------------------------------------------------------------------
\* Which statements can be sent: a token is put once, and deleted by its holder.
Sensible(s) ==
  /\ s.kind = "put" => s.token \notin opened
       /\ \A t \in Threads : call[t].stmt # None => call[t].stmt # s
  /\ s.kind = "delete" => s.token \in opened
  /\ backend = "memory" => s.kind \in {"result", "upsert", "get"}

Begin(t) ==
  /\ InCall(t, "idle") /\ calls < MaxCalls
  /\ \E s \in Statements :
       /\ Sensible(s)
       /\ call' = [call EXCEPT ![t] = Frame(IF backend = "memory" THEN "read" ELSE "attempt", s, Attempts)]
  /\ calls' = calls + 1
  /\ UNCHANGED <<backend, tables, up, conn, history>>

\* _connection: the adapter's, or a new one, which is opened before it is kept.
Connection(t) ==
  /\ InCall(t, "attempt")
  /\ call' = [call EXCEPT ![t].at = IF conn THEN "execute" ELSE "connect",
                          ![t].on = IF conn THEN "current" ELSE "none"]
  /\ UNCHANGED <<backend, tables, up, conn, calls, history>>

\* Another connection opened meanwhile is forgotten, though not closed.
Connect(t) ==
  /\ InCall(t, "connect") /\ up
  /\ conn' = TRUE
  /\ call' = [u \in Threads |->
       IF u = t THEN [call[t] EXCEPT !.at = "execute", !.on = "current"]
       ELSE [call[u] EXCEPT !.on = IF @ = "current" THEN "other" ELSE @]]
  /\ UNCHANGED <<backend, tables, up, calls, history>>

\* What a statement does to its table, and what it answers.
TakenByNewcomer(p, w) == w # None /\ p \notin DOMAIN players /\ \E q \in DOMAIN players : players[q].wallet = w
Taken(p, w) == w # None /\ \E q \in DOMAIN players \ {p} : players[q].wallet = w
Violates(s) == s.kind = "upsert" /\ Taken(s.player, s.wallet)
Credited(row, s) ==
  [row EXCEPT !.points = Plus(@, s.delta),
              !.wins = @ + (IF s.won THEN 1 ELSE 0), !.losses = @ + (IF s.won THEN 0 ELSE 1)]
RowOf(p) == IF p \in DOMAIN players THEN players[p] ELSE None
ResultRowStale(s, seen) == IF seen = None THEN Credited(NewRow(None, 0), s) ELSE Credited(seen, s)
ResultRow(s, seen) == Credited(players[s.player], s)
Written(s, seen) ==
  CASE s.kind = "upsert" ->
         With(players, s.player,
              IF s.player \in DOMAIN players
              THEN [players[s.player] EXCEPT !.wallet = s.wallet, !.points = s.points,
                                             !.wins = 0, !.losses = 0]
              ELSE NewRow(s.wallet, s.points))
    [] s.kind = "result" /\ s.player \in DOMAIN players -> With(players, s.player, ResultRow(s, seen))
    [] OTHER -> players
Applies(s) == s.kind = "result" /\ s.player \in DOMAIN players

\* An upsert replaces the tallies, and what was counted before it.
Forgotten(s, counts) == IF s.kind = "upsert" THEN [counts EXCEPT ![s.player] = 0] ELSE counts
Stale(s, f) == IF s.kind = "upsert" /\ f.stmt # None /\ f.stmt.kind = "result" /\ f.stmt.player = s.player
               THEN [f EXCEPT !.fresh = FALSE] ELSE f

Removed(token) == sessions \ {token}
Execute(t) ==
  /\ InCall(t, "execute") /\ call[t].on # "closed" /\ up
  /\ LET s == call[t].stmt
     IN  /\ ~Violates(s)
         /\ players' = Written(s, call[t].answer)
         /\ sessions' = CASE s.kind = "put" -> sessions \cup {s.token}
                          [] s.kind = "delete" -> Removed(s.token)
                          [] OTHER -> sessions
         /\ told' = Forgotten(s, told) /\ untold' = Forgotten(s, untold)
         /\ call' = [u \in Threads |->
              IF u = t THEN [call[t] EXCEPT !.at = "answer", !.fresh = Applies(s),
                               !.answer = IF s.kind \in {"result", "get"} /\ s.player \in DOMAIN players
                                          THEN players'[s.player] ELSE None]
              ELSE Stale(s, call[u])]
  /\ UNCHANGED <<backend, up, conn, calls, opened, closed>>

\* load_player_record raises for a row beyond the bounds, KeyError for no row.
Loads(f) == f.answer # None /\ f.answer.points <= MaxPoints
Acknowledged(t) ==
  LET f == call[t]
      p == f.stmt.player
  IN  /\ told' = IF f.stmt.kind = "result" /\ f.fresh /\ Loads(f) THEN [told EXCEPT ![p] = @ + 1] ELSE told
      /\ untold' = IF f.stmt.kind = "result" /\ f.fresh /\ ~Loads(f) THEN [untold EXCEPT ![p] = @ + 1] ELSE untold
      /\ opened' = IF f.stmt.kind = "put" THEN opened \cup {f.stmt.token} ELSE opened
      /\ closed' = IF f.stmt.kind = "delete" THEN closed \cup {f.stmt.token} ELSE closed

\* The answer is read; an upsert goes on to read its row back.
Answer(t) ==
  /\ InCall(t, "answer") /\ call[t].on # "closed" /\ up
  /\ Acknowledged(t)
  /\ IF call[t].stmt.kind = "upsert"
     THEN call' = [call EXCEPT ![t] = Frame("attempt", [kind |-> "get", player |-> call[t].stmt.player], Attempts)]
     ELSE Return(t)
  /\ UNCHANGED <<backend, tables, up, conn, calls>>

\* Anything that goes wrong: the adapter's connection of the moment is closed,
\* whoever uses it, and the statement is tried again while attempts are left.
Troubled(t) ==
  \/ InCall(t, "connect") /\ ~up
  \/ InCall(t, "execute") /\ (call[t].on = "closed" \/ ~up \/ Violates(call[t].stmt))
  \/ InCall(t, "answer") /\ (call[t].on = "closed" \/ ~up)
Left(t) == call[t].left - 1
Fail(t) ==
  /\ Troubled(t)
  /\ conn' = FALSE
  /\ untold' = IF call[t].fresh THEN [untold EXCEPT ![call[t].stmt.player] = @ + 1] ELSE untold
  /\ LET rest(f) == [f EXCEPT !.on = IF @ = "current" THEN "closed" ELSE @]
     IN  \E again \in BOOLEAN :
           /\ again => Left(t) > 0
           /\ call' = [u \in Threads |->
                IF u # t THEN rest(call[u])
                ELSE IF again THEN Frame("attempt", call[t].stmt, Left(t))
                ELSE Idle]
  /\ UNCHANGED <<backend, tables, up, calls, told, opened, closed>>

-----------------------------------------------------------------------------
\* MemoryPlayerStore: no lock is held between the reading and the writing.
MemRead(t) ==
  /\ InCall(t, "read")
  /\ IF call[t].stmt.kind = "get" \/ (call[t].stmt.kind = "result" /\ call[t].stmt.player \notin DOMAIN players)
     THEN Return(t)
     ELSE call' = [call EXCEPT ![t].at = "write", ![t].answer = RowOf(call[t].stmt.player)]
  /\ UNCHANGED <<backend, tables, up, conn, calls, history>>

MemWrite(t) ==
  /\ InCall(t, "write")
  /\ LET s == call[t].stmt
     IN  /\ players' = With(players, s.player,
              IF s.kind = "upsert" THEN NewRow(s.wallet, s.points) ELSE Credited(call[t].answer, s))
         /\ told' = IF s.kind = "result" THEN [told EXCEPT ![s.player] = @ + 1] ELSE Forgotten(s, told)
  /\ Return(t)
  /\ UNCHANGED <<backend, sessions, up, conn, calls, untold, opened, closed>>

\* The database, or the way to it, comes and goes.
Network == up' = ~up /\ UNCHANGED <<backend, tables, conn, call, calls, history>>

Step(t) == Connection(t) \/ Connect(t) \/ Execute(t) \/ Answer(t) \/ Fail(t) \/ MemRead(t) \/ MemWrite(t)
Next == Network \/ \E t \in Threads : Begin(t) \/ Step(t)

Spec == Init /\ [][Next]_vars

-----------------------------------------------------------------------------
Frames == [at : {"idle", "attempt", "connect", "execute", "answer", "read", "write"},
           stmt : Statement \cup {None}, left : 0 .. Attempts,
           on : {"none", "current", "other", "closed"}, fresh : BOOLEAN, answer : Row \cup {None}]
TypeOK ==
  /\ backend \in Backends
  /\ DOMAIN players \subseteq Players /\ \A p \in DOMAIN players : players[p] \in Row
  /\ sessions \subseteq Tokens
  /\ up \in BOOLEAN /\ conn \in BOOLEAN /\ calls \in 0 .. MaxCalls
  /\ call \in [Threads -> Frames]
  /\ told \in [Players -> Nat] /\ untold \in [Players -> Nat]
  /\ opened \subseteq Tokens /\ closed \subseteq opened

Telling(p) == {t \in Threads : call[t].fresh /\ call[t].stmt.player = p}

\* "Two workers finishing two matches for one player cannot lose an update to a
\* race" (record_result in postgres.py), nor is one counted from nowhere: the
\* tallies of a row are the results acknowledged, those about to be, and those
\* whose answer was lost and which were perhaps tried again.
EveryResultIsAccountedFor ==
  backend = "postgres" =>
    \A p \in DOMAIN players : Tally(p) = told[p] + untold[p] + Cardinality(Telling(p))

\* A wallet is on one row (UNIQUE in schema.sql) although an upsert may be retried
\* after another thread has taken the wallet.
OneRowPerWallet ==
  backend = "postgres" =>
    \A p, q \in DOMAIN players : p # q => players[p].wallet = None \/ players[p].wallet # players[q].wallet

\* Retries do not bring a session back: once its delete was acknowledged, no
\* attempt of the put that made it is still to come (PostgresSessionStore).
DeletedStaysDeleted == sessions \cap closed = {}

\* What Postgres holds obeys the schema and the acknowledged deletes, however the
\* statements of several threads are retried: rows of their types, a wallet on one
\* row, and no session back from the dead.
TablesAreSound == TypeOK /\ OneRowPerWallet /\ DeletedStaysDeleted

\* "Bounding it here stops a buggy or compromised caller minting an unreachable
\* score" (record_result): every row written by these stores can be loaded again.
RowsCanBeLoaded == \A p \in DOMAIN players : players[p].points <= MaxPoints

\* "Both backends must be indistinguishable to a caller" (test_store_postgres.py):
\* the memory store, too, has a wallet on one row.
WalletsAreUniqueEverywhere ==
  \A p, q \in DOMAIN players : p # q => players[p].wallet = None \/ players[p].wallet # players[q].wallet

\* A result counts once, whatever happened to its answer.
ResultsCountOnce == \A p \in DOMAIN players : Tally(p) <= calls
=============================================================================
