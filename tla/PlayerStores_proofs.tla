------------------------- MODULE PlayerStores_proofs -------------------------
(***************************************************************************)
(* Theorems about PlayerStores, for any number of threads, players, wallets *)
(* and tokens, any statements and any policy of retries: the tables keep    *)
(* their types, wallets stay apart, no session comes back, and every result *)
(* counted is one that a call reported or whose answer was lost.            *)
(***************************************************************************)
EXTENDS PlayerStores, FiniteSetTheorems, TLAPS

Ats == {"idle", "attempt", "connect", "execute", "answer", "read", "write"}
OnPlayers == {"result", "upsert", "get"}

\* What a statement carries follows from its kind.
LEMMA StatementShapes ==
  ASSUME NEW s \in Statement
  PROVE  /\ s # None
         /\ s.kind \in {"result", "upsert", "get", "put", "delete"}
         /\ s.kind \in OnPlayers => s.player \in Players
         /\ s.kind = "result" => s.won \in BOOLEAN /\ s.delta \in Int
         /\ s.kind = "upsert" => s.wallet \in Wallets \cup {None} /\ s.points \in Nat
         /\ s.kind \in {"put", "delete"} => s.token \in Tokens
  BY StatementsAreValid, StoresArePositive DEF Statement, OnPlayers

LEMMA FrameFields ==
  ASSUME NEW f \in Frames
  PROVE  /\ f.at \in Ats /\ f.stmt \in Statement \cup {None} /\ f.left \in 0 .. Attempts
         /\ f.on \in {"none", "current", "other", "closed"} /\ f.fresh \in BOOLEAN
         /\ f.answer \in Row \cup {None}
  BY DEF Frames, Ats

\* The frame of a call that begins, begins again, or is over.
LEMMA ANewFrame ==
  ASSUME NEW at \in Ats, NEW stmt \in Statement \cup {None}, NEW left \in 0 .. Attempts
  PROVE  /\ Frame(at, stmt, left) \in Frames
         /\ Frame(at, stmt, left).at = at /\ Frame(at, stmt, left).stmt = stmt
         /\ ~Frame(at, stmt, left).fresh
  BY DEF Frame, Frames, Ats

LEMMA IdleIsAFrame == Idle \in Frames /\ Idle.at = "idle" /\ Idle.stmt = None /\ ~Idle.fresh
  <1>1. "idle" \in Ats /\ None \in Statement \cup {None} /\ 0 \in 0 .. Attempts
    BY StoresArePositive DEF Ats
  <1> QED BY <1>1, ANewFrame DEF Idle

\* A credited row is a row with one more match played and the wallet it had.
LEMMA CreditedRow ==
  ASSUME NEW row \in Row, NEW s \in Statement, s.kind = "result"
  PROVE  /\ Credited(row, s) \in Row
         /\ Credited(row, s).wallet = row.wallet
         /\ Credited(row, s).wins + Credited(row, s).losses = row.wins + row.losses + 1
  <1>1. s.won \in BOOLEAN /\ s.delta \in Int
    BY StatementShapes
  <1>2. Plus(row.points, s.delta) \in Nat
    BY <1>1 DEF Plus, Row
  <1>3. PICK pts \in Nat, w \in Nat, l \in Nat :
          /\ pts = Plus(row.points, s.delta)
          /\ w = row.wins + (IF s.won THEN 1 ELSE 0) /\ l = row.losses + (IF s.won THEN 0 ELSE 1)
    <2>1. (IF s.won THEN 1 ELSE 0) \in Nat /\ (IF s.won THEN 0 ELSE 1) \in Nat
      OBVIOUS
    <2>2. row.wins \in Nat /\ row.losses \in Nat
      BY DEF Row
    <2> QED BY <1>2, <2>1, <2>2
  <1>4. Credited(row, s) = [row EXCEPT !.points = pts, !.wins = w, !.losses = l]
    BY <1>3 DEF Credited
  <1>5. w + l = row.wins + row.losses + 1
    <2>1. row.wins \in Nat /\ row.losses \in Nat
      BY DEF Row
    <2>2. CASE s.won
      BY <1>3, <2>1, <2>2
    <2>3. CASE ~s.won
      BY <1>3, <2>1, <2>3
    <2> QED BY <2>2, <2>3
  <1> QED BY <1>4, <1>5 DEF Row

LEMMA UpsertedRow ==
  ASSUME NEW s \in Statement, s.kind = "upsert"
  PROVE  NewRow(s.wallet, s.points) \in Row
  BY StatementShapes DEF NewRow, Row

\* The players table after a statement, row by row.
RowAfter(s) ==
  IF s.kind = "upsert"
  THEN NewRow(s.wallet, s.points)
  ELSE Credited(players[s.player], s)

WritesARow(s) == s.kind = "upsert" \/ Applies(s)
OneRowWritten(s, table) ==
  /\ DOMAIN table = DOMAIN players \cup {s.player}
  /\ table[s.player] = RowAfter(s) /\ table[s.player] \in Row
  /\ \A q \in DOMAIN players \ {s.player} : table[q] = players[q]

LEMMA WrittenRows ==
  ASSUME TypeOK, NEW s \in Statement, NEW seen
  PROVE  /\ WritesARow(s) => OneRowWritten(s, Written(s, seen))
         /\ ~WritesARow(s) => Written(s, seen) = players
  <1> PICK table : table = Written(s, seen)
    OBVIOUS
  <1> SUFFICES /\ WritesARow(s) => OneRowWritten(s, table)
               /\ ~WritesARow(s) => table = players
    OBVIOUS
  <1>1. CASE s.kind = "upsert"
    <2> DEFINE row == IF s.player \in DOMAIN players
                      THEN [players[s.player] EXCEPT !.wallet = s.wallet, !.points = s.points,
                                                     !.wins = 0, !.losses = 0]
                      ELSE NewRow(s.wallet, s.points)
    <2>1. table = With(players, s.player, row)
      BY <1>1 DEF Written
    <2>2. s.player \in DOMAIN players => players[s.player] \in Row
      BY DEF TypeOK
    <2>3. row = NewRow(s.wallet, s.points)
      BY <2>2 DEF NewRow, Row
    <2> QED BY <1>1, <2>1, <2>3, UpsertedRow DEF With, RowAfter, WritesARow, OneRowWritten
  <1>2. CASE Applies(s)
    <2>1. s.kind = "result" /\ s.player \in DOMAIN players /\ players[s.player] \in Row
      BY <1>2 DEF Applies, TypeOK
    <2>2. table = With(players, s.player, Credited(players[s.player], s))
      BY <2>1 DEF Written, ResultRow
    <2>3. Credited(players[s.player], s) \in Row /\ RowAfter(s) = Credited(players[s.player], s)
      BY <2>1, CreditedRow DEF OneRowWritten, RowAfter
    <2>4. DOMAIN players \cup {s.player} = DOMAIN players
      BY <2>1
    <2> QED BY <1>2, <2>1, <2>2, <2>3, <2>4 DEF With, WritesARow, OneRowWritten
  <1>3. CASE s.kind # "upsert" /\ ~Applies(s)
    BY <1>3 DEF Written, Applies, WritesARow
  <1> QED BY <1>1, <1>2, <1>3

-----------------------------------------------------------------------------
(***************************************************************************)
(* The inductive invariant.  A call is at a place only its backend has,    *)
(* with the statement and the answer that place needs; a result still in   *)
(* the row is one whose call is about to read its answer; a put is sent    *)
(* before its token is known to anyone, by one thread, and a delete after. *)
(***************************************************************************)
FrameFits(f, store, registered) ==
  /\ f.at = "idle" <=> f.stmt = None
  /\ f.at \in {"read", "write"} => store = "memory" /\ f.stmt.kind \in OnPlayers
  /\ f.at \in {"attempt", "connect", "execute", "answer"} => store = "postgres"
  /\ f.at = "write" => f.stmt.kind \in {"result", "upsert"} /\ (f.stmt.kind = "result" => f.answer \in Row)
  /\ f.fresh => f.at = "answer" /\ f.stmt.kind = "result" /\ f.stmt.player \in registered
FramesFit == \A t \in Threads : FrameFits(call[t], backend, DOMAIN players)

PutsAreFirst ==
  \A t \in Threads : call[t].at # "idle" =>
    /\ call[t].stmt.kind = "put" => call[t].stmt.token \notin opened
         /\ \A u \in Threads \ {t} : call[u].stmt # call[t].stmt
    /\ call[t].stmt.kind = "delete" =>
         /\ call[t].stmt.token \in opened
         /\ call[t].at = "answer" => call[t].stmt.token \notin sessions

Inv1 == TypeOK /\ FramesFit

LEMMA ACallHasAStatement ==
  ASSUME Inv1, NEW t \in Threads
  PROVE  /\ call[t] \in Frames /\ FrameFits(call[t], backend, DOMAIN players)
         /\ call[t].at # "idle" => call[t].stmt \in Statement
  <1>1. call[t] \in Frames /\ FrameFits(call[t], backend, DOMAIN players)
    BY DEF Inv1, TypeOK, FramesFit
  <1> QED BY <1>1, FrameFields DEF FrameFits

\* The frames stay frames, and stay fitting, when one thread's frame becomes
\* another that fits and nothing else that a frame is judged by is lost.
LEMMA OneFrameChanges ==
  ASSUME Inv1, NEW t \in Threads, NEW g \in Frames,
         call' = [call EXCEPT ![t] = g], backend' = backend,
         DOMAIN players \subseteq DOMAIN players', FrameFits(g, backend', DOMAIN players')
  PROVE  call' \in [Threads -> Frames] /\ FramesFit'
  <1>1. call \in [Threads -> Frames]
    BY DEF Inv1, TypeOK
  <1>2. call'[t] = g /\ \A u \in Threads \ {t} : call'[u] = call[u]
    BY <1>1
  <1>3. ASSUME NEW u \in Threads \ {t}
        PROVE  FrameFits(call'[u], backend', DOMAIN players')
    BY <1>2, <1>3, ACallHasAStatement DEF FrameFits
  <1>4. FrameFits(call'[t], backend', DOMAIN players')
    BY <1>2 DEF FrameFits
  <1> QED BY <1>1, <1>2, <1>3, <1>4 DEF FramesFit

LEMMA InitInv1 == Init => Inv1
  <1> SUFFICES ASSUME Init PROVE Inv1
    OBVIOUS
  <1>1. TypeOK
    <2>1. DOMAIN players = {} /\ sessions = {} /\ opened = {} /\ closed = {}
      BY DEF Init
    <2>2. call \in [Threads -> Frames] /\ told \in [Players -> Nat] /\ untold \in [Players -> Nat]
      BY IdleIsAFrame DEF Init
    <2>3. calls = 0 /\ 0 \in 0 .. MaxCalls
      BY StoresArePositive DEF Init
    <2>4. backend \in Backends /\ up \in BOOLEAN /\ conn \in BOOLEAN
      BY DEF Init
    <2> QED BY <2>1, <2>2, <2>3, <2>4 DEF TypeOK
  <1>2. ASSUME NEW t \in Threads PROVE FrameFits(call[t], backend, DOMAIN players)
    BY IdleIsAFrame DEF Init, FrameFits
  <1> QED BY <1>1, <1>2 DEF Inv1, FramesFit

LEMMA Inv1Begin ==
  ASSUME Inv1, NEW t \in Threads, Begin(t)
  PROVE  Inv1'
  <1>1. PICK s \in Statements : Sensible(s)
          /\ call' = [call EXCEPT ![t] = Frame(IF backend = "memory" THEN "read" ELSE "attempt", s, Attempts)]
    BY DEF Begin
  <1>2. s \in Statement /\ s # None /\ Attempts \in 0 .. Attempts
    BY StatementsAreValid, StoresArePositive
  <1>3. PICK place \in Ats : place = IF backend = "memory" THEN "read" ELSE "attempt"
    BY DEF Ats
  <1>a. PICK g : g = Frame(place, s, Attempts)
    OBVIOUS
  <1>4. /\ g \in Frames /\ call' = [call EXCEPT ![t] = g]
        /\ g.at = place /\ g.stmt = s /\ ~g.fresh
    BY <1>1, <1>2, <1>3, <1>a, ANewFrame
  <1>5. UNCHANGED <<backend, players, sessions, up, conn, told, untold, opened, closed>>
    BY DEF Begin, tables, history
  <1>6. backend \in {"postgres", "memory"}
    BY StoresArePositive DEF Inv1, TypeOK
  <1>7. FrameFits(g, backend', DOMAIN players')
    BY <1>1, <1>2, <1>3, <1>4, <1>5, <1>6 DEF FrameFits, Sensible, OnPlayers
  <1>8. call' \in [Threads -> Frames] /\ FramesFit'
    BY <1>4, <1>5, <1>7, OneFrameChanges
  <1>9. calls' \in 0 .. MaxCalls
    BY StoresArePositive DEF Begin, Inv1, TypeOK
  <1> QED BY <1>5, <1>8, <1>9 DEF Inv1, TypeOK

LEMMA Inv1Connection ==
  ASSUME Inv1, NEW t \in Threads, Connection(t)
  PROVE  Inv1'
  <1> DEFINE g == [call[t] EXCEPT !.at = IF conn THEN "execute" ELSE "connect",
                                  !.on = IF conn THEN "current" ELSE "none"]
  <1>1. call[t] \in Frames /\ FrameFits(call[t], backend, DOMAIN players) /\ call[t].at = "attempt"
    BY ACallHasAStatement DEF Connection, InCall
  <1>2. call' = [call EXCEPT ![t] = g]
    BY DEF Connection, Inv1, TypeOK
  <1>3. g \in Frames
    BY <1>1 DEF Frames
  <1>4. UNCHANGED <<backend, players, sessions, up, conn, calls, told, untold, opened, closed>>
    BY DEF Connection, tables, history
  <1>5. FrameFits(g, backend', DOMAIN players')
    BY <1>1, <1>4 DEF FrameFits, Frames
  <1>6. call' \in [Threads -> Frames] /\ FramesFit'
    BY <1>2, <1>3, <1>4, <1>5, OneFrameChanges
  <1> QED BY <1>4, <1>6 DEF Inv1, TypeOK

LEMMA Inv1Connect ==
  ASSUME Inv1, NEW t \in Threads, Connect(t)
  PROVE  Inv1'
  <1>1. UNCHANGED <<backend, players, sessions, up, calls, told, untold, opened, closed>> /\ conn' = TRUE
    BY DEF Connect, tables, history
  <1>2. ASSUME NEW u \in Threads
        PROVE  /\ call'[u] \in Frames /\ FrameFits(call'[u], backend', DOMAIN players')
    <2>1. call[u] \in Frames /\ FrameFits(call[u], backend, DOMAIN players)
      BY ACallHasAStatement
    <2>2. CASE u = t
      <3>1. call'[u] = [call[u] EXCEPT !.at = "execute", !.on = "current"] /\ call[u].at = "connect"
        BY <2>2 DEF Connect, InCall
      <3> QED BY <1>1, <2>1, <3>1 DEF Frames, FrameFits
    <2>3. CASE u # t
      <3>1. PICK on \in {"none", "current", "other", "closed"} :
              on = IF call[u].on = "current" THEN "other" ELSE call[u].on
        BY <2>1, FrameFields
      <3>2. call'[u] = [call[u] EXCEPT !.on = on]
        BY <2>3, <3>1 DEF Connect
      <3> QED BY <1>1, <2>1, <3>2 DEF Frames, FrameFits
    <2> QED BY <2>2, <2>3
  <1>3. call' = [u \in Threads |-> call'[u]]
    BY DEF Connect
  <1> QED BY <1>1, <1>2, <1>3 DEF Inv1, TypeOK, FramesFit

\* What the statement of a call reaches: the tables, and the frames of all calls.
LEMMA ExecutedFrame ==
  ASSUME Inv1, NEW t \in Threads, Execute(t)
  PROVE  /\ call[t].at = "execute" /\ call[t].stmt \in Statement
         /\ ~Violates(call[t].stmt) /\ players' = Written(call[t].stmt, call[t].answer)
         /\ call'[t].at = "answer" /\ call'[t].stmt = call[t].stmt /\ call'[t].fresh = Applies(call[t].stmt)
         /\ \A u \in Threads \ {t} : call'[u] = Stale(call[t].stmt, call[u])
         /\ call' = [u \in Threads |-> call'[u]]
         /\ told' = Forgotten(call[t].stmt, told) /\ untold' = Forgotten(call[t].stmt, untold)
         /\ UNCHANGED <<backend, up, conn, calls, opened, closed>>
  <1>1. call[t] \in Frames /\ call[t].at = "execute" /\ call[t].stmt \in Statement
    BY ACallHasAStatement DEF Execute, InCall
  <1>2. PICK answer : call'[t] = [call[t] EXCEPT !.at = "answer", !.fresh = Applies(call[t].stmt), !.answer = answer]
    BY DEF Execute
  <1>3. call'[t].at = "answer" /\ call'[t].stmt = call[t].stmt /\ call'[t].fresh = Applies(call[t].stmt)
    BY <1>1, <1>2 DEF Frames
  <1>4. call' = [u \in Threads |-> call'[u]] /\ \A u \in Threads \ {t} : call'[u] = Stale(call[t].stmt, call[u])
    BY DEF Execute
  <1> QED BY <1>1, <1>3, <1>4 DEF Execute

LEMMA ForgottenCounts ==
  ASSUME NEW s \in Statement, NEW counts \in [Players -> Nat]
  PROVE  Forgotten(s, counts) \in [Players -> Nat]
  BY StatementShapes DEF Forgotten, OnPlayers

\* The rows stay rows, and those registered stay registered.
LEMMA TheTableGrows ==
  ASSUME TypeOK, NEW s \in Statement, NEW seen, players' = Written(s, seen)
  PROVE  /\ DOMAIN players \subseteq DOMAIN players' /\ DOMAIN players' \subseteq Players
         /\ \A p \in DOMAIN players' : players'[p] \in Row
  <1>1. DOMAIN players \subseteq Players /\ \A p \in DOMAIN players : players[p] \in Row
    BY DEF TypeOK
  <1>2. CASE WritesARow(s)
    <2>1. s.player \in Players
      BY <1>2, StatementShapes DEF WritesARow, Applies, OnPlayers
    <2>2. OneRowWritten(s, players')
      BY <1>2, WrittenRows
    <2> QED BY <1>1, <2>1, <2>2 DEF OneRowWritten
  <1>3. CASE ~WritesARow(s)
    BY <1>1, <1>3, WrittenRows
  <1> QED BY <1>2, <1>3

LEMMA Inv1Execute ==
  ASSUME Inv1, NEW t \in Threads, Execute(t)
  PROVE  Inv1'
  <1> DEFINE s == call[t].stmt
  <1>1. TypeOK /\ s \in Statement
    BY ExecutedFrame DEF Inv1
  <1>2. UNCHANGED <<backend, up, conn, calls, opened, closed>>
    BY ExecutedFrame
  <1>3. /\ DOMAIN players \subseteq DOMAIN players' /\ DOMAIN players' \subseteq Players
        /\ \A p \in DOMAIN players' : players'[p] \in Row
    <2>1. players' = Written(s, call[t].answer)
      BY ExecutedFrame
    <2> QED BY <1>1, <2>1, TheTableGrows
  <1>4. sessions' \subseteq Tokens
    <2>1. sessions' = CASE s.kind = "put" -> sessions \cup {s.token}
                        [] s.kind = "delete" -> Removed(s.token)
                        [] OTHER -> sessions
      BY DEF Execute
    <2>2. s.kind = "put" => s.token \in Tokens
      BY <1>1, StatementShapes
    <2> QED BY <1>1, <2>1, <2>2 DEF Removed, TypeOK
  <1>5. told' \in [Players -> Nat] /\ untold' \in [Players -> Nat]
    BY <1>1, ExecutedFrame, ForgottenCounts DEF TypeOK
  <1>6. ASSUME NEW u \in Threads
        PROVE  call'[u] \in Frames /\ FrameFits(call'[u], backend', DOMAIN players')
    <2>1. call[u] \in Frames /\ FrameFits(call[u], backend, DOMAIN players)
      BY ACallHasAStatement
    <2>2. CASE u = t
      <3>1. PICK answer : answer = IF s.kind \in {"result", "get"} /\ s.player \in DOMAIN players
                                    THEN players'[s.player] ELSE None
        OBVIOUS
      <3>2. answer \in Row \cup {None}
        BY <1>3, <3>1
      <3>3. call'[t] = [call[t] EXCEPT !.at = "answer", !.fresh = Applies(s), !.answer = answer]
        BY <3>1 DEF Execute
      <3>4. Applies(s) \in BOOLEAN
        BY DEF Applies
      <3>5. call'[t] \in Frames
        <4>1. PICK fresh \in BOOLEAN : fresh = Applies(s)
          BY <3>4
        <4> QED BY <2>1, <2>2, <3>2, <3>3, <4>1 DEF Frames
      <3>6. /\ call'[t].at = "answer" /\ call'[t].stmt = s /\ s # None
            /\ call'[t].fresh = Applies(s) /\ call[t].at = "execute"
        BY <1>1, ExecutedFrame, StatementShapes
      <3>7. Applies(s) => s.kind = "result" /\ s.player \in DOMAIN players
        BY DEF Applies
      <3> HIDE DEF s
      <3>8. FrameFits(call'[t], backend', DOMAIN players')
        BY <1>2, <1>3, <2>1, <2>2, <3>6, <3>7 DEF FrameFits
      <3> QED BY <2>2, <3>5, <3>8
    <2>3. CASE u # t
      <3>1. call'[u] = call[u] \/ call'[u] = [call[u] EXCEPT !.fresh = FALSE]
        <4>1. call'[u] = Stale(s, call[u])
          BY <2>3, ExecutedFrame
        <4> QED BY <4>1 DEF Stale
      <3> QED BY <1>2, <1>3, <2>1, <3>1 DEF Frames, FrameFits
    <2> QED BY <2>2, <2>3
  <1>7. call' = [u \in Threads |-> call'[u]]
    BY ExecutedFrame
  <1> QED BY <1>1, <1>2, <1>3, <1>4, <1>5, <1>6, <1>7 DEF Inv1, TypeOK, FramesFit

LEMMA Inv1Answer ==
  ASSUME Inv1, PutsAreFirst, NEW t \in Threads, Answer(t)
  PROVE  Inv1'
  <1> DEFINE s == call[t].stmt
  <1>1. TypeOK /\ s \in Statement /\ call[t].at = "answer"
    BY ACallHasAStatement DEF Answer, InCall, Inv1
  <1>2. UNCHANGED <<backend, players, sessions, up, conn, calls>>
    BY DEF Answer, tables
  <1>3. backend = "postgres"
    BY <1>1, ACallHasAStatement DEF FrameFits
  <1>4. told' \in [Players -> Nat] /\ untold' \in [Players -> Nat]
    <2>1. s.kind = "result" => s.player \in Players
      BY <1>1, StatementShapes DEF OnPlayers
    <2> QED BY <1>1, <2>1 DEF Answer, Acknowledged, TypeOK
  <1>5. opened' \subseteq Tokens /\ closed' \subseteq opened'
    <2>1. s.kind \in {"put", "delete"} => s.token \in Tokens
      BY <1>1, StatementShapes
    <2>2. s.kind = "delete" => s.token \in opened
      BY <1>1 DEF PutsAreFirst
    <2> QED BY <1>1, <2>1, <2>2 DEF Answer, Acknowledged, TypeOK
  <1>6. call' \in [Threads -> Frames] /\ FramesFit'
    <2>1. CASE s.kind = "upsert"
      <3>1. [kind |-> "get", player |-> s.player] \in Statement
        BY <1>1, <2>1, StatementShapes DEF Statement, OnPlayers
      <3>2. PICK get \in Statement : get = [kind |-> "get", player |-> s.player]
        BY <3>1
      <3>3. PICK g : g = Frame("attempt", get, Attempts)
        OBVIOUS
      <3>4. "attempt" \in Ats /\ Attempts \in 0 .. Attempts /\ get # None
        BY StoresArePositive, StatementsAreValid DEF Ats
      <3>5. g \in Frames /\ g.at = "attempt" /\ g.stmt = get /\ ~g.fresh
        BY <3>3, <3>4, ANewFrame
      <3>6. call' = [call EXCEPT ![t] = g]
        BY <2>1, <3>2, <3>3 DEF Answer
      <3>7. FrameFits(g, backend', DOMAIN players')
        BY <1>2, <1>3, <3>4, <3>5 DEF FrameFits
      <3> QED BY <1>2, <3>5, <3>6, <3>7, OneFrameChanges
    <2>2. CASE s.kind # "upsert"
      <3>1. call' = [call EXCEPT ![t] = Idle]
        BY <2>2 DEF Answer, Return
      <3>2. FrameFits(Idle, backend', DOMAIN players')
        BY IdleIsAFrame DEF FrameFits
      <3> QED BY <1>2, <3>1, <3>2, IdleIsAFrame, OneFrameChanges
    <2> QED BY <2>1, <2>2
  <1> QED BY <1>1, <1>2, <1>4, <1>5, <1>6 DEF Inv1, TypeOK

\* What a failure leaves of the calls: its own is begun again or given up, and
\* another loses its connection at most.
LEMMA FailedFrames ==
  ASSUME Inv1, NEW t \in Threads, Fail(t)
  PROVE  /\ call[t].at \in {"connect", "execute", "answer"} /\ call[t].stmt \in Statement
         /\ backend = "postgres" /\ UNCHANGED <<backend, players, sessions, up, calls, told, opened, closed>>
         /\ untold' = IF call[t].fresh THEN [untold EXCEPT ![call[t].stmt.player] = @ + 1] ELSE untold
         /\ call' = [u \in Threads |-> call'[u]]
         /\ call'[t] \in Frames /\ FrameFits(call'[t], backend', DOMAIN players')
         /\ call'[t] = Idle \/ (call'[t].at = "attempt" /\ call'[t].stmt = call[t].stmt)
         /\ ~call'[t].fresh
         /\ \A u \in Threads \ {t} :
              \E on \in {"none", "current", "other", "closed"} : call'[u] = [call[u] EXCEPT !.on = on]
  <1>1. call[t].at \in {"connect", "execute", "answer"}
    BY DEF Fail, Troubled, InCall
  <1>2. /\ call[t] \in Frames /\ FrameFits(call[t], backend, DOMAIN players)
        /\ call[t].stmt \in Statement /\ call[t].stmt # None
    BY <1>1, ACallHasAStatement, StatementsAreValid
  <1>3. backend = "postgres"
    BY <1>1, <1>2 DEF FrameFits
  <1>4. UNCHANGED <<backend, players, sessions, up, calls, told, opened, closed>>
    BY DEF Fail, tables
  <1>5. call' = [u \in Threads |-> call'[u]]
    BY DEF Fail
  <1>6. PICK again \in BOOLEAN : (again => Left(t) > 0) /\
          call'[t] = IF again THEN Frame("attempt", call[t].stmt, Left(t)) ELSE Idle
    BY DEF Fail
  <1>9. ASSUME NEW u \in Threads \ {t}
        PROVE  \E on \in {"none", "current", "other", "closed"} : call'[u] = [call[u] EXCEPT !.on = on]
    <2>1. call[u].on \in {"none", "current", "other", "closed"}
      BY ACallHasAStatement, FrameFields
    <2>2. call'[u] = [call[u] EXCEPT !.on = IF call[u].on = "current" THEN "closed" ELSE call[u].on]
      BY DEF Fail
    <2> QED BY <2>1, <2>2
  <1>a. untold' = IF call[t].fresh THEN [untold EXCEPT ![call[t].stmt.player] = @ + 1] ELSE untold
    BY DEF Fail
  <1>b. /\ call'[t] \in Frames /\ FrameFits(call'[t], backend', DOMAIN players')
        /\ call'[t] = Idle \/ (call'[t].at = "attempt" /\ call'[t].stmt = call[t].stmt)
        /\ ~call'[t].fresh
    <2>1. CASE again
      <3>1. Left(t) \in 0 .. Attempts
        BY <1>2, <1>6, <2>1, FrameFields, StoresArePositive DEF Left
      <3>2. PICK g : g = Frame("attempt", call[t].stmt, Left(t))
        OBVIOUS
      <3>3. "attempt" \in Ats
        BY DEF Ats
      <3>4. g \in Frames /\ g.at = "attempt" /\ g.stmt = call[t].stmt /\ ~g.fresh
        BY <1>2, <3>1, <3>2, <3>3, ANewFrame
      <3>5. call'[t] = g
        BY <1>6, <2>1, <3>2
      <3>6. FrameFits(g, backend', DOMAIN players')
        BY <1>2, <1>3, <1>4, <3>4 DEF FrameFits
      <3> QED BY <3>4, <3>5, <3>6
    <2>2. CASE ~again
      <3>1. call'[t] = Idle
        BY <1>6, <2>2
      <3>2. FrameFits(Idle, backend', DOMAIN players')
        BY IdleIsAFrame DEF FrameFits
      <3> QED BY <3>1, <3>2, IdleIsAFrame
    <2> QED BY <2>1, <2>2
  <1> QED BY <1>1, <1>2, <1>3, <1>4, <1>5, <1>9, <1>a, <1>b

LEMMA Inv1Fail ==
  ASSUME Inv1, NEW t \in Threads, Fail(t)
  PROVE  Inv1'
  <1>1. UNCHANGED <<backend, players, sessions, up, calls, told, opened, closed>> /\ conn' = FALSE
    BY FailedFrames DEF Fail
  <1>2. ASSUME NEW u \in Threads
        PROVE  call'[u] \in Frames /\ FrameFits(call'[u], backend', DOMAIN players')
    <2>1. CASE u = t
      BY <2>1, FailedFrames
    <2>2. CASE u # t
      <3>1. PICK on \in {"none", "current", "other", "closed"} : call'[u] = [call[u] EXCEPT !.on = on]
        BY <2>2, FailedFrames
      <3>2. call[u] \in Frames /\ FrameFits(call[u], backend, DOMAIN players)
        BY ACallHasAStatement
      <3> QED BY <1>1, <3>1, <3>2 DEF Frames, FrameFits
    <2> QED BY <2>1, <2>2
  <1>3. untold' \in [Players -> Nat]
    <2>1. call[t].fresh => call[t].stmt.player \in Players
      BY ACallHasAStatement DEF FrameFits, Inv1, TypeOK
    <2>2. untold' = IF call[t].fresh THEN [untold EXCEPT ![call[t].stmt.player] = @ + 1] ELSE untold
      BY FailedFrames
    <2>3. untold \in [Players -> Nat]
      BY DEF Inv1, TypeOK
    <2> QED BY <2>1, <2>2, <2>3
  <1>4. call' = [u \in Threads |-> call'[u]]
    BY FailedFrames
  <1> QED BY <1>1, <1>2, <1>3, <1>4 DEF Inv1, TypeOK, FramesFit

LEMMA Inv1MemRead ==
  ASSUME Inv1, NEW t \in Threads, MemRead(t)
  PROVE  Inv1'
  <1> DEFINE s == call[t].stmt
  <1>1. /\ call[t] \in Frames /\ FrameFits(call[t], backend, DOMAIN players)
        /\ call[t].at = "read" /\ s \in Statement /\ s # None
    BY ACallHasAStatement, StatementsAreValid DEF MemRead, InCall
  <1>2. UNCHANGED <<backend, players, sessions, up, conn, calls, told, untold, opened, closed>>
    BY DEF MemRead, tables, history
  <1>3. CASE s.kind = "get" \/ (s.kind = "result" /\ s.player \notin DOMAIN players)
    <2>1. call' = [call EXCEPT ![t] = Idle]
      BY <1>3 DEF MemRead, Return
    <2>2. FrameFits(Idle, backend', DOMAIN players')
      BY IdleIsAFrame DEF FrameFits
    <2>3. call' \in [Threads -> Frames] /\ FramesFit'
      BY <1>2, <2>1, <2>2, IdleIsAFrame, OneFrameChanges
    <2> QED BY <1>2, <2>3 DEF Inv1, TypeOK
  <1>4. CASE ~(s.kind = "get" \/ (s.kind = "result" /\ s.player \notin DOMAIN players))
    <2>1. PICK row : row = RowOf(s.player)
      OBVIOUS
    <2>2. row \in Row \cup {None} /\ (s.player \in DOMAIN players => row \in Row)
      BY <2>1 DEF RowOf, Inv1, TypeOK
    <2>3. PICK g : g = [call[t] EXCEPT !.at = "write", !.answer = row]
      OBVIOUS
    <2>4. call' = [call EXCEPT ![t] = g]
      BY <1>4, <2>1, <2>3 DEF MemRead, Inv1, TypeOK
    <2>5. g \in Frames /\ g.at = "write" /\ g.stmt = s /\ g.answer = row /\ g.fresh = call[t].fresh
      BY <1>1, <2>2, <2>3 DEF Frames
    <2>6. s.kind \in OnPlayers /\ ~call[t].fresh /\ backend = "memory"
      BY <1>1 DEF FrameFits
    <2>7. s.kind \in {"result", "upsert"} /\ (s.kind = "result" => row \in Row)
      BY <1>4, <2>2, <2>6 DEF OnPlayers
    <2>8. FrameFits(g, backend', DOMAIN players')
      BY <1>1, <1>2, <2>5, <2>6, <2>7 DEF FrameFits
    <2>9. call' \in [Threads -> Frames] /\ FramesFit'
      BY <1>2, <2>4, <2>5, <2>8, OneFrameChanges
    <2> QED BY <1>2, <2>9 DEF Inv1, TypeOK
  <1> QED BY <1>3, <1>4

LEMMA Inv1MemWrite ==
  ASSUME Inv1, NEW t \in Threads, MemWrite(t)
  PROVE  Inv1'
  <1> DEFINE s == call[t].stmt
  <1>1. /\ FrameFits(call[t], backend, DOMAIN players) /\ call[t].at = "write"
        /\ s \in Statement /\ s.kind \in {"result", "upsert"} /\ s.player \in Players
    <2>1. FrameFits(call[t], backend, DOMAIN players) /\ call[t].at = "write" /\ s \in Statement
      BY ACallHasAStatement DEF MemWrite, InCall
    <2> QED BY <2>1, StatementShapes DEF FrameFits, OnPlayers
  <1>2. UNCHANGED <<backend, sessions, up, conn, calls, untold, opened, closed>>
    BY DEF MemWrite
  <1>3. PICK row : row = IF s.kind = "upsert" THEN NewRow(s.wallet, s.points) ELSE Credited(call[t].answer, s)
    OBVIOUS
  <1>4. row \in Row
    BY <1>1, <1>3, UpsertedRow, CreditedRow DEF FrameFits
  <1>5. players' = With(players, s.player, row)
    BY <1>3 DEF MemWrite
  <1>6. /\ DOMAIN players' = DOMAIN players \cup {s.player}
        /\ \A p \in DOMAIN players' : players'[p] \in Row
    BY <1>4, <1>5 DEF With, Inv1, TypeOK
  <1>7. told' \in [Players -> Nat]
    BY <1>1, ForgottenCounts DEF MemWrite, Inv1, TypeOK
  <1>8. call' = [call EXCEPT ![t] = Idle] /\ FrameFits(Idle, backend', DOMAIN players')
    BY IdleIsAFrame DEF MemWrite, Return, FrameFits
  <1>9. call' \in [Threads -> Frames] /\ FramesFit'
    BY <1>2, <1>6, <1>8, IdleIsAFrame, OneFrameChanges
  <1> QED BY <1>1, <1>2, <1>6, <1>7, <1>9 DEF Inv1, TypeOK

LEMMA Inv1Stays ==
  ASSUME Inv1, PutsAreFirst, [Next]_vars
  PROVE  Inv1'
  <1>1. CASE Next
    <2>1. CASE Network
      <3>1. UNCHANGED <<backend, players, sessions, conn, call, calls, told, untold, opened, closed>>
        BY <2>1 DEF Network, tables, history
      <3>2. up' \in BOOLEAN
        BY <2>1 DEF Network
      <3> QED BY <3>1, <3>2 DEF Inv1, TypeOK, FramesFit, FrameFits
    <2>2. ASSUME NEW t \in Threads, Begin(t) \/ Step(t)
          PROVE  Inv1'
      BY <2>2, Inv1Begin, Inv1Connection, Inv1Connect, Inv1Execute, Inv1Answer, Inv1Fail,
         Inv1MemRead, Inv1MemWrite DEF Step
    <2> QED BY <1>1, <2>1, <2>2 DEF Next
  <1>2. CASE UNCHANGED vars
    BY <1>2 DEF vars, tables, history, Inv1, TypeOK, FramesFit, FrameFits
  <1> QED BY <1>1, <1>2

-----------------------------------------------------------------------------
(* Sessions: the put that made one is over before its delete can begin.    *)

LEMMA OnePutPerToken ==
  ASSUME NEW r \in Statement, NEW s \in Statement, r.kind = "put", s.kind = "put", r.token = s.token
  PROVE  r = s
  BY DEF Statement

\* Whether the call of a thread goes on with its statement, or is over or at a
\* statement about players.
GoesOn(u) ==
  \/ /\ call'[u].stmt = call[u].stmt /\ call[u].at # "idle"
     /\ call'[u].at = "answer" => call[u].at = "answer"
  \/ call'[u].at = "idle" /\ call'[u].stmt = None
  \/ call'[u].stmt \in Statement /\ call'[u].stmt.kind \in OnPlayers

LEMMA CallsGoOn ==
  ASSUME Inv1, PutsAreFirst, UNCHANGED <<sessions, opened>>, \A u \in Threads : GoesOn(u)
  PROVE  PutsAreFirst'
  <1> SUFFICES ASSUME NEW t \in Threads, call'[t].at # "idle"
               PROVE  /\ call'[t].stmt.kind = "put" => call'[t].stmt.token \notin opened
                           /\ \A u \in Threads \ {t} : call'[u].stmt # call'[t].stmt
                      /\ call'[t].stmt.kind = "delete" =>
                           /\ call'[t].stmt.token \in opened
                           /\ call'[t].at = "answer" => call'[t].stmt.token \notin sessions
    BY DEF PutsAreFirst
  <1>1. CASE call'[t].stmt \in Statement /\ call'[t].stmt.kind \in OnPlayers
    BY <1>1 DEF OnPlayers
  <1>2. CASE ~(call'[t].stmt \in Statement /\ call'[t].stmt.kind \in OnPlayers)
    <2>1. /\ call'[t].stmt = call[t].stmt /\ call[t].at # "idle"
          /\ call'[t].at = "answer" => call[t].at = "answer"
      BY <1>2 DEF GoesOn
    <2>2. call[t].stmt \in Statement /\ call[t].stmt # None
      BY <2>1, ACallHasAStatement, StatementsAreValid
    <2>3. ASSUME call[t].stmt.kind = "put", NEW u \in Threads \ {t}
          PROVE  call'[u].stmt # call[t].stmt
      BY <2>1, <2>2, <2>3 DEF GoesOn, PutsAreFirst, OnPlayers
    <2> QED BY <2>1, <2>3 DEF PutsAreFirst
  <1> QED BY <1>1, <1>2

LEMMA BeginPutsFirst ==
  ASSUME Inv1, PutsAreFirst, NEW t \in Threads, Begin(t)
  PROVE  PutsAreFirst'
  <1>1. PICK s \in Statements : Sensible(s)
          /\ call' = [call EXCEPT ![t] = Frame(IF backend = "memory" THEN "read" ELSE "attempt", s, Attempts)]
    BY DEF Begin
  <1>2. s \in Statement /\ s # None /\ Attempts \in 0 .. Attempts
    BY StatementsAreValid, StoresArePositive
  <1>3. PICK place \in Ats : place = IF backend = "memory" THEN "read" ELSE "attempt"
    BY DEF Ats
  <1>4. place # "answer"
    BY <1>3
  <1>5. PICK g : g = Frame(place, s, Attempts)
    OBVIOUS
  <1>6. call' = [call EXCEPT ![t] = g] /\ g.at = place /\ g.stmt = s
    BY <1>1, <1>2, <1>3, <1>5, ANewFrame
  <1>7. UNCHANGED <<sessions, opened>>
    BY DEF Begin, tables, history
  <1>8. call'[t] = g /\ \A u \in Threads \ {t} : call'[u] = call[u]
    BY <1>6 DEF Inv1, TypeOK
  <1>9. /\ s.kind = "put" => s.token \notin opened /\ \A u \in Threads : call[u].stmt # s
        /\ s.kind = "delete" => s.token \in opened
    BY <1>1, <1>2 DEF Sensible
  <1> SUFFICES ASSUME NEW u \in Threads, call'[u].at # "idle"
               PROVE  /\ call'[u].stmt.kind = "put" => call'[u].stmt.token \notin opened
                           /\ \A v \in Threads \ {u} : call'[v].stmt # call'[u].stmt
                      /\ call'[u].stmt.kind = "delete" =>
                           /\ call'[u].stmt.token \in opened
                           /\ call'[u].at = "answer" => call'[u].stmt.token \notin sessions
    BY <1>7 DEF PutsAreFirst
  <1>a. CASE u = t
    <2>1. call'[u].stmt = s /\ call'[u].at # "answer"
      BY <1>4, <1>6, <1>8, <1>a
    <2> QED BY <1>8, <1>9, <1>a, <2>1
  <1>b. CASE u # t
    <2>1. call'[u] = call[u]
      BY <1>8, <1>b
    <2>2. ASSUME call[u].stmt.kind = "put", NEW v \in Threads \ {u}
          PROVE  call'[v].stmt # call[u].stmt
      <3>1. CASE v = t
        <4>1. call'[v].stmt = s
          BY <1>6, <1>8, <3>1
        <4> QED BY <1>9, <2>2, <4>1
      <3>2. CASE v # t
        BY <1>8, <2>1, <2>2, <3>2 DEF PutsAreFirst
      <3> QED BY <3>1, <3>2
    <2> QED BY <2>1, <2>2 DEF PutsAreFirst
  <1> QED BY <1>a, <1>b

LEMMA ExecutePutsFirst ==
  ASSUME Inv1, PutsAreFirst, DeletedStaysDeleted, NEW t \in Threads, Execute(t)
  PROVE  PutsAreFirst' /\ DeletedStaysDeleted'
  <1> DEFINE s == call[t].stmt
  <1>1. /\ s \in Statement /\ call[t].at = "execute" /\ call'[t].at = "answer" /\ call'[t].stmt = s
        /\ opened' = opened /\ closed' = closed
    BY ExecutedFrame
  <1>2. /\ s.kind = "put" => s.token \notin opened /\ sessions' = sessions \cup {s.token}
        /\ s.kind = "delete" => s.token \in opened /\ sessions' = sessions \ {s.token}
        /\ s.kind \notin {"put", "delete"} => sessions' = sessions
    <2>1. sessions' = CASE s.kind = "put" -> sessions \cup {s.token}
                        [] s.kind = "delete" -> Removed(s.token)
                        [] OTHER -> sessions
      BY DEF Execute
    <2>2. /\ s.kind = "put" => s.token \notin opened
          /\ s.kind = "delete" => s.token \in opened
      BY <1>1 DEF PutsAreFirst
    <2> QED BY <2>1, <2>2 DEF Removed
  <1>3. \A u \in Threads : call'[u].stmt = call[u].stmt /\ (u # t => call'[u].at = call[u].at)
    <2> TAKE u \in Threads
    <2>1. CASE u = t
      BY <1>1, <2>1
    <2>2. CASE u # t
      <3>1. call'[u] = Stale(s, call[u])
        BY <2>2, ExecutedFrame
      <3>2. call[u] \in Frames
        BY ACallHasAStatement
      <3> QED BY <2>2, <3>1, <3>2 DEF Stale, Frames
    <2> QED BY <2>1, <2>2
  <1>4. PutsAreFirst'
    <2> SUFFICES ASSUME NEW u \in Threads, call'[u].at # "idle"
                 PROVE  /\ call'[u].stmt.kind = "put" => call'[u].stmt.token \notin opened'
                             /\ \A v \in Threads \ {u} : call'[v].stmt # call'[u].stmt
                        /\ call'[u].stmt.kind = "delete" =>
                             /\ call'[u].stmt.token \in opened'
                             /\ call'[u].at = "answer" => call'[u].stmt.token \notin sessions'
      BY DEF PutsAreFirst
    <2> DEFINE r == call[u].stmt
    <2>1. call[u].at # "idle" /\ call'[u].stmt = r
      BY <1>1, <1>3
    <2>2. r.kind = "put" => r.token \notin opened /\ \A v \in Threads \ {u} : call'[v].stmt # r
      BY <1>3, <2>1 DEF PutsAreFirst
    <2>3. r.kind = "delete" => r.token \in opened
      BY <2>1 DEF PutsAreFirst
    <2>4. ASSUME r.kind = "delete", call'[u].at = "answer"
          PROVE  r.token \notin sessions'
      <3>1. CASE u = t
        BY <1>2, <2>4, <3>1
      <3>2. CASE u # t
        <4>1. r.token \notin sessions
          BY <1>3, <2>1, <2>4, <3>2 DEF PutsAreFirst
        <4> QED BY <1>2, <2>3, <2>4, <4>1
      <3> QED BY <3>1, <3>2
    <2> QED BY <1>1, <2>1, <2>2, <2>3, <2>4
  <1>5. DeletedStaysDeleted'
    <2>1. closed \subseteq opened
      BY DEF Inv1, TypeOK
    <2> QED BY <1>1, <1>2, <2>1 DEF DeletedStaysDeleted
  <1> QED BY <1>4, <1>5

LEMMA AnswerPutsFirst ==
  ASSUME Inv1, PutsAreFirst, DeletedStaysDeleted, NEW t \in Threads, Answer(t)
  PROVE  PutsAreFirst' /\ DeletedStaysDeleted'
  <1> DEFINE s == call[t].stmt
  <1>1. s \in Statement /\ call[t].at = "answer"
    BY ACallHasAStatement DEF Answer, InCall
  <1>2. /\ opened' = IF s.kind = "put" THEN opened \cup {s.token} ELSE opened
        /\ closed' = IF s.kind = "delete" THEN closed \cup {s.token} ELSE closed
        /\ sessions' = sessions
    BY DEF Answer, Acknowledged, tables
  <1>3. (call'[t].at = "idle" /\ call'[t].stmt = None)
          \/ (call'[t].stmt \in Statement /\ call'[t].stmt.kind = "get")
    <2>1. CASE s.kind = "upsert"
      <3>1. PICK get : get = [kind |-> "get", player |-> s.player]
        OBVIOUS
      <3>2. get \in Statement /\ get.kind = "get"
        BY <1>1, <2>1, <3>1, StatementShapes DEF Statement, OnPlayers
      <3>3. "attempt" \in Ats /\ Attempts \in 0 .. Attempts
        BY StoresArePositive DEF Ats
      <3>4. call' = [call EXCEPT ![t] = Frame("attempt", get, Attempts)]
        BY <2>1, <3>1 DEF Answer
      <3>5. call'[t] = Frame("attempt", get, Attempts)
        BY <3>4 DEF Inv1, TypeOK
      <3> QED BY <3>2, <3>3, <3>5, ANewFrame
    <2>2. CASE s.kind # "upsert"
      <3>1. call' = [call EXCEPT ![t] = Idle]
        BY <2>2 DEF Answer, Return
      <3>2. call'[t] = Idle
        BY <3>1 DEF Inv1, TypeOK
      <3> QED BY <3>2, IdleIsAFrame
    <2> QED BY <2>1, <2>2
  <1>4. \A u \in Threads \ {t} : call'[u] = call[u]
    BY DEF Answer, Return, Inv1, TypeOK
  <1>5. PutsAreFirst'
    <2> SUFFICES ASSUME NEW u \in Threads, call'[u].at # "idle",
                        call'[u].stmt.kind \in {"put", "delete"}
                 PROVE  /\ call'[u].stmt.kind = "put" => call'[u].stmt.token \notin opened'
                             /\ \A v \in Threads \ {u} : call'[v].stmt # call'[u].stmt
                        /\ call'[u].stmt.kind = "delete" =>
                             /\ call'[u].stmt.token \in opened'
                             /\ call'[u].at = "answer" => call'[u].stmt.token \notin sessions'
      BY DEF PutsAreFirst
    <2> DEFINE r == call[u].stmt
    <2>1. u # t
      BY <1>3
    <2>2. call'[u] = call[u] /\ call[u].at # "idle"
      BY <1>4, <2>1
    <2>3. r \in Statement /\ r # None
      BY <2>2, ACallHasAStatement, StatementsAreValid
    <2>4. r.kind = "put" => \A v \in Threads \ {u} : call'[v].stmt # r
      <3> SUFFICES ASSUME r.kind = "put", NEW v \in Threads \ {u}
                   PROVE  call'[v].stmt # r
        OBVIOUS
      <3>1. CASE v = t
        BY <1>3, <2>3, <3>1
      <3>2. CASE v # t
        BY <1>4, <2>2, <3>2 DEF PutsAreFirst
      <3> QED BY <3>1, <3>2
    <2>5. r.kind = "put" => r.token \notin opened'
      <3>1. r.kind = "put" => r.token \notin opened /\ s # r
        BY <2>1, <2>2 DEF PutsAreFirst
      <3>2. r.kind = "put" /\ s.kind = "put" => r.token # s.token
        BY <1>1, <2>3, <3>1, OnePutPerToken
      <3> QED BY <1>2, <3>1, <3>2
    <2>6. r.kind = "delete" => r.token \in opened' /\ (call[u].at = "answer" => r.token \notin sessions')
      BY <1>2, <2>2 DEF PutsAreFirst
    <2> QED BY <2>2, <2>4, <2>5, <2>6
  <1>6. DeletedStaysDeleted'
    <2>1. s.kind = "delete" => s.token \notin sessions
      BY <1>1 DEF PutsAreFirst
    <2> QED BY <1>2, <2>1 DEF DeletedStaysDeleted
  <1> QED BY <1>5, <1>6

\* The steps that touch neither the sessions nor the acknowledged tokens.
LEMMA OtherStepsGoOn ==
  ASSUME Inv1, NEW t \in Threads,
         Connection(t) \/ Connect(t) \/ Fail(t) \/ MemRead(t) \/ MemWrite(t)
  PROVE  UNCHANGED <<sessions, opened, closed>> /\ \A u \in Threads : GoesOn(u)
  <1> SUFFICES ASSUME NEW u \in Threads
               PROVE  UNCHANGED <<sessions, opened, closed>> /\ GoesOn(u)
    OBVIOUS
  <1>0. call \in [Threads -> Frames] /\ call[u] \in Frames /\ FrameFits(call[u], backend, DOMAIN players)
    BY ACallHasAStatement DEF Inv1, TypeOK
  <1>1. ASSUME call'[u] = call[u]
        PROVE  GoesOn(u)
    BY <1>0, <1>1 DEF GoesOn, FrameFits
  <1>2. ASSUME call'[u] = Idle
        PROVE  GoesOn(u)
    BY <1>2, IdleIsAFrame DEF GoesOn
  <1>3. CASE Connection(t)
    <2>1. u # t => call'[u] = call[u]
      BY <1>0, <1>3 DEF Connection
    <2>2. u = t => GoesOn(u)
      BY <1>0, <1>3 DEF Connection, InCall, GoesOn, Frames
    <2> QED BY <1>1, <1>3, <2>1, <2>2 DEF Connection, tables, history
  <1>4. CASE Connect(t)
    <2>1. u = t => GoesOn(u)
      BY <1>0, <1>4 DEF Connect, InCall, GoesOn, Frames
    <2>2. ASSUME u # t
          PROVE  GoesOn(u)
      <3>1. PICK on : call'[u] = [call[u] EXCEPT !.on = on]
        BY <1>4, <2>2 DEF Connect
      <3>2. call'[u].stmt = call[u].stmt /\ call'[u].at = call[u].at
        BY <1>0, <3>1 DEF Frames
      <3> QED BY <1>0, <3>2 DEF GoesOn, FrameFits
    <2> QED BY <1>4, <2>1, <2>2 DEF Connect, tables, history
  <1>5. CASE Fail(t)
    <2>1. ASSUME u = t
          PROVE  GoesOn(u)
      <3>1. /\ call[t].at # "idle"
            /\ call'[t] = Idle \/ (call'[t].at = "attempt" /\ call'[t].stmt = call[t].stmt)
        BY <1>5, FailedFrames
      <3> QED BY <1>2, <2>1, <3>1 DEF GoesOn
    <2>2. ASSUME u # t
          PROVE  GoesOn(u)
      <3>1. PICK on \in {"none", "current", "other", "closed"} : call'[u] = [call[u] EXCEPT !.on = on]
        BY <1>5, <2>2, FailedFrames
      <3>2. call'[u].stmt = call[u].stmt /\ call'[u].at = call[u].at
        BY <1>0, <3>1 DEF Frames
      <3> QED BY <1>0, <3>2 DEF GoesOn, FrameFits
    <2> QED BY <1>5, <2>1, <2>2, FailedFrames
  <1>6. CASE MemRead(t)
    <2>1. u # t => call'[u] = call[u]
      BY <1>0, <1>6 DEF MemRead, Return
    <2>2. ASSUME u = t
          PROVE  GoesOn(u)
      <3>1. call'[u] = Idle \/ \E row : call'[u] = [call[u] EXCEPT !.at = "write", !.answer = row]
        BY <1>0, <1>6, <2>2 DEF MemRead, Return
      <3>2. ASSUME NEW row, call'[u] = [call[u] EXCEPT !.at = "write", !.answer = row]
            PROVE  GoesOn(u)
        <4>1. call'[u].stmt = call[u].stmt /\ call'[u].at = "write" /\ call[u].at = "read"
          BY <1>0, <1>6, <2>2, <3>2 DEF Frames, MemRead, InCall
        <4> QED BY <4>1 DEF GoesOn
      <3> QED BY <1>2, <3>1, <3>2
    <2> QED BY <1>1, <1>6, <2>1, <2>2 DEF MemRead, tables, history
  <1>7. CASE MemWrite(t)
    <2>1. (u # t => call'[u] = call[u]) /\ (u = t => call'[u] = Idle)
      BY <1>0, <1>7 DEF MemWrite, Return
    <2> QED BY <1>1, <1>2, <1>7, <2>1 DEF MemWrite
  <1> QED BY <1>3, <1>4, <1>5, <1>6, <1>7

SessionsFit == PutsAreFirst /\ DeletedStaysDeleted

LEMMA SessionsFitStays ==
  ASSUME Inv1, SessionsFit, [Next]_vars
  PROVE  SessionsFit'
  <1>1. CASE Network \/ UNCHANGED vars
    <2>1. UNCHANGED <<sessions, call, opened, closed>>
      BY <1>1 DEF Network, vars, tables, history
    <2> QED BY <2>1 DEF SessionsFit, PutsAreFirst, DeletedStaysDeleted
  <1>2. ASSUME NEW t \in Threads, Begin(t)
        PROVE  SessionsFit'
    BY <1>2, BeginPutsFirst DEF SessionsFit, Begin, DeletedStaysDeleted, tables, history
  <1>3. ASSUME NEW t \in Threads, Step(t)
        PROVE  SessionsFit'
    <2>1. CASE Execute(t)
      BY <2>1, ExecutePutsFirst DEF SessionsFit
    <2>2. CASE Answer(t)
      BY <2>2, AnswerPutsFirst DEF SessionsFit
    <2>3. CASE Connection(t) \/ Connect(t) \/ Fail(t) \/ MemRead(t) \/ MemWrite(t)
      <3>1. UNCHANGED <<sessions, opened, closed>> /\ \A u \in Threads : GoesOn(u)
        BY <2>3, OtherStepsGoOn
      <3> QED BY <3>1, CallsGoOn DEF SessionsFit, DeletedStaysDeleted
    <2> QED BY <1>3, <2>1, <2>2, <2>3 DEF Step
  <1> QED BY <1>1, <1>2, <1>3 DEF Next

-----------------------------------------------------------------------------
(* Wallets: only an upsert sets one, and its statement sees every row.     *)

LEMMA RowsKeepTheirWallets ==
  ASSUME UNCHANGED <<backend, players>>, OneRowPerWallet
  PROVE  OneRowPerWallet'
  BY DEF OneRowPerWallet

LEMMA OneRowStays ==
  ASSUME Inv1, OneRowPerWallet, [Next]_vars
  PROVE  OneRowPerWallet'
  <1>1. ASSUME NEW t \in Threads, Execute(t)
        PROVE  OneRowPerWallet'
    <2> DEFINE s == call[t].stmt
    <2>1. s \in Statement /\ ~Violates(s) /\ players' = Written(s, call[t].answer) /\ backend' = backend
      BY <1>1, ExecutedFrame
    <2>2. CASE s.kind = "upsert"
      <3>1. OneRowWritten(s, players')
        BY <2>1, <2>2, WrittenRows DEF Inv1, WritesARow
      <3>2. players'[s.player].wallet = s.wallet
        BY <2>2, <3>1 DEF OneRowWritten, RowAfter, NewRow
      <3>3. s.wallet = None \/ \A q \in DOMAIN players \ {s.player} : players[q].wallet # s.wallet
        BY <2>1, <2>2 DEF Violates, Taken
      <3> QED BY <2>1, <3>1, <3>2, <3>3 DEF OneRowPerWallet, OneRowWritten
    <2>3. CASE Applies(s)
      <3>1. s.kind = "result" /\ s.player \in DOMAIN players /\ players[s.player] \in Row
        BY <2>3 DEF Applies, Inv1, TypeOK
      <3>2. OneRowWritten(s, players')
        BY <2>1, <2>3, WrittenRows DEF Inv1, WritesARow
      <3>3. players'[s.player].wallet = players[s.player].wallet
        BY <2>1, <3>1, <3>2, CreditedRow DEF OneRowWritten, RowAfter
      <3> QED BY <2>1, <3>1, <3>2, <3>3 DEF OneRowPerWallet, OneRowWritten
    <2>4. CASE ~WritesARow(s)
      <3>1. players' = players
        BY <2>1, <2>4, WrittenRows DEF Inv1
      <3> QED BY <2>1, <3>1, RowsKeepTheirWallets
    <2> QED BY <2>2, <2>3, <2>4 DEF WritesARow
  <1>2. ASSUME NEW t \in Threads, MemWrite(t)
        PROVE  OneRowPerWallet'
    BY <1>2, ACallHasAStatement DEF MemWrite, InCall, FrameFits, OneRowPerWallet
  <1>3. CASE Network \/ UNCHANGED vars
    BY <1>3, RowsKeepTheirWallets DEF Network, vars, tables
  <1>4. ASSUME NEW t \in Threads,
               Begin(t) \/ Connection(t) \/ Connect(t) \/ Answer(t) \/ Fail(t) \/ MemRead(t)
        PROVE  OneRowPerWallet'
    BY <1>4, RowsKeepTheirWallets DEF Begin, Connection, Connect, Answer, Fail, MemRead, tables
  <1> QED BY <1>1, <1>2, <1>3, <1>4 DEF Next, Step

-----------------------------------------------------------------------------
\* The inductive invariant of the tables.
StoresInv == Inv1 /\ SessionsFit /\ OneRowPerWallet

LEMMA InitStoresInv == Init => StoresInv
  <1> SUFFICES ASSUME Init PROVE SessionsFit /\ OneRowPerWallet
    BY InitInv1 DEF StoresInv
  <1>1. \A t \in Threads : call[t].at = "idle"
    BY IdleIsAFrame DEF Init
  <1>2. sessions = {} /\ DOMAIN players = {}
    BY DEF Init
  <1> QED BY <1>1, <1>2 DEF SessionsFit, PutsAreFirst, DeletedStaysDeleted, OneRowPerWallet

LEMMA StoresInvStays == StoresInv /\ [Next]_vars => StoresInv'
  BY Inv1Stays, SessionsFitStays, OneRowStays DEF StoresInv, SessionsFit

\* In every state of every run, whatever fails and whoever retries: the tables,
\* the calls and the counts have their types, no two rows of Postgres hold one
\* wallet, and no session is present whose delete was acknowledged (the upsert
\* and record_result of postgres.py, put and delete of its session store).
THEOREM TablesStaySound == Spec => []TablesAreSound
  <1>1. Init => StoresInv
    BY InitStoresInv
  <1>2. StoresInv /\ [Next]_vars => StoresInv'
    BY StoresInvStays
  <1>3. StoresInv => TablesAreSound
    BY DEF StoresInv, Inv1, SessionsFit, TablesAreSound
  <1> QED BY <1>1, <1>2, <1>3, PTL DEF Spec

-----------------------------------------------------------------------------
(***************************************************************************)
(* Results: a row's tallies against the calls that applied one, those that *)
(* said so, those whose answer was lost and those that are still to say.   *)
(***************************************************************************)
Accounted(p) == Tally(p) = told[p] + untold[p] + Cardinality(Telling(p))

\* What the account of a player is made of.
LEMMA AccountsAreNumbers ==
  ASSUME TypeOK, NEW p \in DOMAIN players
  PROVE  /\ p \in Players /\ Tally(p) \in Nat /\ told[p] \in Nat /\ untold[p] \in Nat
         /\ players[p].wins \in Nat /\ players[p].losses \in Nat
         /\ IsFiniteSet(Telling(p)) /\ Cardinality(Telling(p)) \in Nat
  <1>1. p \in Players /\ players[p] \in Row
    BY DEF TypeOK
  <1>2. Tally(p) \in Nat /\ players[p].wins \in Nat /\ players[p].losses \in Nat
    BY <1>1 DEF Row, Tally
  <1>3. told[p] \in Nat /\ untold[p] \in Nat
    BY <1>1 DEF TypeOK
  <1>4. Telling(p) \subseteq Threads
    BY DEF Telling
  <1>5. IsFiniteSet(Telling(p))
    BY <1>4, FS_Subset, StoresArePositive
  <1> QED BY <1>1, <1>2, <1>3, <1>5, FS_CardinalityType

LEMMA UntouchedAccount ==
  ASSUME NEW p \in DOMAIN players, Accounted(p), players'[p] = players[p],
         told'[p] = told[p], untold'[p] = untold[p], Telling(p)' = Telling(p)
  PROVE  Accounted(p)'
  BY DEF Accounted, Tally

\* A call that was to tell of its result tells, or never will.
LEMMA OneTellsLess ==
  ASSUME TypeOK, NEW p \in DOMAIN players, Accounted(p), players' = players,
         NEW t \in Telling(p), Telling(p)' = Telling(p) \ {t},
         told'[p] + untold'[p] = told[p] + untold[p] + 1
  PROVE  Accounted(p)'
  <1>1. Cardinality(Telling(p)') = Cardinality(Telling(p)) - 1
    BY AccountsAreNumbers, FS_RemoveElement
  <1>2. Tally(p)' = Tally(p)
    BY DEF Tally
  <1>3. PICK a \in Nat, b \in Nat, c \in Nat :
          a = told[p] /\ b = untold[p] /\ c = Cardinality(Telling(p))
    BY AccountsAreNumbers
  <1>4. Cardinality(Telling(p))' = c - 1 /\ Tally(p)' = a + b + c
    BY <1>1, <1>2, <1>3 DEF Accounted
  <1>5. told'[p] + untold'[p] = a + b + 1
    BY <1>3
  <1>6. (a + b + 1) + (c - 1) = a + b + c
    OBVIOUS
  <1> QED BY <1>4, <1>5, <1>6 DEF Accounted

\* Which results a statement leaves to be told.
LEMMA ExecutedResults ==
  ASSUME Inv1, NEW t \in Threads, Execute(t), NEW u \in Threads
  PROVE  /\ call'[u].stmt = call[u].stmt
         /\ u = t => ~call[u].fresh /\ (call'[u].fresh <=> Applies(call[t].stmt))
         /\ u # t => (call'[u].fresh <=>
              call[u].fresh /\ ~(call[t].stmt.kind = "upsert" /\ call[u].stmt.player = call[t].stmt.player))
  <1>1. call[u] \in Frames /\ FrameFits(call[u], backend, DOMAIN players)
    BY ACallHasAStatement
  <1>2. CASE u = t
    <2>1. call[t].at = "execute" /\ call'[t].stmt = call[t].stmt /\ call'[t].fresh = Applies(call[t].stmt)
      BY ExecutedFrame
    <2> QED BY <1>1, <1>2, <2>1 DEF FrameFits
  <1>3. CASE u # t
    <2>1. call'[u] = Stale(call[t].stmt, call[u])
      BY <1>3, ExecutedFrame
    <2>2. call[u].fresh => call[u].stmt # None /\ call[u].stmt.kind = "result"
      BY <1>1 DEF FrameFits
    <2> QED BY <1>1, <1>3, <2>1, <2>2 DEF Stale, Frames
  <1> QED BY <1>2, <1>3

LEMMA ExecuteAccounts ==
  ASSUME Inv1, NEW t \in Threads, Execute(t), \A q \in DOMAIN players : Accounted(q),
         NEW p \in DOMAIN players'
  PROVE  Accounted(p)'
  <1> DEFINE s == call[t].stmt
  <1>1. /\ TypeOK /\ s \in Statement /\ players' = Written(s, call[t].answer)
        /\ told' = Forgotten(s, told) /\ untold' = Forgotten(s, untold)
    BY ExecutedFrame DEF Inv1
  <1>2. WritesARow(s) => OneRowWritten(s, players')
    BY <1>1, WrittenRows
  <1>3. CASE s.kind = "upsert" /\ p = s.player
    <2>1. p \in Players
      BY <1>1, <1>3, StatementShapes DEF OnPlayers
    <2>2. told'[p] = 0 /\ untold'[p] = 0
      BY <1>1, <1>3, <2>1 DEF Forgotten, TypeOK
    <2>3. Telling(p)' = {}
      <3>1. \A u \in Threads : call'[u].fresh => call'[u].stmt.player # p
        <4> TAKE u \in Threads
        <4>1. CASE u = t
          BY <1>3, <4>1, ExecutedResults DEF Applies
        <4>2. CASE u # t
          BY <1>3, <4>2, ExecutedResults
        <4> QED BY <4>1, <4>2
      <3> QED BY <3>1 DEF Telling
    <2>4. Cardinality(Telling(p)') = 0
      BY <2>3, FS_EmptySet
    <2>5. Tally(p)' = 0
      BY <1>2, <1>3 DEF Tally, RowAfter, NewRow, WritesARow, OneRowWritten
    <2>6. Cardinality(Telling(p))' = 0
      BY <2>4
    <2> QED BY <2>2, <2>5, <2>6 DEF Accounted
  <1>4. CASE Applies(s) /\ p = s.player
    <2>1. s.kind = "result" /\ p \in DOMAIN players /\ players[p] \in Row
      BY <1>1, <1>4 DEF Applies, TypeOK
    <2>2. Tally(p)' = Tally(p) + 1
      <3>1. players'[p] = Credited(players[p], s)
        BY <1>2, <1>4, <2>1 DEF RowAfter, WritesARow, OneRowWritten
      <3> QED BY <1>1, <2>1, <3>1, CreditedRow DEF Tally
    <2>3. Telling(p)' = Telling(p) \cup {t} /\ t \notin Telling(p)
      <3>1. \A u \in Threads \ {t} : (call'[u].fresh <=> call[u].fresh) /\ call'[u].stmt = call[u].stmt
        BY <2>1, ExecutedResults
      <3>2. call'[t].fresh /\ ~call[t].fresh /\ call'[t].stmt = s
        BY <1>4, ExecutedResults
      <3> QED BY <1>4, <3>1, <3>2 DEF Telling
    <2>4. Cardinality(Telling(p)') = Cardinality(Telling(p)) + 1
      BY <1>1, <2>1, <2>3, AccountsAreNumbers, FS_AddElement
    <2>5. told' = told /\ untold' = untold
      BY <1>1, <2>1 DEF Forgotten
    <2>6. PICK a \in Nat, b \in Nat, c \in Nat :
            a = told[p] /\ b = untold[p] /\ c = Cardinality(Telling(p))
      BY <1>1, <2>1, AccountsAreNumbers
    <2>7. Tally(p) = a + b + c
      BY <2>1, <2>6 DEF Accounted
    <2>8. Tally(p)' = a + b + (c + 1)
      BY <2>2, <2>7
    <2>9. Cardinality(Telling(p))' = c + 1 /\ told'[p] = a /\ untold'[p] = b
      BY <2>4, <2>5, <2>6
    <2> QED BY <2>8, <2>9 DEF Accounted
  <1>5. CASE ~((s.kind = "upsert" \/ Applies(s)) /\ p = s.player)
    <2>1. p \in DOMAIN players /\ players'[p] = players[p]
      <3>1. CASE WritesARow(s)
        BY <1>2, <1>5, <3>1 DEF WritesARow, OneRowWritten
      <3>2. CASE ~WritesARow(s)
        BY <1>1, <3>2, WrittenRows
      <3> QED BY <3>1, <3>2
    <2>2. told'[p] = told[p] /\ untold'[p] = untold[p]
      BY <1>1, <1>5, <2>1 DEF Forgotten, TypeOK
    <2>3. \A u \in Threads : call'[u].fresh /\ call'[u].stmt.player = p <=> call[u].fresh /\ call[u].stmt.player = p
      <3> TAKE u \in Threads
      <3>1. CASE u = t
        BY <1>5, <3>1, ExecutedResults
      <3>2. CASE u # t
        BY <1>5, <3>2, ExecutedResults
      <3> QED BY <3>1, <3>2
    <2>4. Telling(p)' = Telling(p)
      BY <2>3 DEF Telling
    <2> QED BY <2>1, <2>2, <2>4, UntouchedAccount
  <1> QED BY <1>3, <1>4, <1>5

LEMMA AnswerAccounts ==
  ASSUME Inv1, NEW t \in Threads, Answer(t), NEW p \in DOMAIN players, Accounted(p)
  PROVE  Accounted(p)'
  <1> DEFINE f == call[t]
  <1>1. /\ TypeOK /\ p \in Players /\ f \in Frames /\ FrameFits(f, backend, DOMAIN players)
        /\ f.at = "answer" /\ f.stmt \in Statement
    BY ACallHasAStatement DEF Inv1, Answer, InCall, TypeOK
  <1>2. players' = players
    BY DEF Answer, tables
  <1>3. ~call'[t].fresh /\ \A u \in Threads \ {t} : call'[u] = call[u]
    <2>1. CASE f.stmt.kind = "upsert"
      <3>1. PICK get : get = [kind |-> "get", player |-> f.stmt.player]
        OBVIOUS
      <3>2. get \in Statement \cup {None}
        BY <1>1, <2>1, <3>1, StatementShapes DEF Statement, OnPlayers
      <3>3. "attempt" \in Ats /\ Attempts \in 0 .. Attempts
        BY StoresArePositive DEF Ats
      <3>4. call' = [call EXCEPT ![t] = Frame("attempt", get, Attempts)]
        BY <2>1, <3>1 DEF Answer
      <3> QED BY <1>1, <3>2, <3>3, <3>4, ANewFrame DEF TypeOK
    <2>2. CASE f.stmt.kind # "upsert"
      BY <1>1, <2>2, IdleIsAFrame DEF Answer, Return, TypeOK
    <2> QED BY <2>1, <2>2
  <1>4. CASE f.fresh /\ f.stmt.player = p
    <2>1. t \in Telling(p) /\ Telling(p)' = Telling(p) \ {t}
      BY <1>3, <1>4 DEF Telling
    <2>2. f.stmt.kind = "result"
      BY <1>1, <1>4 DEF FrameFits
    <2>3. told'[p] + untold'[p] = told[p] + untold[p] + 1
      <3>1. told \in [Players -> Nat] /\ untold \in [Players -> Nat]
        BY <1>1 DEF TypeOK
      <3>2. CASE Loads(f)
        <4>1. told' = [told EXCEPT ![p] = @ + 1] /\ untold' = untold
          BY <1>4, <2>2, <3>2 DEF Answer, Acknowledged
        <4> QED BY <1>1, <3>1, <4>1
      <3>3. CASE ~Loads(f)
        <4>1. untold' = [untold EXCEPT ![p] = @ + 1] /\ told' = told
          BY <1>4, <2>2, <3>3 DEF Answer, Acknowledged
        <4> QED BY <1>1, <3>1, <4>1
      <3> QED BY <3>2, <3>3
    <2> QED BY <1>1, <1>2, <2>1, <2>3, OneTellsLess
  <1>5. CASE ~(f.fresh /\ f.stmt.player = p)
    <2>1. Telling(p)' = Telling(p)
      BY <1>3, <1>5 DEF Telling
    <2>2. told'[p] = told[p] /\ untold'[p] = untold[p]
      BY <1>1, <1>5 DEF Answer, Acknowledged, TypeOK
    <2> QED BY <1>2, <2>1, <2>2, UntouchedAccount
  <1> QED BY <1>4, <1>5

LEMMA FailAccounts ==
  ASSUME Inv1, NEW t \in Threads, Fail(t), NEW p \in DOMAIN players, Accounted(p)
  PROVE  Accounted(p)'
  <1>1. /\ TypeOK /\ p \in Players /\ ~call'[t].fresh /\ players' = players /\ told' = told
        /\ untold' = IF call[t].fresh THEN [untold EXCEPT ![call[t].stmt.player] = @ + 1] ELSE untold
    BY FailedFrames DEF Inv1, TypeOK
  <1>2. \A u \in Threads \ {t} : (call'[u].fresh <=> call[u].fresh) /\ call'[u].stmt = call[u].stmt
    <2> TAKE u \in Threads \ {t}
    <2>1. PICK on \in {"none", "current", "other", "closed"} : call'[u] = [call[u] EXCEPT !.on = on]
      BY FailedFrames
    <2>2. call[u] \in Frames
      BY ACallHasAStatement
    <2> QED BY <2>1, <2>2 DEF Frames
  <1>3. CASE call[t].fresh /\ call[t].stmt.player = p
    <2>1. t \in Telling(p) /\ Telling(p)' = Telling(p) \ {t}
      BY <1>1, <1>2, <1>3 DEF Telling
    <2>2. told'[p] + untold'[p] = told[p] + untold[p] + 1
      BY <1>1, <1>3 DEF TypeOK
    <2> QED BY <1>1, <2>1, <2>2, OneTellsLess
  <1>4. CASE ~(call[t].fresh /\ call[t].stmt.player = p)
    <2>1. Telling(p)' = Telling(p)
      BY <1>1, <1>2, <1>4 DEF Telling
    <2>2. told'[p] = told[p] /\ untold'[p] = untold[p]
      BY <1>1, <1>4 DEF TypeOK
    <2> QED BY <1>1, <2>1, <2>2, UntouchedAccount
  <1> QED BY <1>3, <1>4

\* The steps that neither write a row of Postgres nor end a call with a result.
LEMMA OtherAccounts ==
  ASSUME Inv1, NEW t \in Threads, Connection(t) \/ Connect(t) \/ Begin(t) \/ MemRead(t),
         NEW p \in DOMAIN players, Accounted(p)
  PROVE  Accounted(p)'
  <1>1. UNCHANGED <<players, told, untold>>
    BY DEF Connection, Connect, Begin, MemRead, tables, history
  <1>2. \A u \in Threads : call'[u].fresh /\ call'[u].stmt.player = p <=> call[u].fresh /\ call[u].stmt.player = p
    <2> TAKE u \in Threads
    <2>0. call \in [Threads -> Frames] /\ call[u] \in Frames /\ FrameFits(call[u], backend, DOMAIN players)
      BY ACallHasAStatement DEF Inv1, TypeOK
    <2>1. CASE Connection(t)
      BY <2>0, <2>1 DEF Connection, Frames
    <2>2. CASE Connect(t)
      <3>1. call'[u] = IF u = t THEN [call[t] EXCEPT !.at = "execute", !.on = "current"]
                       ELSE [call[u] EXCEPT !.on = IF @ = "current" THEN "other" ELSE @]
        BY <2>2 DEF Connect
      <3>2. call'[u].fresh = call[u].fresh /\ call'[u].stmt = call[u].stmt
        BY <2>0, <3>1 DEF Frames
      <3> QED BY <3>2
    <2>3. CASE Begin(t)
      <3>1. PICK s \in Statements :
              call' = [call EXCEPT ![t] = Frame(IF backend = "memory" THEN "read" ELSE "attempt", s, Attempts)]
        BY <2>3 DEF Begin
      <3>2. PICK place \in Ats : place = IF backend = "memory" THEN "read" ELSE "attempt"
        BY DEF Ats
      <3>3. s \in Statement \cup {None} /\ Attempts \in 0 .. Attempts
        BY StatementsAreValid, StoresArePositive
      <3>4. call' = [call EXCEPT ![t] = Frame(place, s, Attempts)] /\ ~Frame(place, s, Attempts).fresh
        BY <3>1, <3>2, <3>3, ANewFrame
      <3>5. u = t => ~call[u].fresh
        BY <2>0, <2>3 DEF Begin, InCall, FrameFits
      <3> QED BY <2>0, <3>4, <3>5
    <2>4. CASE MemRead(t)
      <3>1. u # t => call'[u] = call[u]
        BY <2>0, <2>4 DEF MemRead, Return
      <3>2. u = t => ~call[u].fresh
        BY <2>0, <2>4 DEF MemRead, InCall, FrameFits
      <3>3. ASSUME u = t
            PROVE  ~call'[u].fresh
        <4>1. call'[u] = Idle \/ \E row : call'[u] = [call[u] EXCEPT !.at = "write", !.answer = row]
          BY <2>0, <2>4, <3>3 DEF MemRead, Return
        <4>2. ASSUME NEW row, call'[u] = [call[u] EXCEPT !.at = "write", !.answer = row]
              PROVE  ~call'[u].fresh
          BY <2>0, <3>2, <3>3, <4>2 DEF Frames
        <4> QED BY <4>1, <4>2, IdleIsAFrame
      <3> QED BY <3>1, <3>2, <3>3
    <2> QED BY <2>1, <2>2, <2>3, <2>4
  <1>3. Telling(p)' = Telling(p)
    BY <1>2 DEF Telling
  <1> QED BY <1>1, <1>3, UntouchedAccount

LEMMA AccountsStay ==
  ASSUME Inv1, EveryResultIsAccountedFor, [Next]_vars
  PROVE  EveryResultIsAccountedFor'
  <1> SUFFICES ASSUME backend' = "postgres", NEW p \in DOMAIN players'
               PROVE  Accounted(p)'
    BY DEF EveryResultIsAccountedFor, Accounted
  <1>1. CASE Network \/ UNCHANGED vars
    <2>1. UNCHANGED <<backend, players, call, told, untold>>
      BY <1>1 DEF Network, vars, tables, history
    <2> QED BY <2>1 DEF EveryResultIsAccountedFor, Accounted, Tally, Telling
  <1>2. ASSUME NEW t \in Threads, Begin(t) \/ Step(t)
        PROVE  Accounted(p)'
    <2>1. backend = "postgres"
      BY <1>2 DEF Begin, Step, Connection, Connect, Execute, Answer, Fail, MemRead, MemWrite
    <2>2. \A q \in DOMAIN players : Accounted(q)
      BY <2>1 DEF EveryResultIsAccountedFor, Accounted
    <2>3. CASE Execute(t)
      BY <2>2, <2>3, ExecuteAccounts
    <2>4. CASE Answer(t)
      <3>1. p \in DOMAIN players
        BY <2>4 DEF Answer, tables
      <3> QED BY <2>2, <2>4, <3>1, AnswerAccounts
    <2>5. CASE Fail(t)
      <3>1. p \in DOMAIN players
        BY <2>5 DEF Fail, tables
      <3> QED BY <2>2, <2>5, <3>1, FailAccounts
    <2>6. CASE Begin(t) \/ Connection(t) \/ Connect(t) \/ MemRead(t)
      <3>1. p \in DOMAIN players
        BY <2>6 DEF Begin, Connection, Connect, MemRead, tables
      <3> QED BY <2>2, <2>6, <3>1, OtherAccounts
    <2>7. ~MemWrite(t)
      BY <2>1, ACallHasAStatement DEF MemWrite, InCall, FrameFits
    <2> QED BY <1>2, <2>3, <2>4, <2>5, <2>6, <2>7 DEF Step
  <1> QED BY <1>1, <1>2 DEF Next

\* No result is lost to a race or counted from nowhere: in every state, however
\* many workers finish matches for one player over failing connections, the
\* tallies of its row are the results acknowledged, plus those whose answer was
\* lost, plus those whose calls are about to read their answer (record_result in
\* postgres.py and the retries of _run).
THEOREM ResultsAreAccountedFor == Spec => []EveryResultIsAccountedFor
  <1>1. Init => StoresInv /\ EveryResultIsAccountedFor
    <2>1. Init => DOMAIN players = {}
      BY DEF Init
    <2> QED BY <2>1, InitStoresInv DEF EveryResultIsAccountedFor
  <1>2. StoresInv /\ EveryResultIsAccountedFor /\ [Next]_vars => (StoresInv /\ EveryResultIsAccountedFor)'
    BY StoresInvStays, AccountsStay DEF StoresInv
  <1> QED BY <1>1, <1>2, PTL DEF Spec

=============================================================================
