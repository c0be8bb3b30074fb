--------------------------- MODULE FileSessionStore ---------------------------
(***************************************************************************)
(* FileSessionStore, with the file system under it, used by processes that *)
(* share the file.  A lock orders the calls of one process only, so a      *)
(* process here is a program that uses the store, one call at a time.      *)
(*                                                                         *)
(* A temporary that os.replace has moved keeps receiving what a process    *)
(* that opened it before goes on to write: a descriptor follows the file,  *)
(* not its name.                                                           *)
(***************************************************************************)
EXTENDS SessionMaps

CONSTANTS Processes,
          MaxSessions,                \* max_sessions of the store
          Absent, Empty, Garbled      \* contents of a file that are not a map of sessions

ASSUME StoreIsValid ==
  /\ MaxSessions \in Nat \ {0}
  /\ {Absent, Empty, Garbled} \cap SessionMaps = {}
  /\ Absent # Empty /\ Absent # Garbled /\ Empty # Garbled

VARIABLES path,    \* what _path names
          tmp,     \* what the temporary's name names
          proc,    \* process -> where it is in _write, with its descriptor
          now,     \* the wall clock
          drawn,   \* tokens of sessions that put was called with
          acked,   \* history: the sessions after every call that returned
          ended    \* history: the sessions a reader saw and no longer sees

vars == <<path, tmp, proc, now, drawn, acked, ended>>

Texts == {Empty, Garbled} \cup SessionMaps
Idle == [at |-> "idle"]
\* A write under way: what it will write, and what it means to drop and add.
Writes == [at : {"open", "dump", "replace", "cleanup"}, data : SessionMaps,
           drop : SUBSET Tokens, add : SessionMaps, fd : {"none", "tmp", "path", "gone"}]

Init ==
  /\ path = Absent
  /\ tmp = Absent
  /\ proc = [p \in Processes |-> Idle]
  /\ now = 0
  /\ drawn = {}
  /\ acked = NoSessions
  /\ ended = {}

\* _read: a missing or unreadable file is an empty store.
Read(text) == IF text \in SessionMaps THEN text ELSE NoSessions

Goto(p, f) == proc' = [proc EXCEPT ![p] = f]

\* What readers see changes when the text under _path does.
Sees(text) ==
  /\ path' = text
  /\ ended' = ended \cup (DOMAIN Read(path) \ DOMAIN Read(text))

Merged(map, add) == [t \in DOMAIN map \cup DOMAIN add |->
                       IF t \in DOMAIN add THEN add[t] ELSE map[t]]

-----------------------------------------------------------------------------
\* Each writing method reads the file and decides what to write.
Decide(p, drop, add) ==
  /\ Goto(p, [at |-> "open", data |-> Merged(Without(Read(path), drop), add),
              drop |-> drop, add |-> add, fd |-> "none"])
  /\ UNCHANGED <<path, tmp, now, acked, ended>>

Stale(map) == {t \in DOMAIN map : map[t].expires <= now}

\* At the limit the expired go, and then the one nearest expiry.
IsFullLate(map) == Cardinality(DOMAIN map) > MaxSessions
IsFull(map) == Cardinality(DOMAIN map) >= MaxSessions
Evicted(map) ==
  IF ~IsFull(map) THEN {{}}
  ELSE LET fresh == Without(map, Stale(map))
       IN  IF IsFull(fresh) THEN {Stale(map) \cup {t} : t \in Oldest(fresh)} ELSE {Stale(map)}

PutRenewing(p) ==
  /\ proc[p] = Idle
  /\ \E t \in Tokens, w \in Wallets : \E drop \in Evicted(Read(path)) :
       /\ drawn' = drawn \cup {t}
       /\ Decide(p, drop, With(NoSessions, t, NewSession(w, now)))
Put(p) ==
  /\ proc[p] = Idle
  /\ \E t \in Tokens \ drawn, w \in Wallets : \E drop \in Evicted(Read(path)) :
       /\ drawn' = drawn \cup {t}
       /\ Decide(p, drop, With(NoSessions, t, NewSession(w, now)))

\* delete answers False, and writes nothing, when there is nothing to delete.
Delete(p) ==
  /\ proc[p] = Idle
  /\ \E t \in DOMAIN Read(path) : Decide(p, {t}, NoSessions)
  /\ UNCHANGED drawn

DeleteWallet(p) ==
  /\ proc[p] = Idle
  /\ \E w \in Wallets : /\ OfWallet(Read(path), w) # {}
                        /\ Decide(p, OfWallet(Read(path), w), NoSessions)
  /\ UNCHANGED drawn

PurgeExpired(p) ==
  /\ proc[p] = Idle
  /\ Stale(Read(path)) # {}
  /\ Decide(p, Stale(Read(path)), NoSessions)
  /\ UNCHANGED drawn

-----------------------------------------------------------------------------
\* p's call is over, and the files the others' descriptors are on have moved.
Moved(p, to) ==
  proc' = [q \in Processes |->
             IF q = p \/ proc[q] = Idle THEN Idle ELSE [proc[q] EXCEPT !.fd = to[@]]]

\* os.open with O_CREAT | O_TRUNC: a temporary that is there is emptied.
Open(p) ==
  /\ proc[p].at = "open"
  /\ tmp' = Empty
  /\ Goto(p, [proc[p] EXCEPT !.at = "dump", !.fd = "tmp"])
  /\ UNCHANGED <<path, now, drawn, acked, ended>>

\* The text lands at the start of the file the descriptor is open on.
Landed(old, data) ==
  IF old = Empty THEN {data}
  ELSE IF old = Garbled THEN {data, Garbled}
  ELSE CASE Cardinality(DOMAIN old) > Cardinality(DOMAIN data) -> {Garbled}
         [] Cardinality(DOMAIN old) = Cardinality(DOMAIN data) -> {data, Garbled}
         [] OTHER -> {data}

Fill(p, texts(_)) ==
  \/ /\ proc[p].fd = "tmp" /\ tmp' \in texts(tmp)
     /\ UNCHANGED <<path, ended>>
  \/ /\ proc[p].fd = "path" /\ \E text \in texts(path) : Sees(text)
     /\ UNCHANGED tmp
  \/ /\ proc[p].fd = "gone"
     /\ UNCHANGED <<path, tmp, ended>>

Dump(p) ==
  /\ proc[p].at = "dump"
  /\ Fill(p, LAMBDA old : Landed(old, proc[p].data))
  /\ Goto(p, [proc[p] EXCEPT !.at = "replace", !.fd = "none"])
  /\ UNCHANGED <<now, drawn, acked>>

\* A full disk: part of the text may be in the file.
Partly(old) == {old, Garbled}
DumpFailsSwallowed(p) ==
  /\ proc[p].at = "dump"
  /\ Fill(p, Partly)
  /\ Goto(p, [proc[p] EXCEPT !.at = "replace", !.fd = "none"])
  /\ UNCHANGED <<now, drawn, acked>>
DumpFails(p) ==
  /\ proc[p].at = "dump"
  /\ Fill(p, Partly)
  /\ Goto(p, [proc[p] EXCEPT !.at = "cleanup", !.fd = "none"])
  /\ UNCHANGED <<now, drawn, acked>>

\* os.replace: the call returns, and its effect is acknowledged.
Replace(p) ==
  /\ proc[p].at = "replace" /\ tmp # Absent
  /\ Sees(tmp)
  /\ tmp' = Absent
  /\ acked' = Merged(Without(acked, proc[p].drop), proc[p].add)
  /\ Moved(p, [path |-> "gone", tmp |-> "path", gone |-> "gone", none |-> "none"])
  /\ UNCHANGED <<now, drawn>>

\* The rename fails, as it must when the temporary has been moved or removed.
ReplaceFails(p) ==
  /\ proc[p].at = "replace"
  /\ Goto(p, [proc[p] EXCEPT !.at = "cleanup"])
  /\ UNCHANGED <<path, tmp, now, drawn, acked, ended>>

\* unlink(missing_ok=True), and the exception goes on to the caller.
Cleanup(p) ==
  /\ proc[p].at = "cleanup"
  /\ tmp' = Absent
  /\ Moved(p, [path |-> "path", tmp |-> "gone", gone |-> "gone", none |-> "none"])
  /\ UNCHANGED <<path, now, drawn, acked, ended>>

\* The process dies, perhaps in the middle of writing the text, and is started
\* again; the files are as it left them.
Crash(p) ==
  /\ proc[p] # Idle
  /\ Goto(p, Idle)
  /\ IF proc[p].at = "dump" THEN Fill(p, Partly) ELSE UNCHANGED <<path, tmp, ended>>
  /\ UNCHANGED <<now, drawn, acked>>

Tick == now < MaxTime /\ now' = now + 1 /\ UNCHANGED <<path, tmp, proc, drawn, acked, ended>>

Write(p) == Open(p) \/ Dump(p) \/ DumpFails(p) \/ Replace(p) \/ ReplaceFails(p) \/ Cleanup(p)

Next ==
  \/ \E p \in Processes :
       \/ Put(p) \/ Delete(p) \/ DeleteWallet(p) \/ PurgeExpired(p)
       \/ Write(p) \/ Crash(p)
  \/ Tick

Spec == Init /\ [][Next]_vars

-----------------------------------------------------------------------------
TypeOK ==
  /\ path \in Texts \cup {Absent}
  /\ tmp \in Texts \cup {Absent}
  /\ proc \in [Processes -> {Idle} \cup Writes]
  /\ now \in Times
  /\ drawn \subseteq Tokens
  /\ acked \in SessionMaps
  /\ ended \subseteq Tokens

\* "a crash mid-write cannot leave a truncated file that logs everyone out"
NeverTorn == path \notin {Empty, Garbled}

\* "Every write is atomic": a call that returned is there whole, and one that
\* raised or died has left nothing.
WritesAreAtomic == Read(path) = acked

\* The file holds at most max_sessions, whoever writes it.
FileIsBounded == Cardinality(DOMAIN Read(path)) <= MaxSessions

\* "End a session": one whose deletion was acknowledged is not resolved again.
EndedIsNotResurrected == DOMAIN Read(path) \cap (ended \ DOMAIN acked) = {}

\* The file is a session store: what its readers see starts once and ends once.
Lives == INSTANCE SessionLives
           WITH live <- Read(path), spent <- DOMAIN Read(path) \cup ended
ImplementsLives == Lives!Spec
=============================================================================
