------------------------ MODULE FileSessionStore_proofs ------------------------
(***************************************************************************)
(* Theorems about FileSessionStore: the types, for any number of processes *)
(* on one file, and that a file used by one process is written atomically  *)
(* although the process may fail or die at any step; and that a file never *)
(* outgrows max_sessions, however many processes write it.                 *)
(***************************************************************************)
EXTENDS FileSessionStore, FiniteSetTheorems, TLAPS

\* Session maps are closed under what the store does with them.
LEMMA MapsHaveTypes ==
  ASSUME NEW map
  PROVE  map \in SessionMaps <=> map \in [DOMAIN map -> Session] /\ DOMAIN map \subseteq Tokens
  BY DEF SessionMaps

LEMMA MergedIsAMap ==
  ASSUME NEW map \in SessionMaps, NEW add \in SessionMaps, NEW drop
  PROVE  Merged(Without(map, drop), add) \in SessionMaps
  <1> DEFINE kept == Without(map, drop)
             all == Merged(kept, add)
  <1>1. kept \in [DOMAIN map \ drop -> Session] /\ DOMAIN map \subseteq Tokens
    BY MapsHaveTypes DEF Without
  <1>2. add \in [DOMAIN add -> Session] /\ DOMAIN add \subseteq Tokens
    BY MapsHaveTypes
  <1>3. all \in [DOMAIN kept \cup DOMAIN add -> Session]
    BY <1>1, <1>2 DEF Merged
  <1>4. DOMAIN kept \subseteq Tokens
    BY <1>1
  <1> QED BY <1>2, <1>3, <1>4 DEF SessionMaps

LEMMA ReadIsAMap ==
  ASSUME NEW text
  PROVE  Read(text) \in SessionMaps /\ NoSessions \in SessionMaps
  <1>1. NoSessions \in [{} -> Session]
    BY DEF NoSessions
  <1> QED BY <1>1 DEF Read, SessionMaps

LEMMA NewSessionIsAMap ==
  ASSUME NEW t \in Tokens, NEW w \in Wallets, now \in Times
  PROVE  With(NoSessions, t, NewSession(w, now)) \in SessionMaps
  <1> DEFINE s == NewSession(w, now)
  <1>1. now + TTL \in 0 .. MaxTime + TTL
    BY SessionTimesAreValid DEF Times
  <1>2. s \in Session
    BY <1>1 DEF NewSession, Session
  <1>3. With(NoSessions, t, s) \in [{t} -> Session]
    BY <1>2 DEF With, NoSessions
  <1> QED BY <1>3 DEF SessionMaps

-----------------------------------------------------------------------------
LEMMA TypeOKInit == Init => TypeOK
  BY ReadIsAMap, SessionTimesAreValid DEF Init, TypeOK, Times

LEMMA GotoIsTyped ==
  ASSUME TypeOK, NEW p \in Processes, NEW f \in {Idle} \cup Writes, Goto(p, f)
  PROVE  proc' \in [Processes -> {Idle} \cup Writes]
  BY DEF TypeOK, Goto

LEMMA MovedIsTyped ==
  ASSUME TypeOK, NEW p \in Processes,
         NEW to \in [{"path", "tmp", "gone", "none"} -> {"path", "tmp", "gone", "none"}],
         Moved(p, to)
  PROVE  proc' \in [Processes -> {Idle} \cup Writes]
  <1>1. ASSUME NEW q \in Processes, proc[q] # Idle
        PROVE  [proc[q] EXCEPT !.fd = to[@]] \in Writes
    BY <1>1 DEF TypeOK, Writes
  <1> QED BY <1>1 DEF Moved

LEMMA DecideIsTyped ==
  ASSUME TypeOK, NEW p \in Processes, NEW drop \in SUBSET Tokens, NEW add \in SessionMaps,
         Decide(p, drop, add)
  PROVE  proc' \in [Processes -> {Idle} \cup Writes]
  <1>1. Merged(Without(Read(path), drop), add) \in SessionMaps
    BY ReadIsAMap, MergedIsAMap
  <1>2. [at |-> "open", data |-> Merged(Without(Read(path), drop), add),
         drop |-> drop, add |-> add, fd |-> "none"] \in Writes
    BY <1>1 DEF Writes
  <1> QED BY <1>2, GotoIsTyped DEF Decide

LEMMA EndedIsTyped ==
  ASSUME TypeOK, NEW text, Sees(text)
  PROVE  ended' \subseteq Tokens
  BY ReadIsAMap, MapsHaveTypes DEF Sees, TypeOK

LEMMA EvictedAreTokens ==
  ASSUME NEW map \in SessionMaps, NEW drop \in Evicted(map)
  PROVE  drop \in SUBSET Tokens
  <1>1. DOMAIN map \subseteq Tokens
    BY MapsHaveTypes
  <1>2. Stale(map) \subseteq DOMAIN map
    BY DEF Stale
  <1>3. Oldest(Without(map, Stale(map))) \subseteq DOMAIN map
    BY DEF Oldest, Without
  <1> QED BY <1>1, <1>2, <1>3 DEF Evicted

LEMMA DecidingIsTyped ==
  ASSUME TypeOK, NEW p \in Processes, Put(p) \/ Delete(p) \/ DeleteWallet(p) \/ PurgeExpired(p)
  PROVE  proc' \in [Processes -> {Idle} \cup Writes] /\ drawn' \subseteq Tokens
  <1>0. Read(path) \in SessionMaps /\ DOMAIN Read(path) \subseteq Tokens /\ NoSessions \in SessionMaps
    BY ReadIsAMap, MapsHaveTypes
  <1>1. CASE Put(p)
    <2>1. PICK t \in Tokens \ drawn, w \in Wallets, drop \in Evicted(Read(path)) :
            /\ drawn' = drawn \cup {t}
            /\ Decide(p, drop, With(NoSessions, t, NewSession(w, now)))
      BY <1>1 DEF Put
    <2>2. drop \in SUBSET Tokens
      BY <1>0, EvictedAreTokens
    <2>3. With(NoSessions, t, NewSession(w, now)) \in SessionMaps
      BY NewSessionIsAMap DEF TypeOK
    <2>4. drawn' \subseteq Tokens
      BY <2>1 DEF TypeOK
    <2> QED BY <2>1, <2>2, <2>3, <2>4, DecideIsTyped
  <1>2. CASE Delete(p)
    <2>1. PICK t \in DOMAIN Read(path) : Decide(p, {t}, NoSessions)
      BY <1>2 DEF Delete
    <2> QED BY <1>0, <1>2, <2>1, DecideIsTyped DEF Delete, TypeOK
  <1>3. CASE DeleteWallet(p)
    <2>1. PICK w \in Wallets : Decide(p, OfWallet(Read(path), w), NoSessions)
      BY <1>3 DEF DeleteWallet
    <2>2. OfWallet(Read(path), w) \in SUBSET Tokens
      BY <1>0 DEF OfWallet
    <2> QED BY <1>0, <1>3, <2>1, <2>2, DecideIsTyped DEF DeleteWallet, TypeOK
  <1>4. CASE PurgeExpired(p)
    <2>1. Stale(Read(path)) \in SUBSET Tokens
      BY <1>0 DEF Stale
    <2> QED BY <1>0, <1>4, <2>1, DecideIsTyped DEF PurgeExpired, TypeOK
  <1> QED BY <1>1, <1>2, <1>3, <1>4

\* What a write leaves in a file is a text again.
LEMMA LandedIsText ==
  ASSUME NEW old \in Texts \cup {Absent}, NEW data \in SessionMaps, NEW text \in Landed(old, data)
  PROVE  text \in Texts \cup {Absent}
  BY DEF Landed, Texts

LEMMA PartlyIsText ==
  ASSUME NEW old \in Texts \cup {Absent}, NEW text \in Partly(old)
  PROVE  text \in Texts \cup {Absent}
  BY DEF Partly, Texts

LEMMA WritingIsTyped ==
  ASSUME TypeOK, NEW p \in Processes, Write(p) \/ Crash(p)
  PROVE  TypeOK'
  <1>0. proc[p] # Idle /\ proc[p] \in Writes
    <2>1. proc[p] \in {Idle} \cup Writes
      BY DEF TypeOK
    <2>2. Idle.at = "idle"
      BY DEF Idle
    <2> QED BY <2>1, <2>2 DEF Write, Crash, Open, Dump, DumpFails, Replace, ReplaceFails, Cleanup
  <1>1. CASE Open(p)
    <2>1. [proc[p] EXCEPT !.at = "dump", !.fd = "tmp"] \in Writes
      BY <1>0 DEF Writes
    <2>2. proc' \in [Processes -> {Idle} \cup Writes]
      BY <1>1, <2>1, GotoIsTyped DEF Open
    <2> QED BY <1>1, <2>2 DEF Open, TypeOK, Texts
  <1>2. CASE Dump(p)
    <2>1. [proc[p] EXCEPT !.at = "replace", !.fd = "none"] \in Writes
      BY <1>0 DEF Writes
    <2>2. proc' \in [Processes -> {Idle} \cup Writes]
      BY <1>2, <2>1, GotoIsTyped DEF Dump
    <2>3. proc[p].data \in SessionMaps
      BY <1>0 DEF Writes
    <2>4. path' \in Texts \cup {Absent} /\ tmp' \in Texts \cup {Absent} /\ ended' \subseteq Tokens
      BY <1>2, <2>3, LandedIsText, EndedIsTyped DEF Dump, Fill, Sees, TypeOK
    <2> QED BY <1>2, <2>2, <2>4 DEF Dump, TypeOK
  <1>3. CASE DumpFails(p)
    <2>1. [proc[p] EXCEPT !.at = "cleanup", !.fd = "none"] \in Writes
      BY <1>0 DEF Writes
    <2>2. proc' \in [Processes -> {Idle} \cup Writes]
      BY <1>3, <2>1, GotoIsTyped DEF DumpFails
    <2>3. path' \in Texts \cup {Absent} /\ tmp' \in Texts \cup {Absent} /\ ended' \subseteq Tokens
      BY <1>3, PartlyIsText, EndedIsTyped DEF DumpFails, Fill, Sees, TypeOK
    <2> QED BY <1>3, <2>2, <2>3 DEF DumpFails, TypeOK
  <1>4. CASE Replace(p)
    <2>1. proc' \in [Processes -> {Idle} \cup Writes]
      BY <1>4, MovedIsTyped DEF Replace
    <2>2. acked' \in SessionMaps
      BY <1>0, <1>4, MergedIsAMap DEF Replace, Writes, TypeOK
    <2>3. path' \in Texts \cup {Absent} /\ ended' \subseteq Tokens
      BY <1>4, EndedIsTyped DEF Replace, Sees, TypeOK
    <2> QED BY <1>4, <2>1, <2>2, <2>3 DEF Replace, TypeOK
  <1>5. CASE ReplaceFails(p)
    <2>1. [proc[p] EXCEPT !.at = "cleanup"] \in Writes
      BY <1>0 DEF Writes
    <2>2. proc' \in [Processes -> {Idle} \cup Writes]
      BY <1>5, <2>1, GotoIsTyped DEF ReplaceFails
    <2> QED BY <1>5, <2>2 DEF ReplaceFails, TypeOK
  <1>6. CASE Cleanup(p)
    <2>1. proc' \in [Processes -> {Idle} \cup Writes]
      BY <1>6, MovedIsTyped DEF Cleanup
    <2> QED BY <1>6, <2>1 DEF Cleanup, TypeOK
  <1>7. CASE Crash(p)
    <2>1. proc' \in [Processes -> {Idle} \cup Writes]
      BY <1>7, GotoIsTyped DEF Crash
    <2>2. path' \in Texts \cup {Absent} /\ tmp' \in Texts \cup {Absent} /\ ended' \subseteq Tokens
      BY <1>7, PartlyIsText, EndedIsTyped DEF Crash, Fill, Sees, TypeOK
    <2> QED BY <1>7, <2>1, <2>2 DEF Crash, TypeOK
  <1> QED BY <1>1, <1>2, <1>3, <1>4, <1>5, <1>6, <1>7 DEF Write

LEMMA TypeOKNext == TypeOK /\ [Next]_vars => TypeOK'
  <1> SUFFICES ASSUME TypeOK, [Next]_vars PROVE TypeOK'
    OBVIOUS
  <1>1. CASE UNCHANGED vars
    BY <1>1 DEF vars, TypeOK
  <1>2. ASSUME NEW p \in Processes, Put(p) \/ Delete(p) \/ DeleteWallet(p) \/ PurgeExpired(p)
        PROVE  TypeOK'
    <2>1. proc' \in [Processes -> {Idle} \cup Writes] /\ drawn' \subseteq Tokens
      BY <1>2, DecidingIsTyped
    <2>2. UNCHANGED <<path, tmp, now, acked, ended>>
      BY <1>2 DEF Put, Delete, DeleteWallet, PurgeExpired, Decide
    <2> QED BY <2>1, <2>2 DEF TypeOK
  <1>3. ASSUME NEW p \in Processes, Write(p) \/ Crash(p)
        PROVE  TypeOK'
    BY <1>3, WritingIsTyped
  <1>4. CASE Tick
    <2>1. now' \in Times
      BY <1>4, SessionTimesAreValid DEF Tick, TypeOK, Times
    <2> QED BY <1>4, <2>1 DEF Tick, TypeOK
  <1> QED BY <1>1, <1>2, <1>3, <1>4 DEF Next

\* The two files, the processes and the histories keep their types, whatever
\* the processes that share the file do to each other.
THEOREM FileTypeCorrect == Spec => []TypeOK
  BY TypeOKInit, TypeOKNext, PTL DEF Spec

-----------------------------------------------------------------------------
\* Of one process: the text under way is on the temporary only, and it is what
\* the call would make of what is acknowledged.
WriteUnderWay(p) ==
  /\ proc[p] # Idle => proc[p].data = Merged(Without(acked, proc[p].drop), proc[p].add)
  /\ proc[p].at = "dump" => proc[p].fd = "tmp" /\ tmp = Empty
  /\ proc[p].at = "replace" => tmp = proc[p].data

IInv(p) == TypeOK /\ NeverTorn /\ WritesAreAtomic /\ WriteUnderWay(p)

LEMMA IInvInit ==
  ASSUME NEW p \in Processes
  PROVE  Init => IInv(p)
  <1> SUFFICES ASSUME Init PROVE IInv(p)
    OBVIOUS
  <1>1. Absent \notin SessionMaps
    BY StoreIsValid
  <1> QED BY <1>1, TypeOKInit, StoreIsValid
          DEF Init, IInv, NeverTorn, WritesAreAtomic, WriteUnderWay, Read, Idle

LEMMA IInvDecide ==
  ASSUME NEW p \in Processes, IInv(p), NEW drop, NEW add, Decide(p, drop, add)
  PROVE  NeverTorn' /\ WritesAreAtomic' /\ WriteUnderWay(p)'
  <1>1. proc'[p] = [at |-> "open", data |-> Merged(Without(Read(path), drop), add),
                    drop |-> drop, add |-> add, fd |-> "none"]
    BY DEF Decide, Goto, IInv, TypeOK
  <1>2. WriteUnderWay(p)'
    BY <1>1 DEF WriteUnderWay, IInv, WritesAreAtomic, Decide
  <1> QED BY <1>2 DEF IInv, Decide, NeverTorn, WritesAreAtomic

LEMMA IInvNext ==
  ASSUME NEW p, Processes = {p}
  PROVE  IInv(p) /\ [Next]_vars => IInv(p)'
  <1> SUFFICES ASSUME IInv(p), [Next]_vars PROVE NeverTorn' /\ WritesAreAtomic' /\ WriteUnderWay(p)'
    BY TypeOKNext DEF IInv
  <1>0. proc \in [{p} -> {Idle} \cup Writes] /\ Idle.at = "idle"
    BY DEF IInv, TypeOK, Idle
  <1>1. CASE UNCHANGED vars
    BY <1>1 DEF vars, IInv, NeverTorn, WritesAreAtomic, WriteUnderWay
  <1>2. CASE Put(p) \/ Delete(p) \/ DeleteWallet(p) \/ PurgeExpired(p)
    <2>1. \E drop, add : Decide(p, drop, add)
      BY <1>2 DEF Put, Delete, DeleteWallet, PurgeExpired
    <2> QED BY <2>1, IInvDecide
  <1>3. CASE Open(p)
    <2>1. proc'[p] = [proc[p] EXCEPT !.at = "dump", !.fd = "tmp"] /\ proc[p] \in Writes
      BY <1>0, <1>3 DEF Open, Goto
    <2>2. WriteUnderWay(p)'
      BY <1>0, <1>3, <2>1 DEF Open, IInv, WriteUnderWay, Writes
    <2> QED BY <1>3, <2>2 DEF Open, IInv, NeverTorn, WritesAreAtomic
  <1>4. CASE Dump(p)
    <2>1. proc'[p] = [proc[p] EXCEPT !.at = "replace", !.fd = "none"] /\ proc[p] \in Writes
      BY <1>0, <1>4 DEF Dump, Goto
    <2>2. proc[p].fd = "tmp" /\ tmp = Empty
      BY <1>4 DEF Dump, IInv, WriteUnderWay
    <2>3. tmp' = proc[p].data /\ UNCHANGED <<path, acked>>
      BY <1>4, <2>2 DEF Dump, Fill, Landed
    <2>4. WriteUnderWay(p)'
      BY <1>0, <1>4, <2>1, <2>3 DEF Dump, IInv, WriteUnderWay, Writes
    <2> QED BY <2>3, <2>4 DEF IInv, NeverTorn, WritesAreAtomic
  <1>5. CASE DumpFails(p)
    <2>1. proc'[p] = [proc[p] EXCEPT !.at = "cleanup", !.fd = "none"] /\ proc[p] \in Writes
      BY <1>0, <1>5 DEF DumpFails, Goto
    <2>2. proc[p].fd = "tmp"
      BY <1>5 DEF DumpFails, IInv, WriteUnderWay
    <2>3. UNCHANGED <<path, acked>>
      BY <1>5, <2>2 DEF DumpFails, Fill
    <2>4. WriteUnderWay(p)'
      BY <1>0, <1>5, <2>1, <2>3 DEF DumpFails, IInv, WriteUnderWay, Writes
    <2> QED BY <2>3, <2>4 DEF IInv, NeverTorn, WritesAreAtomic
  <1>6. CASE Replace(p)
    <2>1. proc[p] \in Writes /\ proc'[p] = Idle
      BY <1>0, <1>6 DEF Replace, Moved
    <2>2. tmp = acked' /\ path' = tmp /\ tmp \in SessionMaps
      BY <1>0, <1>6, <2>1 DEF Replace, Sees, IInv, WriteUnderWay, Writes
    <2>3. NeverTorn' /\ WritesAreAtomic'
      BY <2>2, StoreIsValid DEF NeverTorn, WritesAreAtomic, Read
    <2> QED BY <1>0, <2>1, <2>3 DEF WriteUnderWay
  <1>7. CASE ReplaceFails(p)
    <2>1. proc'[p] = [proc[p] EXCEPT !.at = "cleanup"] /\ proc[p] \in Writes
      BY <1>0, <1>7 DEF ReplaceFails, Goto
    <2>2. WriteUnderWay(p)'
      BY <1>0, <1>7, <2>1 DEF ReplaceFails, IInv, WriteUnderWay, Writes
    <2> QED BY <1>7, <2>2 DEF ReplaceFails, IInv, NeverTorn, WritesAreAtomic
  <1>8. CASE Cleanup(p)
    <2>1. proc'[p] = Idle
      BY <1>8 DEF Cleanup, Moved
    <2> QED BY <1>0, <1>8, <2>1 DEF Cleanup, IInv, NeverTorn, WritesAreAtomic, WriteUnderWay
  <1>9. CASE Crash(p)
    <2>1. proc'[p] = Idle
      BY <1>0, <1>9 DEF Crash, Goto
    <2>2. UNCHANGED <<path, acked>>
      BY <1>9 DEF Crash, Fill, IInv, WriteUnderWay
    <2> QED BY <1>0, <2>1, <2>2 DEF IInv, NeverTorn, WritesAreAtomic, WriteUnderWay
  <1>10. CASE Tick
    BY <1>10 DEF Tick, IInv, NeverTorn, WritesAreAtomic, WriteUnderWay
  <1> QED BY <1>1, <1>2, <1>3, <1>4, <1>5, <1>6, <1>7, <1>8, <1>9, <1>10 DEF Next, Write

\* A file used by one process is never torn: "a crash mid-write cannot leave a
\* truncated file".
THEOREM OneWriterIsNeverTorn ==
  ASSUME NEW p, Processes = {p}
  PROVE  Spec => []NeverTorn
  <1>1. Init => IInv(p)
    BY IInvInit
  <1> QED BY <1>1, IInvNext, PTL DEF Spec, IInv

\* What its readers see is what its acknowledged calls made, no more and no
\* less, whatever failed or died in between.
THEOREM OneWriterIsAtomic ==
  ASSUME NEW p, Processes = {p}
  PROVE  Spec => []WritesAreAtomic
  <1>1. Init => IInv(p)
    BY IInvInit
  <1> QED BY <1>1, IInvNext, PTL DEF Spec, IInv

-----------------------------------------------------------------------------
\* A call that adds a session adds one whose token no reader has seen.
AddsFresh(add) ==
  \/ add = NoSessions
  \/ \E t \in drawn \ (DOMAIN acked \cup ended), s \in Session : add = With(NoSessions, t, s)
TokensAreFresh(p) ==
  /\ DOMAIN acked \cup ended \subseteq drawn
  /\ proc[p] # Idle => AddsFresh(proc[p].add)

\* What a step of the only process leaves alone.
LEMMA OnlyReplaceShows ==
  ASSUME NEW p, Processes = {p}, IInv(p), [Next]_vars, ~Replace(p)
  PROVE  UNCHANGED <<path, acked, ended>>
  <1>1. CASE UNCHANGED vars
    BY <1>1 DEF vars
  <1>2. CASE Put(p) \/ Delete(p) \/ DeleteWallet(p) \/ PurgeExpired(p)
    BY <1>2 DEF Put, Delete, DeleteWallet, PurgeExpired, Decide
  <1>3. CASE Dump(p) \/ DumpFails(p) \/ Crash(p)
    BY <1>3 DEF Dump, DumpFails, Crash, Fill, IInv, WriteUnderWay
  <1>4. CASE Open(p) \/ ReplaceFails(p) \/ Cleanup(p) \/ Tick
    BY <1>4 DEF Open, ReplaceFails, Cleanup, Tick
  <1> QED BY <1>1, <1>2, <1>3, <1>4 DEF Next, Write

\* What a replace shows: the acknowledged sessions without the dropped, and the new.
LEMMA ReplaceShows ==
  ASSUME NEW p, Processes = {p}, IInv(p), TokensAreFresh(p), Replace(p)
  PROVE  /\ proc[p] # Idle /\ proc'[p] = Idle /\ drawn' = drawn
         /\ Read(path) = acked /\ Read(path') = acked'
         /\ acked' = Merged(Without(acked, proc[p].drop), proc[p].add)
         /\ ended' = ended \cup (DOMAIN acked \ DOMAIN acked')
         /\ AddsFresh(proc[p].add)
  <1>0. proc \in [{p} -> {Idle} \cup Writes] /\ Idle.at = "idle"
    BY DEF IInv, TypeOK, Idle
  <1>1. proc[p] \in Writes /\ proc[p] # Idle /\ proc'[p] = Idle /\ drawn' = drawn
    BY <1>0 DEF Replace, Moved
  <1>2. /\ acked' = Merged(Without(acked, proc[p].drop), proc[p].add)
        /\ proc[p].data = acked' /\ tmp = proc[p].data /\ path' = tmp
    BY <1>1 DEF Replace, Sees, IInv, WriteUnderWay
  <1>3. Read(path) = acked
    BY DEF IInv, WritesAreAtomic
  <1>4. Read(path') = acked' /\ Read(tmp) = acked'
    BY <1>1, <1>2 DEF Read, Writes
  <1>5. ended' = ended \cup (DOMAIN Read(path) \ DOMAIN Read(tmp))
    BY DEF Replace, Sees
  <1>6. ended' = ended \cup (DOMAIN acked \ DOMAIN acked')
    BY <1>3, <1>4, <1>5
  <1> QED BY <1>1, <1>2, <1>3, <1>4, <1>6 DEF TokensAreFresh

LEMMA FreshTokens ==
  ASSUME NEW p, Processes = {p}, IInv(p), TokensAreFresh(p), [Next]_vars
  PROVE  TokensAreFresh(p)'
  <1>0. proc \in [{p} -> {Idle} \cup Writes] /\ Idle.at = "idle" /\ now \in Times
    BY DEF IInv, TypeOK, Idle
  <1>1. CASE Replace(p)
    <2>1. PICK add, drop : add = proc[p].add /\ drop = proc[p].drop
      OBVIOUS
    <2>2. acked' = Merged(Without(acked, drop), add) /\ AddsFresh(add)
      BY <1>1, <2>1, ReplaceShows
    <2>3. DOMAIN acked' = (DOMAIN acked \ drop) \cup DOMAIN add
      BY <2>2 DEF Merged, Without
    <2>4. DOMAIN NoSessions = {} /\ \A t, s : DOMAIN With(NoSessions, t, s) = {t}
      BY DEF With, NoSessions
    <2>5. DOMAIN add \subseteq drawn
      BY <2>2, <2>4 DEF AddsFresh
    <2> QED BY <1>1, <2>3, <2>5, ReplaceShows DEF TokensAreFresh
  <1>2. CASE Put(p)
    <2>1. PICK t \in Tokens \ drawn, w \in Wallets, drop \in Evicted(Read(path)) :
            /\ drawn' = drawn \cup {t}
            /\ Decide(p, drop, With(NoSessions, t, NewSession(w, now)))
      BY <1>2 DEF Put
    <2>2. now + TTL \in 0 .. MaxTime + TTL
      BY <1>0, SessionTimesAreValid DEF Times
    <2>3. NewSession(w, now) \in Session
      BY <2>2 DEF NewSession, Session
    <2>4. proc'[p].add = With(NoSessions, t, NewSession(w, now)) /\ UNCHANGED <<acked, ended>>
      BY <1>0, <2>1 DEF Decide, Goto
    <2>5. t \in drawn' \ (DOMAIN acked' \cup ended')
      BY <2>1, <2>4 DEF TokensAreFresh
    <2>6. AddsFresh(proc[p].add)'
      BY <2>3, <2>4, <2>5 DEF AddsFresh
    <2> QED BY <2>1, <2>4, <2>6 DEF TokensAreFresh
  <1>3. CASE Delete(p) \/ DeleteWallet(p) \/ PurgeExpired(p)
    <2>1. PICK drop : Decide(p, drop, NoSessions)
      BY <1>3 DEF Delete, DeleteWallet, PurgeExpired
    <2>2. proc'[p].add = NoSessions /\ UNCHANGED <<drawn, acked, ended>>
      BY <1>0, <1>3, <2>1 DEF Decide, Goto, Delete, DeleteWallet, PurgeExpired
    <2> QED BY <2>2 DEF TokensAreFresh, AddsFresh
  <1>4. CASE /\ ~Replace(p)
             /\ ~(Put(p) \/ Delete(p) \/ DeleteWallet(p) \/ PurgeExpired(p))
    <2>1. UNCHANGED <<acked, ended>>
      BY <1>4, OnlyReplaceShows
    <2>2. drawn' = drawn
      BY <1>4 DEF Next, Write, Open, Dump, DumpFails, ReplaceFails, Cleanup, Crash, Tick, vars
    <2>3. proc'[p] # Idle => proc[p] # Idle /\ proc'[p].add = proc[p].add
      <3>1. CASE UNCHANGED vars \/ Tick
        BY <3>1 DEF vars, Tick
      <3>2. CASE Open(p)
        BY <1>0, <3>2 DEF Open, Goto, Writes
      <3>3. CASE Dump(p)
        BY <1>0, <3>3 DEF Dump, Goto, Writes
      <3>4. CASE DumpFails(p)
        BY <1>0, <3>4 DEF DumpFails, Goto, Writes
      <3>5. CASE ReplaceFails(p)
        BY <1>0, <3>5 DEF ReplaceFails, Goto, Writes
      <3>6. CASE Cleanup(p)
        BY <1>0, <3>6 DEF Cleanup, Moved
      <3>7. CASE Crash(p)
        BY <1>0, <3>7 DEF Crash, Goto
      <3> QED BY <1>4, <3>1, <3>2, <3>3, <3>4, <3>5, <3>6, <3>7 DEF Next, Write
    <2>4. AddsFresh(proc[p].add)' <=> AddsFresh(proc'[p].add)
      BY <2>1, <2>2 DEF AddsFresh
    <2> QED BY <2>1, <2>2, <2>3, <2>4 DEF TokensAreFresh
  <1> QED BY <1>1, <1>2, <1>3, <1>4

\* A replace starts the session it adds, or ends those it drops; no other step
\* of the only process is seen.
LEMMA StepImplements ==
  ASSUME NEW p, Processes = {p}, IInv(p), TokensAreFresh(p), [Next]_vars
  PROVE  [Lives!Next]_<<Read(path), DOMAIN Read(path) \cup ended>>
  <1>1. CASE ~Replace(p)
    BY <1>1, OnlyReplaceShows DEF Read
  <1>2. CASE Replace(p)
    <2> DEFINE add == proc[p].add
               dropped == proc[p].drop \cap DOMAIN acked
    <2>1. /\ Read(path) = acked /\ Read(path)' = acked'
          /\ acked' = Merged(Without(acked, proc[p].drop), add)
          /\ ended' = ended \cup (DOMAIN acked \ DOMAIN acked')
          /\ AddsFresh(add)
      BY <1>2, ReplaceShows DEF Read
    <2>2. Without(acked, proc[p].drop) = Without(acked, dropped)
      <3>1. DOMAIN acked \ proc[p].drop = DOMAIN acked \ dropped
        OBVIOUS
      <3> QED BY <3>1 DEF Without
    <2>3. acked' = Merged(Without(acked, dropped), add)
      BY <2>1, <2>2
    <2>4. DOMAIN acked' = (DOMAIN acked \ dropped) \cup DOMAIN add
      <3> HIDE DEF add, dropped
      <3> QED BY <2>3 DEF Merged, Without
    <2>5. (DOMAIN Read(path) \cup ended)' = DOMAIN acked' \cup ended'
      BY <2>1
    <2> HIDE DEF add, dropped
    <2>6. CASE add = NoSessions
      <3>1. DOMAIN add = {}
        BY <2>6 DEF NoSessions
      <3>2. acked' = Without(acked, dropped)
        BY <2>3, <3>1 DEF Merged, Without
      <3>3. DOMAIN acked' \cup ended' = DOMAIN acked \cup ended
        BY <2>1, <2>4, <3>1
      <3>4. Lives!End(dropped)
        BY <2>1, <2>5, <3>2, <3>3 DEF Lives!End, Lives!Without, Without
      <3> QED BY <2>1, <3>4 DEF Lives!Next, dropped
    <2>7. CASE add # NoSessions
      <3>1. PICK t \in drawn \ (DOMAIN acked \cup ended), s \in Session : add = With(NoSessions, t, s)
        BY <2>1, <2>7 DEF AddsFresh
      <3>2. DOMAIN add = {t} /\ add[t] = s
        BY <3>1 DEF With, NoSessions
      <3>3. acked' = With(Without(acked, dropped), t, s)
        BY <2>3, <3>2 DEF Merged, With, Without
      <3>4. DOMAIN acked' \cup ended' = (DOMAIN acked \cup ended) \cup {t}
        BY <2>1, <2>4, <3>2
      <3>5. t \notin DOMAIN acked \cup ended /\ t \in Tokens
        BY <3>1 DEF IInv, TypeOK
      <3>6. Lives!Start(t, s, dropped)
        BY <2>1, <2>5, <3>3, <3>4, <3>5
           DEF Lives!Start, Lives!With, Lives!Without, With, Without
      <3> QED BY <2>1, <3>1, <3>5, <3>6 DEF Lives!Next, Lives!Session, Session, dropped
    <2> QED BY <2>6, <2>7
  <1> QED BY <1>1, <1>2

\* To its readers a file used by one process is a store of session lives, the
\* one SessionService promises, wherever the process fails or dies: a session
\* starts once, is not altered, and does not come back.
THEOREM OneWriterImplementsLives ==
  ASSUME NEW p, Processes = {p}
  PROVE  Spec => ImplementsLives
  <1>1. Init => IInv(p) /\ TokensAreFresh(p)
    <2>1. DOMAIN NoSessions = {}
      BY DEF NoSessions
    <2> QED BY <2>1, IInvInit DEF Init, TokensAreFresh
  <1>2. IInv(p) /\ TokensAreFresh(p) /\ [Next]_vars => (IInv(p) /\ TokensAreFresh(p))'
    BY IInvNext, FreshTokens
  <1>3. Init => Lives!Init
    <2>1. SUFFICES ASSUME Init PROVE Lives!Init
      OBVIOUS
    <2>2. Read(path) = NoSessions /\ DOMAIN NoSessions = {} /\ ended = {}
      BY <2>1, StoreIsValid DEF Init, Read, NoSessions
    <2> QED BY <2>2 DEF Lives!Init, Lives!NoSessions, NoSessions
  <1>4. IInv(p) /\ TokensAreFresh(p) /\ [Next]_vars
          => [Lives!Next]_<<Read(path), DOMAIN Read(path) \cup ended>>
    BY StepImplements
  <1> QED BY <1>1, <1>2, <1>3, <1>4, PTL DEF Spec, ImplementsLives, Lives!Spec

-----------------------------------------------------------------------------
Fits(T) == IsFiniteSet(T) /\ Cardinality(T) <= MaxSessions

\* Every text that may come to be read fits: a torn or missing one reads as
\* empty, the others were decided by a call that kept the limit.
AllFit ==
  /\ Fits(DOMAIN Read(path)) /\ Fits(DOMAIN Read(tmp))
  /\ \A p \in Processes : proc[p] # Idle => Fits(DOMAIN proc[p].data)

LEMMA NothingFits == Fits(DOMAIN NoSessions)
  <1>1. DOMAIN NoSessions = {}
    BY DEF NoSessions
  <1> QED BY <1>1, FS_EmptySet, StoreIsValid DEF Fits

LEMMA FewerFit ==
  ASSUME NEW T, Fits(T), NEW S \in SUBSET T
  PROVE  Fits(S)
  BY FS_Subset, FS_CardinalityType, StoreIsValid DEF Fits

LEMMA OneMoreFits ==
  ASSUME NEW T, IsFiniteSet(T), Cardinality(T) < MaxSessions, NEW t
  PROVE  Fits(T \cup {t})
  <1>1. /\ IsFiniteSet(T \cup {t})
        /\ Cardinality(T \cup {t}) = IF t \in T THEN Cardinality(T) ELSE Cardinality(T) + 1
    BY FS_AddElement
  <1>2. Cardinality(T) \in Nat
    BY FS_CardinalityType
  <1> QED BY <1>1, <1>2, StoreIsValid DEF Fits

\* After the eviction a file within the limit has room for one more.
LEMMA EvictionMakesRoom ==
  ASSUME NEW map, Fits(DOMAIN map), NEW drop \in Evicted(map)
  PROVE  /\ IsFiniteSet(DOMAIN map \ drop)
         /\ Cardinality(DOMAIN map \ drop) < MaxSessions
  <1> DEFINE fresh == Without(map, Stale(map))
  <1>1. DOMAIN fresh = DOMAIN map \ Stale(map)
    BY DEF Without
  <1>2. Fits(DOMAIN fresh)
    BY <1>1, FewerFit
  <1>3. Cardinality(DOMAIN map) \in Nat /\ Cardinality(DOMAIN fresh) \in Nat
    BY <1>2, FS_CardinalityType DEF Fits
  <1>4. CASE ~IsFull(map)
    <2>1. DOMAIN map \ drop = DOMAIN map
      BY <1>4 DEF Evicted
    <2> QED BY <1>3, <1>4, <2>1, StoreIsValid DEF IsFull, Fits
  <1>5. CASE IsFull(map) /\ ~IsFull(fresh)
    <2>1. DOMAIN map \ drop = DOMAIN fresh
      BY <1>1, <1>5 DEF Evicted
    <2> QED BY <1>2, <1>3, <1>5, <2>1, StoreIsValid DEF IsFull, Fits
  <1>6. CASE IsFull(map) /\ IsFull(fresh)
    <2>1. PICK t \in DOMAIN fresh : drop = Stale(map) \cup {t}
      BY <1>6 DEF Evicted, Oldest
    <2>2. DOMAIN map \ drop = DOMAIN fresh \ {t}
      BY <1>1, <2>1
    <2>3. /\ IsFiniteSet(DOMAIN fresh \ {t})
          /\ Cardinality(DOMAIN fresh \ {t}) = Cardinality(DOMAIN fresh) - 1
      BY <1>2, <2>1, FS_RemoveElement DEF Fits
    <2>4. Cardinality(DOMAIN fresh \ {t}) < MaxSessions
      <3> HIDE DEF fresh
      <3> QED BY <1>2, <1>3, <2>3, StoreIsValid DEF Fits
    <2> QED BY <2>2, <2>3, <2>4
  <1> QED BY <1>4, <1>5, <1>6

\* What a call means to write fits if the file it read does.
LEMMA DecisionsFit ==
  ASSUME TypeOK, AllFit, NEW p \in Processes,
         Put(p) \/ Delete(p) \/ DeleteWallet(p) \/ PurgeExpired(p)
  PROVE  AllFit'
  <1> DEFINE map == Read(path)
  <1>0. ASSUME NEW drop, NEW add, Decide(p, drop, add),
               Fits((DOMAIN map \ drop) \cup DOMAIN add)
        PROVE  AllFit'
    <2>1. DOMAIN Merged(Without(map, drop), add) = (DOMAIN map \ drop) \cup DOMAIN add
      BY DEF Merged, Without
    <2>2. proc'[p].data = Merged(Without(map, drop), add)
      BY <1>0 DEF Decide, Goto, TypeOK
    <2>3. \A q \in Processes \ {p} : proc'[q] = proc[q]
      BY <1>0 DEF Decide, Goto, TypeOK
    <2>4. Fits(DOMAIN proc'[p].data)
      BY <1>0, <2>1, <2>2
    <2>5. UNCHANGED <<path, tmp>>
      BY <1>0 DEF Decide
    <2> QED BY <2>3, <2>4, <2>5 DEF AllFit
  <1>1. CASE Put(p)
    <2>1. PICK t \in Tokens, w \in Wallets, drop \in Evicted(map) :
            Decide(p, drop, With(NoSessions, t, NewSession(w, now)))
      BY <1>1 DEF Put
    <2>2. DOMAIN With(NoSessions, t, NewSession(w, now)) = {t}
      BY DEF With, NoSessions
    <2>3. Fits((DOMAIN map \ drop) \cup {t})
      BY EvictionMakesRoom, OneMoreFits DEF AllFit
    <2> QED BY <1>0, <2>1, <2>2, <2>3
  <1>2. CASE Delete(p) \/ DeleteWallet(p) \/ PurgeExpired(p)
    <2>1. PICK drop : Decide(p, drop, NoSessions)
      BY <1>2 DEF Delete, DeleteWallet, PurgeExpired
    <2>2. (DOMAIN map \ drop) \cup DOMAIN NoSessions = DOMAIN map \ drop
      BY DEF NoSessions
    <2>3. Fits(DOMAIN map \ drop)
      BY FewerFit DEF AllFit
    <2> QED BY <1>0, <2>1, <2>2, <2>3
  <1> QED BY <1>1, <1>2

\* A text that lands whole or in part reads as itself, as before, or as empty.
LEMMA FillFits ==
  ASSUME AllFit, NEW p \in Processes, proc[p] # Idle,
         \/ Fill(p, LAMBDA old : Landed(old, proc[p].data))
         \/ Fill(p, Partly)
  PROVE  Fits(DOMAIN Read(path)') /\ Fits(DOMAIN Read(tmp)')
  <1>1. Fits(DOMAIN Read(Garbled))
    BY NothingFits, StoreIsValid DEF Read
  <1>2. Fits(DOMAIN Read(proc[p].data))
    BY NothingFits DEF AllFit, Read
  <1>3. path' \in {path, Garbled, proc[p].data} /\ tmp' \in {tmp, Garbled, proc[p].data}
    BY DEF Fill, Landed, Partly, Sees
  <1>4. Fits(DOMAIN Read(path')) /\ Fits(DOMAIN Read(tmp'))
    BY <1>1, <1>2, <1>3 DEF AllFit
  <1> QED BY <1>4 DEF Read

\* No frame's data changes after its call decided what to write.
LEMMA WritingFits ==
  ASSUME TypeOK, AllFit, NEW p \in Processes, Write(p) \/ Crash(p)
  PROVE  AllFit'
  <1>0. proc[p] # Idle /\ proc[p] \in Writes
    <2>1. proc[p] \in {Idle} \cup Writes /\ Idle.at = "idle"
      BY DEF TypeOK, Idle
    <2> QED BY <2>1 DEF Write, Crash, Open, Dump, DumpFails, Replace, ReplaceFails, Cleanup
  <1>1. ASSUME NEW q \in Processes, proc'[q] # Idle
        PROVE  proc[q] # Idle /\ proc'[q].data = proc[q].data
    <2>1. ASSUME NEW to, Moved(p, to) PROVE proc[q] # Idle /\ proc'[q].data = proc[q].data
      <3>1. proc[q] # Idle /\ proc'[q] = [proc[q] EXCEPT !.fd = to[@]]
        BY <1>1, <2>1 DEF Moved
      <3>2. proc[q] \in Writes
        BY <3>1 DEF TypeOK
      <3> QED BY <3>1, <3>2 DEF Writes
    <2>2. ASSUME NEW f, Goto(p, f), f = Idle \/ f.data = proc[p].data
          PROVE  proc[q] # Idle /\ proc'[q].data = proc[q].data
      BY <1>0, <1>1, <2>2 DEF Goto, TypeOK
    <2>3. CASE Open(p)
      <3>1. [proc[p] EXCEPT !.at = "dump", !.fd = "tmp"].data = proc[p].data
        BY <1>0 DEF Writes
      <3> QED BY <2>2, <2>3, <3>1 DEF Open
    <2>4. CASE Dump(p)
      <3>1. [proc[p] EXCEPT !.at = "replace", !.fd = "none"].data = proc[p].data
        BY <1>0 DEF Writes
      <3> QED BY <2>2, <2>4, <3>1 DEF Dump
    <2>5. CASE DumpFails(p)
      <3>1. [proc[p] EXCEPT !.at = "cleanup", !.fd = "none"].data = proc[p].data
        BY <1>0 DEF Writes
      <3> QED BY <2>2, <2>5, <3>1 DEF DumpFails
    <2>6. CASE ReplaceFails(p)
      <3>1. [proc[p] EXCEPT !.at = "cleanup"].data = proc[p].data
        BY <1>0 DEF Writes
      <3> QED BY <2>2, <2>6, <3>1 DEF ReplaceFails
    <2>7. CASE Replace(p) \/ Cleanup(p)
      BY <2>1, <2>7 DEF Replace, Cleanup
    <2>8. CASE Crash(p)
      BY <2>2, <2>8 DEF Crash
    <2> QED BY <2>3, <2>4, <2>5, <2>6, <2>7, <2>8 DEF Write
  <1>2. Fits(DOMAIN Read(Empty)) /\ Fits(DOMAIN Read(Absent))
    BY NothingFits, StoreIsValid DEF Read
  <1>3. Fits(DOMAIN Read(path)') /\ Fits(DOMAIN Read(tmp)')
    <2>1. CASE Open(p)
      BY <1>2, <2>1 DEF Open, AllFit, Read
    <2>2. CASE Dump(p) \/ DumpFails(p) \/ (Crash(p) /\ proc[p].at = "dump")
      BY <1>0, <2>2, FillFits DEF Dump, DumpFails, Crash
    <2>3. CASE Replace(p)
      BY <1>2, <2>3 DEF Replace, Sees, AllFit, Read
    <2>4. CASE ReplaceFails(p) \/ (Crash(p) /\ proc[p].at # "dump")
      BY <2>4 DEF ReplaceFails, Crash, AllFit, Read
    <2>5. CASE Cleanup(p)
      BY <1>2, <2>5 DEF Cleanup, AllFit, Read
    <2> QED BY <2>1, <2>2, <2>3, <2>4, <2>5 DEF Write
  <1> QED BY <1>1, <1>3 DEF AllFit

\* The file holds at most max_sessions sessions, although processes that do not
\* share a lock decide on files they read before the others replaced them.
THEOREM FileStaysBounded == Spec => []FileIsBounded
  <1>1. Init => AllFit
    BY NothingFits, StoreIsValid DEF Init, AllFit, Read
  <1>2. TypeOK /\ AllFit /\ [Next]_vars => AllFit'
    <2> SUFFICES ASSUME TypeOK, AllFit, [Next]_vars PROVE AllFit'
      OBVIOUS
    <2>1. CASE Tick \/ UNCHANGED vars
      BY <2>1 DEF Tick, vars, AllFit, Read
    <2>2. ASSUME NEW p \in Processes, Put(p) \/ Delete(p) \/ DeleteWallet(p) \/ PurgeExpired(p)
          PROVE  AllFit'
      BY <2>2, DecisionsFit
    <2>3. ASSUME NEW p \in Processes, Write(p) \/ Crash(p) PROVE AllFit'
      BY <2>3, WritingFits
    <2> QED BY <2>1, <2>2, <2>3 DEF Next
  <1>3. AllFit => FileIsBounded
    BY DEF AllFit, Fits, FileIsBounded
  <1> QED BY <1>1, <1>2, <1>3, FileTypeCorrect, PTL DEF Spec
=============================================================================
