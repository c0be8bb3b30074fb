------------------------- MODULE TelegramLoop_proofs --------------------------
(***************************************************************************)
(* The safety properties of the polling loop and of its rate limiter, for  *)
(* any number of players, updates and buckets.                             *)
(***************************************************************************)
EXTENDS TelegramLoop, FiniteSetTheorems, TLAPS

-----------------------------------------------------------------------------
\* The limiter.  Its bounds and its exactness are kept together: that a bucket
\* has not more than it is said to have bounds what is written back.
Limited ==
  /\ LimiterTypeOK
  /\ IsFiniteSet(DOMAIN buckets) /\ BucketsAreBounded
  /\ BucketsMatchEagerOnes

LEMMA NothingLimited == LimiterInit => Limited
  <1> SUFFICES ASSUME LimiterInit PROVE Limited
    OBVIOUS
  <1>1. DOMAIN buckets = {} /\ eager = [u \in Users |-> Capacity]
    BY DEF LimiterInit, NoBuckets, AllFull
  <1>2. IsFiniteSet(DOMAIN buckets) /\ Cardinality(DOMAIN buckets) = 0
    BY <1>1, FS_EmptySet
  <1> QED BY <1>1, <1>2, LimiterIsPositive
      DEF Limited, LimiterTypeOK, BucketsAreBounded, BucketsMatchEagerOnes, Level

LEMMA TickLimited == ASSUME Limited, LimiterTick PROVE Limited'
  <1>1. DOMAIN buckets' = DOMAIN buckets
    BY DEF LimiterTick
  <1>2. \A u \in DOMAIN buckets :
          /\ buckets'[u].tokens = buckets[u].tokens
          /\ buckets'[u].age = Older(buckets[u].age)
          /\ buckets'[u] \in [tokens : 0 .. Capacity, age : Ages]
    BY LimiterIsPositive DEF LimiterTick, Limited, LimiterTypeOK, Older, Least, Ages, FullAfter
  <1>3. LimiterTypeOK'
    <2>1. \A u \in Users : Least(Capacity, eager[u] + 1) \in Int
      BY LimiterIsPositive DEF Limited, LimiterTypeOK, Least
    <2>2. eager' \in [Users -> Int]
      BY <2>1 DEF LimiterTick
    <2> QED BY <1>1, <1>2, <2>2 DEF Limited, LimiterTypeOK
  <1>4. ASSUME NEW u \in Users PROVE (Level(u) = eager[u] /\ eager[u] >= 0)'
    <2>1. Level(u) = eager[u] /\ eager[u] >= 0 /\ eager[u] \in Int
      BY DEF Limited, BucketsMatchEagerOnes, LimiterTypeOK
    <2>2. eager'[u] = Least(Capacity, eager[u] + 1)
      BY DEF LimiterTick
    <2>3. CASE u \in DOMAIN buckets
      <3>1. buckets[u].tokens \in 0 .. Capacity /\ buckets[u].age \in 0 .. Capacity + 1
        BY <2>3 DEF Limited, LimiterTypeOK, Ages, FullAfter
      <3>2. Level(u)' = Least(Capacity, buckets[u].tokens + Older(buckets[u].age))
        BY <1>1, <1>2, <2>3 DEF Level
      <3>3. Level(u) = Least(Capacity, buckets[u].tokens + buckets[u].age)
        BY <2>3 DEF Level
      <3> QED BY <2>1, <2>2, <3>1, <3>2, <3>3, LimiterIsPositive DEF Least, Older, FullAfter
    <2>4. CASE u \notin DOMAIN buckets
      BY <1>1, <2>1, <2>2, <2>4, LimiterIsPositive DEF Level, Least
    <2> QED BY <2>3, <2>4
  <1> QED BY <1>1, <1>3, <1>4 DEF Limited, BucketsAreBounded, BucketsMatchEagerOnes

\* An eviction takes known users, makes room where there was none, and what it
\* takes without displacing it was full.
LEMMA EvictionMakesRoom ==
  ASSUME Limited, NEW gone \in Evicted
  PROVE  /\ gone \subseteq DOMAIN buckets
         /\ IsCrowded => gone # {}
         /\ \A u \in gone \ (gone \ Stale) : Level(u) = Capacity
  <1>1. (gone = {} /\ ~IsCrowded) \/ (gone = Stale /\ gone # {}) \/ \E u \in Oldest : gone = {u}
    <2>1. CASE ~IsCrowded
      <3>1. Evicted = {{}}
        BY <2>1 DEF Evicted
      <3> QED BY <2>1, <3>1, Zenon
    <2>2. CASE IsCrowded /\ Stale # {}
      BY <2>2 DEF Evicted
    <2>3. CASE IsCrowded /\ Stale = {}
      BY <2>3 DEF Evicted
    <2> QED BY <2>1, <2>2, <2>3
  <1>2. \A u \in Stale : u \in DOMAIN buckets /\ Level(u) = Capacity
    <2> SUFFICES ASSUME NEW u \in Stale PROVE u \in DOMAIN buckets /\ Level(u) = Capacity
      OBVIOUS
    <2>1. u \in DOMAIN buckets /\ buckets[u].age > Capacity
      BY DEF Stale, FullAfter
    <2>2. buckets[u].tokens \in 0 .. Capacity /\ buckets[u].age \in 0 .. Capacity + 1
      BY <2>1 DEF Limited, LimiterTypeOK, Ages, FullAfter
    <2> QED BY <2>1, <2>2, LimiterIsPositive DEF Level, Least
  <1> QED BY <1>1, <1>2 DEF Oldest

LEMMA CheckLimited ==
  ASSUME Limited, NEW u \in Users, NEW admitted \in BOOLEAN, Check(u, admitted)
  PROVE  Limited'
  <1>1. PICK gone \in Evicted :
          LET level == IF u \in gone THEN Capacity ELSE Level(u)
              rest == IF admitted THEN level - Cost ELSE level
              displaced == gone \ Stale
          IN  /\ admitted <=> level >= Cost
              /\ buckets' = [v \in (DOMAIN buckets \ gone) \cup {u} |->
                               IF v = u THEN [tokens |-> rest, age |-> 0] ELSE buckets[v]]
              /\ eager' = [v \in Users |->
                   LET before == IF v \in displaced THEN Capacity ELSE eager[v]
                   IN  IF v = u /\ admitted THEN before - Cost ELSE before]
    BY Zenon DEF Check
  <1> DEFINE level == IF u \in gone THEN Capacity ELSE Level(u)
             rest == IF admitted THEN level - Cost ELSE level
             before(v) == IF v \in gone \ Stale THEN Capacity ELSE eager[v]
  <1>2. /\ admitted <=> level >= Cost
        /\ DOMAIN buckets' = (DOMAIN buckets \ gone) \cup {u}
        /\ buckets'[u] = [tokens |-> rest, age |-> 0]
        /\ \A v \in DOMAIN buckets \ (gone \cup {u}) : buckets'[v] = buckets[v]
        /\ eager' = [v \in Users |-> IF v = u /\ admitted THEN before(v) - Cost ELSE before(v)]
        /\ \A v \in Users : eager'[v] = IF v = u /\ admitted THEN before(v) - Cost ELSE before(v)
    BY <1>1
  <1>3. /\ gone \subseteq DOMAIN buckets
        /\ IsCrowded => gone # {}
        /\ \A v \in gone \ (gone \ Stale) : Level(v) = Capacity
    BY EvictionMakesRoom
  <1>4. \A v \in Users : Level(v) = eager[v] /\ eager[v] \in 0 .. Capacity
    <2> SUFFICES ASSUME NEW v \in Users PROVE Level(v) = eager[v] /\ eager[v] \in 0 .. Capacity
      OBVIOUS
    <2>1. Level(v) = eager[v] /\ eager[v] >= 0 /\ eager[v] \in Int
      BY DEF Limited, BucketsMatchEagerOnes, LimiterTypeOK
    <2>2. v \in DOMAIN buckets => buckets[v].tokens \in 0 .. Capacity /\ buckets[v].age \in 0 .. Capacity + 1
      BY DEF Limited, LimiterTypeOK, Ages, FullAfter
    <2> QED BY <2>1, <2>2, LimiterIsPositive DEF Level, Least
  <1>5. \A v \in Users : before(v) \in 0 .. Capacity /\ before(v) = IF v \in gone THEN Capacity ELSE Level(v)
    BY <1>3, <1>4, LimiterIsPositive
  <1>6. level = before(u) /\ rest \in 0 .. Capacity
    BY <1>2, <1>5, LimiterIsPositive
  <1>7. LimiterTypeOK'
    <2>1. DOMAIN buckets' \subseteq Users
      BY <1>2 DEF Limited, LimiterTypeOK
    <2>2. \A v \in DOMAIN buckets' : buckets'[v] \in [tokens : 0 .. Capacity, age : Ages]
      BY <1>2, <1>6, LimiterIsPositive DEF Limited, LimiterTypeOK, Ages, FullAfter
    <2>3. eager' \in [Users -> Int]
      BY <1>2, <1>5, LimiterIsPositive
    <2> QED BY <2>1, <2>2, <2>3 DEF LimiterTypeOK
  <1>8. IsFiniteSet(DOMAIN buckets') /\ Cardinality(DOMAIN buckets') <= MaxBuckets
    <2> DEFINE D == DOMAIN buckets
    <2> HIDE DEF level, rest, before
    <2>1. IsFiniteSet(D) /\ Cardinality(D) \in Nat /\ Cardinality(D) <= MaxBuckets
      BY FS_CardinalityType DEF Limited, BucketsAreBounded
    <2>2. IsFiniteSet(D \ gone) /\ Cardinality(D \ gone) <= Cardinality(D)
            /\ (Cardinality(D) = Cardinality(D \ gone) => D = D \ gone)
      BY <2>1, FS_Subset
    <2>3. Cardinality(D \ gone) \in Nat
      BY <2>2, FS_CardinalityType
    <2>4. Cardinality(D \ gone) < MaxBuckets
      <3>1. CASE IsCrowded
        <4>1. D # D \ gone
          BY <1>3, <3>1
        <4> QED BY <2>1, <2>2, <2>3, <4>1, LimiterIsPositive
      <3>2. CASE ~IsCrowded
        BY <2>1, <2>2, <2>3, <3>2, LimiterIsPositive DEF IsCrowded
      <3> QED BY <3>1, <3>2
    <2>5. /\ IsFiniteSet((D \ gone) \cup {u})
          /\ Cardinality((D \ gone) \cup {u}) <= Cardinality(D \ gone) + 1
      BY <2>2, <2>3, FS_AddElement
    <2>6. Cardinality((D \ gone) \cup {u}) \in Nat
      BY <2>5, FS_CardinalityType
    <2> QED BY <1>2, <2>3, <2>4, <2>5, <2>6, LimiterIsPositive
  <1>9. ASSUME NEW v \in Users PROVE (Level(v) = eager[v] /\ eager[v] >= 0)'
    <2>1. CASE v = u
      <3>1. Level(v)' = Least(Capacity, rest + 0)
        BY <1>2, <2>1 DEF Level
      <3>2. eager'[v] = rest
        BY <1>2, <1>6, <2>1
      <3> QED BY <1>6, <3>1, <3>2, LimiterIsPositive DEF Least
    <2>2. CASE v # u
      <3>1. eager'[v] = before(v)
        BY <1>2, <2>2
      <3>2. CASE v \in DOMAIN buckets \ gone
        <4>1. v \in DOMAIN buckets' /\ buckets'[v] = buckets[v]
          BY <1>2, <2>2, <3>2
        <4>2. Level(v)' = Level(v)
          BY <3>2, <4>1 DEF Level
        <4> QED BY <1>4, <1>5, <3>1, <3>2, <4>2
      <3>3. CASE v \notin DOMAIN buckets \ gone
        <4>1. v \notin DOMAIN buckets'
          BY <1>2, <2>2, <3>3
        <4>2. Level(v)' = Capacity
          BY <4>1 DEF Level
        <4>3. before(v) = Capacity
          BY <1>3, <1>5, <3>3 DEF Level
        <4> QED BY <3>1, <4>2, <4>3, LimiterIsPositive
      <3> QED BY <3>2, <3>3
    <2> QED BY <2>1, <2>2
  <1> QED BY <1>7, <1>8, <1>9 DEF Limited, BucketsAreBounded, BucketsMatchEagerOnes

-----------------------------------------------------------------------------
\* The loop.  All below the offset and all that was acknowledged was handled; a
\* batch is a run of updates that begins where what was handled ends, and lies
\* beyond what this process has handled.
Progress ==
  /\ \A id \in Ids : id <= acked \/ id < offset => id \in handled
  /\ \A id \in Ids : times[id] <= 1 /\ (times[id] > 0 => id < offset)
  /\ offset <= Len(updates) + 1
  /\ \A i \in 1 .. Len(batch) : batch[i] = batch[1] + (i - 1)
  /\ batch # << >> => batch[1] >= offset /\ \A id \in Ids : id < batch[1] => id \in handled

IInv == TypeOK /\ Limited /\ Progress

Acts == {"send", "answer", "edit"}

LEMMA IInvInit == Init => IInv
  <1> SUFFICES ASSUME Init PROVE IInv
    OBVIOUS
  <1>1. Limited
    BY NothingLimited DEF Init
  <1>2. TypeOK
    <2>1. LimiterTypeOK
      BY <1>1 DEF Limited
    <2>2. updates \in Seq(Users) /\ Len(updates) = 0 /\ batch \in Seq(1 .. Len(updates)) /\ actions \in Seq(Acts)
      BY DEF Init
    <2>3. times \in [Ids -> 0 .. 2]
      BY DEF Init, Unhandled
    <2>4. /\ acked \in 0 .. Len(updates) /\ Len(updates) <= MaxUpdates /\ offset \in 0 .. MaxUpdates + 1
          /\ failures \in 0 .. MaxFailures - 1 /\ ends \in 0 .. MaxEnds
      BY <2>2, LoopIsPositive DEF Init
    <2>5. /\ up \in BOOLEAN /\ revoked \in BOOLEAN /\ blocked \subseteq Users /\ handled \subseteq Ids
          /\ pc \in {"starting", "looping", "handling", "ended"} /\ code \in Codes /\ stopping \in BOOLEAN
      BY DEF Init, Codes
    <2> QED BY <2>1, <2>2, <2>3, <2>4, <2>5 DEF TypeOK, Acts
  <1>3. Progress
    BY LoopIsPositive DEF Init, Progress, Unhandled, Ids
  <1> QED BY <1>1, <1>2, <1>3 DEF IInv

\* What is left alone by a step that the limiter has no part in.
LEMMA LimiterRests == ASSUME Limited, UNCHANGED limiter PROVE Limited'
  BY DEF limiter, Limited, LimiterTypeOK, BucketsAreBounded, BucketsMatchEagerOnes, Level

LEMMA ExitKeeps == ASSUME IInv, NEW c \in Codes, Exit(c) PROVE IInv'
  <1>1. Limited'
    BY LimiterRests DEF IInv, Exit
  <1>2. TypeOK'
    <2>1. LimiterTypeOK'
      BY <1>1 DEF Limited
    <2>2. batch' \in Seq(1 .. Len(updates')) /\ actions' \in Seq(Acts)
      BY DEF Exit
    <2>3. times' \in [Ids -> 0 .. 2]
      BY DEF Exit, Unhandled
    <2>4. offset' \in 0 .. MaxUpdates + 1 /\ failures' \in 0 .. MaxFailures - 1
      BY LoopIsPositive DEF Exit
    <2>5. pc' = "ended" /\ code' \in Codes /\ stopping' = FALSE /\ UNCHANGED <<world, history>>
      BY DEF Exit
    <2> QED BY <2>1, <2>2, <2>3, <2>4, <2>5 DEF IInv, TypeOK, world, history, Acts
  <1>3. Progress'
    BY LoopIsPositive DEF IInv, Exit, TypeOK, Progress, Unhandled, world, history, Ids
  <1> QED BY <1>1, <1>2, <1>3 DEF IInv

\* What a poll asks for next was handled before, and is what it is given after.
LEMMA PollKeeps == ASSUME IInv, Poll PROVE IInv'
  <1> DEFINE next == Acknowledged
             many == Least(Limit, Len(updates) - next)
  <1>1. Limited'
    BY LimiterRests DEF IInv, Poll
  <1>2. /\ updates \in Seq(Users) /\ Len(updates) \in Nat /\ acked \in 0 .. Len(updates)
        /\ offset \in Nat /\ offset <= Len(updates) + 1
    BY DEF IInv, TypeOK, Progress
  <1>3. next \in 0 .. Len(updates) /\ next >= acked /\ next >= offset - 1 /\ next \in {acked, offset - 1}
    BY <1>2 DEF Acknowledged
  <1>4. acked' = next /\ batch' = IF many > 0 THEN [i \in 1 .. many |-> next + i] ELSE << >>
    <2>1. (IF next > acked THEN next ELSE acked) = next
      BY <1>2, <1>3
    <2>2. Due(next) = IF many > 0 THEN [i \in 1 .. many |-> next + i] ELSE << >>
      BY <2>1 DEF Due
    <2> QED BY <2>2 DEF Poll
  <1>5. many \in Int /\ next + many <= Len(updates)
    BY <1>2, <1>3, LoopIsPositive DEF Least
  <1>6. batch' \in Seq(1 .. Len(updates)) /\ \A i \in 1 .. Len(batch') : batch'[i] = next + i
    <2> HIDE DEF next, many
    <2>1. CASE many > 0
      <3>1. \A i \in 1 .. many : next + i \in 1 .. Len(updates)
        BY <1>2, <1>3, <1>5, <2>1
      <3>2. [i \in 1 .. many |-> next + i] \in Seq(1 .. Len(updates)) /\ Len([i \in 1 .. many |-> next + i]) = many
        BY <1>5, <2>1, <3>1
      <3> QED BY <1>4, <2>1, <3>2
    <2>2. CASE ~(many > 0)
      BY <1>4, <2>2
    <2> QED BY <2>1, <2>2
  <1>7. TypeOK'
    <2>1. LimiterTypeOK'
      BY <1>1 DEF Limited
    <2>2. acked' \in 0 .. Len(updates') /\ batch' \in Seq(1 .. Len(updates')) /\ updates' = updates
      BY <1>3, <1>4, <1>6 DEF Poll
    <2> HIDE DEF next, many
    <2> QED BY <2>1, <2>2 DEF IInv, Poll, TypeOK, history, limiter
  <1>8. Progress'
    <2> HIDE DEF next, many
    <2>1. \A id \in Ids : id <= next => id \in handled
      BY <1>2, <1>3 DEF IInv, Progress, Ids
    <2>2. /\ offset' = offset /\ handled' = handled /\ times' = times /\ updates' = updates
      BY DEF Poll, history
    <2>3. \A i \in 1 .. Len(batch') : batch'[i] = batch'[1] + (i - 1)
      BY <1>3, <1>6
    <2>4. batch' # << >> => batch'[1] = next + 1
      BY <1>3, <1>6
    <2>5. batch' # << >> => batch'[1] >= offset' /\ \A id \in Ids : id < batch'[1] => id \in handled'
      BY <1>2, <1>3, <2>1, <2>2, <2>4 DEF Ids
    <2>6. \A id \in Ids : id <= acked' \/ id < offset' => id \in handled'
      BY <1>2, <1>3, <1>4, <2>1, <2>2 DEF Ids
    <2>7. \A id \in Ids : times'[id] <= 1 /\ (times'[id] > 0 => id < offset')
      BY <2>2 DEF IInv, Progress
    <2> QED BY <1>2, <2>2, <2>3, <2>5, <2>6, <2>7 DEF Progress
  <1> QED BY <1>1, <1>7, <1>8 DEF IInv

\* A poll that fails leaves the offset and may have acknowledged what is below it.
LEMMA PollFailsKeeps == ASSUME IInv, PollFails PROVE IInv'
  <1>1. Limited'
    BY LimiterRests DEF IInv, PollFails
  <1>2. acked' \in 0 .. Len(updates) /\ acked' \in {acked, offset - 1}
    BY DEF PollFails, Acknowledged, IInv, TypeOK, Progress
  <1>3. failures' \in 0 .. MaxFailures - 1
    BY LoopIsPositive DEF PollFails, GivesUp, FailureCount, IInv, TypeOK
  <1>4. TypeOK'
    BY <1>1, <1>2, <1>3 DEF Limited, IInv, PollFails, TypeOK, history, limiter
  <1>5. Progress'
    BY <1>2 DEF IInv, PollFails, TypeOK, Progress, history, Ids
  <1> QED BY <1>1, <1>4, <1>5 DEF IInv

LEMMA HandleKeeps == ASSUME IInv, Handle PROVE IInv'
  <1> DEFINE id == Head(batch)
  <1>1. /\ batch \in Seq(1 .. Len(updates)) /\ batch # << >> /\ updates \in Seq(Users)
        /\ Len(updates) \in 0 .. MaxUpdates /\ Len(batch) \in Nat
    BY LoopIsPositive DEF Handle, IInv, TypeOK
  <1>2. id = batch[1] /\ id \in 1 .. Len(updates) /\ id \in Ids /\ updates[id] \in Users
    BY <1>1, LoopIsPositive DEF Ids
  <1>3. PICK admitted \in BOOLEAN :
          /\ Check(User(id), admitted)
          /\ \E kind \in Kinds : actions' \in Replies(kind, admitted)
    BY Zenon DEF Handle
  <1>4. Limited'
    BY <1>2, <1>3, CheckLimited DEF IInv, User
  <1>5. /\ offset' = id + 1 /\ batch' = Tail(batch) /\ handled' = handled \cup {id}
        /\ times' = [times EXCEPT ![id] = Least(2, @ + 1)]
        /\ UNCHANGED <<world, pc, code, stopping, failures, ends>>
    BY DEF Handle, NextOffset
  <1>6. /\ batch' \in Seq(1 .. Len(updates)) /\ Len(batch') = Len(batch) - 1
        /\ \A i \in 1 .. Len(batch') : batch'[i] = batch[i + 1]
    BY <1>1, <1>5
  <1>7. actions' \in Seq(Acts)
    <2>1. \A kind \in Kinds : Replies(kind, admitted)
            \subseteq {<< >>, <<"send">>, <<"answer">>, <<"answer", "edit">>}
      BY DEF Replies, Kinds
    <2>2. actions' \in {<< >>, <<"send">>, <<"answer">>, <<"answer", "edit">>}
      BY <1>3, <2>1
    <2>3. /\ << >> \in Seq(Acts) /\ <<"send">> \in Seq(Acts)
          /\ <<"answer">> \in Seq(Acts) /\ <<"answer", "edit">> \in Seq(Acts)
      BY DEF Acts
    <2> QED BY <2>2, <2>3, Zenon
  <1>8. times \in [Ids -> 0 .. 2] /\ times[id] = 0 /\ times' = [times EXCEPT ![id] = 1]
    <2>1. times \in [Ids -> 0 .. 2] /\ id >= offset /\ offset \in Nat
      BY <1>1, <1>2 DEF IInv, TypeOK, Progress
    <2>2. times[id] = 0
      BY <1>2, <2>1 DEF IInv, Progress
    <2> QED BY <1>5, <2>1, <2>2 DEF Least
  <1> HIDE DEF id
  <1>9. TypeOK'
    <2>1. LimiterTypeOK'
      BY <1>4 DEF Limited
    <2>2. times' \in [Ids -> 0 .. 2]
      <3>1. 1 \in 0 .. 2
        OBVIOUS
      <3> QED BY <1>2, <1>8, <3>1
    <2>3. handled' \subseteq Ids
      BY <1>2, <1>5 DEF IInv, TypeOK
    <2>4. offset' \in 0 .. MaxUpdates + 1
      BY <1>1, <1>2, <1>5, LoopIsPositive
    <2> QED BY <1>5, <1>6, <1>7, <2>1, <2>2, <2>3, <2>4 DEF IInv, TypeOK, world, Acts
  <1>10. Progress'
    <2>1. \A i \in 1 .. Len(batch) : batch[i] = id + (i - 1)
      BY <1>2 DEF IInv, Progress
    <2>2. \A i \in 1 .. Len(batch') : batch'[i] = id + i
      BY <1>1, <1>6, <2>1
    <2>3. \A i \in 1 .. Len(batch') : batch'[i] = batch'[1] + (i - 1)
      <3> SUFFICES ASSUME NEW i \in 1 .. Len(batch') PROVE batch'[i] = batch'[1] + (i - 1)
        OBVIOUS
      <3>1. 1 \in 1 .. Len(batch') /\ id \in Int /\ i \in Int
        BY <1>1, <1>2, <1>6
      <3> QED BY <2>2, <3>1
    <2>4. \A j \in Ids : j < id + 1 => j \in handled'
      BY <1>1, <1>2, <1>5 DEF IInv, Progress, Ids
    <2>5. batch' # << >> => batch'[1] = id + 1
      BY <1>1, <1>6, <2>2
    <2>6. \A j \in Ids : times'[j] <= 1 /\ (times'[j] > 0 => j < offset')
      <3>1. offset \in Nat /\ offset <= id
        BY <1>1, <1>2 DEF IInv, TypeOK, Progress
      <3> QED BY <1>2, <1>5, <1>8, <3>1 DEF IInv, Progress, Ids
    <2>7. \A j \in Ids : j <= acked' \/ j < offset' => j \in handled'
      BY <1>5, <2>4 DEF IInv, Progress, world
    <2>8. offset' <= Len(updates') + 1
      BY <1>1, <1>2, <1>5 DEF world
    <2>9. batch' # << >> => batch'[1] >= offset' /\ \A j \in Ids : j < batch'[1] => j \in handled'
      BY <1>2, <1>5, <2>4, <2>5
    <2> QED BY <2>3, <2>6, <2>7, <2>8, <2>9 DEF Progress
  <1> QED BY <1>4, <1>9, <1>10 DEF IInv

LEMMA PerformKeeps == ASSUME IInv, Perform PROVE IInv'
  <1>1. CASE Exit("permanent")
    BY <1>1, ExitKeeps DEF Codes
  <1>2. CASE /\ actions' \in {Tail(actions), << >>} /\ actions # << >>
             /\ UNCHANGED <<world, pc, code, offset, batch, stopping, failures, times, history, limiter>>
    <2>1. Limited'
      BY <1>2, LimiterRests DEF IInv
    <2>2. actions' \in Seq(Acts)
      <3>1. actions \in Seq(Acts)
        BY DEF IInv, TypeOK, Acts
      <3>2. Tail(actions) \in Seq(Acts) /\ << >> \in Seq(Acts)
        BY <1>2, <3>1
      <3> QED BY <1>2, <3>2, Zenon
    <2>3. TypeOK'
      BY <1>2, <2>1, <2>2 DEF Limited, IInv, TypeOK, world, history, Acts
    <2>4. Progress'
      BY <1>2 DEF IInv, Progress, world, history
    <2> QED BY <2>1, <2>3, <2>4 DEF IInv
  <1> QED BY <1>1, <1>2 DEF Perform

\* A new update is beyond all there were.
LEMMA NewUpdateKeeps == ASSUME IInv, NEW u \in Users, NewUpdate(u) PROVE IInv'
  <1>1. Limited'
    BY LimiterRests DEF IInv, NewUpdate
  <1>2. /\ updates' \in Seq(Users) /\ Len(updates') = Len(updates) + 1 /\ Len(updates') <= MaxUpdates
        /\ Len(updates) \in Nat
    BY LoopIsPositive DEF NewUpdate, IInv, TypeOK
  <1>3. batch \in Seq(1 .. Len(updates'))
    <2>1. batch \in Seq(1 .. Len(updates)) /\ Len(batch) \in Nat
      BY DEF IInv, TypeOK
    <2>2. \A i \in 1 .. Len(batch) : batch[i] \in 1 .. Len(updates')
      BY <1>2, <2>1
    <2> QED BY <2>1, <2>2
  <1>4. TypeOK'
    BY <1>1, <1>2, <1>3 DEF Limited, NewUpdate, IInv, TypeOK, process, history
  <1>5. Progress'
    BY <1>2 DEF NewUpdate, IInv, TypeOK, Progress, process, history
  <1> QED BY <1>1, <1>4, <1>5 DEF IInv

LEMMA NextKeeps == IInv /\ [Next]_vars => IInv'
  <1> SUFFICES ASSUME IInv, [Next]_vars PROVE IInv'
    OBVIOUS
  <1>1. CASE Start \/ PollDone \/ Signal
    <2>1. /\ UNCHANGED <<world, code, offset, batch, actions, times, handled, limiter>>
          /\ pc' \in {"looping", pc} /\ stopping' \in BOOLEAN /\ failures' \in {0, failures}
          /\ ends' \in 0 .. MaxEnds
      <3>1. CASE Start
        BY <3>1 DEF Start, IInv, TypeOK, history
      <3>2. CASE PollDone
        BY <3>2 DEF PollDone, IInv, TypeOK, history
      <3>3. CASE Signal
        <4>1. ends' \in 0 .. MaxEnds
          BY <3>3, LoopIsPositive DEF Signal, IInv, TypeOK
        <4> QED BY <3>3, <4>1 DEF Signal
      <3> QED BY <1>1, <3>1, <3>2, <3>3
    <2>2. Limited'
      BY <2>1, LimiterRests DEF IInv
    <2>3. TypeOK'
      BY <2>1, <2>2, LoopIsPositive DEF Limited, IInv, TypeOK, world
    <2>4. Progress'
      BY <2>1 DEF IInv, Progress, world
    <2> QED BY <2>2, <2>3, <2>4 DEF IInv
  <1>2. CASE StartFails \/ StopCleanly \/ PollRefused \/ PollGivesUp
    <2>1. \E c \in Codes : Exit(c)
      BY <1>2 DEF StartFails, StopCleanly, PollRefused, PollGivesUp, Codes
    <2> QED BY <2>1, ExitKeeps
  <1>3. CASE Poll
    BY <1>3, PollKeeps
  <1>4. CASE PollFails
    BY <1>4, PollFailsKeeps
  <1>5. CASE Handle
    BY <1>5, HandleKeeps
  <1>6. CASE Perform
    BY <1>6, PerformKeeps
  <1>7. CASE Kill
    <2>1. Limited'
      BY <1>7, LimiterRests DEF IInv, Kill
    <2>2. batch' \in Seq(1 .. Len(updates')) /\ actions' \in Seq(Acts) /\ times' \in [Ids -> 0 .. 2]
      BY <1>7 DEF Kill, Unhandled
    <2>3. offset' \in 0 .. MaxUpdates + 1 /\ failures' \in 0 .. MaxFailures - 1 /\ ends' \in 0 .. MaxEnds
      BY <1>7, LoopIsPositive DEF Kill, IInv, TypeOK
    <2>4. pc' = "ended" /\ code' \in Codes /\ stopping' = FALSE /\ UNCHANGED <<world, handled>>
      BY <1>7 DEF Kill, Codes
    <2>5. TypeOK'
      BY <2>1, <2>2, <2>3, <2>4 DEF Limited, IInv, TypeOK, world, Acts
    <2>6. Progress'
      BY <1>7, LoopIsPositive DEF Kill, IInv, TypeOK, Progress, Unhandled, world, Ids
    <2> QED BY <2>1, <2>5, <2>6 DEF IInv
  <1>8. CASE Restart
    <2>1. Limited'
      <3>1. LimiterInit'
        BY <1>8 DEF Restart, LimiterInit, NoBuckets, AllFull
      <3>2. LimiterInit' => Limited'
        BY NothingLimited, PTL
      <3> QED BY <3>1, <3>2
    <2>2. TypeOK'
      BY <1>8, <2>1 DEF Limited, Restart, IInv, TypeOK, world, history, Codes
    <2>3. Progress'
      BY <1>8 DEF Restart, IInv, Progress, world, history
    <2> QED BY <2>1, <2>2, <2>3 DEF IInv
  <1>9. CASE Network \/ Revoke \/ \E u \in Users : Block(u) \/ Unblock(u)
    <2>1. /\ UNCHANGED <<updates, acked, process, history, limiter>>
          /\ up' \in BOOLEAN /\ revoked' \in BOOLEAN /\ blocked' \subseteq Users
      BY <1>9 DEF Network, Revoke, Block, Unblock, IInv, TypeOK
    <2>2. Limited'
      BY <2>1, LimiterRests DEF IInv
    <2>3. TypeOK'
      BY <2>1, <2>2 DEF Limited, IInv, TypeOK, process, history
    <2>4. Progress'
      BY <2>1 DEF IInv, Progress, process, history
    <2> QED BY <2>2, <2>3, <2>4 DEF IInv
  <1>10. CASE \E u \in Users : NewUpdate(u)
    BY <1>10, NewUpdateKeeps
  <1>11. CASE Tick
    <2>1. Limited'
      BY <1>11, TickLimited DEF Tick, IInv
    <2>2. TypeOK' /\ Progress'
      BY <1>11, <2>1 DEF Tick, Limited, IInv, TypeOK, Progress, world, process, history
    <2> QED BY <2>1, <2>2 DEF IInv
  <1>12. CASE UNCHANGED vars
    <2>1. Limited'
      BY <1>12, LimiterRests DEF vars, IInv
    <2>2. TypeOK' /\ Progress'
      BY <1>12, <2>1 DEF vars, Limited, IInv, TypeOK, Progress, world, process, history
    <2> QED BY <2>1, <2>2 DEF IInv
  <1> QED BY <1>1, <1>2, <1>3, <1>4, <1>5, <1>6, <1>7, <1>8, <1>9, <1>10, <1>11, <1>12
      DEF Next, Run, Environment

LEMMA IInvAlways == Spec => []IInv
  BY IInvInit, NextKeeps, PTL DEF Spec

-----------------------------------------------------------------------------
\* All variables keep their types: the count of failures stays below the number at
\* which run gives up, and the offset within what there is (run, poll_once).
THEOREM LoopTypeCorrect == Spec => []TypeOK
  <1>1. IInv => TypeOK
    BY DEF IInv
  <1> QED BY <1>1, IInvAlways, PTL

\* However processes stop, fail and are killed, what Telegram has dropped from its
\* queue was handled (the offset of poll_once).
THEOREM NothingAckedIsLost == Spec => []AckedWasHandled
  <1>1. IInv => AckedWasHandled
    BY LoopIsPositive DEF IInv, TypeOK, Progress, AckedWasHandled, Ids
  <1> QED BY <1>1, IInvAlways, PTL

\* No process handles an update twice, whatever its polls came to (poll_once).
THEOREM NoProcessRepeats == Spec => []HandledOncePerProcess
  <1>1. IInv => HandledOncePerProcess
    BY DEF IInv, Progress, HandledOncePerProcess
  <1> QED BY <1>1, IInvAlways, PTL

\* The table of buckets never exceeds max_users (RateLimiter._evict_stale).
THEOREM LimiterIsBounded == Spec => []BucketsAreBounded
  <1>1. IInv => BucketsAreBounded
    BY DEF IInv, Limited
  <1> QED BY <1>1, IInvAlways, PTL

\* A bucket that is refilled late and dropped when stale is one that is refilled at
\* every instant (RateLimiter.check).
THEOREM LimiterIsExact == Spec => []BucketsMatchEagerOnes
  <1>1. IInv => BucketsMatchEagerOnes
    BY DEF IInv, Limited
  <1> QED BY <1>1, IInvAlways, PTL
=============================================================================
