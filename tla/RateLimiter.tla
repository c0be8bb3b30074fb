----------------------------- MODULE RateLimiter -----------------------------
(***************************************************************************)
(* RateLimiter of telegram/security.py: a token bucket per user, refilled  *)
(* when it is next looked at, in a table of bounded size.  Tokens are      *)
(* counted in units of which a request costs Cost, so that a bucket can    *)
(* hold a fraction of a token; a clock tick refills one unit.  Of the      *)
(* clock only the age of each bucket is kept, up to the age at which it is *)
(* full whatever it held.                                                  *)
(***************************************************************************)
EXTENDS Integers, FiniteSets

CONSTANTS Users,
          Capacity,      \* units of a full bucket
          Cost,          \* units of one token
          MaxBuckets     \* max_users

ASSUME LimiterIsPositive ==
  /\ Capacity \in Nat /\ Cost \in 1 .. Capacity
  /\ MaxBuckets \in Nat \ {0}

VARIABLES buckets,   \* user -> [tokens, age], for those the table keeps
          eager      \* history: the same buckets refilled at every tick

Least(a, b) == IF a < b THEN a ELSE b

FullAfterEarly == Capacity - Cost
FullAfter == Capacity          \* at one unit a tick
Ages == 0 .. FullAfter + 1
Older(age) == Least(age + 1, FullAfter + 1)

NoBuckets == [u \in {} |-> [tokens |-> 0, age |-> 0]]
AllFull == [u \in Users |-> Capacity]
LimiterInit == buckets = NoBuckets /\ eager = AllFull

\* What u may spend now: its bucket with what was refilled since, or a new one.
Level(u) ==
  IF u \in DOMAIN buckets THEN Least(Capacity, buckets[u].tokens + buckets[u].age) ELSE Capacity

\* _evict_stale, at a full table: all that are refilled completely, or else the
\* one seen least recently, which may be the very user that is being checked.
Stale == {u \in DOMAIN buckets : buckets[u].age > FullAfter}
Oldest == {u \in DOMAIN buckets : \A v \in DOMAIN buckets : buckets[v].age <= buckets[u].age}
IsCrowded == Cardinality(DOMAIN buckets) >= MaxBuckets
Evicted == IF ~IsCrowded THEN {{}} ELSE IF Stale # {} THEN {Stale} ELSE {{u} : u \in Oldest}

\* check: the request is admitted if a whole token is left after the eviction.
Check(u, admitted) ==
  \E gone \in Evicted :
    LET level == IF u \in gone THEN Capacity ELSE Level(u)
        rest == IF admitted THEN level - Cost ELSE level
        displaced == gone \ Stale
    IN  /\ admitted <=> level >= Cost
        /\ buckets' = [v \in (DOMAIN buckets \ gone) \cup {u} |->
                         IF v = u THEN [tokens |-> rest, age |-> 0] ELSE buckets[v]]
        /\ eager' = [v \in Users |->
             LET before == IF v \in displaced THEN Capacity ELSE eager[v]
             IN  IF v = u /\ admitted THEN before - Cost ELSE before]

LimiterTick ==
  /\ buckets' = [u \in DOMAIN buckets |-> [buckets[u] EXCEPT !.age = Older(@)]]
  /\ eager' = [u \in Users |-> Least(Capacity, eager[u] + 1)]

-----------------------------------------------------------------------------
LimiterTypeOK ==
  /\ DOMAIN buckets \subseteq Users
  /\ \A u \in DOMAIN buckets : buckets[u] \in [tokens : 0 .. Capacity, age : Ages]
  /\ eager \in [Users -> Int]

\* The table of buckets stays within max_users, so the limiter cannot exhaust
\* the memory it is there to protect (_evict_stale before every insertion).
BucketsAreBounded == Cardinality(DOMAIN buckets) <= MaxBuckets

\* Refilling late and dropping what is stale are not noticed: every user may
\* spend exactly what a bucket refilled at every instant would hold, unless a
\* full table displaced it while active, which starts it afresh.
BucketsMatchEagerOnes == \A u \in Users : Level(u) = eager[u] /\ eager[u] >= 0
=============================================================================
