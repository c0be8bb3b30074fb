----------------------------- MODULE Resilience -----------------------------
(***************************************************************************)
(* call_with_retries over one CircuitBreaker shared by several callers.    *)
(* The breaker's methods hold its lock, so each is one step; an operation  *)
(* and a backoff are spans in which the other callers run.                 *)
(*                                                                         *)
(* The monotonic clock is not a number that grows: what the code reads of  *)
(* it is the age of the open breaker (capped at the cooldown, after which  *)
(* it is not told apart), the time left to a call's Deadline, the time an  *)
(* operation has run and the rest of a backoff.  Tick moves them together. *)
(***************************************************************************)
EXTENDS Integers, FiniteSets

CONSTANTS Callers,              \* concurrent calls, each with its own Deadline
          Threshold, Cooldown,  \* of the CircuitBreaker
          Attempts, MaxDelay,   \* of the RetryPolicy
          Budget,               \* its total_timeout
          OpTimeout,            \* the longest one operation runs
          Never                 \* _opened_at is None

ASSUME PolicyIsValid ==
  /\ {Threshold, Attempts, Budget, OpTimeout} \subseteq Nat \ {0}
  /\ {Cooldown, MaxDelay} \subseteq Nat
  /\ Never \notin Nat

VARIABLES failures,  \* _failures
          opened,    \* time since _opened_at, or Never
          call,      \* caller -> where it is in call_with_retries
          healthy,   \* whether the dependency answers at present
          streak,    \* history: transient failures since the last other outcome
          probing    \* history: no outcome yet since the breaker half-opened

breaker == <<failures, opened>>
history == <<streak, probing>>
callVars == <<failures, opened, call, healthy, history>>

NoCall == [at |-> "idle"]
Left == -OpTimeout .. Budget
Frames ==
  {NoCall}
    \cup [at : {"top"}, attempt : 1 .. Attempts, left : Left]
    \cup [at : {"calling"}, attempt : 1 .. Attempts, left : Left, ran : 0 .. OpTimeout,
          probe : BOOLEAN]
    \cup [at : {"sleeping"}, attempt : 1 .. Attempts - 1, left : Left, wait : 0 .. MaxDelay]

CallInit ==
  /\ failures = 0
  /\ opened = Never
  /\ call = [c \in Callers |-> NoCall]
  /\ healthy \in BOOLEAN
  /\ streak = 0
  /\ probing = FALSE

-----------------------------------------------------------------------------
\* _is_open_locked: what it answers, and what it leaves behind.
NeverCools == FALSE
CooldownOver == opened # Never /\ opened >= Cooldown
IsOpen == opened # Never /\ ~CooldownOver

HalfOpen ==
  IF CooldownOver
  THEN opened' = Never /\ failures' = Threshold - 1 /\ probing' = TRUE
  ELSE UNCHANGED <<breaker, probing>>

RecordNothing == UNCHANGED breaker
RecordSuccess == failures' = 0 /\ opened' = Never

Trips(n) == n >= Threshold /\ opened = Never
RecordFailure ==
  /\ failures' = failures + 1
  /\ opened' = IF Trips(failures + 1) THEN 0 ELSE opened

Goto(c, frame) == call' = [call EXCEPT ![c] = frame]

WaitsUncapped(left) == 0 .. MaxDelay
\* The policy's backoff, full jitter, never past the deadline.
Waits(left) == {w \in 0 .. MaxDelay : w <= left \/ w = 0}

RestedInTime(f) == f.wait = 0 /\ f.left > 0
Rested(f) == f.wait = 0

-----------------------------------------------------------------------------
BeginCall(c) ==
  /\ call[c] = NoCall
  /\ Goto(c, [at |-> "top", attempt |-> 1, left |-> Budget])
  /\ UNCHANGED <<breaker, healthy, history>>

\* deadline.expired: the loop is left, TransientError.
OutOfTime(c) ==
  /\ call[c].at = "top" /\ call[c].left <= 0
  /\ Goto(c, NoCall)
  /\ UNCHANGED <<breaker, healthy, history>>

\* before_call raised CircuitOpen.
Refused(c) ==
  /\ call[c].at = "top" /\ call[c].left > 0
  /\ IsOpen
  /\ Goto(c, NoCall)
  /\ UNCHANGED <<breaker, healthy, history>>

\* before_call returned: the operation starts.
Start(c) ==
  /\ call[c].at = "top" /\ call[c].left > 0
  /\ ~IsOpen
  /\ HalfOpen
  /\ Goto(c, [at |-> "calling", attempt |-> call[c].attempt, left |-> call[c].left,
              ran |-> 0, probe |-> probing'])
  /\ UNCHANGED <<healthy, streak>>

Succeed(c) ==
  /\ call[c].at = "calling" /\ healthy
  /\ RecordSuccess
  /\ streak' = 0 /\ probing' = FALSE
  /\ Goto(c, NoCall)
  /\ UNCHANGED healthy

\* PermanentError: recorded as a success, raised at once.
FailPermanently(c) ==
  /\ call[c].at = "calling"
  /\ RecordSuccess
  /\ streak' = 0 /\ probing' = FALSE
  /\ Goto(c, NoCall)
  /\ UNCHANGED healthy

\* A retryable failure: recorded, and tried again after a backoff if this was
\* not the last attempt.
FailTransiently(c) ==
  /\ call[c].at = "calling" /\ ~healthy
  /\ RecordFailure
  /\ streak' = (IF streak = Threshold THEN streak ELSE streak + 1) /\ probing' = FALSE
  /\ IF call[c].attempt = Attempts
     THEN Goto(c, NoCall)
     ELSE \E w \in Waits(call[c].left) :
            Goto(c, [at |-> "sleeping", attempt |-> call[c].attempt, left |-> call[c].left,
                     wait |-> w])
  /\ UNCHANGED healthy

\* Any other exception passes through and the breaker hears nothing of it.
Escape(c) ==
  /\ call[c].at = "calling"
  /\ Goto(c, NoCall)
  /\ UNCHANGED <<breaker, healthy, history>>

Wake(c) ==
  /\ call[c].at = "sleeping" /\ Rested(call[c])
  /\ Goto(c, [at |-> "top", attempt |-> call[c].attempt + 1, left |-> call[c].left])
  /\ UNCHANGED <<breaker, healthy, history>>

\* Someone reads the property is_open, which may half-open the breaker.
Peek == HalfOpen /\ UNCHANGED <<call, healthy, streak>>

\* An operator's reset().
Reset ==
  /\ RecordSuccess
  /\ streak' = 0 /\ probing' = FALSE
  /\ UNCHANGED <<call, healthy>>

\* Time passes for everyone, except past the end of an operation or of a
\* backoff.  A deadline that has expired between two of them is not told apart.
Elapsed(f) ==
  CASE f.at = "top" /\ f.left > 0 -> [f EXCEPT !.left = @ - 1]
    [] f.at = "calling" -> [f EXCEPT !.left = @ - 1, !.ran = @ + 1]
    [] f.at = "sleeping" -> [f EXCEPT !.left = @ - 1, !.wait = @ - 1]
    [] OTHER -> f
Tick ==
  /\ \A c \in Callers : /\ call[c].at = "calling" => call[c].ran < OpTimeout
                        /\ call[c].at = "sleeping" => call[c].wait > 0
  /\ opened' = IF opened = Never \/ opened >= Cooldown THEN opened ELSE opened + 1
  /\ call' = [c \in Callers |-> Elapsed(call[c])]
  /\ UNCHANGED <<failures, healthy, history>>

\* The dependency goes down or comes back.
Weather == healthy' = ~healthy /\ UNCHANGED <<breaker, call, history>>

CallStep(c) ==
  \/ BeginCall(c) \/ OutOfTime(c) \/ Refused(c) \/ Start(c)
  \/ Succeed(c) \/ FailPermanently(c) \/ FailTransiently(c) \/ Escape(c) \/ Wake(c)

CallNext == (\E c \in Callers : CallStep(c)) \/ Peek \/ Reset \/ Tick \/ Weather

CallSpec == CallInit /\ [][CallNext]_callVars

\* Threads are scheduled, operations end by their timeout, callers call again,
\* time does pass, and a call does not lose its whole budget every time between
\* computing its deadline and asking the breaker.
FairCallSpec ==
  /\ CallSpec
  /\ \A c \in Callers : WF_callVars(CallStep(c)) /\ SF_callVars(Start(c))
  /\ SF_callVars(Tick)

-----------------------------------------------------------------------------
CallTypeOK ==
  /\ failures \in Nat
  /\ opened \in (0 .. Cooldown) \cup {Never}
  /\ call \in [Callers -> Frames]
  /\ healthy \in BOOLEAN
  /\ streak \in 0 .. Threshold
  /\ probing \in BOOLEAN

\* "Thread-safe": whatever the order in which late outcomes are recorded, the
\* counter and the opening time agree: closed exactly below the threshold.
OpenMeansThreshold == opened = Never <=> failures < Threshold

InFlight == {c \in Callers : call[c].at = "calling"}

\* The "total wall-clock budget" is overrun by less than one operation: no call
\* waits longer, whatever its operations, backoffs and the breaker do.
OverrunIsOneOperation == \A c \in Callers : call[c] # NoCall => call[c].left > -OpTimeout

\* "consistently failing": the breaker opens only on a run of Threshold
\* failures with no success, rejection or reset recorded in between.
OpensOnlyOnARun == [][opened = Never /\ opened' # Never => streak' = Threshold]_callVars

\* "Every outbound call carries a timeout ... Nothing waits forever."
EveryCallReturns == \A c \in Callers : call[c] # NoCall ~> call[c] = NoCall

\* A dependency that has recovered for good is in the end let through by every
\* breaker, however it got there.
RecoveryIsNoticed == <>[]healthy => <>[](opened = Never)

\* "The backstop that makes 'no hanging' true even if an individual timeout is
\* set too generously": no operation runs on after the budget is spent.
BudgetIsTheBackstop == \A c \in InFlight : call[c].left >= 0

\* "Cooldown elapsed: allow one probe through (half-open)."
OneProbeAtATime == probing => Cardinality({c \in InFlight : call[c].probe}) <= 1

\* "Open -> (after a cooldown) -> Half-open": no call closes an open breaker
\* before its cooldown is over.
OpenForTheCooldown ==
  [][\A c \in Callers : (opened # Never /\ opened' = Never /\ call'[c] # call[c])
                          => opened >= Cooldown]_callVars
=============================================================================
