------------------------- MODULE ApiKeyRateLimiter -------------------------
(***************************************************************************)
(* The in-memory limiter of the requests of an API key and of the          *)
(* analytics queries of an API key: fixed windows that start with the      *)
(* first request after the previous window ended.  Subjects have windows   *)
(* of their own, so one subject is modelled.  Time is in ticks.            *)
(***************************************************************************)
EXTENDS Integers, Sequences, FiniteSets

CONSTANTS
  MaxRequests,    \* policy.maxRequests
  WindowTicks,    \* policy.windowMs
  SecondTicks,    \* the ticks of a second
  MaxClock        \* bound on the clock

ASSUME LimiterAssumption ==
  {MaxRequests, WindowTicks, SecondTicks, MaxClock} \subseteq Nat \ {0}

VARIABLES
  now,        \* the clock of the process
  window,     \* the window of the subject, as a set of at most one record
  allowedAt,  \* when each request that was let through was made
  refusal     \* the last refusal: when it was made and retryAfterSeconds

limiterVars == <<now, window, allowedAt, refusal>>

LimiterInit == now = 0 /\ window = {} /\ allowedAt = <<>> /\ refusal = {}

IsActive(w) == now < w.resetAt
CurrentWindow ==
  IF \E w \in window : IsActive(w)
    THEN CHOOSE w \in window : TRUE
    ELSE [count |-> 0, resetAt |-> now + WindowTicks]

\* Math.max(1, Math.ceil((timestamp - now) / 1000))
SecondsUntil(at) ==
  LET up == (at - now + SecondTicks - 1) \div SecondTicks
  IN  IF up < 1 THEN 1 ELSE up

WithinLimitOffByOne(w) == w.count <= MaxRequests
WithinLimit(w) == w.count < MaxRequests

Consume ==
  LET w == CurrentWindow
  IN  IF WithinLimit(w)
        THEN /\ window' = {[w EXCEPT !.count = @ + 1]}
             /\ allowedAt' = Append(allowedAt, now)
             /\ UNCHANGED <<now, refusal>>
        ELSE /\ window' = {w}
             /\ refusal' = {[at |-> now, after |-> SecondsUntil(w.resetAt)]}
             /\ UNCHANGED <<now, allowedAt>>

Advance ==
  /\ now < MaxClock
  /\ now' = now + 1
  /\ UNCHANGED <<window, allowedAt, refusal>>

LimiterNext == Consume \/ Advance
LimiterSpec == LimiterInit /\ [][LimiterNext]_limiterVars

-----------------------------------------------------------------------------
\* Fixed windows let a burst through on both sides of a reset, and no more:
\* any stretch of time as long as a window holds at most twice the policy's
\* requests (InMemoryApiKeyRateLimiter.consume).
AtMostTwoBursts ==
  \A i \in DOMAIN allowedAt :
    Cardinality({j \in DOMAIN allowedAt :
                   j >= i /\ allowedAt[j] < allowedAt[i] + WindowTicks}) <= 2 * MaxRequests

\* A refused caller that waits the seconds it was told finds its window over:
\* retryAfterSeconds is rounded up, never down.
WaitingIsEnough ==
  \A r \in refusal, w \in window :
    now >= r.at + r.after * SecondTicks => ~IsActive(w) \/ w.resetAt - WindowTicks > r.at

\* The limiter lets no more through than two windows' worth and sends nobody
\* away for less time than it takes.
LimitsAreKept == AtMostTwoBursts /\ WaitingIsEnough
=============================================================================
