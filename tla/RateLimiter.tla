----------------------------- MODULE RateLimiter -----------------------------
(***************************************************************************)
(* The weight of REST requests (binance/rate_limiter.py) and the retries   *)
(* of the public client that draws on it (binance/public_rest.py, _get).   *)
(* The bucket is refilled when somebody looks into it, from the time that  *)
(* has passed since the last look; whoever finds too little sleeps outside *)
(* the lock and looks again.                                               *)
(***************************************************************************)
EXTENDS Integers, FiniteSets

CONSTANTS
  Request,      \* callers of _get
  Weights,      \* weights of the endpoints
  Capacity,
  Rate,         \* refill_per_second, per tick of the clock
  Attempts      \* attempts of a request

ASSUME BucketAssumption ==
  Capacity \in Nat /\ Rate \in Nat \ {0} /\ Weights \subseteq 1..Capacity

ASSUME AttemptsAssumption == IsFiniteSet(Request) /\ Attempts \in Nat \ {0}

VARIABLES
  tokens,       \* _tokens
  unseen,       \* ticks since _updated_at, as many as can matter
  request,      \* [Request -> ...]: its phase, weight, attempts made
  burst         \* history: the largest excess of the weight spent over what
                \* Rate allows, in any stretch of time that ends now

limiterVars == <<tokens, unseen, request, burst>>

NoRequest == [phase |-> "idle", weight |-> 0, made |-> 0]

LimiterInit ==
  /\ tokens = Capacity /\ unseen = 0
  /\ request = [r \in Request |-> NoRequest]
  /\ burst = 0

Tick ==
  /\ unseen' = IF unseen * Rate > Capacity THEN unseen ELSE unseen + 1
  /\ burst' = IF burst > Rate THEN burst - Rate ELSE 0
  /\ UNCHANGED <<tokens, request>>

Call(r, w) ==
  /\ request[r] = NoRequest
  /\ request' = [request EXCEPT ![r] = [phase |-> "acquire", weight |-> w, made |-> 0]]
  /\ UNCHANGED <<tokens, unseen, burst>>

\* Faulty: what was saved up while nobody asked may exceed the capacity.
RefilledUncapped == tokens + unseen * Rate

Refilled ==
  LET sum == tokens + unseen * Rate IN IF sum > Capacity THEN Capacity ELSE sum

\* One look, under the lock.
Acquire(r) ==
  LET enough == Refilled >= request[r].weight
  IN /\ request[r].phase = "acquire"
     /\ unseen' = 0
     /\ tokens' = IF enough THEN Refilled - request[r].weight ELSE Refilled
     /\ burst' = IF enough THEN burst + request[r].weight ELSE burst
     /\ request' = [request EXCEPT ![r].phase = IF enough THEN "sent" ELSE "asleep"]

\* At the earliest when the missing weight may be there: others may take it.
WakeUp(r) ==
  /\ request[r].phase = "asleep"
  /\ request' = [request EXCEPT ![r].phase = "acquire"]
  /\ UNCHANGED <<tokens, unseen, burst>>

Succeed(r) ==
  /\ request[r].phase = "sent"
  /\ request' = [request EXCEPT ![r] = NoRequest]
  /\ UNCHANGED <<tokens, unseen, burst>>

\* 429 or an error: after a pause another attempt, which is weighed again, or
\* BinancePublicError.
Again(r) ==
  /\ request[r].phase = "sent"
  /\ LET made == request[r].made + 1
     IN request' = [request EXCEPT ![r] =
          IF made < Attempts
          THEN [@ EXCEPT !.phase = "acquire", !.made = made] ELSE NoRequest]
  /\ UNCHANGED <<tokens, unseen, burst>>

LimiterNext ==
  \/ Tick
  \/ \E r \in Request : \/ Acquire(r) \/ WakeUp(r) \/ Succeed(r) \/ Again(r)
                        \/ \E w \in Weights : Call(r, w)

-----------------------------------------------------------------------------
(* Properties.                                                             *)

LimiterTypeOK ==
  /\ tokens \in 0..Capacity /\ unseen * Rate =< Capacity + Rate /\ burst \in Nat
  /\ \A r \in Request :
       /\ request[r].phase \in {"idle", "acquire", "asleep", "sent"}
       /\ request[r].weight \in Weights \cup {0} /\ request[r].made \in 0..(Attempts - 1)

\* In no stretch of time is more weight spent than the bucket holds and the
\* time refills, whoever sleeps, retries or comes in between
\* (rate_limiter.py:27, 38).
BudgetKept == burst =< Capacity

=============================================================================
