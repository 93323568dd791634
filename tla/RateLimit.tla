------------------------------ MODULE RateLimit ------------------------------
(***************************************************************************)
(* TokenBucket of app/ratelimit.py: the limiter every principal, every     *)
(* address and every paired instance goes through.  A request reads the    *)
(* clock before it takes the lock, so requests can go through the bucket   *)
(* in another order than the times they carry.                             *)
(*                                                                         *)
(* Time is counted in ticks, tokens in a unit that makes the refill of one *)
(* tick a whole number; a deployment has Refill = per_minute / 60 per      *)
(* second.                                                                 *)
(***************************************************************************)
EXTENDS Integers, Functions

CONSTANTS
  Key,        \* the principals, addresses or peers a bucket is kept for
  Thread,     \* the threads that serve requests
  Capacity,   \* per_minute
  Refill,     \* tokens per tick
  Cost,       \* what the routes charge
  MaxClock    \* bound: how many ticks pass

ASSUME RateLimitAssumption ==
  /\ Capacity \in Nat /\ Refill \in Nat /\ Cost \subseteq Nat /\ MaxClock \in Nat

VARIABLES
  clock,      \* time.monotonic()
  bucket,     \* _state: key -> [tokens, last], for the keys seen so far
  call,       \* thread -> the call of allow it is in, or Out
  granted,    \* history: key -> the cost of all the calls allowed
  since       \* history: key -> the time its first call carried

vars == <<clock, bucket, call, granted, since>>

Out == [in |-> FALSE]
Call == [in: {TRUE}, key: Key, cost: Cost, now: Nat]

Init ==
  /\ clock = 0
  /\ bucket = [k \in {} |-> Out]
  /\ call = [t \in Thread |-> Out]
  /\ granted = [k \in Key |-> 0]
  /\ since = [k \in {} |-> 0]

Tick ==
  /\ clock < MaxClock
  /\ clock' = clock + 1
  /\ UNCHANGED <<bucket, call, granted, since>>

\* now = time.monotonic(), before the lock.
ReadClock(t) ==
  /\ call[t] = Out
  /\ \E k \in Key, cost \in Cost :
       call' = [call EXCEPT ![t] = [in |-> TRUE, key |-> k, cost |-> cost,
                                    now |-> clock]]
  /\ UNCHANGED <<clock, bucket, granted, since>>

\* The least of both, as min() of two floats.
AtMost(limit, n) == IF n < limit THEN n ELSE limit

\* What is in the bucket at this time; less than before if `now` is in its past.
Refilled(b, now) == AtMost(Capacity, b.tokens + (now - b.last) * Refill)

Found(k, now) ==
  IF k \in DOMAIN bucket THEN bucket[k] ELSE [tokens |-> Capacity, last |-> now]

\* Mutant: a refusal is charged too.
LeftAlways(tokens, cost) == tokens - cost

Left(tokens, cost) == IF tokens < cost THEN tokens ELSE tokens - cost

\* Mutant: the time of the last refill only moves when a call is allowed.
StampIfAllowed(c, tokens) == IF tokens < c.cost THEN Found(c.key, c.now).last ELSE c.now

\* _state[key] is stamped whether the call is allowed or not.
Stamp(c, tokens) == c.now

\* What happens under the lock.
Allow(t) ==
  /\ call[t] # Out
  /\ LET c == call[t]
         tokens == Refilled(Found(c.key, c.now), c.now)
     IN /\ bucket' = [k \in DOMAIN bucket \cup {c.key} |->
             IF k = c.key THEN [tokens |-> Left(tokens, c.cost),
                                last |-> Stamp(c, tokens)]
                          ELSE bucket[k]]
        /\ granted' = [granted EXCEPT ![c.key] = IF tokens < c.cost THEN @ ELSE @ + c.cost]
        /\ since' = [k \in DOMAIN since \cup {c.key} |->
                       IF k \in DOMAIN since THEN since[k] ELSE c.now]
  /\ call' = [call EXCEPT ![t] = Out]
  /\ UNCHANGED clock

Next == Tick \/ \E t \in Thread : ReadClock(t) \/ Allow(t)

Spec == Init /\ [][Next]_vars

-----------------------------------------------------------------------------

\* Times do not run ahead of the clock, and the bucket is never above its
\* ceiling.
TypeOK ==
  /\ clock \in Nat
  /\ DOMAIN bucket \subseteq Key
  /\ \A k \in DOMAIN bucket : /\ bucket[k] \in [tokens: Int, last: Nat]
                              /\ bucket[k].last <= clock /\ bucket[k].tokens <= Capacity
  /\ call \in [Thread -> Call \cup {Out}]
  /\ \A t \in Thread : call[t] # Out => call[t].now <= clock
  /\ granted \in [Key -> Nat]
  /\ DOMAIN since = DOMAIN bucket /\ since \in [DOMAIN since -> Nat]

\* However requests overtake each other between the clock and the lock, a key
\* is never allowed more than its ceiling and what time has refilled since its
\* first call.
NeverOverspends ==
  \A k \in DOMAIN bucket : granted[k] <= Capacity + (clock - since[k]) * Refill

\* A bucket can go below zero, when a request that read the clock early goes
\* through it late; the time that has already passed covers it, so no client is
\* locked out for longer than its own requests explain.
NeverInDebt ==
  \A k \in DOMAIN bucket : bucket[k].tokens + (clock - bucket[k].last) * Refill >= 0
=============================================================================
