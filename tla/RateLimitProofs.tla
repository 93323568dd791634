-------------------------- MODULE RateLimitProofs ---------------------------
(***************************************************************************)
(* Theorems about RateLimit, for every ceiling, refill and number of       *)
(* threads.                                                                *)
(***************************************************************************)
EXTENDS RateLimit, TLAPS

USE RateLimitAssumption

\* What has been granted was either in the bucket at the start or refilled up to
\* the last stamp: the account every step keeps.
Balanced ==
  \A k \in DOMAIN bucket :
    granted[k] + bucket[k].tokens <= Capacity + (bucket[k].last - since[k]) * Refill

Untouched == \A k \in Key \ DOMAIN bucket : granted[k] = 0

Inv == TypeOK /\ Balanced /\ Untouched /\ NeverInDebt

-----------------------------------------------------------------------------

\* Refilling in two steps is refilling in one.
LEMMA Refills ==
  /\ \A a, b, c \in Int : (a - b) * Refill + (b - c) * Refill = (a - c) * Refill
  /\ \A a \in Int : a * Refill \in Int
  /\ \A a \in Nat : a * Refill >= 0
BY SMT

LEMMA InitInv == Init => Inv
BY DEF Init, Inv, TypeOK, Balanced, Untouched, NeverInDebt

\* A request that has read the clock is a call.
LEMMA CallOf == ASSUME TypeOK, NEW t \in Thread, call[t] # Out PROVE call[t] \in Call
BY DEF TypeOK

LEMMA TickInv == Inv /\ Tick => Inv'
<1> SUFFICES ASSUME Inv, Tick PROVE Inv'
  OBVIOUS
<1>1. TypeOK'
  <2>1. clock \in Nat /\ clock' = clock + 1
    BY DEF Inv, TypeOK, Tick
  <2>2. \A k \in DOMAIN bucket : bucket[k].last \in Nat /\ bucket[k].last <= clock
    BY DEF Inv, TypeOK
  <2>3. \A t \in Thread : call[t] # Out => call[t].now \in Nat /\ call[t].now <= clock
    BY CallOf DEF Inv, TypeOK, Call
  <2> QED BY <2>1, <2>2, <2>3 DEF Inv, TypeOK, Tick
<1>2. Balanced' /\ Untouched'
  BY DEF Inv, Balanced, Untouched, Tick
<1>3. NeverInDebt'
  <2> SUFFICES ASSUME NEW k \in DOMAIN bucket
               PROVE  bucket[k].tokens + (clock' - bucket[k].last) * Refill >= 0
    BY DEF NeverInDebt, Tick
  <2>1. /\ bucket[k].tokens \in Int /\ bucket[k].last \in Int
        /\ clock \in Int /\ clock' = clock + 1
        /\ bucket[k].tokens + (clock - bucket[k].last) * Refill >= 0
    BY DEF Inv, TypeOK, NeverInDebt, Tick
  <2>2. (clock' - clock) * Refill + (clock - bucket[k].last) * Refill
          = (clock' - bucket[k].last) * Refill
    <3>1. bucket[k].last \in Int /\ clock \in Int /\ clock' \in Int
      BY <2>1
    <3> QED BY ONLY <3>1, Refills
  <2>3. (clock' - clock) * Refill >= 0
    <3>1. clock' - clock \in Nat
      BY <2>1
    <3> QED BY <3>1, Refills
  <2>4. (clock - bucket[k].last) * Refill \in Int /\ (clock' - clock) * Refill \in Int
    BY <2>1, Refills
  <2> QED BY <2>1, <2>2, <2>3, <2>4
<1> QED BY <1>1, <1>2, <1>3 DEF Inv

LEMMA ReadClockInv == ASSUME Inv, NEW t \in Thread, ReadClock(t) PROVE Inv'
<1>1. TypeOK'
  <2> PICK k \in Key, cost \in Cost :
        call' = [call EXCEPT ![t] = [in |-> TRUE, key |-> k, cost |-> cost, now |-> clock]]
    BY DEF ReadClock
  <2> DEFINE c == [in |-> TRUE, key |-> k, cost |-> cost, now |-> clock]
  <2>1. c \in Call
    BY DEF Inv, TypeOK, Call
  <2>2. c.now <= clock
    BY DEF Inv, TypeOK
  <2> HIDE DEF c
  <2>3. call' \in [Thread -> Call \cup {Out}]
    BY <2>1 DEF Inv, TypeOK, c
  <2>4. ASSUME NEW q \in Thread, call'[q] # Out PROVE call'[q].now <= clock
    BY <2>2, <2>4 DEF Inv, TypeOK, c
  <2> QED BY <2>3, <2>4 DEF Inv, TypeOK, ReadClock
<1>2. Balanced' /\ Untouched' /\ NeverInDebt'
  BY DEF Inv, Balanced, Untouched, NeverInDebt, ReadClock
<1> QED BY <1>1, <1>2 DEF Inv

\* One pass through the bucket, whatever time the request carries.
LEMMA AllowInv == ASSUME Inv, NEW t \in Thread, Allow(t) PROVE Inv'
<1> DEFINE c == call[t]
           k == c.key
           old == Found(k, c.now)
           tokens == Refilled(old, c.now)
           new == [tokens |-> Left(tokens, c.cost), last |-> c.now]
           born == IF k \in DOMAIN since THEN since[k] ELSE c.now
           due == IF tokens < c.cost THEN granted[k] ELSE granted[k] + c.cost
<1>1. /\ c \in Call /\ k \in Key /\ c.cost \in Nat /\ c.now \in Nat /\ c.now <= clock
      /\ clock \in Nat
  BY DEF Inv, TypeOK, Allow, Call
<1>2. /\ bucket' = [x \in DOMAIN bucket \cup {k} |-> IF x = k THEN new ELSE bucket[x]]
      /\ granted' = [granted EXCEPT ![k] = due]
      /\ since' = [x \in DOMAIN since \cup {k} |->
                     IF x \in DOMAIN since THEN since[x] ELSE c.now]
      /\ call' = [call EXCEPT ![t] = Out]
      /\ clock' = clock
  BY DEF Allow, Stamp
<1>3. /\ old.tokens \in Int /\ old.last \in Nat /\ old.last <= clock
      /\ born \in Nat /\ granted[k] \in Nat
      /\ granted[k] + old.tokens <= Capacity + (old.last - born) * Refill
      /\ old.tokens + (clock - old.last) * Refill >= 0
  <2>1. CASE k \in DOMAIN bucket
    BY <1>1, <2>1 DEF Inv, TypeOK, Balanced, NeverInDebt, Found
  <2>2. CASE k \notin DOMAIN bucket
    <3>1. old = [tokens |-> Capacity, last |-> c.now] /\ born = c.now /\ granted[k] = 0
      BY <1>1, <2>2 DEF Inv, TypeOK, Untouched, Found
    <3>2. (old.last - born) * Refill = 0 /\ (clock - old.last) * Refill >= 0
      <4>1. old.last - born = 0 /\ clock - old.last \in Nat
        BY <1>1, <3>1
      <4> QED BY <4>1, Refills
    <3>3. (clock - old.last) * Refill \in Int
      BY <1>1, <3>1, Refills
    <3> HIDE DEF old, born
    <3> QED BY <1>1, <3>1, <3>2, <3>3
  <2> QED BY <2>1, <2>2
<1> HIDE DEF old, born
<1>4. /\ (c.now - old.last) * Refill \in Int
      /\ (old.last - born) * Refill \in Int
      /\ (clock - old.last) * Refill \in Int
      /\ (clock - c.now) * Refill \in Int /\ (clock - c.now) * Refill >= 0
      /\ (c.now - old.last) * Refill + (old.last - born) * Refill = (c.now - born) * Refill
      /\ (clock - c.now) * Refill + (c.now - old.last) * Refill = (clock - old.last) * Refill
  <2>1. clock - c.now \in Nat /\ clock \in Int /\ c.now \in Int
        /\ old.last \in Int /\ born \in Int
    BY <1>1, <1>3
  <2>2. c.now - old.last \in Int /\ old.last - born \in Int
        /\ clock - old.last \in Int /\ clock - c.now \in Int
    BY <2>1
  <2> HIDE DEF c
  <2>3. (clock - c.now) * Refill >= 0
    BY <2>1, Refills
  <2>4. (c.now - old.last) * Refill + (old.last - born) * Refill = (c.now - born) * Refill
    BY <2>1, Refills
  <2>5. (clock - c.now) * Refill + (c.now - old.last) * Refill = (clock - old.last) * Refill
    BY <2>1, Refills
  <2> QED BY <2>2, <2>3, <2>4, <2>5, Refills
<1>5. /\ tokens \in Int /\ tokens <= Capacity
      /\ tokens <= old.tokens + (c.now - old.last) * Refill
      /\ tokens = Capacity \/ tokens = old.tokens + (c.now - old.last) * Refill
  BY <1>1, <1>3, <1>4 DEF Refilled, AtMost
<1> HIDE DEF tokens
<1>6. /\ new.tokens \in Int /\ new.last = c.now /\ new.tokens <= Capacity
      /\ due \in Nat
      /\ due + new.tokens = granted[k] + tokens
      /\ new.tokens >= 0 \/ new.tokens = tokens
  BY <1>1, <1>3, <1>5 DEF Left
<1>7. due + new.tokens <= Capacity + (new.last - born) * Refill
  BY <1>3, <1>4, <1>5, <1>6
<1>8. new.tokens + (clock - new.last) * Refill >= 0
  BY <1>1, <1>3, <1>4, <1>5, <1>6
<1> HIDE DEF new, due
<1>9. TypeOK'
  <2>1. new \in [tokens: Int, last: Nat] /\ new.last <= clock
    BY <1>1, <1>6 DEF new
  <2> QED BY <1>1, <1>2, <1>6, <2>1 DEF Inv, TypeOK
<1>10. Balanced'
  <2> SUFFICES ASSUME NEW x \in DOMAIN bucket'
               PROVE  granted'[x] + bucket'[x].tokens
                        <= Capacity + (bucket'[x].last - since'[x]) * Refill
    BY DEF Balanced
  <2>1. CASE x = k
    BY <1>1, <1>2, <1>7, <2>1 DEF Inv, TypeOK, born
  <2>2. CASE x # k
    BY <1>2, <2>2 DEF Inv, TypeOK, Balanced
  <2> QED BY <2>1, <2>2
<1>11. Untouched'
  BY <1>2 DEF Inv, TypeOK, Untouched
<1>12. NeverInDebt'
  BY <1>2, <1>8 DEF Inv, NeverInDebt
<1> QED BY <1>9, <1>10, <1>11, <1>12 DEF Inv

LEMMA NextInv == Inv /\ [Next]_vars => Inv'
<1>1. ASSUME Inv, UNCHANGED vars PROVE Inv'
  BY <1>1 DEF Inv, TypeOK, Balanced, Untouched, NeverInDebt, vars
<1> QED BY <1>1, TickInv, ReadClockInv, AllowInv DEF Next

\* The account covers what was granted: what is left in the bucket is not less
\* than the time that has passed since its last stamp refills.
LEMMA InvImplies == Inv => NeverOverspends
<1> SUFFICES ASSUME Inv, NEW k \in DOMAIN bucket
             PROVE  granted[k] <= Capacity + (clock - since[k]) * Refill
  BY DEF NeverOverspends
<1>1. /\ granted[k] \in Int /\ bucket[k].tokens \in Int /\ bucket[k].last \in Int
      /\ since[k] \in Int /\ clock \in Int
      /\ granted[k] + bucket[k].tokens <= Capacity + (bucket[k].last - since[k]) * Refill
      /\ bucket[k].tokens + (clock - bucket[k].last) * Refill >= 0
  BY DEF Inv, TypeOK, Balanced, NeverInDebt
<1>2. /\ (clock - bucket[k].last) * Refill + (bucket[k].last - since[k]) * Refill
           = (clock - since[k]) * Refill
      /\ (clock - bucket[k].last) * Refill \in Int
      /\ (bucket[k].last - since[k]) * Refill \in Int
  BY <1>1, Refills
<1> QED BY <1>1, <1>2

-----------------------------------------------------------------------------

\* However late a request goes through the bucket after it has read the clock,
\* and however many do at once, a key gets no more than its ceiling and what
\* time has refilled since its first call, and is never in a debt that the
\* passed time does not cover.
THEOREM LimiterHolds == Spec => [](TypeOK /\ NeverOverspends /\ NeverInDebt)
<1>1. Inv => TypeOK /\ NeverOverspends /\ NeverInDebt
  BY InvImplies DEF Inv
<1> QED BY InitInv, NextInv, <1>1, PTL DEF Spec

\* In particular no key is ever in a debt that the time since its last stamp
\* does not cover, whatever order the stamps come in.
THEOREM DebtIsCovered == Spec => []NeverInDebt
<1> QED BY LimiterHolds, PTL
=============================================================================
