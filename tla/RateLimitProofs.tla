---------------------------- MODULE RateLimitProofs ----------------------------
(***************************************************************************)
(* Proofs about RateLimit, for any users, window, maximum and times of the *)
(* calls: when a user is refused, what Retry-After is worth, and what is   *)
(* left in the Map; and, at the end, about the calls it lets through       *)
(* (Notifications).                                                        *)
(***************************************************************************)
EXTENDS Notifications, FunctionTheorems, FiniteSetTheorems, TLAPS

Smaller(m, n) == IF m < n THEN m ELSE n

\* The places of the latest n of the times in s.
Latest(s, n) == Len(s) - n + 1..Len(s)

\* What a bucket tells about the history of its user: the requests it has
\* counted, up to Max, were the latest admitted, and all in its window; and
\* its user was not told to come back before it expires.
BucketIsTrue(u) ==
    LET b == buckets[u]
        n == Smaller(b.count, Max)
    IN  /\ b.count >= 1
        /\ b.resetAt - Window <= now
        /\ n <= Len(admitted[u])
        /\ \A k \in Latest(admitted[u], n) :
            b.resetAt - Window <= admitted[u][k] /\ admitted[u][k] <= now
        /\ promise[u] # 0 => b.resetAt <= promise[u]

RateLimitInv ==
    /\ RateLimitTypeOK
    /\ \A u \in DOMAIN buckets : BucketIsTrue(u)

\* What \div is, once and for all.
LEMMA QuotientBounds ==
    ASSUME NEW a \in Int, NEW s \in Nat \ {0}
    PROVE  /\ a \div s \in Int
           /\ s * (a \div s) <= a
           /\ a < s * (a \div s) + s
<1>1. s \in Int /\ s > 0
  OBVIOUS
<1>2. a \div s \in Int
  BY <1>1
<1>3. s * (a \div s) <= a
  BY <1>1, Z3
<1>4. a < s * (a \div s) + s
  BY <1>1, Z3
<1> QED
  BY <1>2, <1>3, <1>4

\* Rounding up never shortens the wait.
LEMMA RetryAfterCovers ==
    ASSUME NEW t \in Int
    PROVE  /\ RetryAfterSec(t) \in Nat
           /\ Second * RetryAfterSec(t) >= t
           /\ Second * RetryAfterSec(t) \in Nat \ {0}
<1> DEFINE q == (t + Second - 1) \div Second
<1>1. Second \in Nat \ {0}
  BY RateLimitAssumption DEF RateLimitAssumption
<1>2. q \in Int /\ Second * q <= t + Second - 1 /\ t + Second - 1 < Second * q + Second
  BY <1>1, t + Second - 1 \in Int, QuotientBounds
<1> HIDE DEF q
<1>3. RetryAfterSec(t) = IF q > 1 THEN q ELSE 1
  BY DEF RetryAfterSec, q
<1>4. CASE q > 1
  <2> DEFINE p == Second * q
  <2>1. p \in Int /\ t < p + 1
    BY <1>1, <1>2
  <2>2. p >= Second
    BY <1>1, <1>2, <1>4
  <2>3. RetryAfterSec(t) = q
    BY <1>3, <1>4
  <2>4. p \in Nat \ {0}
    BY <1>1, <2>1, <2>2
  <2> QED
    BY <1>2, <1>4, <2>1, <2>3, <2>4
<1>5. CASE ~(q > 1)
  <2>1. RetryAfterSec(t) = 1
    BY <1>3, <1>5
  <2>2. Second * q <= Second
    BY <1>1, <1>2, <1>5
  <2> DEFINE p == Second * q
  <2>3. p \in Int /\ p <= Second /\ t + Second - 1 < p + Second
    BY <1>1, <1>2, <2>2
  <2> HIDE DEF p
  <2>4. t <= Second
    BY <1>1, <2>3
  <2>5. Second * 1 = Second
    BY <1>1
  <2> QED
    BY <1>1, <2>1, <2>4, <2>5
<1> QED
  BY <1>4, <1>5

\* One call, in the terms of the proofs.
LEMMA ConsumeEffect ==
    ASSUME RateLimitInv, NEW u \in Users, Consume(u)
    PROVE  /\ now' = now
           /\ Counted(u) \in Bucket
           /\ DOMAIN buckets' \subseteq DOMAIN buckets \cup {u}
           /\ \A v \in DOMAIN buckets :
                v \in DOMAIN buckets' \/ (v # u /\ buckets[v].resetAt <= now)
           /\ u \in DOMAIN buckets'
           /\ \A v \in DOMAIN buckets' :
                buckets'[v] = IF v = u THEN Counted(u) ELSE buckets[v]
           /\ Cardinality(DOMAIN buckets') > PruneAbove =>
                \A v \in DOMAIN buckets' : buckets'[v].resetAt > now
           /\ Allowed(Counted(u)) =>
                /\ admitted' = [admitted EXCEPT ![u] = Append(admitted[u], now)]
                /\ promise' = [promise EXCEPT ![u] = 0]
           /\ ~Allowed(Counted(u)) =>
                /\ admitted' = admitted
                /\ \E w \in Nat \ {0} :
                    /\ w >= Counted(u).resetAt
                    /\ promise' = [promise EXCEPT ![u] = w]
<1> DEFINE b == [v \in DOMAIN buckets \cup {u} |->
                    IF v = u THEN Counted(u) ELSE buckets[v]]
<1>1. now \in Nat /\ now' = now /\ buckets' = Prune(b, u)
  BY DEF Consume, RateLimitInv, RateLimitTypeOK
<1>2. Counted(u) \in Bucket
  BY <1>1, RateLimitAssumption
     DEF RateLimitAssumption, Counted, Bucket, RateLimitInv, RateLimitTypeOK
<1>3. \A v \in DOMAIN b : b[v] \in Bucket
  BY <1>2 DEF RateLimitInv, RateLimitTypeOK
<1>4. Counted(u).resetAt > now
  BY <1>1, RateLimitAssumption
     DEF RateLimitAssumption, Counted, Expired, Bucket, RateLimitInv, RateLimitTypeOK
<1>5. /\ DOMAIN buckets' \subseteq DOMAIN buckets \cup {u}
      /\ \A v \in DOMAIN buckets :
            v \in DOMAIN buckets' \/ (v # u /\ buckets[v].resetAt <= now)
      /\ u \in DOMAIN buckets'
      /\ \A v \in DOMAIN buckets' :
            buckets'[v] = IF v = u THEN Counted(u) ELSE buckets[v]
      /\ Cardinality(DOMAIN buckets') > PruneAbove =>
            \A v \in DOMAIN buckets' : buckets'[v].resetAt > now
  <2>1. DOMAIN b = DOMAIN buckets \cup {u}
    OBVIOUS
  <2>2. \A v \in DOMAIN b : b[v] = IF v = u THEN Counted(u) ELSE buckets[v]
    OBVIOUS
  <2>3. \A v \in DOMAIN b : ~(b[v].resetAt <= now) <=> b[v].resetAt > now
    BY <1>1, <1>3 DEF Bucket
  <2> HIDE DEF b
  <2>4. CASE Cardinality(DOMAIN b) > PruneAbove
    <3>1. DOMAIN buckets' = {w \in DOMAIN b : ~(b[w].resetAt <= now)}
          /\ \A v \in DOMAIN buckets' : buckets'[v] = b[v]
      BY <1>1, <2>4 DEF Prune
    <3>2. \A v \in DOMAIN buckets' : v \in DOMAIN b /\ b[v].resetAt > now
      BY <2>3, <3>1
    <3>3. \A v \in DOMAIN b : v \in DOMAIN buckets' \/ b[v].resetAt <= now
      BY <3>1
    <3>4. u \in DOMAIN buckets'
      BY <1>4, <2>1, <2>2, <2>3, <3>1
    <3> QED
      BY <2>1, <2>2, <3>1, <3>2, <3>3, <3>4
  <2>5. CASE ~(Cardinality(DOMAIN b) > PruneAbove)
    <3>1. buckets' = b
      BY <1>1, <2>5 DEF Prune
    <3> QED
      BY <2>1, <2>2, <2>5, <3>1
  <2> QED
    BY <2>4, <2>5
<1>6. Allowed(Counted(u)) =>
        /\ admitted' = [admitted EXCEPT ![u] = Append(admitted[u], now)]
        /\ promise' = [promise EXCEPT ![u] = 0]
  BY DEF Consume
<1>7. ASSUME ~Allowed(Counted(u))
      PROVE  /\ admitted' = admitted
             /\ \E w \in Nat \ {0} :
                    /\ w >= Counted(u).resetAt
                    /\ promise' = [promise EXCEPT ![u] = w]
  <2> DEFINE t == Counted(u).resetAt - now
             s == Second * RetryAfterSec(t)
  <2>1. admitted' = admitted /\ promise' = [promise EXCEPT ![u] = now + s]
    BY <1>7 DEF Consume
  <2>2. Counted(u).resetAt \in Nat /\ t \in Int
    BY <1>1, <1>2 DEF Bucket
  <2>3. s \in Nat \ {0} /\ s >= t
    BY <2>2, RetryAfterCovers
  <2> HIDE DEF s
  <2>4. now + s \in Nat \ {0} /\ now + s >= Counted(u).resetAt
    BY <1>1, <2>2, <2>3
  <2> QED
    BY <2>1, <2>4
<1> QED
  BY <1>1, <1>2, <1>5, <1>6, <1>7

\* The empty Map has no bucket to tell anything untrue.
THEOREM RateLimitInvInitially == Init => RateLimitInv
BY DEF Init, RateLimitInv, RateLimitTypeOK

\* The bucket a call leaves tells the truth, be it new or counted up.
LEMMA OwnBucket ==
    ASSUME RateLimitInv, NEW u \in Users, Consume(u), u \in DOMAIN buckets'
    PROVE  BucketIsTrue(u)'
<1> DEFINE b == Counted(u)
           n == Smaller(b.count, Max)
<1>1. /\ now \in Nat /\ now' = now /\ buckets'[u] = b /\ b \in Bucket
      /\ admitted \in [Users -> Seq(Nat)] /\ promise \in [Users -> Nat]
  BY ConsumeEffect DEF RateLimitInv, RateLimitTypeOK
<1>2. Max \in Nat \ {0} /\ Window \in Nat \ {0}
  BY RateLimitAssumption DEF RateLimitAssumption
<1>3. CASE u \notin DOMAIN buckets \/ Expired(buckets[u])
  <2>1. b = [count |-> 1, resetAt |-> now + Window]
    BY <1>3 DEF Counted
  <2>2. b.count = 1 /\ b.resetAt = now + Window
    BY <2>1
  <2>3. Allowed(b) /\ n = 1
    BY <1>2, <2>2 DEF Allowed, Smaller
  <2>4. admitted'[u] = Append(admitted[u], now) /\ promise'[u] = 0
    BY <1>1, <2>3, ConsumeEffect
  <2>5. /\ Len(admitted'[u]) = Len(admitted[u]) + 1
        /\ Len(admitted[u]) \in Nat
        /\ admitted'[u][Len(admitted[u]) + 1] = now
    BY <1>1, <2>4
  <2>6. Latest(admitted'[u], 1) = {Len(admitted[u]) + 1}
    BY <2>5 DEF Latest
  <2>7. Smaller(buckets'[u].count, Max) = 1
    BY <1>1, <2>3
  <2> QED
    BY <1>1, <1>2, <2>2, <2>4, <2>5, <2>6, <2>7 DEF BucketIsTrue
<1>4. CASE ~(u \notin DOMAIN buckets \/ Expired(buckets[u]))
  <2> DEFINE old == buckets[u]
             m == Smaller(old.count, Max)
  <2>1. /\ u \in DOMAIN buckets /\ old \in Bucket /\ BucketIsTrue(u)
    BY <1>4 DEF RateLimitInv, RateLimitTypeOK
  <2>2. b = [old EXCEPT !.count = @ + 1]
    BY <1>4 DEF Counted
  <2>3. b.count = old.count + 1 /\ b.resetAt = old.resetAt /\ old.count \in Nat
        /\ old.resetAt \in Nat
    BY <2>1, <2>2 DEF Bucket
  <2>4. /\ old.count >= 1
        /\ old.resetAt - Window <= now
        /\ m <= Len(admitted[u])
        /\ \A k \in Latest(admitted[u], m) :
            old.resetAt - Window <= admitted[u][k] /\ admitted[u][k] <= now
        /\ promise[u] # 0 => old.resetAt <= promise[u]
    BY <2>1 DEF BucketIsTrue
  <2>5. Len(admitted[u]) \in Nat
    BY <1>1
  <2>6. CASE Allowed(b)
    <3>1. admitted'[u] = Append(admitted[u], now) /\ promise'[u] = 0
      BY <1>1, <2>6, ConsumeEffect
    <3>2. n = m + 1 /\ m \in Nat
      BY <1>2, <2>3, <2>6 DEF Allowed, Smaller
    <3>3. /\ Len(admitted'[u]) = Len(admitted[u]) + 1
          /\ admitted'[u][Len(admitted[u]) + 1] = now
          /\ \A k \in 1..Len(admitted[u]) : admitted'[u][k] = admitted[u][k]
      BY <1>1, <3>1
    <3>4. ASSUME NEW k \in Latest(admitted'[u], n)
          PROVE  b.resetAt - Window <= admitted'[u][k] /\ admitted'[u][k] <= now
      <4>1. k \in Len(admitted[u]) - m + 1..Len(admitted[u]) + 1
        BY <2>5, <3>2, <3>3 DEF Latest
      <4>2. CASE k = Len(admitted[u]) + 1
        BY <1>1, <2>3, <2>4, <3>3, <4>2
      <4>3. CASE k # Len(admitted[u]) + 1
        <5>1. k \in Latest(admitted[u], m) /\ k \in 1..Len(admitted[u])
          BY <2>4, <2>5, <3>2, <4>1, <4>3 DEF Latest
        <5> QED
          BY <2>3, <2>4, <3>3, <5>1
      <4> QED
        BY <4>2, <4>3
    <3>5. Smaller(buckets'[u].count, Max) = n
      BY <1>1
    <3>6. n <= Len(admitted'[u])
      BY <2>4, <2>5, <3>2, <3>3
    <3>7. /\ buckets'[u].count >= 1 /\ buckets'[u].resetAt = b.resetAt
          /\ buckets'[u].resetAt - Window <= now'
      BY <1>1, <2>3, <2>4
    <3> HIDE DEF b, n
    <3> QED
      BY <1>1, <3>1, <3>4, <3>5, <3>6, <3>7 DEF BucketIsTrue
  <2>7. CASE ~Allowed(b)
    <3>1. admitted' = admitted
      BY <2>7, ConsumeEffect
    <3>2. PICK w \in Nat \ {0} : w >= b.resetAt /\ promise' = [promise EXCEPT ![u] = w]
      BY <2>7, ConsumeEffect
    <3>3. n = m
      BY <1>2, <2>3, <2>7 DEF Allowed, Smaller
    <3>4. promise'[u] >= b.resetAt
      BY <1>1, <3>2
    <3>5. Smaller(buckets'[u].count, Max) = m
      BY <1>1, <3>3
    <3>6. Latest(admitted'[u], m) = Latest(admitted[u], m)
      BY <3>1 DEF Latest
    <3> HIDE DEF b, n, m
    <3> QED
      BY <1>1, <2>3, <2>4, <3>1, <3>4, <3>5, <3>6 DEF BucketIsTrue
  <2> QED
    BY <2>6, <2>7
<1> QED
  BY <1>3, <1>4

\* A call keeps what the buckets of the other users tell.
THEOREM RateLimitInvPreserved == RateLimitInv /\ [Next]_vars => RateLimitInv'
<1> SUFFICES ASSUME RateLimitInv, [Next]_vars PROVE RateLimitInv'
  OBVIOUS
<1>1. ASSUME NEW u \in Users, Consume(u) PROVE RateLimitInv'
  <2>1. RateLimitTypeOK'
    <3>1. /\ now \in Nat /\ DOMAIN buckets \subseteq Users
          /\ \A v \in DOMAIN buckets : buckets[v] \in Bucket
          /\ admitted \in [Users -> Seq(Nat)] /\ promise \in [Users -> Nat]
      BY DEF RateLimitInv, RateLimitTypeOK
    <3>2. /\ now' = now
          /\ DOMAIN buckets' \subseteq DOMAIN buckets \cup {u}
          /\ Counted(u) \in Bucket
          /\ \A v \in DOMAIN buckets' :
                buckets'[v] = IF v = u THEN Counted(u) ELSE buckets[v]
      BY <1>1, ConsumeEffect
    <3>3. admitted' \in [Users -> Seq(Nat)]
      <4>1. CASE Allowed(Counted(u))
        <5>1. admitted' = [admitted EXCEPT ![u] = Append(admitted[u], now)]
          BY <1>1, <4>1, ConsumeEffect
        <5>2. Append(admitted[u], now) \in Seq(Nat)
          BY <3>1
        <5> QED
          BY <3>1, <5>1, <5>2
      <4>2. CASE ~Allowed(Counted(u))
        BY <1>1, <3>1, <4>2, ConsumeEffect
      <4> QED
        BY <4>1, <4>2
    <3>4. promise' \in [Users -> Nat]
      <4>1. PICK w \in Nat : promise' = [promise EXCEPT ![u] = w]
        BY <1>1, ConsumeEffect
      <4> QED
        BY <3>1, <4>1
    <3>5. \A v \in DOMAIN buckets' : buckets'[v] \in Bucket
      BY <3>1, <3>2
    <3> QED
      BY <3>1, <3>2, <3>3, <3>4, <3>5 DEF RateLimitTypeOK
  <2>2. ASSUME NEW v \in DOMAIN buckets' PROVE BucketIsTrue(v)'
    <3>1. CASE v = u
      BY <1>1, <2>2, <3>1, OwnBucket
    <3>2. CASE v # u
      <4>1. /\ v \in DOMAIN buckets /\ BucketIsTrue(v) /\ v \in Users
            /\ admitted \in [Users -> Seq(Nat)] /\ promise \in [Users -> Nat]
        BY <1>1, <2>2, <3>2, ConsumeEffect DEF RateLimitInv, RateLimitTypeOK
      <4>2. now' = now /\ buckets'[v] = buckets[v]
        BY <1>1, <2>2, <3>2, ConsumeEffect
      <4>3. admitted'[v] = admitted[v] /\ promise'[v] = promise[v]
        <5>1. CASE Allowed(Counted(u))
          BY <1>1, <3>2, <4>1, <5>1, ConsumeEffect
        <5>2. CASE ~Allowed(Counted(u))
          BY <1>1, <3>2, <4>1, <5>2, ConsumeEffect
        <5> QED
          BY <5>1, <5>2
      <4> QED
        BY <4>1, <4>2, <4>3 DEF BucketIsTrue, Latest
    <3> QED
      BY <3>1, <3>2
  <2> QED
    BY <2>1, <2>2 DEF RateLimitInv
<1>2. CASE Tick
  <2>1. now \in Nat /\ now' = now + 1 /\ UNCHANGED <<buckets, admitted, promise>>
    BY <1>2 DEF Tick, RateLimitInv, RateLimitTypeOK
  <2>2. RateLimitTypeOK'
    BY <2>1 DEF RateLimitInv, RateLimitTypeOK
  <2>3. ASSUME NEW u \in DOMAIN buckets PROVE BucketIsTrue(u)'
    <3>1. /\ BucketIsTrue(u) /\ buckets[u].resetAt \in Nat /\ u \in Users
          /\ admitted[u] \in Seq(Nat)
      BY DEF RateLimitInv, RateLimitTypeOK, Bucket
    <3>2. Window \in Nat
      BY RateLimitAssumption DEF RateLimitAssumption
    <3> DEFINE n == Smaller(buckets[u].count, Max)
    <3>3. \A k \in Latest(admitted[u], n) : admitted[u][k] <= now => admitted[u][k] <= now + 1
      <4>1. ASSUME NEW k \in Latest(admitted[u], n) PROVE admitted[u][k] \in Nat
        <5>1. n \in Int /\ n <= Len(admitted[u]) /\ Len(admitted[u]) \in Nat
          BY <3>1, RateLimitAssumption
             DEF RateLimitAssumption, RateLimitInv, RateLimitTypeOK, Bucket, Smaller,
                 BucketIsTrue
        <5>2. k \in 1..Len(admitted[u])
          BY <5>1 DEF Latest
        <5> QED
          BY <3>1, <5>2
      <4> QED
        BY <2>1, <4>1
    <3>4. buckets[u].resetAt - Window <= now => buckets[u].resetAt - Window <= now + 1
      BY <2>1, <3>1, <3>2
    <3> QED
      BY <2>1, <3>1, <3>3, <3>4 DEF BucketIsTrue, Latest
  <2> QED
    BY <2>1, <2>2, <2>3 DEF RateLimitInv
<1>3. CASE UNCHANGED vars
  BY <1>3 DEF vars, RateLimitInv, RateLimitTypeOK, BucketIsTrue, Latest
<1> QED
  BY <1>1, <1>2, <1>3 DEF Next

\* Every bucket tells the truth in every reachable state.
THEOREM RateLimitInvariant == Spec => []RateLimitInv
BY RateLimitInvInitially, RateLimitInvPreserved, PTL DEF Spec
-----------------------------------------------------------------------------
\* RateLimitTypeOK: buckets, history and promises are well typed; Retry-After
\* is a natural number.
THEOREM RateLimitTypeCorrect == Spec => []RateLimitTypeOK
<1>1. RateLimitInv => RateLimitTypeOK
  BY DEF RateLimitInv
<1> QED
  BY <1>1, RateLimitInvariant, PTL

\* RetryAfterIsHonest: a user who comes back after the seconds the 429 named
\* finds the bucket expired, hence a new one, and is admitted.
THEOREM RetryAfterHolds == Spec => RetryAfterIsHonest
<1>1. ASSUME RateLimitInv, [Next]_vars
      PROVE  [\A u \in Users :
                /\ Consume(u)
                /\ promise[u] # 0
                /\ promise[u] <= now
                => Len(admitted'[u]) = Len(admitted[u]) + 1]_vars
  <2>1. SUFFICES ASSUME NEW u \in Users, Consume(u), promise[u] # 0, promise[u] <= now
                 PROVE  Len(admitted'[u]) = Len(admitted[u]) + 1
    OBVIOUS
  <2>2. /\ now \in Nat /\ admitted \in [Users -> Seq(Nat)] /\ promise[u] \in Nat
        /\ \A v \in DOMAIN buckets : BucketIsTrue(v) /\ buckets[v] \in Bucket
    BY <1>1 DEF RateLimitInv, RateLimitTypeOK
  <2>3. u \notin DOMAIN buckets \/ Expired(buckets[u])
    BY <2>1, <2>2 DEF BucketIsTrue, Bucket, Expired
  <2>4. Counted(u).count = 1
    BY <2>3 DEF Counted
  <2>5. Allowed(Counted(u))
    BY <2>4, RateLimitAssumption DEF RateLimitAssumption, Allowed
  <2>6. admitted'[u] = Append(admitted[u], now)
    BY <1>1, <2>1, <2>2, <2>5, ConsumeEffect
  <2> QED
    BY <2>2, <2>6
<1> QED
  BY <1>1, RateLimitInvariant, PTL DEF Spec, RetryAfterIsHonest

\* RefusedOnlyAfterMax: the bucket that refuses a user has counted Max
\* admitted requests since it was opened, less than a window ago.
THEOREM RefusalsAreJustified == Spec => RefusedOnlyAfterMax
<1>1. ASSUME RateLimitInv, [Next]_vars
      PROVE  [\A u \in Users :
                Consume(u) /\ admitted'[u] = admitted[u] =>
                    Cardinality(Between(u, now - Window + 1, now + 1)) >= Max]_vars
  <2>1. SUFFICES ASSUME NEW u \in Users, Consume(u), admitted'[u] = admitted[u]
                 PROVE  Cardinality(Between(u, now - Window + 1, now + 1)) >= Max
    OBVIOUS
  <2> DEFINE n == Len(admitted[u])
             within == Between(u, now - Window + 1, now + 1)
  <2>2. /\ now \in Nat /\ admitted[u] \in Seq(Nat) /\ n \in Nat
        /\ admitted \in [Users -> Seq(Nat)]
        /\ \A v \in DOMAIN buckets : BucketIsTrue(v) /\ buckets[v] \in Bucket
    BY <1>1 DEF RateLimitInv, RateLimitTypeOK
  <2>3. Max \in Nat \ {0} /\ Window \in Nat \ {0}
    BY RateLimitAssumption DEF RateLimitAssumption
  <2>4. ~Allowed(Counted(u))
    <3>1. SUFFICES ASSUME Allowed(Counted(u)) PROVE FALSE
      OBVIOUS
    <3>2. admitted'[u] = Append(admitted[u], now)
      BY <1>1, <2>1, <2>2, <3>1, ConsumeEffect
    <3>3. Len(Append(admitted[u], now)) = n + 1
      BY <2>2
    <3> QED
      BY <2>1, <2>2, <3>2, <3>3
  <2>5. u \in DOMAIN buckets /\ ~Expired(buckets[u])
    BY <2>3, <2>4 DEF Counted, Allowed
  <2>6. buckets[u].count >= Max /\ buckets[u].resetAt > now /\ buckets[u].resetAt \in Nat
    BY <2>2, <2>3, <2>4, <2>5 DEF Counted, Allowed, Expired, Bucket
  <2>7. Smaller(buckets[u].count, Max) = Max
    BY <2>2, <2>3, <2>5, <2>6 DEF Smaller, Bucket
  <2>8. /\ Max <= n
        /\ \A k \in n - Max + 1..n :
            buckets[u].resetAt - Window <= admitted[u][k] /\ admitted[u][k] <= now
    BY <2>2, <2>5, <2>7 DEF BucketIsTrue, Latest
  <2>9. n - Max + 1..n \subseteq within
    <3>1. ASSUME NEW k \in n - Max + 1..n PROVE k \in within
      <4>1. k \in 1..n
        BY <2>2, <2>3, <2>8
      <4>2. admitted[u][k] \in Nat
        BY <2>2, <4>1
      <4>3. now - Window + 1 <= admitted[u][k] /\ admitted[u][k] < now + 1
        BY <2>2, <2>3, <2>6, <2>8, <4>2
      <4> QED
        BY <4>1, <4>3 DEF Between
    <3> QED
      BY <3>1
  <2>10. Cardinality(n - Max + 1..n) = Max
    <3>1. n - Max + 1 \in Int /\ n \in Int /\ n - Max + 1 <= n
      BY <2>2, <2>3
    <3>2. Cardinality(n - Max + 1..n) = n - (n - Max + 1) + 1
      BY <3>1, FS_Interval
    <3> QED
      BY <2>2, <2>3, <3>2
  <2>11. IsFiniteSet(within)
    <3>1. IsFiniteSet(1..n)
      BY <2>2, FS_Interval
    <3>2. within \subseteq 1..n
      BY DEF Between
    <3> QED
      BY <3>1, <3>2, FS_Subset
  <2>12. Cardinality(n - Max + 1..n) <= Cardinality(within)
    BY <2>9, <2>11, FS_Subset
  <2> QED
    BY <2>10, <2>12
<1> QED
  BY <1>1, RateLimitInvariant, PTL DEF Spec, RefusedOnlyAfterMax

\* MemoryIsBounded: when there are more than PruneAbove buckets, every one of
\* them has been used within the last window.
THEOREM MapIsPruned == Spec => MemoryIsBounded
<1>1. ASSUME RateLimitInv, RateLimitInv', [Next]_vars
      PROVE  [\A u \in Users : Consume(u) /\ Cardinality(DOMAIN buckets') > PruneAbove =>
                \A v \in DOMAIN buckets' :
                    \E i \in 1..Len(admitted'[v]) : admitted'[v][i] + Window > now]_vars
  <2>1. SUFFICES ASSUME NEW u \in Users, Consume(u),
                        Cardinality(DOMAIN buckets') > PruneAbove,
                        NEW v \in DOMAIN buckets'
                 PROVE  \E i \in 1..Len(admitted'[v]) : admitted'[v][i] + Window > now
    OBVIOUS
  <2> DEFINE n == Len(admitted'[v])
  <2>2. /\ now \in Nat /\ now' = now /\ v \in Users
        /\ admitted' \in [Users -> Seq(Nat)] /\ buckets'[v] \in Bucket /\ BucketIsTrue(v)'
        /\ buckets'[v].resetAt > now
    BY <1>1, <2>1, ConsumeEffect DEF RateLimitInv, RateLimitTypeOK
  <2>3. n \in Nat /\ admitted'[v] \in Seq(Nat) /\ buckets'[v].resetAt \in Nat
        /\ buckets'[v].count \in Nat
    BY <2>2 DEF Bucket
  <2>4. Max \in Nat \ {0} /\ Window \in Nat \ {0}
    BY RateLimitAssumption DEF RateLimitAssumption
  <2>5. n >= 1 /\ n \in Latest(admitted'[v], Smaller(buckets'[v].count, Max))
    BY <2>2, <2>3, <2>4 DEF BucketIsTrue, Smaller, Latest
  <2>6. buckets'[v].resetAt - Window <= admitted'[v][n]
    BY <2>2, <2>5 DEF BucketIsTrue
  <2>7. n \in 1..n /\ admitted'[v][n] \in Nat
    BY <2>3, <2>5
  <2>8. admitted'[v][n] + Window > now
    BY <2>2, <2>3, <2>4, <2>6, <2>7
  <2> QED
    BY <2>7, <2>8
<1> QED
  BY <1>1, RateLimitInvariant, PTL DEF Spec, MemoryIsBounded
-----------------------------------------------------------------------------
(***************************************************************************)
(* Bursts.  F are the places in the history s of a user at which a bucket  *)
(* was opened: no Max admitted requests in a row without one, and never    *)
(* two of them within a window.  The Map may have forgotten these buckets. *)
(***************************************************************************)
Windows(s, F) ==
    /\ F \subseteq 1..Len(s)
    /\ \A i \in 1..Len(s) : \E f \in F : f <= i /\ i - Max < f
    /\ \A f, g \in F : f < g => s[f] + Window <= s[g]
    /\ \A i, j \in 1..Len(s) : i <= j => s[i] <= s[j]

\* Two windows are left between requests 2 * Max - 1 apart, or at least one
\* whole window.
LEMMA WindowsSpread ==
    ASSUME NEW s \in Seq(Nat), NEW F, Windows(s, F),
           NEW i \in 1..Len(s), NEW j \in 1..Len(s), j >= i + 2 * Max - 1
    PROVE  s[i] + Window <= s[j]
<1>1. Max \in Nat \ {0} /\ Window \in Nat \ {0}
  BY RateLimitAssumption DEF RateLimitAssumption
<1>2. Len(s) \in Nat
  OBVIOUS
<1>3. PICK f \in F : f <= j /\ j - Max < f
  BY DEF Windows
<1>4. f \in 1..Len(s) /\ f >= i + Max /\ f - 1 \in 1..Len(s)
  <2>1. f \in 1..Len(s)
    BY DEF Windows
  <2> QED
    BY <1>1, <1>2, <1>3, <2>1
<1>5. PICK g \in F : g <= f - 1 /\ f - 1 - Max < g
  BY <1>4 DEF Windows
<1>6. g \in 1..Len(s) /\ g < f /\ i <= g
  <2>1. g \in 1..Len(s)
    BY DEF Windows
  <2> QED
    BY <1>1, <1>2, <1>4, <1>5, <2>1
<1>7. s[i] <= s[g] /\ s[g] + Window <= s[f] /\ s[f] <= s[j]
  BY <1>3, <1>4, <1>5, <1>6 DEF Windows
<1>8. s[i] \in Nat /\ s[g] \in Nat /\ s[f] \in Nat /\ s[j] \in Nat
  BY <1>4, <1>6
<1> QED
  BY <1>1, <1>7, <1>8

\* A request is admitted: by a new bucket, or by one with room left.
LEMMA WindowsGrow ==
    ASSUME NEW s \in Seq(Nat), NEW F, Windows(s, F), NEW t \in Nat,
           \A i \in 1..Len(s) : s[i] <= t,
           NEW G,
           \/ G = F \cup {Len(s) + 1} /\ \A f \in F : s[f] + Window <= t
           \/ G = F /\ \E f \in F : Len(s) + 1 - Max < f
    PROVE  Windows(Append(s, t), G)
<1> DEFINE r == Append(s, t)
<1>1. /\ Len(s) \in Nat /\ Len(r) = Len(s) + 1 /\ r[Len(s) + 1] = t
      /\ \A i \in 1..Len(s) : r[i] = s[i]
  OBVIOUS
<1>2. Max \in Nat \ {0} /\ Window \in Nat \ {0}
  BY RateLimitAssumption DEF RateLimitAssumption
<1>3. /\ F \subseteq 1..Len(s)
      /\ \A i \in 1..Len(s) : \E f \in F : f <= i /\ i - Max < f
      /\ \A f, g \in F : f < g => s[f] + Window <= s[g]
      /\ \A i, j \in 1..Len(s) : i <= j => s[i] <= s[j]
  BY DEF Windows
<1> HIDE DEF r
<1>4. G \subseteq 1..Len(r) /\ F \subseteq G
  <2>1. 1..Len(s) \subseteq 1..Len(r) /\ Len(s) + 1 \in 1..Len(r)
    BY <1>1
  <2> QED
    BY <1>3, <2>1
<1>5. ASSUME NEW i \in 1..Len(r) PROVE \E f \in G : f <= i /\ i - Max < f
  <2>1. CASE i \in 1..Len(s)
    BY <1>3, <1>4, <2>1
  <2>2. CASE i = Len(s) + 1
    <3>1. CASE G = F \cup {Len(s) + 1}
      BY <1>1, <1>2, <2>2, <3>1
    <3>2. CASE G = F /\ \E f \in F : Len(s) + 1 - Max < f
      <4>1. PICK f \in F : Len(s) + 1 - Max < f
        BY <3>2
      <4>2. f \in 1..Len(s) /\ f \in G
        BY <1>3, <3>2
      <4>3. f <= i /\ i - Max < f
        BY <1>1, <1>2, <2>2, <4>1, <4>2
      <4> QED
        BY <4>2, <4>3
    <3> QED
      BY <3>1, <3>2
  <2> QED
    BY <1>1, <2>1, <2>2
<1>6. ASSUME NEW f \in G, NEW g \in G, f < g PROVE r[f] + Window <= r[g]
  <2>1. CASE f \in F /\ g \in F
    BY <1>1, <1>3, <1>6, <2>1
  <2>2. CASE ~(f \in F /\ g \in F)
    <3>1. /\ G = F \cup {Len(s) + 1}
          /\ \A h \in F : s[h] + Window <= t
      BY <1>6, <2>2
    <3>2. g = Len(s) + 1 /\ f \in F
      BY <1>1, <1>3, <1>6, <2>2, <3>1
    <3> QED
      BY <1>1, <1>3, <3>1, <3>2
  <2> QED
    BY <2>1, <2>2
<1>7. ASSUME NEW i \in 1..Len(r), NEW j \in 1..Len(r), i <= j PROVE r[i] <= r[j]
  <2>1. CASE j \in 1..Len(s)
    <3>1. i \in 1..Len(s)
      BY <1>1, <1>7, <2>1
    <3> QED
      BY <1>1, <1>3, <1>7, <2>1, <3>1
  <2>2. CASE j = Len(s) + 1
    <3>1. CASE i \in 1..Len(s)
      BY <1>1, <2>2, <3>1
    <3>2. CASE i = Len(s) + 1
      BY <1>1, <2>2, <3>2
    <3> QED
      BY <1>1, <3>1, <3>2
  <2> QED
    BY <1>1, <2>1, <2>2
<1> QED
  BY <1>4, <1>5, <1>6, <1>7 DEF Windows, r

\* The history of u has such openings; its bucket, if the Map has not
\* forgotten it, is the last one, and otherwise all of them have expired.
Traced(u) == \E F \in SUBSET (1..Len(admitted[u])) :
    /\ Windows(admitted[u], F)
    /\ u \in DOMAIN buckets =>
        /\ Len(admitted[u]) - Smaller(buckets[u].count, Max) + 1 \in F
        /\ \A f \in F : admitted[u][f] + Window <= buckets[u].resetAt
    /\ u \notin DOMAIN buckets => \A f \in F : admitted[u][f] + Window <= now
    /\ \A i \in 1..Len(admitted[u]) : admitted[u][i] <= now

HistoryInv == RateLimitInv /\ \A u \in Users : Traced(u)

\* A call of u keeps it so, in a new bucket or in the one that is there.
LEMMA OwnHistory ==
    ASSUME HistoryInv, NEW u \in Users, Consume(u)
    PROVE  Traced(u)'
<1> DEFINE b == Counted(u)
           s == admitted[u]
<1>1. /\ now \in Nat /\ now' = now /\ s \in Seq(Nat) /\ Len(s) \in Nat
      /\ admitted \in [Users -> Seq(Nat)]
      /\ u \in DOMAIN buckets => buckets[u] \in Bucket /\ BucketIsTrue(u)
  BY ConsumeEffect DEF HistoryInv, RateLimitInv, RateLimitTypeOK
<1>2. /\ u \in DOMAIN buckets' /\ buckets'[u] = b /\ b \in Bucket
      /\ Allowed(b) => admitted'[u] = Append(s, now)
      /\ ~Allowed(b) => admitted'[u] = s
  BY <1>1, ConsumeEffect DEF HistoryInv
<1>3. Max \in Nat \ {0} /\ Window \in Nat \ {0}
  BY RateLimitAssumption DEF RateLimitAssumption
<1>4. PICK F \in SUBSET (1..Len(s)) :
        /\ Windows(s, F)
        /\ u \in DOMAIN buckets =>
            /\ Len(s) - Smaller(buckets[u].count, Max) + 1 \in F
            /\ \A f \in F : s[f] + Window <= buckets[u].resetAt
        /\ u \notin DOMAIN buckets => \A f \in F : s[f] + Window <= now
        /\ \A i \in 1..Len(s) : s[i] <= now
  BY DEF HistoryInv, Traced
<1>5. SUFFICES \E G \in SUBSET (1..Len(admitted'[u])) :
        /\ Windows(admitted'[u], G)
        /\ Len(admitted'[u]) - Smaller(b.count, Max) + 1 \in G
        /\ \A f \in G : admitted'[u][f] + Window <= b.resetAt
        /\ \A i \in 1..Len(admitted'[u]) : admitted'[u][i] <= now
  <2> HIDE DEF b
  <2> QED
    BY <1>1, <1>2 DEF Traced
<1>6. /\ Len(Append(s, now)) = Len(s) + 1 /\ Append(s, now)[Len(s) + 1] = now
      /\ \A i \in 1..Len(s) : Append(s, now)[i] = s[i]
  BY <1>1
<1>7. \A i \in 1..Len(s) : s[i] \in Nat
  BY <1>1
<1>8. CASE u \notin DOMAIN buckets \/ Expired(buckets[u])
  <2>1. b.count = 1 /\ b.resetAt = now + Window
    BY <1>8 DEF Counted
  <2>2. admitted'[u] = Append(s, now)
    BY <1>2, <1>3, <2>1 DEF Allowed
  <2>3. \A f \in F : s[f] + Window <= now
    BY <1>1, <1>3, <1>4, <1>7, <1>8 DEF Expired, Bucket
  <2> DEFINE G == F \cup {Len(s) + 1}
  <2>4. Windows(admitted'[u], G)
    BY <1>1, <1>4, <2>2, <2>3, WindowsGrow
  <2>5. Len(admitted'[u]) - Smaller(b.count, Max) + 1 = Len(s) + 1
    BY <1>1, <1>3, <1>6, <2>1, <2>2 DEF Smaller
  <2>6. ASSUME NEW f \in G PROVE admitted'[u][f] + Window <= b.resetAt
    <3>1. CASE f \in F
      BY <1>1, <1>3, <1>4, <1>6, <1>7, <2>1, <2>2, <2>3, <3>1
    <3>2. CASE f = Len(s) + 1
      BY <1>1, <1>3, <1>6, <2>1, <2>2, <3>2
    <3> QED
      BY <3>1, <3>2
  <2>7. \A i \in 1..Len(admitted'[u]) : admitted'[u][i] <= now
    BY <1>1, <1>4, <1>6, <2>2
  <2>8. G \in SUBSET (1..Len(admitted'[u]))
    BY <2>4 DEF Windows
  <2> QED
    BY <2>4, <2>5, <2>6, <2>7, <2>8
<1>9. CASE ~(u \notin DOMAIN buckets \/ Expired(buckets[u]))
  <2> DEFINE m == Smaller(buckets[u].count, Max)
  <2>1. /\ u \in DOMAIN buckets /\ buckets[u].count \in Nat /\ buckets[u].count >= 1
        /\ b.count = buckets[u].count + 1 /\ b.resetAt = buckets[u].resetAt
    BY <1>1, <1>9 DEF Counted, Bucket, BucketIsTrue
  <2>2. Len(s) - m + 1 \in F /\ \A f \in F : s[f] + Window <= b.resetAt
    BY <1>4, <2>1
  <2>3. CASE Allowed(b)
    <3>1. admitted'[u] = Append(s, now)
      BY <1>2, <2>3
    <3>2. m \in Nat /\ m < Max /\ Smaller(b.count, Max) = m + 1
      BY <1>3, <2>1, <2>3 DEF Allowed, Smaller
    <3> HIDE DEF m
    <3>3. Len(s) + 1 - Max < Len(s) - m + 1
      BY <1>1, <1>3, <3>2
    <3>4. Windows(admitted'[u], F)
      BY <1>1, <1>4, <2>2, <3>1, <3>3, WindowsGrow
    <3>5. Len(admitted'[u]) - Smaller(b.count, Max) + 1 \in F
      <4>1. Len(admitted'[u]) - Smaller(b.count, Max) + 1 = Len(s) - m + 1
        BY <1>1, <1>6, <3>1, <3>2
      <4> QED
        BY <2>2, <4>1
    <3>6. \A f \in F : admitted'[u][f] + Window <= b.resetAt
      BY <1>4, <1>6, <2>2, <3>1
    <3>7. \A i \in 1..Len(admitted'[u]) : admitted'[u][i] <= now
      BY <1>1, <1>4, <1>6, <3>1
    <3>8. F \in SUBSET (1..Len(admitted'[u]))
      BY <1>1, <1>4, <1>6, <3>1
    <3> QED
      BY <3>4, <3>5, <3>6, <3>7, <3>8
  <2>4. CASE ~Allowed(b)
    <3>1. admitted'[u] = s
      BY <1>2, <2>4
    <3>2. Smaller(b.count, Max) = m
      BY <1>3, <2>1, <2>4 DEF Allowed, Smaller
    <3> QED
      BY <1>4, <2>2, <3>1, <3>2
  <2> QED
    BY <2>3, <2>4
<1> QED
  BY <1>8, <1>9

\* Calls and pruning keep the openings apart.
THEOREM HistoryInvPreserved == HistoryInv /\ [Next]_vars => HistoryInv'
<1> SUFFICES ASSUME HistoryInv, [Next]_vars PROVE HistoryInv'
  OBVIOUS
<1>1. RateLimitInv /\ RateLimitInv'
  BY RateLimitInvPreserved DEF HistoryInv
<1>2. Window \in Nat /\ now \in Nat
  BY <1>1, RateLimitAssumption DEF RateLimitAssumption, RateLimitInv, RateLimitTypeOK
<1>3. ASSUME NEW u \in Users, Consume(u), NEW v \in Users PROVE Traced(v)'
  <2>1. CASE v = u
    BY <1>3, <2>1, OwnHistory
  <2>2. CASE v # u
    <3>1. /\ now' = now /\ admitted \in [Users -> Seq(Nat)]
          /\ v \in DOMAIN buckets' => v \in DOMAIN buckets /\ buckets'[v] = buckets[v]
          /\ v \in DOMAIN buckets /\ v \notin DOMAIN buckets' => buckets[v].resetAt <= now
      BY <1>1, <1>3, <2>2, ConsumeEffect DEF RateLimitInv, RateLimitTypeOK
    <3>2. admitted'[v] = admitted[v]
      BY <1>1, <1>3, <2>2, <3>1, ConsumeEffect
    <3>3. v \in DOMAIN buckets => buckets[v].resetAt \in Nat
      BY <1>1 DEF RateLimitInv, RateLimitTypeOK, Bucket
    <3>4. PICK F \in SUBSET (1..Len(admitted[v])) :
            /\ Windows(admitted[v], F)
            /\ v \in DOMAIN buckets =>
                /\ Len(admitted[v]) - Smaller(buckets[v].count, Max) + 1 \in F
                /\ \A f \in F : admitted[v][f] + Window <= buckets[v].resetAt
            /\ v \notin DOMAIN buckets => \A f \in F : admitted[v][f] + Window <= now
            /\ \A i \in 1..Len(admitted[v]) : admitted[v][i] <= now
      BY DEF HistoryInv, Traced
    <3>5. \A f \in F : admitted[v][f] \in Nat
      BY <3>1, <3>4
    <3>6. v \notin DOMAIN buckets' => \A f \in F : admitted[v][f] + Window <= now
      BY <1>2, <3>1, <3>3, <3>4, <3>5
    <3> QED
      BY <3>1, <3>2, <3>4, <3>6 DEF Traced
  <2> QED
    BY <2>1, <2>2
<1>4. ASSUME Tick, NEW u \in Users PROVE Traced(u)'
  <2>1. now' = now + 1 /\ UNCHANGED <<buckets, admitted>>
    BY <1>4 DEF Tick
  <2>2. PICK F \in SUBSET (1..Len(admitted[u])) :
            /\ Windows(admitted[u], F)
            /\ u \in DOMAIN buckets =>
                /\ Len(admitted[u]) - Smaller(buckets[u].count, Max) + 1 \in F
                /\ \A f \in F : admitted[u][f] + Window <= buckets[u].resetAt
            /\ u \notin DOMAIN buckets => \A f \in F : admitted[u][f] + Window <= now
            /\ \A i \in 1..Len(admitted[u]) : admitted[u][i] <= now
    BY DEF HistoryInv, Traced
  <2>3. \A i \in 1..Len(admitted[u]) : admitted[u][i] \in Nat
    BY <1>1 DEF RateLimitInv, RateLimitTypeOK
  <2>4. /\ \A f \in F : admitted[u][f] + Window <= now => admitted[u][f] + Window <= now + 1
        /\ \A i \in 1..Len(admitted[u]) : admitted[u][i] <= now + 1
    BY <1>2, <2>2, <2>3
  <2> QED
    BY <2>1, <2>2, <2>4 DEF Traced
<1>5. ASSUME UNCHANGED vars, NEW u \in Users PROVE Traced(u)'
  BY <1>5 DEF vars, HistoryInv, Traced
<1> QED
  BY <1>1, <1>3, <1>4, <1>5 DEF Next, HistoryInv

\* Nobody has called yet.
THEOREM HistoryInvInitially == Init => HistoryInv
<1> SUFFICES ASSUME Init, NEW u \in Users PROVE Traced(u)
  BY RateLimitInvInitially DEF HistoryInv
<1>1. admitted[u] = <<>> /\ u \notin DOMAIN buckets
  BY DEF Init
<1>2. Len(admitted[u]) = 0 /\ 1..Len(admitted[u]) = {}
  BY <1>1
<1>3. Windows(admitted[u], {})
  BY <1>2 DEF Windows
<1> QED
  BY <1>1, <1>2, <1>3 DEF Traced

\* From the library's well-founded order of the natural numbers.
LEMMA LeastNatural ==
    ASSUME NEW S \in SUBSET Nat, S # {}
    PROVE  \E x \in S : \A y \in S : x <= y
<1> DEFINE R == {ss \in Nat \X Nat : ss[1] < ss[2]}
<1>1. IsWellFoundedOn(R, Nat)
  BY NatLessThanWellFounded DEF OpToRel
<1>2. PICK x \in S : \A y \in S : ~(<<y, x>> \in R)
  <2> HIDE DEF R
  <2> QED
    BY <1>1, WFMin
<1>3. \A y \in S : x <= y
  <2> SUFFICES ASSUME NEW y \in S, ~(x <= y) PROVE FALSE
    OBVIOUS
  <2>1. y < x /\ <<y, x>> \in Nat \X Nat
    OBVIOUS
  <2> QED
    BY <1>2, <2>1
<1> QED
  BY <1>3

\* What the invariant says of the bursts of a user.
LEMMA HistoryBoundsBursts == HistoryInv => BurstIsBounded
<1> SUFFICES ASSUME HistoryInv, NEW u \in Users, NEW t \in 0..now
             PROVE  Cardinality(Between(u, t, t + Window)) <= 2 * Max - 1
  BY DEF BurstIsBounded
<1> DEFINE s == admitted[u]
           within == Between(u, t, t + Window)
<1>1. now \in Nat /\ s \in Seq(Nat) /\ Len(s) \in Nat
  BY DEF HistoryInv, RateLimitInv, RateLimitTypeOK
<1>2. Max \in Nat \ {0} /\ Window \in Nat \ {0}
  BY RateLimitAssumption DEF RateLimitAssumption
<1>3. PICK F : Windows(s, F)
  BY DEF HistoryInv, Traced
<1>4. \A i \in within : i \in 1..Len(s) /\ t <= s[i] /\ s[i] < t + Window
  BY DEF Between
<1> SUFFICES Cardinality(within) <= 2 * Max - 1
  OBVIOUS
<1> HIDE DEF within
<1>5. CASE within = {}
  <2>1. Cardinality(within) = 0
    BY <1>5, FS_EmptySet
  <2> QED
    BY <1>2, <2>1
<1>6. CASE within # {}
  <2>1. PICK m \in within : \A i \in within : m <= i
    <3>1. within \in SUBSET Nat
      BY <1>1, <1>4
    <3> QED
      BY <1>6, <3>1, LeastNatural
  <2> DEFINE last == m + 2 * Max - 2
  <2>2. m \in Int /\ last \in Int /\ m <= last /\ last - m + 1 = 2 * Max - 1
    BY <1>1, <1>2, <1>4, <2>1
  <2>3. ASSUME NEW i \in within PROVE i \in m..last
    <3>1. i \in 1..Len(s) /\ m \in 1..Len(s) /\ m <= i
      BY <1>4, <2>1
    <3>2. SUFFICES ASSUME ~(i <= last) PROVE FALSE
      BY <1>1, <2>2, <3>1
    <3>3. i >= m + 2 * Max - 1
      BY <1>1, <1>2, <3>1, <3>2
    <3>4. s[m] + Window <= s[i]
      BY <1>1, <1>3, <3>1, <3>3, WindowsSpread
    <3>5. s[m] \in Nat /\ s[i] \in Nat /\ t \in Int
      BY <1>1, <3>1
    <3>6. t <= s[m] /\ s[i] < t + Window
      BY <1>4, <2>1
    <3> QED
      BY <1>2, <3>4, <3>5, <3>6
  <2>4. IsFiniteSet(m..last) /\ Cardinality(m..last) = 2 * Max - 1
    <3> HIDE DEF last
    <3>1. IsFiniteSet(m..last)
      BY <2>2, FS_Interval
    <3>2. Cardinality(m..last) = last - m + 1
      BY <2>2, FS_Interval
    <3> QED
      BY <2>2, <3>1, <3>2
  <2>5. within \subseteq m..last
    BY <2>3
  <2>6. Cardinality(within) <= Cardinality(m..last)
    BY <2>4, <2>5, FS_Subset
  <2> QED
    BY <2>4, <2>6
<1> QED
  BY <1>5, <1>6

\* BurstIsBounded: fixed windows let through at most 2 * Max - 1 requests of
\* a user in any time as long as a window, however the Map is pruned.
THEOREM BurstsAreBounded == Spec => []BurstIsBounded
<1>1. Spec => []HistoryInv
  BY HistoryInvInitially, HistoryInvPreserved, PTL DEF Spec
<1> QED
  BY <1>1, HistoryBoundsBursts, PTL
-----------------------------------------------------------------------------
(***************************************************************************)
(* Notifications: the errors that are sent, and what is made of them.      *)
(***************************************************************************)
Answers == {NoAnswer, Success(202)} \cup {SendApiError(code) : code \in DefinedCodes}
Errors == {NoError, Unexpected, Malformed, TimedOut, NoNetwork, ApiError(EmptyAnswer)}
              \cup {ApiError(answer) : answer \in Answers}

\* No defined code is sent with a status that passes for a success.
LEMMA ErrorsAreNotOk == \A code \in DefinedCodes : ~Ok(SendApiError(code))
<1>1. \A code : StatusOf(code) \in {400, 401, 403, 404, 409, 429, 503, 500}
  BY DEF StatusOf, Bad, Unauthorized, Missing, Unavailable
<1>2. \A code : SendApiError(code).status = StatusOf(code)
  BY DEF SendApiError
<1>3. \A n \in {400, 401, 403, 404, 409, 429, 503, 500} : n \notin 200..299
  OBVIOUS
<1> QED
  BY <1>1, <1>2, <1>3 DEF Ok

\* 202 is a success.
LEMMA AcceptedIsOk == Ok(Success(202)) /\ Success(202) \in Answers
<1>1. Success(202).status = 202
  BY Zenon DEF Success
<1>2. 202 \in 200..299
  OBVIOUS
<1> QED
  BY <1>1, <1>2 DEF Ok, Answers

\* The browser finds the code the server has sent.
LEMMA CodesArrive == \A code \in DefinedCodes : ApiError(SendApiError(code)).code = code
<1>1. \A code \in DefinedCodes : code # ""
  BY Zenon DEF DefinedCodes, Bad, Unauthorized, Missing, Unavailable, Passing
<1>2. \A code : SendApiError(code).error = code
  BY DEF SendApiError
<1>3. \A code \in DefinedCodes : ResponseCode(SendApiError(code)) = code
  BY <1>1, <1>2, Zenon DEF ResponseCode
<1> QED
  BY <1>3 DEF ApiError

\* What the tab makes of a call without a proper answer is no early refusal.
LEMMA NoEarlyRefusal ==
    \A error \in {Unexpected, Malformed, TimedOut, NoNetwork, NoError, ApiError(EmptyAnswer)} :
        error.code \notin Early
<1>1. Unexpected.code \notin Early /\ Malformed.code \notin Early
  BY DEF Unexpected, Malformed, Early
<1>2. TimedOut.code \notin Early /\ NoNetwork.code \notin Early
  BY DEF TimedOut, NoNetwork, Early
<1>3. NoError.code \notin Early
  BY Zenon DEF NoError, Early
<1>4. ApiError(EmptyAnswer).code \notin Early
  <2>1. EmptyAnswer.status = 500 /\ EmptyAnswer.error = ""
    BY Zenon DEF EmptyAnswer
  <2>2. CodeOfStatus(500) = "internal_server_error"
    BY DEF CodeOfStatus
  <2>3. ResponseCode(EmptyAnswer) = "internal_server_error"
    BY <2>1, <2>2, Zenon DEF ResponseCode
  <2> QED
    BY <2>3 DEF ApiError, Early
<1> QED
  BY <1>1, <1>2, <1>3, <1>4

CallRecord == [user : Users \cup {NoCall}, tab : TabStages, server : ServerStages,
               gateway : GatewayStages, answer : Answers, told : Errors, sentAt : Nat]

\* What a call has been answered and its tab was told is so.
CallIsTrue(k) ==
    /\ k.tab # "idle" => k.user \in Users
    /\ k.tab = "idle" => k.server = "none"
    /\ k.tab \in {"reading", "completed"} => k.server = "answered"
    /\ k.server = "none" => k.gateway = "none"
    /\ k.server = "answered" =>
        IF Ok(k.answer) THEN k.gateway = "accepted"
                        ELSE ApiError(k.answer).code \in Early => k.gateway = "none"
    /\ k.tab = "completed" => k.gateway = "accepted"
    /\ k.told.code \in Early => k.server = "answered" /\ k.gateway = "none"

\* The request that was admitted for each call that was sent: one of its user,
\* of that time, and no other call's.
Places(place) ==
    /\ \A c \in Calls : call[c].gateway # "none" =>
        /\ place[c] \in 1..Len(admitted[call[c].user])
        /\ admitted[call[c].user][place[c]] = call[c].sentAt
    /\ \A c, d \in Calls :
        /\ call[c].gateway # "none" /\ call[d].gateway # "none"
        /\ call[c].user = call[d].user /\ place[c] = place[d]
        => c = d

NotificationsInv ==
    /\ HistoryInv
    /\ call \in [Calls -> CallRecord]
    /\ \A c \in Calls : CallIsTrue(call[c])
    /\ \E place \in [Calls -> Nat] : Places(place)

\* Nobody has called and nothing was sent.
THEOREM NotificationsInvInitially == NotificationsInit => NotificationsInv
<1> SUFFICES ASSUME NotificationsInit PROVE NotificationsInv
  OBVIOUS
<1>1. /\ Nobody.user = NoCall /\ Nobody.tab = "idle" /\ Nobody.server = "none"
      /\ Nobody.gateway = "none" /\ Nobody.told = NoError /\ Nobody \in CallRecord
  BY DEF Nobody, CallRecord, TabStages, ServerStages, GatewayStages, Answers, Errors
<1>2. CallIsTrue(Nobody)
  BY <1>1, NoEarlyRefusal DEF CallIsTrue
<1>3. \A c \in Calls : call[c] = Nobody
  BY DEF NotificationsInit
<1>4. Places([c \in Calls |-> 0])
  BY <1>1, <1>3 DEF Places
<1> QED
  BY <1>1, <1>2, <1>3, <1>4, HistoryInvInitially DEF NotificationsInv, NotificationsInit

\* What was admitted stays admitted.
LEMMA HistoryGrows ==
    ASSUME HistoryInv, [Next]_vars, NEW u \in Users
    PROVE  /\ admitted[u] \in Seq(Nat) /\ admitted'[u] \in Seq(Nat)
           /\ \A i \in 1..Len(admitted[u]) :
                i \in 1..Len(admitted'[u]) /\ admitted'[u][i] = admitted[u][i]
<1>1. RateLimitInv /\ admitted \in [Users -> Seq(Nat)] /\ now \in Nat
  BY DEF HistoryInv, RateLimitInv, RateLimitTypeOK
<1>2. ASSUME NEW v \in Users, Consume(v)
      PROVE  admitted'[u] \in {admitted[u], Append(admitted[u], now)}
  BY <1>1, <1>2, ConsumeEffect
<1>3. admitted'[u] \in {admitted[u], Append(admitted[u], now)}
  BY <1>2 DEF Next, Tick, vars
<1>4. /\ Append(admitted[u], now) \in Seq(Nat) /\ Len(admitted[u]) \in Nat
      /\ Len(Append(admitted[u], now)) = Len(admitted[u]) + 1
      /\ \A i \in 1..Len(admitted[u]) : Append(admitted[u], now)[i] = admitted[u][i]
  BY <1>1
<1> DEFINE s == admitted[u]
           t == admitted'[u]
<1>5. s \in Seq(Nat) /\ t \in {s, Append(s, now)}
  BY <1>1, <1>3
<1>6. ASSUME NEW i \in 1..Len(s) PROVE i \in 1..Len(t) /\ t[i] = s[i]
  <2> HIDE DEF s, t
  <2> QED
    BY <1>4, <1>5 DEF s
<1> QED
  BY <1>4, <1>5, <1>6

\* A call that is replaced by one that says what is so, and is not sent by that.
LEMMA CallReplaced ==
    ASSUME NotificationsInv, [Next]_vars, NEW c \in Calls, NEW k \in CallRecord,
           CallIsTrue(k), call' = [call EXCEPT ![c] = k],
           k.gateway # "none" => /\ call[c].gateway # "none"
                                 /\ k.sentAt = call[c].sentAt /\ k.user = call[c].user
    PROVE  NotificationsInv'
<1> USE DEF NotificationsInv
<1>1. HistoryInv'
  BY HistoryInvPreserved
<1>2. call' \in [Calls -> CallRecord] /\ call'[c] = k /\ \A d \in Calls \ {c} : call'[d] = call[d]
  OBVIOUS
<1>3. \A d \in Calls : CallIsTrue(call'[d])
  BY <1>2
<1>4. PICK place \in [Calls -> Nat] : Places(place)
  OBVIOUS
<1>5. \A d \in Calls : call'[d].gateway # "none" =>
        /\ call[d].gateway # "none" /\ call'[d].sentAt = call[d].sentAt
        /\ call'[d].user = call[d].user /\ call[d].user \in Users
  <2>1. \A d \in Calls : call[d].gateway # "none" => call[d].user \in Users
    BY DEF CallIsTrue
  <2> QED
    BY <1>2, <2>1
<1>6. Places(place)'
  <2>1. ASSUME NEW d \in Calls, call'[d].gateway # "none"
        PROVE  /\ place[d] \in 1..Len(admitted'[call[d].user])
               /\ admitted'[call[d].user][place[d]] = call[d].sentAt
    BY <1>4, <1>5, <2>1, HistoryGrows DEF Places
  <2> QED
    BY <1>4, <1>5, <2>1 DEF Places
<1> QED
  BY <1>1, <1>2, <1>3, <1>6

\* What a call that is answered with an error, or with none, has to show.
LEMMA AnswersAreTrue ==
    ASSUME NEW k \in CallRecord, CallIsTrue(k), k.tab # "idle", NEW a \in Answers,
           \/ \E code \in DefinedCodes : /\ a = SendApiError(code)
                                         /\ code \in Early => k.gateway = "none"
           \/ a = Success(202) /\ k.gateway = "accepted",
           k.server # "answered"
    PROVE  /\ [k EXCEPT !.server = "answered", !.answer = a] \in CallRecord
           /\ CallIsTrue([k EXCEPT !.server = "answered", !.answer = a])
<1> DEFINE r == [k EXCEPT !.server = "answered", !.answer = a]
<1>1. /\ r \in CallRecord /\ r.server = "answered" /\ r.answer = a /\ r.user = k.user
      /\ r.tab = k.tab /\ r.gateway = k.gateway /\ r.told = k.told
  BY DEF CallRecord, ServerStages
<1>2. IF Ok(a) THEN k.gateway = "accepted" ELSE ApiError(a).code \in Early => k.gateway = "none"
  BY ErrorsAreNotOk, AcceptedIsOk, CodesArrive
<1> QED
  BY <1>1, <1>2 DEF CallIsTrue

\* Codes the server sends for a call.
LEMMA SentCodes ==
    /\ {"service_shutting_down", "auth_required", "invalid_token", "cors_not_allowed",
        "sms_not_configured", "sms_rate_limited", "sms_unavailable"} \subseteq DefinedCodes
    /\ "sms_unavailable" \notin Early
    /\ HandleError("not allowed by CORS") = SendApiError("cors_not_allowed")
<1>1. {"service_shutting_down", "auth_required", "invalid_token", "cors_not_allowed",
       "sms_not_configured", "sms_rate_limited", "sms_unavailable"} \subseteq DefinedCodes
  BY DEF DefinedCodes, Bad, Unauthorized, Missing, Unavailable, Passing
<1>2. "sms_unavailable" \notin Early
  BY DEF Early
<1>3. HandleError("not allowed by CORS") = SendApiError("cors_not_allowed")
  BY DEF HandleError
<1> QED
  BY <1>1, <1>2, <1>3

\* A call that the limiter has let through is sent: it has a place of its own
\* in the history, the last.
LEMMA CallSent ==
    ASSUME NotificationsInv, NEW c \in Calls, call[c].user \in Users, Consume(call[c].user),
           call[c].gateway = "none", admitted'[call[c].user] # admitted[call[c].user],
           NEW k \in CallRecord, CallIsTrue(k), k.user = call[c].user, k.sentAt = now,
           call' = [call EXCEPT ![c] = k]
    PROVE  NotificationsInv'
<1> DEFINE u == call[c].user
<1> USE DEF NotificationsInv
<1>1. HistoryInv' /\ [Next]_vars
  BY HistoryInvPreserved DEF Next
<1>2. call' \in [Calls -> CallRecord] /\ call'[c] = k /\ \A d \in Calls \ {c} : call'[d] = call[d]
  OBVIOUS
<1>3. \A d \in Calls : CallIsTrue(call'[d])
  BY <1>2
<1>4. PICK place \in [Calls -> Nat] : Places(place)
  OBVIOUS
<1>5. /\ admitted'[u] = Append(admitted[u], now) /\ now \in Nat /\ admitted[u] \in Seq(Nat)
  BY ConsumeEffect DEF HistoryInv, RateLimitInv, RateLimitTypeOK
<1> DEFINE last == Len(admitted[u]) + 1
<1>6. /\ last \in Nat /\ last \in 1..Len(admitted'[u]) /\ admitted'[u][last] = now
      /\ last \notin 1..Len(admitted[u])
  BY <1>5
<1>7. PICK next \in [Calls -> Nat] : next[c] = last /\ \A d \in Calls \ {c} : next[d] = place[d]
  <2>1. [place EXCEPT ![c] = last] \in [Calls -> Nat]
    BY <1>6
  <2> QED  BY <2>1
<1> HIDE DEF last
<1>8. ASSUME NEW d \in Calls, call'[d].gateway # "none", d # c
      PROVE  /\ call'[d] = call[d] /\ call[d].user \in Users /\ next[d] = place[d]
             /\ next[d] \in 1..Len(admitted[call[d].user])
             /\ next[d] \in 1..Len(admitted'[call[d].user])
             /\ admitted'[call[d].user][next[d]] = call[d].sentAt
  <2>1. call'[d] = call[d] /\ next[d] = place[d] /\ call[d].user \in Users
    BY <1>2, <1>7, <1>8 DEF CallIsTrue
  <2>2. place[d] \in 1..Len(admitted[call[d].user]) /\ admitted[call[d].user][place[d]] = call[d].sentAt
    BY <1>4, <1>8, <2>1 DEF Places
  <2> QED
    BY <1>1, <2>1, <2>2, HistoryGrows
<1>9. Places(next)'
  <2>1. ASSUME NEW d \in Calls, call'[d].gateway # "none"
        PROVE  /\ next[d] \in 1..Len(admitted'[call'[d].user])
               /\ admitted'[call'[d].user][next[d]] = call'[d].sentAt
    BY <1>2, <1>6, <1>7, <1>8, <2>1
  <2>2. ASSUME NEW d \in Calls, NEW e \in Calls, call'[d].gateway # "none",
               call'[e].gateway # "none", call'[d].user = call'[e].user, next[d] = next[e]
        PROVE  d = e
    BY <1>2, <1>4, <1>6, <1>7, <1>8, <2>2 DEF Places
  <2> QED
    BY <2>1, <2>2 DEF Places
<1> QED
  BY <1>1, <1>2, <1>3, <1>7, <1>9

\* An error is shown: an early refusal only if the call was refused early.
LEMMA ErrorShown ==
    ASSUME NotificationsInv, [Next]_vars, NEW c \in Calls, call[c].tab # "idle",
           NEW error \in Errors, ShowError(c, error),
           error.code \in Early => call[c].server = "answered" /\ call[c].gateway = "none"
    PROVE  NotificationsInv'
<1> DEFINE k == [call[c] EXCEPT !.tab = "failed", !.told = error]
<1>1. /\ k \in CallRecord /\ k.tab = "failed" /\ k.told = error /\ k.user = call[c].user
      /\ k.server = call[c].server /\ k.gateway = call[c].gateway
      /\ k.answer = call[c].answer /\ k.sentAt = call[c].sentAt
  BY DEF NotificationsInv, CallRecord, TabStages
<1>2. call' = [call EXCEPT ![c] = k] /\ CallIsTrue(call[c])
  BY DEF ShowError, NotificationsInv
<1> HIDE DEF k
<1>3. CallIsTrue(k)
  BY <1>1, <1>2 DEF CallIsTrue
<1> QED
  BY <1>1, <1>2, <1>3, CallReplaced

\* The invariant is inductive, whatever is lost, timed out or tried again.
THEOREM NotificationsInvPreserved ==
    NotificationsInv /\ [NotificationsNext]_notificationVars => NotificationsInv'
<1> SUFFICES ASSUME NotificationsInv, [NotificationsNext]_notificationVars PROVE NotificationsInv'
  OBVIOUS
<1>1. /\ call \in [Calls -> CallRecord] /\ \A c \in Calls : call[c] \in CallRecord /\ CallIsTrue(call[c])
      /\ now \in Nat
  BY DEF NotificationsInv, HistoryInv, RateLimitInv, RateLimitTypeOK
<1>2. ASSUME UNCHANGED call, UNCHANGED admitted, [Next]_vars PROVE NotificationsInv'
  BY <1>2, HistoryInvPreserved DEF NotificationsInv, Places
<1>3. ASSUME NEW u \in Users, NEW c \in Calls, Dial(u, c), UNCHANGED vars PROVE NotificationsInv'
  <2> DEFINE k == [call[c] EXCEPT !.user = u, !.tab = "waiting"]
  <2>1. /\ k \in CallRecord /\ k.user = u /\ k.tab = "waiting" /\ k.server = call[c].server
        /\ k.gateway = call[c].gateway /\ k.answer = call[c].answer /\ k.told = call[c].told
        /\ call' = [call EXCEPT ![c] = k]
    BY <1>1, <1>3 DEF Dial, CallRecord, TabStages
  <2> HIDE DEF k
  <2>2. CallIsTrue(k) /\ k.gateway = "none"
    BY <1>1, <1>3, <2>1 DEF Dial, CallIsTrue
  <2> QED
    BY <1>3, <2>1, <2>2, CallReplaced
<1>4. ASSUME NEW c \in Calls, NEW t \in {"reading", "completed"}, UNCHANGED vars,
             call' = [call EXCEPT ![c].tab = t], call[c].server = "answered",
             call[c].tab # "idle", t = "completed" => Ok(call[c].answer)
      PROVE  NotificationsInv'
  <2> DEFINE k == [call[c] EXCEPT !.tab = t]
  <2>1. /\ k \in CallRecord /\ k.user = call[c].user /\ k.tab = t /\ k.server = "answered"
        /\ k.gateway = call[c].gateway /\ k.answer = call[c].answer /\ k.told = call[c].told
        /\ k.sentAt = call[c].sentAt /\ call' = [call EXCEPT ![c] = k]
    BY <1>1, <1>4 DEF CallRecord, TabStages
  <2> HIDE DEF k
  <2>2. CallIsTrue(k)
    BY <1>1, <1>4, <2>1 DEF CallIsTrue
  <2> QED
    BY <1>4, <2>1, <2>2, CallReplaced
<1>5. ASSUME NEW c \in Calls, NEW a \in Answers, Reply(c, a), [Next]_vars,
             call[c].tab # "idle", call[c].server # "answered",
             \/ \E code \in DefinedCodes : /\ a = SendApiError(code)
                                           /\ code \in Early => call[c].gateway = "none"
             \/ a = Success(202) /\ call[c].gateway = "accepted"
      PROVE  NotificationsInv'
  <2> DEFINE k == [call[c] EXCEPT !.server = "answered", !.answer = a]
  <2>1. k \in CallRecord /\ CallIsTrue(k)
    BY <1>1, <1>5, AnswersAreTrue
  <2>2. call' = [call EXCEPT ![c] = k] /\ k.gateway = call[c].gateway
        /\ k.sentAt = call[c].sentAt /\ k.user = call[c].user
    BY <1>1, <1>5 DEF Reply, CallRecord
  <2> HIDE DEF k
  <2> QED
    BY <1>5, <2>1, <2>2, CallReplaced
<1>6. \A code \in DefinedCodes : SendApiError(code) \in Answers
  BY DEF Answers
<1>7. \A c \in Calls : Arrived(c) => call[c].gateway = "none" /\ call[c].user \in Users
  BY <1>1 DEF Arrived, CallIsTrue
<1>8. CASE Passes
  BY <1>2, <1>8 DEF Passes, Tick, smsVars, Next
<1>9. ASSUME NEW c \in Calls, NEW u \in Users, Click(u, c) \/ RetrySms(u, c) PROVE NotificationsInv'
  BY <1>3, <1>9 DEF Click, RetrySms
<1>10. ASSUME NEW c \in Calls, HeadersArrive(c) PROVE NotificationsInv'
  BY <1>4, <1>10 DEF HeadersArrive
<1>11. ASSUME NEW c \in Calls, BodyArrives(c) PROVE NotificationsInv'
  <2>1. call[c].tab = "reading" /\ call[c].server = "answered"
    BY <1>1, <1>11 DEF BodyArrives, CallIsTrue
  <2>2. CASE Ok(call[c].answer)
    BY <1>4, <1>11, <2>1, <2>2 DEF BodyArrives
  <2>3. CASE ~Ok(call[c].answer)
    <3> DEFINE e == ApiError(call[c].answer)
    <3>1. e \in Errors
      BY <1>1 DEF CallRecord, Errors
    <3>2. ShowError(c, e) /\ UNCHANGED vars
      BY <1>11, <2>3 DEF BodyArrives, ShowError
    <3>3. e.code \in Early => call[c].gateway = "none"
      BY <1>1, <2>1, <2>3 DEF CallIsTrue
    <3> HIDE DEF e
    <3> QED
      BY <2>1, <3>1, <3>2, <3>3, ErrorShown
  <2> QED  BY <2>2, <2>3
<1>12. ASSUME NEW c \in Calls, BodyBreaks(c) \/ TabTimesOut(c) \/ NetworkFails(c)
       PROVE  NotificationsInv'
  <2>1. PICK error \in {Unexpected, Malformed, TimedOut, NoNetwork, ApiError(EmptyAnswer)} :
            ShowError(c, error)
    BY <1>12 DEF BodyBreaks, TabTimesOut, NetworkFails
  <2>2. error \in Errors /\ error.code \notin Early
    BY NoEarlyRefusal DEF Errors
  <2>3. UNCHANGED vars /\ call[c].tab # "idle"
    BY <1>12, <2>1 DEF BodyBreaks, TabTimesOut, NetworkFails, ShowError
  <2> QED
    BY <2>1, <2>2, <2>3, ErrorShown
<1>13. ASSUME NEW c \in Calls, Turned(c) PROVE NotificationsInv'
  <2>1. PICK code \in DefinedCodes : Reply(c, SendApiError(code))
    BY <1>13, SentCodes DEF Turned
  <2>2. UNCHANGED vars /\ call[c].gateway = "none" /\ call[c].tab # "idle" /\ call[c].server = "none"
    BY <1>7, <1>13 DEF Turned, Arrived
  <2> QED
    BY <1>5, <1>6, <2>1, <2>2
<1>14. ASSUME NEW c \in Calls, Admit(c) PROVE NotificationsInv'
  <2>1. /\ Arrived(c) /\ call[c].gateway = "none" /\ call[c].user \in Users
        /\ call[c].tab # "idle" /\ call[c].server = "none"
        /\ Consume(call[c].user) /\ [Next]_vars
    BY <1>7, <1>14 DEF Admit, Arrived, Next
  <2>2. CASE admitted'[call[c].user] = admitted[call[c].user]
    BY <1>5, <1>6, <1>14, <2>1, <2>2, SentCodes DEF Admit
  <2>3. CASE admitted'[call[c].user] # admitted[call[c].user] /\ ~configured
    BY <1>5, <1>6, <1>14, <2>1, <2>3, SentCodes DEF Admit, SendManagerNotification
  <2>4. CASE admitted'[call[c].user] # admitted[call[c].user] /\ configured
    <3> DEFINE k == [call[c] EXCEPT !.server = "sending", !.gateway = "received", !.sentAt = now]
    <3>1. /\ k \in CallRecord /\ k.user = call[c].user /\ k.tab = call[c].tab
          /\ k.server = "sending" /\ k.gateway = "received" /\ k.answer = call[c].answer
          /\ k.told = call[c].told /\ k.sentAt = now /\ call' = [call EXCEPT ![c] = k]
      BY <1>1, <1>14, <2>4 DEF Admit, SendManagerNotification, CallRecord, ServerStages, GatewayStages
    <3> HIDE DEF k
    <3>2. CallIsTrue(k)
      BY <1>1, <2>1, <3>1 DEF CallIsTrue
    <3> QED
      BY <2>1, <2>4, <3>1, <3>2, CallSent
  <2> QED  BY <2>2, <2>3, <2>4
<1>15. ASSUME NEW c \in Calls, GatewayAnswers(c) \/ GatewayTimesOut(c) PROVE NotificationsInv'
  <2>1. UNCHANGED vars /\ call[c].server = "sending" /\ call[c].tab # "idle"
    BY <1>1, <1>15 DEF GatewayAnswers, GatewayTimesOut, CallIsTrue
  <2>2. CASE Reply(c, SendApiError("sms_unavailable"))
    BY <1>5, <1>6, <2>1, <2>2, SentCodes
  <2>3. CASE call[c].gateway = "accepted" /\ Reply(c, Success(202))
    BY <1>5, <2>1, <2>3, AcceptedIsOk
  <2> QED
    BY <1>15, <2>2, <2>3 DEF GatewayAnswers, GatewayTimesOut
<1>16. ASSUME NEW c \in Calls, GatewayDecides(c) PROVE NotificationsInv'
  <2>1. PICK g \in {"accepted", "refused"} : call' = [call EXCEPT ![c].gateway = g]
    BY <1>16 DEF GatewayDecides
  <2> DEFINE k == [call[c] EXCEPT !.gateway = g]
  <2>2. /\ k \in CallRecord /\ k.user = call[c].user /\ k.tab = call[c].tab
        /\ k.server = call[c].server /\ k.gateway = g /\ k.answer = call[c].answer
        /\ k.told = call[c].told /\ k.sentAt = call[c].sentAt /\ call' = [call EXCEPT ![c] = k]
    BY <1>1, <2>1 DEF CallRecord, GatewayStages
  <2> HIDE DEF k
  <2>3. UNCHANGED vars /\ call[c].gateway = "received"
    BY <1>16 DEF GatewayDecides
  <2>4. CallIsTrue(k)
    BY <1>1, <2>2, <2>3 DEF CallIsTrue
  <2> QED
    BY <2>2, <2>3, <2>4, CallReplaced
<1>17. CASE UNCHANGED notificationVars
  BY <1>2, <1>17 DEF notificationVars, smsVars, vars
<1> QED
  BY <1>8, <1>9, <1>10, <1>11, <1>12, <1>13, <1>14, <1>15, <1>16, <1>17 DEF NotificationsNext, TabStep

\* So it holds in every reachable state.
THEOREM NotificationsInvariant == NotificationsSpec => []NotificationsInv
BY NotificationsInvInitially, NotificationsInvPreserved, PTL DEF NotificationsSpec

\* TabTellsTheTruth: the tab shows a success only for a call the gateway has
\* accepted, and an early refusal only for one it never gets, whatever is
\* lost, late or tried again.
THEOREM TabsTellTheTruth == NotificationsSpec => []TabTellsTheTruth
<1>1. NotificationsInv => TabTellsTheTruth
  BY DEF NotificationsInv, CallIsTrue, TabTellsTheTruth
<1> QED
  BY NotificationsInvariant, <1>1, PTL

\* GatewayIsSpared: within a window a user makes the gateway work at most
\* 2 * Max - 1 times, however the calls overlap and are retried.
THEOREM GatewayIsAlwaysSpared == NotificationsSpec => []GatewayIsSpared
<1>1. ASSUME NotificationsInv, NEW u \in Users, NEW t \in 0..now
      PROVE  Cardinality(Sent(u, t, t + Window)) <= 2 * Max - 1
  <2> DEFINE S == Sent(u, t, t + Window)
             T == Between(u, t, t + Window)
  <2>1. PICK place \in [Calls -> Nat] : Places(place)
    BY <1>1 DEF NotificationsInv
  <2>2. Cardinality(T) <= 2 * Max - 1
    BY <1>1, HistoryBoundsBursts DEF NotificationsInv, BurstIsBounded
  <2>3. IsFiniteSet(T)
    <3>1. Len(admitted[u]) \in Nat
      BY <1>1 DEF NotificationsInv, HistoryInv, RateLimitInv, RateLimitTypeOK
    <3>2. T \subseteq 1..Len(admitted[u])
      BY DEF Between
    <3>3. IsFiniteSet(1..Len(admitted[u]))
      BY <3>1, FS_Interval
    <3> QED
      BY <3>2, <3>3, FS_Subset
  <2> DEFINE f == [c \in S |-> place[c]]
  <2>4. f \in [S -> T]
    BY <2>1 DEF Places, Sent, Between
  <2>5. \A c, d \in S : f[c] = f[d] => c = d
    BY <2>1 DEF Places, Sent
  <2>6. S \in SUBSET Calls
    BY DEF Sent
  <2> HIDE DEF S, T, f
  <2>7. IsFiniteSet(S) /\ Cardinality(S) <= Cardinality(T)
    BY <2>3, <2>4, <2>5, FS_Injection, Fun_IsInj
  <2>8. Cardinality(S) \in Nat /\ Cardinality(T) \in Nat /\ Max \in Nat
    BY <2>3, <2>7, FS_CardinalityType, RateLimitAssumption DEF RateLimitAssumption
  <2> QED
    BY <2>2, <2>7, <2>8 DEF S
<1>2. NotificationsInv => GatewayIsSpared
  BY <1>1 DEF GatewayIsSpared
<1> QED
  BY NotificationsInvariant, <1>2, PTL
=============================================================================
