------------------------------ MODULE RateLimit ------------------------------
(***************************************************************************)
(* The fixed-window limiter of rate-limit.mjs, in front of POST /sms: one  *)
(* bucket per user in the memory of the process, opened by the first       *)
(* request after the previous one has expired, counted up by every         *)
(* request, admitted or not, and dropped, once expired, when there are     *)
(* more than PruneAbove of them.  consume is synchronous: requests of all  *)
(* users come one after the other, at any distance in time.                *)
(***************************************************************************)
EXTENDS Integers, Sequences, FiniteSets

CONSTANTS
    Users,          \* keys of the limiter
    Window,         \* windowMs, in ticks of the clock
    Max,            \* max
    Second,         \* ticks in a second, the unit of Retry-After
    PruneAbove,     \* the 1000 buckets above which the expired ones go
    MaxTime,        \* bound: last tick of the clock
    MaxCount        \* bound: requests counted by one bucket

ASSUME RateLimitAssumption ==
    /\ Window \in Nat \ {0}
    /\ Max \in Nat \ {0}
    /\ Second \in Nat \ {0}
    /\ PruneAbove \in Nat
    /\ MaxTime \in Nat
    /\ MaxCount \in Nat

VARIABLES
    now,        \* Date.now()
    buckets,    \* the Map: a function on the users that have a bucket
    admitted,   \* history: when each request that was admitted was
    promise     \* history: when Retry-After told a refused user to come back

vars == <<now, buckets, admitted, promise>>

Bucket == [count : Nat, resetAt : Nat]

RateLimitTypeOK ==
    /\ now \in Nat
    /\ DOMAIN buckets \subseteq Users
    /\ \A u \in DOMAIN buckets : buckets[u] \in Bucket
    /\ admitted \in [Users -> Seq(Nat)]
    /\ promise \in [Users -> Nat]

Init ==
    /\ now = 0
    /\ buckets = [u \in {} |-> 0]
    /\ admitted = [u \in Users |-> <<>>]
    /\ promise = [u \in Users |-> 0]
-----------------------------------------------------------------------------
Expired(b) == b.resetAt <= now

\* The bucket a request of u is counted by, after it has been counted.
Counted(u) ==
    IF u \notin DOMAIN buckets \/ Expired(buckets[u])
    THEN [count |-> 1, resetAt |-> now + Window]
    ELSE [buckets[u] EXCEPT !.count = @ + 1]

\* Mutant: whatever is in the Map goes, the bucket of the caller excepted.
PruneAll(b, u) == [v \in {u} |-> b[v]]

\* The expired buckets go when there are too many.
Prune(b, u) ==
    IF Cardinality(DOMAIN b) > PruneAbove
    THEN [v \in {w \in DOMAIN b : ~(b[w].resetAt <= now)} |-> b[v]]
    ELSE b

\* Mutant: rounded down, without the minimum of one second.
FloorSeconds(ticks) == ticks \div Second

RetryAfterSec(ticks) ==
    LET ceil == (ticks + Second - 1) \div Second
    IN  IF ceil > 1 THEN ceil ELSE 1

Allowed(b) == b.count <= Max

\* consume and the middleware: a request of u is counted, then let through
\* or refused with Retry-After.
Consume(u) ==
    LET bucket == Counted(u)
    IN  /\ u \in DOMAIN buckets => buckets[u].count < MaxCount
        /\ buckets' = Prune([v \in DOMAIN buckets \cup {u} |->
                                IF v = u THEN bucket ELSE buckets[v]], u)
        /\ IF Allowed(bucket)
           THEN /\ admitted' = [admitted EXCEPT ![u] = Append(@, now)]
                /\ promise' = [promise EXCEPT ![u] = 0]
           ELSE /\ promise' = [promise EXCEPT ![u] =
                        now + Second * RetryAfterSec(bucket.resetAt - now)]
                /\ UNCHANGED admitted
        /\ UNCHANGED now

\* Time passes between two requests.
Tick ==
    /\ now < MaxTime
    /\ now' = now + 1
    /\ UNCHANGED <<buckets, admitted, promise>>

Next == Tick \/ \E u \in Users : Consume(u)

Spec == Init /\ [][Next]_vars
-----------------------------------------------------------------------------
Between(u, from, to) ==
    {i \in 1..Len(admitted[u]) : from <= admitted[u][i] /\ admitted[u][i] < to}

\* What "three per minute" (README.md:18) amounts to with fixed windows: a
\* user never gets more than 2 * Max - 1 requests through within any time as
\* long as the window, wherever it starts, whatever the other users' requests
\* make the limiter forget.
BurstIsBounded ==
    \A u \in Users : \A t \in 0..now :
        Cardinality(Between(u, t, t + Window)) <= 2 * Max - 1

\* A refused user who comes back when Retry-After says is not refused again.
RetryAfterIsHonest ==
    [][\A u \in Users :
            /\ Consume(u)
            /\ promise[u] # 0
            /\ promise[u] <= now
            => Len(admitted'[u]) = Len(admitted[u]) + 1]_vars

\* A user is refused only if Max requests went through less than a window ago.
RefusedOnlyAfterMax ==
    [][\A u \in Users :
            Consume(u) /\ admitted'[u] = admitted[u] =>
                Cardinality(Between(u, now - Window + 1, now + 1)) >= Max]_vars

\* The Map does not grow without limit: beyond PruneAbove, it only holds
\* users that called within a window of the request that was counted last.
MemoryIsBounded ==
    [][\A u \in Users : Consume(u) /\ Cardinality(DOMAIN buckets') > PruneAbove =>
            \A v \in DOMAIN buckets' :
                \E i \in 1..Len(admitted'[v]) : admitted'[v][i] + Window > now]_vars
=============================================================================
