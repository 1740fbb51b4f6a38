-------------------------- MODULE RateLimiterProofs --------------------------
(***************************************************************************)
(* Proofs about the rate limiter, for any clients, rate, burst and idle    *)
(* timeout.                                                                *)
(***************************************************************************)
EXTENDS RateLimiter, SequenceTheorems, TLAPS

Full == Burst * Cost

\* What the requests i to n have cost.
Owed(n, i) == (n - i + 1) * Cost

-----------------------------------------------------------------------------
(***************************************************************************)
(* One more request costs one more Cost (limiter.go Allow).                *)
(***************************************************************************)
LEMMA OwedStep ==
    ASSUME NEW n \in Nat, NEW i \in Nat, i <= n
    PROVE  /\ Owed(n, i) \in Nat /\ Owed(n + 1, i) = Owed(n, i) + Cost
           /\ (n - i + 2) * Cost = Owed(n, i) + Cost
<1>1. Cost \in Nat /\ n - i + 1 \in Nat
  BY RateAssumption
<1>2. \A m \in Nat : m * Cost \in Nat /\ (m + 1) * Cost = m * Cost + Cost
  BY <1>1
<1>3. Owed(n, i) \in Nat /\ (n - i + 1 + 1) * Cost = Owed(n, i) + Cost
  BY <1>1, <1>2 DEF Owed
<1>4. n + 1 - i + 1 = n - i + 1 + 1 /\ n - i + 2 = n - i + 1 + 1
  OBVIOUS
<1> QED BY <1>3, <1>4 DEF Owed

\* One request costs one token.
LEMMA OwedOne == ASSUME NEW n \in Nat PROVE Owed(n, n) = Cost
<1>1. Cost \in Nat /\ n - n + 1 = 1
  BY RateAssumption
<1>2. 1 * Cost = Cost
  BY <1>1
<1> QED BY <1>1, <1>2 DEF Owed

(***************************************************************************)
(* A bucket holds at least the cost of a request when it is full.          *)
(***************************************************************************)
LEMMA FullAssumption == Full \in Nat /\ Cost \in Nat \ {0} /\ Cost <= Full /\ Idle \in Nat
<1>1. Cost \in Nat \ {0} /\ Burst \in Nat \ {0} /\ Idle \in Nat
  BY RateAssumption
<1>2. \A b \in Nat \ {0}, c \in Nat : b * c \in Nat /\ c <= b * c
  OBVIOUS
<1> QED BY <1>1, <1>2 DEF Full

-----------------------------------------------------------------------------
(***************************************************************************)
(* The type invariant, with the order of the times a bucket holds.         *)
(***************************************************************************)
BucketType == [credit : Nat, last : Nat, lastSeen : Nat]

LimiterType ==
    /\ now \in Nat
    /\ DOMAIN buckets = Keys /\ DOMAIN granted = Keys
    /\ cutoff # None => cutoff \in Nat /\ cutoff <= now
    /\ \A k \in Keys :
        /\ granted[k] \in Seq(Nat)
        /\ \A i \in 1 .. Len(granted[k]) : granted[k][i] <= now
        /\ buckets[k] # None =>
             /\ buckets[k] \in BucketType
             /\ buckets[k].credit <= Full
             /\ buckets[k].last <= buckets[k].lastSeen /\ buckets[k].lastSeen <= now

(***************************************************************************)
(* A bucket is full when it was full at some granted request and no more   *)
(* has been earned since than was spent: some interval of requests is      *)
(* exactly paid for.                                                       *)
(***************************************************************************)
PaidFor(b, g) ==
    b # None => \E i \in 1 .. Len(g) : Owed(Len(g), i) + b.credit = Full + b.last - g[i]

Exact(k) == PaidFor(buckets[k], granted[k])

(***************************************************************************)
(* No interval up to now is overdrawn: what it cost and what is left is at *)
(* most what the bucket held and has earned; a client without a bucket has *)
(* earned back what it spent.                                              *)
(***************************************************************************)
Solvent(b, g, t) ==
    \A i \in 1 .. Len(g) :
        /\ b # None => Owed(Len(g), i) + b.credit <= Full + b.last - g[i]
        /\ b = None => Owed(Len(g), i) <= t - g[i]

Within(g) == \A j \in 1 .. Len(g) : \A i \in 1 .. j : Owed(j, i) <= Full + g[j] - g[i]

Sound(k) == Solvent(buckets[k], granted[k], now) /\ Within(granted[k])

(***************************************************************************)
(* What a request finds: its bucket is well formed and the credit is       *)
(* between nothing and full (limiter.go Allow, rate.Limiter).              *)
(***************************************************************************)
LEMMA CreditBounds ==
    ASSUME LimiterType, NEW k \in Keys
    PROVE  LET b == Bucket(k)
           IN  /\ b \in BucketType /\ b.last <= now /\ b.credit <= Full
               /\ b.last <= b.lastSeen /\ b.lastSeen <= now
               /\ Credit(b) \in Nat /\ Credit(b) <= Full
               /\ Credit(b) = IF b.credit + (now - b.last) > Full THEN Full
                              ELSE b.credit + (now - b.last)
<1> DEFINE b == Bucket(k)
<1>1. now \in Nat /\ Full \in Nat
  BY FullAssumption DEF LimiterType
<1>2. /\ b \in BucketType /\ b.last <= now /\ b.credit <= Full
      /\ b.last <= b.lastSeen /\ b.lastSeen <= now
  <2>1. CASE buckets[k] = None
    <3>1. b = [credit |-> Full, last |-> now, lastSeen |-> now]
      BY <2>1 DEF Bucket, NewLimiter, Full
    <3>2. b.credit = Full /\ b.last = now /\ b.lastSeen = now
      BY <3>1
    <3>3. b \in BucketType
      BY <1>1, <3>1 DEF BucketType
    <3>4. Full <= Full /\ now <= now
      BY <1>1
    <3> QED BY ONLY <3>2, <3>3, <3>4
  <2>2. CASE buckets[k] # None
    <3>1. b = buckets[k]
      BY <2>2 DEF Bucket
    <3>2. /\ b \in BucketType /\ b.credit <= Full
          /\ b.last <= b.lastSeen /\ b.lastSeen <= now
      BY <2>2, <3>1 DEF LimiterType
    <3>3. b.last \in Nat /\ b.lastSeen \in Nat
      BY <3>2 DEF BucketType
    <3> HIDE DEF b
    <3> QED BY <1>1, <3>2, <3>3
  <2> QED BY <2>1, <2>2
<1>3. b.credit \in Nat /\ b.last \in Nat
  BY <1>2 DEF BucketType
<1> HIDE DEF b
<1>4. Credit(b) = IF b.credit + (now - b.last) > Full THEN Full ELSE b.credit + (now - b.last)
  BY DEF Credit, Full
<1> QED BY <1>1, <1>2, <1>3, <1>4 DEF b

-----------------------------------------------------------------------------
(***************************************************************************)
(* What Allow does to the client's bucket and to its grants.               *)
(***************************************************************************)
Grants(k) ==
    LET b == Bucket(k)
    IN  /\ Credit(b) >= Cost
        /\ buckets' = [buckets EXCEPT ![k] = [credit |-> Credit(b) - Cost, last |-> now,
                                              lastSeen |-> now]]
        /\ granted' = [granted EXCEPT ![k] = Append(@, now)]

Refuses(k) ==
    LET b == Bucket(k)
    IN  /\ Credit(b) < Cost
        /\ buckets' = [buckets EXCEPT ![k] = [b EXCEPT !.lastSeen = now]]
        /\ granted' = granted /\ refused' = k

(***************************************************************************)
(* A granted request is appended to the grants, and its cost is taken.     *)
(***************************************************************************)
LEMMA GrantedBucket ==
    ASSUME LimiterType, NEW k \in Keys, Grants(k)
    PROVE  LET b == Bucket(k)
               n == Len(granted[k])
           IN  /\ buckets'[k] = [credit |-> Credit(b) - Cost, last |-> now, lastSeen |-> now]
               /\ buckets'[k] \in BucketType /\ buckets'[k] # None
               /\ buckets'[k].credit = Credit(b) - Cost /\ buckets'[k].last = now
               /\ buckets'[k].lastSeen = now
               /\ n \in Nat /\ granted'[k] \in Seq(Nat) /\ Len(granted'[k]) = n + 1
               /\ granted'[k][n + 1] = now
               /\ \A i \in 1 .. n : granted'[k][i] = granted[k][i] /\ granted[k][i] \in Nat
<1> DEFINE b == Bucket(k)
<1>1. buckets'[k] = [credit |-> Credit(b) - Cost, last |-> now, lastSeen |-> now]
  BY DEF Grants, LimiterType
<1>2. Credit(b) - Cost \in Nat /\ now \in Nat
  BY CreditBounds, FullAssumption DEF Grants, LimiterType
<1>3. granted[k] \in Seq(Nat) /\ granted'[k] = Append(granted[k], now)
  BY DEF Grants, LimiterType
<1>4. buckets'[k] \in BucketType /\ buckets'[k] # None
  BY <1>1, <1>2, NoneAssumption DEF BucketType
<1> HIDE DEF b
<1>5. /\ Len(granted[k]) \in Nat /\ granted'[k] \in Seq(Nat)
      /\ Len(granted'[k]) = Len(granted[k]) + 1
      /\ granted'[k][Len(granted[k]) + 1] = now
      /\ \A i \in 1 .. Len(granted[k]) :
             granted'[k][i] = granted[k][i] /\ granted[k][i] \in Nat
  BY <1>2, <1>3, AppendProperties, LenProperties, ElementOfSeq
<1>6. /\ buckets'[k].credit = Credit(b) - Cost /\ buckets'[k].last = now
      /\ buckets'[k].lastSeen = now
  BY <1>1
<1> QED BY <1>1, <1>4, <1>5, <1>6 DEF b

(***************************************************************************)
(* A refused request had a bucket, and only changes when it was last seen. *)
(***************************************************************************)
LEMMA RefusedBucket ==
    ASSUME LimiterType, NEW k \in Keys, Refuses(k)
    PROVE  /\ buckets[k] # None /\ Bucket(k) = buckets[k]
           /\ buckets'[k] \in BucketType /\ buckets'[k] # None
           /\ buckets'[k].credit = buckets[k].credit /\ buckets'[k].last = buckets[k].last
           /\ buckets'[k].lastSeen = now
           /\ Credit(buckets[k]) = buckets[k].credit + (now - buckets[k].last)
<1> DEFINE b == Bucket(k)
<1>1. /\ b \in BucketType /\ b.last <= now /\ b.credit <= Full
      /\ Credit(b) \in Nat /\ Credit(b) < Cost
      /\ Credit(b) = IF b.credit + (now - b.last) > Full THEN Full
                     ELSE b.credit + (now - b.last)
  BY CreditBounds DEF Refuses
<1>2. Full \in Nat /\ Cost \in Nat /\ Cost <= Full /\ now \in Nat
  BY FullAssumption DEF LimiterType
<1>3. Credit(b) = b.credit + (now - b.last)
  BY <1>1, <1>2
<1>4. buckets[k] # None
  <2>1. SUFFICES ASSUME buckets[k] = None PROVE FALSE
    OBVIOUS
  <2>2. b = [credit |-> Full, last |-> now, lastSeen |-> now]
    BY <2>1 DEF Bucket, NewLimiter, Full
  <2>3. b.credit = Full /\ b.last = now
    BY <2>2
  <2> HIDE DEF b
  <2> QED BY <1>1, <1>2, <1>3, <2>3
<1>5. b = buckets[k]
  BY <1>4 DEF Bucket
<1>6. buckets'[k] = [b EXCEPT !.lastSeen = now]
  BY DEF Refuses, LimiterType
<1> HIDE DEF b
<1>7. /\ buckets'[k] \in BucketType /\ buckets'[k].credit = b.credit
      /\ buckets'[k].last = b.last /\ buckets'[k].lastSeen = now
  BY <1>1, <1>2, <1>6 DEF BucketType
<1>8. buckets'[k] # None
  BY <1>7, NoneAssumption DEF BucketType
<1> QED BY <1>3, <1>4, <1>5, <1>7, <1>8 DEF b

(***************************************************************************)
(* Allow lets the request through or refuses it.                           *)
(***************************************************************************)
LEMMA AllowCases ==
    ASSUME NEW k \in Keys, Allow(k)
    PROVE  UNCHANGED <<now, cutoff, swept>> /\ ((Grants(k) /\ refused' = None) \/ Refuses(k))
BY DEF Allow, Grants, Refuses

-----------------------------------------------------------------------------
(***************************************************************************)
(* Every step keeps the types.                                             *)
(***************************************************************************)
LEMMA TypeStep == LimiterType /\ [Next]_vars => LimiterType'
<1> SUFFICES ASSUME LimiterType, [Next]_vars PROVE LimiterType'
  OBVIOUS
<1> DEFINE KeyType(k) ==
             /\ granted[k] \in Seq(Nat)
             /\ \A i \in 1 .. Len(granted[k]) : granted[k][i] <= now
             /\ buckets[k] # None =>
                  /\ buckets[k] \in BucketType
                  /\ buckets[k].credit <= Full
                  /\ buckets[k].last <= buckets[k].lastSeen /\ buckets[k].lastSeen <= now
<1>0. now \in Nat /\ Full \in Nat /\ \A k \in Keys : KeyType(k)
  BY FullAssumption DEF LimiterType
<1>1. CASE UNCHANGED vars
  BY <1>1 DEF LimiterType, vars
<1>2. CASE Tick
  <2>1. now' = now + 1 /\ UNCHANGED <<buckets, cutoff, granted>>
    BY <1>2 DEF Tick
  <2>2. ASSUME NEW k \in Keys PROVE KeyType(k)'
    <3>1. \A i \in 1 .. Len(granted[k]) : granted[k][i] \in Nat
      BY <1>0, ElementOfSeq
    <3> QED BY <1>0, <2>1, <3>1 DEF BucketType
  <2> QED BY <1>0, <2>1, <2>2 DEF LimiterType
<1>3. CASE ReadCutoff
  <2>1. cutoff' = now /\ UNCHANGED <<now, buckets, granted>>
    BY <1>3 DEF ReadCutoff
  <2> QED BY <1>0, <2>1 DEF LimiterType
<1>4. CASE Evict
  <2>1. /\ cutoff' = None /\ UNCHANGED <<now, granted>> /\ DOMAIN buckets' = Keys
        /\ \A k \in Keys : buckets'[k] \in {None, buckets[k]}
    BY <1>4 DEF Evict
  <2>2. \A k \in Keys : KeyType(k)'
    BY <1>0, <2>1
  <2> QED BY <1>0, <2>1, <2>2 DEF LimiterType
<1>5. ASSUME NEW k \in Keys, Allow(k) PROVE LimiterType'
  <2>1. UNCHANGED <<now, cutoff>> /\ (Grants(k) \/ Refuses(k))
    BY <1>5, AllowCases
  <2>2. /\ DOMAIN buckets' = Keys /\ DOMAIN granted' = Keys
        /\ \A j \in Keys : j # k => buckets'[j] = buckets[j] /\ granted'[j] = granted[j]
    BY <2>1 DEF Grants, Refuses, LimiterType
  <2>3. KeyType(k)'
    <3>1. CASE Grants(k)
      <4>1. /\ Credit(Bucket(k)) \in Nat /\ Credit(Bucket(k)) <= Full
            /\ Credit(Bucket(k)) >= Cost /\ Cost \in Nat
        BY <3>1, CreditBounds, FullAssumption DEF Grants
      <4> DEFINE n == Len(granted[k])
      <4>2. /\ buckets'[k] \in BucketType
            /\ buckets'[k].credit = Credit(Bucket(k)) - Cost /\ buckets'[k].last = now
            /\ buckets'[k].lastSeen = now
            /\ n \in Nat /\ granted'[k] \in Seq(Nat) /\ Len(granted'[k]) = n + 1
            /\ granted'[k][n + 1] = now
            /\ \A i \in 1 .. n : granted'[k][i] = granted[k][i]
        BY <3>1, GrantedBucket
      <4>3. buckets'[k].credit <= Full
        BY <1>0, <4>1, <4>2
      <4>4. ASSUME NEW i \in 1 .. Len(granted'[k]) PROVE granted'[k][i] <= now
        <5>1. \A j \in 1 .. n : granted[k][j] <= now
          BY <1>0
        <5>2. i \in 1 .. n \/ i = n + 1
          BY <4>2
        <5>3. now <= now
          BY <1>0
        <5> QED BY <4>2, <5>1, <5>2, <5>3
      <4> QED BY <1>0, <2>1, <4>2, <4>3, <4>4
    <3>2. CASE Refuses(k)
      <4>1. granted' = granted
        BY <3>2 DEF Refuses
      <4>2. /\ buckets[k] # None /\ buckets'[k] \in BucketType
            /\ buckets'[k].credit = buckets[k].credit /\ buckets'[k].last = buckets[k].last
            /\ buckets'[k].lastSeen = now
        BY <3>2, RefusedBucket
      <4>3. buckets[k].last <= now /\ now <= now
        BY <1>0, <4>2 DEF BucketType
      <4> QED BY <1>0, <2>1, <4>1, <4>2, <4>3
    <3> QED BY <2>1, <3>1, <3>2
  <2>4. \A j \in Keys : KeyType(j)'
    BY <1>0, <2>1, <2>2, <2>3
  <2> QED BY <1>0, <2>1, <2>2, <2>4 DEF LimiterType
<1> QED BY <1>1, <1>2, <1>3, <1>4, <1>5 DEF Next

(***************************************************************************)
(* Every step keeps some interval of each client's requests exactly paid   *)
(* for.                                                                    *)
(***************************************************************************)
LEMMA ExactStep ==
    LimiterType /\ (\A k \in Keys : Exact(k)) /\ [Next]_vars => \A k \in Keys : Exact(k)'
<1> SUFFICES ASSUME LimiterType, \A k \in Keys : Exact(k), [Next]_vars, NEW k \in Keys
             PROVE  Exact(k)'
  OBVIOUS
<1>1. ASSUME buckets'[k] \in {None, buckets[k]}, granted'[k] = granted[k] PROVE Exact(k)'
  BY <1>1 DEF Exact, PaidFor
<1>2. CASE Tick \/ ReadCutoff \/ Evict \/ UNCHANGED vars
  BY <1>1, <1>2 DEF Tick, ReadCutoff, Evict, vars
<1>3. ASSUME NEW j \in Keys, Allow(j), j # k PROVE Exact(k)'
  <2>1. buckets'[k] = buckets[k] /\ granted'[k] = granted[k]
    BY <1>3, AllowCases DEF Grants, Refuses, LimiterType
  <2> QED BY <1>1, <2>1
<1>4. CASE Allow(k) /\ Refuses(k)
  <2>1. /\ buckets'[k].credit = buckets[k].credit /\ buckets'[k].last = buckets[k].last
        /\ buckets[k] # None /\ granted' = granted
    BY <1>4, RefusedBucket DEF Refuses
  <2> QED BY <2>1 DEF Exact, PaidFor
<1>5. CASE Allow(k) /\ Grants(k)
  <2> DEFINE b == Bucket(k)
             n == Len(granted[k])
  <2>1. /\ buckets'[k].credit = Credit(b) - Cost /\ buckets'[k].last = now
        /\ n \in Nat /\ Len(granted'[k]) = n + 1 /\ granted'[k][n + 1] = now
        /\ \A i \in 1 .. n : granted'[k][i] = granted[k][i] /\ granted[k][i] \in Nat
    BY <1>5, GrantedBucket
  <2>2. /\ b \in BucketType /\ b.last <= now /\ b.credit <= Full /\ Credit(b) \in Nat
        /\ Credit(b) = IF b.credit + (now - b.last) > Full THEN Full
                       ELSE b.credit + (now - b.last)
    BY CreditBounds
  <2>3. b.credit \in Nat /\ b.last \in Nat /\ now \in Nat /\ Full \in Nat /\ Cost \in Nat
    BY <2>2, FullAssumption DEF BucketType, LimiterType
  <2>4. ASSUME Credit(b) = Full PROVE Exact(k)'
    <3>1. Owed(n + 1, n + 1) = Cost
      BY <2>1, OwedOne
    <3>2. n + 1 \in 1 .. n + 1 /\ Owed(n + 1, n + 1) + (Credit(b) - Cost) = Full + now - now
      BY <2>1, <2>3, <2>4, <3>1
    <3> HIDE DEF b, n
    <3> QED BY <2>1, <3>2 DEF Exact, PaidFor
  <2>5. ASSUME Credit(b) # Full PROVE Exact(k)'
    <3>1. buckets[k] # None
      <4>1. SUFFICES ASSUME buckets[k] = None PROVE FALSE
        OBVIOUS
      <4>2. b = [credit |-> Full, last |-> now, lastSeen |-> now]
        BY <4>1 DEF Bucket, NewLimiter, Full
      <4>3. b.credit = Full /\ b.last = now
        BY <4>2
      <4> HIDE DEF b
      <4> QED BY <2>2, <2>3, <2>5, <4>3
    <3>2. b = buckets[k]
      BY <3>1 DEF Bucket
    <3>3. PICK i \in 1 .. n : Owed(n, i) + b.credit = Full + b.last - granted[k][i]
      BY <3>1, <3>2 DEF Exact, PaidFor
    <3>4. Owed(n, i) \in Nat /\ Owed(n + 1, i) = Owed(n, i) + Cost
      <4>1. i \in Nat /\ i <= n
        BY <2>1
      <4> HIDE DEF n
      <4> QED BY <2>1, <4>1, OwedStep
    <3> HIDE DEF b, n
    <3>5. Credit(b) = b.credit + (now - b.last)
      BY <2>2, <2>3, <2>5
    <3>6. granted'[k][i] = granted[k][i] /\ granted[k][i] \in Nat /\ i \in 1 .. n + 1
      BY <2>1
    <3>7. Owed(n + 1, i) + (Credit(b) - Cost) = Full + now - granted[k][i]
      BY <2>3, <3>3, <3>4, <3>5, <3>6
    <3> QED BY <2>1, <3>6, <3>7 DEF Exact, PaidFor
  <2> QED BY <2>4, <2>5
<1>6. CASE Allow(k)
  BY <1>4, <1>5, <1>6, AllowCases
<1> QED BY <1>2, <1>3, <1>6 DEF Next

-----------------------------------------------------------------------------
(***************************************************************************)
(* What a request finds in its bucket, new or not, and what the requests   *)
(* since any earlier one cost, are covered by a full bucket and the time   *)
(* since (limiter.go Allow).                                               *)
(***************************************************************************)
LEMMA SolventNow ==
    ASSUME LimiterType, NEW k \in Keys, Solvent(buckets[k], granted[k], now),
           NEW i \in 1 .. Len(granted[k])
    PROVE  Owed(Len(granted[k]), i) + Credit(Bucket(k)) <= Full + now - granted[k][i]
<1> DEFINE n == Len(granted[k])
           b == Bucket(k)
<1>1. /\ b \in BucketType /\ b.last <= now /\ Credit(b) \in Nat /\ Credit(b) <= Full
      /\ Credit(b) = IF b.credit + (now - b.last) > Full THEN Full
                     ELSE b.credit + (now - b.last)
  BY CreditBounds
<1>2. /\ b.credit \in Nat /\ b.last \in Nat /\ now \in Nat /\ Full \in Nat
      /\ granted[k] \in Seq(Nat) /\ n \in Nat
  BY <1>1, FullAssumption, LenProperties DEF BucketType, LimiterType
<1>3. granted[k][i] \in Nat /\ i \in Nat /\ i <= n
  BY <1>2, ElementOfSeq
<1>4. Owed(n, i) \in Nat
  BY <1>2, <1>3, OwedStep
<1>5. ASSUME buckets[k] = None PROVE Owed(n, i) + Credit(b) <= Full + now - granted[k][i]
  <2>1. Owed(n, i) <= now - granted[k][i]
    BY <1>5 DEF Solvent
  <2>2. \A o, c, g \in Nat : o <= now - g /\ c <= Full => o + c <= Full + now - g
    BY <1>2
  <2> HIDE DEF n, b
  <2> QED BY <1>1, <1>2, <1>3, <1>4, <2>1, <2>2
<1>6. ASSUME buckets[k] # None PROVE Owed(n, i) + Credit(b) <= Full + now - granted[k][i]
  <2>1. b = buckets[k]
    BY <1>6 DEF Bucket
  <2>2. Owed(n, i) + b.credit <= Full + b.last - granted[k][i]
    BY <1>6, <2>1 DEF Solvent
  <2>3. \A o, c, d, l, g \in Nat :
           o + d <= Full + l - g /\ c <= d + (now - l) => o + c <= Full + now - g
    BY <1>2
  <2> HIDE DEF n, b
  <2>4. Credit(b) <= b.credit + (now - b.last)
    BY <1>1, <1>2
  <2> QED BY <1>1, <1>2, <1>3, <1>4, <2>2, <2>3, <2>4
<1> QED BY <1>5, <1>6

(***************************************************************************)
(* A bucket is not forgotten before it would be full again.  main's        *)
(* defaults, 5 requests per second, a burst of 20 and ten minutes, are far *)
(* within it; New and the flags take any numbers.                          *)
(***************************************************************************)
RefillsBeforeEviction == Burst * Cost <= Idle + 1

(***************************************************************************)
(* Forgetting a bucket, with the clock read before the mutex was taken,    *)
(* forgets nothing that is owed (limiter.go evictIdle).                    *)
(***************************************************************************)
LEMMA EvictSound ==
    ASSUME RefillsBeforeEviction, LimiterType, NEW k \in Keys, Evict,
           Solvent(buckets[k], granted[k], now)
    PROVE  Solvent(buckets'[k], granted[k], now)
<1>1. CASE buckets'[k] = buckets[k]
  BY <1>1
<1>2. CASE buckets'[k] # buckets[k]
  <2>1. /\ buckets'[k] = None /\ buckets[k] # None /\ buckets[k].lastSeen + Idle < cutoff
        /\ cutoff # None
    BY <1>2 DEF Evict
  <2> DEFINE b == buckets[k]
             n == Len(granted[k])
  <2>2. /\ b \in BucketType /\ b.last <= b.lastSeen /\ cutoff \in Nat /\ cutoff <= now
        /\ now \in Nat /\ granted[k] \in Seq(Nat)
    BY <2>1 DEF LimiterType
  <2>3. /\ b.credit \in Nat /\ b.last \in Nat /\ b.lastSeen \in Nat /\ n \in Nat
        /\ Full \in Nat /\ Idle \in Nat /\ Full <= Idle + 1
    BY <2>2, FullAssumption, LenProperties DEF BucketType, RefillsBeforeEviction, Full
  <2>4. b.lastSeen + Idle < cutoff
    BY <2>1
  <2>5. ASSUME NEW i \in 1 .. n PROVE Owed(n, i) <= now - granted[k][i]
    <3>1. Owed(n, i) + b.credit <= Full + b.last - granted[k][i]
      BY <2>1 DEF Solvent
    <3>2. granted[k][i] \in Nat /\ i \in Nat /\ i <= n
      BY <2>2, <2>3, ElementOfSeq
    <3>3. Owed(n, i) \in Nat
      BY <2>3, <3>2, OwedStep
    <3>4. \A o, c, f, l, g, ls, u \in Nat :
             o + c <= f + l - g /\ l <= ls /\ ls + Idle < u /\ u <= now /\ f <= Idle + 1
                 => o <= now - g
      BY <2>2, <2>3
    <3> HIDE DEF b, n
    <3> QED BY <2>2, <2>3, <2>4, <3>1, <3>2, <3>3, <3>4
  <2> QED BY <2>1, <2>5 DEF Solvent
<1> QED BY <1>1, <1>2

(***************************************************************************)
(* Letting a request through overdraws no interval (limiter.go Allow).     *)
(***************************************************************************)
LEMMA GrantSound ==
    ASSUME LimiterType, NEW k \in Keys, Grants(k), Sound(k)
    PROVE  Solvent(buckets'[k], granted'[k], now) /\ Within(granted'[k])
<1> DEFINE n == Len(granted[k])
           b == Bucket(k)
           g == granted[k]
           h == granted'[k]
<1>1. /\ buckets'[k] # None /\ buckets'[k].credit = Credit(b) - Cost /\ buckets'[k].last = now
      /\ n \in Nat /\ Len(h) = n + 1 /\ h[n + 1] = now
      /\ \A i \in 1 .. n : h[i] = g[i] /\ g[i] \in Nat
  BY GrantedBucket
<1>2. /\ Credit(b) \in Nat /\ Credit(b) <= Full /\ Credit(b) >= Cost /\ Cost \in Nat
      /\ Full \in Nat /\ now \in Nat
  BY CreditBounds, FullAssumption DEF Grants, LimiterType
<1>3. \A i \in 1 .. n : Owed(n, i) + Credit(b) <= Full + now - g[i]
  BY SolventNow DEF Sound
<1>4. \A j \in 1 .. n : \A i \in 1 .. j : Owed(j, i) <= Full + g[j] - g[i]
  BY DEF Sound, Within
<1>5. \A i \in 1 .. n : Owed(n, i) \in Nat /\ Owed(n + 1, i) = Owed(n, i) + Cost
  <2> HIDE DEF n
  <2> QED BY <1>1, OwedStep
<1>6. Owed(n + 1, n + 1) = Cost
  <2> HIDE DEF n
  <2> QED BY <1>1, OwedOne
<1> HIDE DEF n, b, g, h
<1>7. ASSUME NEW i \in 1 .. n + 1
      PROVE  /\ Owed(n + 1, i) + (Credit(b) - Cost) <= Full + now - h[i]
             /\ Owed(n + 1, i) <= Full + now - h[i]
  <2>1. CASE i \in 1 .. n
    <3>1. /\ Owed(n, i) \in Nat /\ Owed(n + 1, i) = Owed(n, i) + Cost
          /\ Owed(n, i) + Credit(b) <= Full + now - g[i] /\ h[i] = g[i] /\ g[i] \in Nat
      BY <1>1, <1>3, <1>5, <2>1
    <3> QED BY <1>2, <3>1
  <2>2. CASE i = n + 1
    BY <1>1, <1>2, <1>6, <2>2
  <2> QED BY <1>1, <2>1, <2>2
<1>8. ASSUME NEW j \in 1 .. n + 1, NEW i \in 1 .. j PROVE Owed(j, i) <= Full + h[j] - h[i]
  <2>1. CASE j = n + 1
    BY <1>1, <1>7, <2>1
  <2>2. CASE j \in 1 .. n
    <3>1. i \in 1 .. n
      BY <1>1, <2>2
    <3> QED BY <1>1, <1>4, <2>2, <3>1
  <2> QED BY <1>1, <2>1, <2>2
<1>9. Within(h)
  BY <1>1, <1>8 DEF Within
<1>10. Solvent(buckets'[k], h, now)
  BY <1>1, <1>7 DEF Solvent
<1> QED BY <1>9, <1>10 DEF h

(***************************************************************************)
(* No step overdraws an interval of any client.                            *)
(***************************************************************************)
LEMMA SoundStep ==
    ASSUME RefillsBeforeEviction
    PROVE  LimiterType /\ (\A k \in Keys : Sound(k)) /\ [Next]_vars => \A k \in Keys : Sound(k)'
<1> SUFFICES ASSUME LimiterType, \A k \in Keys : Sound(k), [Next]_vars, NEW k \in Keys
             PROVE  Sound(k)'
  OBVIOUS
<1>0. Solvent(buckets[k], granted[k], now) /\ Within(granted[k])
  BY DEF Sound
<1>1. CASE Tick
  <2>1. buckets' = buckets /\ granted' = granted /\ now' = now + 1
    BY <1>1 DEF Tick
  <2>2. now \in Nat /\ granted[k] \in Seq(Nat)
    BY DEF LimiterType
  <2>3. ASSUME NEW i \in 1 .. Len(granted[k]), Owed(Len(granted[k]), i) <= now - granted[k][i]
        PROVE  Owed(Len(granted[k]), i) <= (now + 1) - granted[k][i]
    <3>1. granted[k][i] \in Nat /\ Len(granted[k]) \in Nat /\ i \in Nat /\ i <= Len(granted[k])
      BY <2>2, ElementOfSeq, LenProperties
    <3>2. Owed(Len(granted[k]), i) \in Nat
      BY <3>1, OwedStep
    <3> QED BY <2>2, <2>3, <3>1, <3>2
  <2>4. Solvent(buckets[k], granted[k], now + 1)
    BY <1>0, <2>3 DEF Solvent
  <2> QED BY <1>0, <2>1, <2>4 DEF Sound
<1>2. CASE ReadCutoff \/ UNCHANGED vars
  <2>1. buckets' = buckets /\ granted' = granted /\ now' = now
    BY <1>2 DEF ReadCutoff, vars
  <2> QED BY <1>0, <2>1 DEF Sound
<1>3. CASE Evict
  <2>1. granted' = granted /\ now' = now
    BY <1>3 DEF Evict
  <2> QED BY <1>0, <1>3, <2>1, EvictSound DEF Sound
<1>4. ASSUME NEW j \in Keys, Allow(j) PROVE Sound(k)'
  <2>1. now' = now /\ (Grants(j) \/ Refuses(j))
    BY <1>4, AllowCases
  <2>2. CASE j # k
    <3>1. buckets'[k] = buckets[k] /\ granted'[k] = granted[k]
      BY <2>1, <2>2 DEF Grants, Refuses, LimiterType
    <3> QED BY <1>0, <2>1, <3>1 DEF Sound
  <2>3. CASE j = k /\ Grants(k)
    BY <2>1, <2>3, GrantSound DEF Sound
  <2>4. CASE j = k /\ Refuses(k)
    <3>1. /\ buckets'[k].credit = buckets[k].credit /\ buckets'[k].last = buckets[k].last
          /\ buckets[k] # None /\ buckets'[k] # None /\ granted' = granted
      BY <2>4, RefusedBucket DEF Refuses
    <3>2. Solvent(buckets'[k], granted[k], now)
      BY <1>0, <3>1 DEF Solvent
    <3> QED BY <1>0, <2>1, <3>1, <3>2 DEF Sound
  <2> QED BY <2>1, <2>2, <2>3, <2>4
<1> QED BY <1>1, <1>2, <1>3, <1>4 DEF Next

(***************************************************************************)
(* The initial state: no bucket and no grant.                              *)
(***************************************************************************)
LEMMA InitLimiter == Init => LimiterType /\ (\A k \in Keys : Exact(k)) /\ (\A k \in Keys : Sound(k))
<1> SUFFICES ASSUME Init PROVE LimiterType /\ \A k \in Keys : Exact(k) /\ Sound(k)
  OBVIOUS
<1>1. \A k \in Keys : buckets[k] = None /\ granted[k] = <<>> /\ Len(granted[k]) = 0
  BY EmptySeq DEF Init
<1>2. LimiterType
  BY <1>1 DEF Init, LimiterType
<1> QED BY <1>1, <1>2 DEF Exact, PaidFor, Sound, Solvent, Within

(***************************************************************************)
(* The limit is kept over every interval, however often the client's       *)
(* bucket is forgotten and made anew, for any rate, burst and idle timeout *)
(* in which a bucket refills before it may be forgotten (limiter.go Allow, *)
(* evictIdle).                                                             *)
(***************************************************************************)
THEOREM RateHolds == ASSUME RefillsBeforeEviction PROVE Spec => []RateHonoured
<1> DEFINE IInv == LimiterType /\ \A k \in Keys : Sound(k)
<1>1. Init => IInv
  BY InitLimiter
<1>2. IInv /\ [Next]_vars => IInv'
  BY TypeStep, SoundStep
<1>3. IInv => RateHonoured
  <2> SUFFICES ASSUME IInv, NEW k \in Keys, NEW j \in DOMAIN granted[k], NEW i \in 1 .. j
               PROVE  (j - i + 1) * Cost <= Burst * Cost + granted[k][j] - granted[k][i]
    BY DEF RateHonoured
  <2>1. j \in 1 .. Len(granted[k])
    BY LenProperties DEF LimiterType
  <2> QED BY <2>1 DEF Sound, Within, Owed, Full
<1> HIDE DEF IInv
<1> QED BY <1>1, <1>2, <1>3, PTL DEF Spec

(***************************************************************************)
(* A client is refused only when some interval of its own requests leaves  *)
(* no room for another, for any rate, burst and idle timeout: no other     *)
(* client, no eviction and no clock read early takes anything from it      *)
(* (limiter.go Allow, evictIdle).                                          *)
(***************************************************************************)
THEOREM RefusedHolds == Spec => []RefusedWhenSpent
<1> DEFINE IInv == LimiterType /\ (\A k \in Keys : Exact(k)) /\ RefusedWhenSpent
<1>1. Init => IInv
  BY InitLimiter DEF Init, RefusedWhenSpent
<1>2. ASSUME IInv, [Next]_vars PROVE IInv'
  <2>1. LimiterType' /\ \A k \in Keys : Exact(k)'
    BY <1>2, TypeStep, ExactStep
  <2>2. CASE UNCHANGED vars
    <3>1. refused' = refused /\ granted' = granted /\ now' = now
      BY <2>2 DEF vars
    <3> QED BY <1>2, <2>1, <3>1 DEF RefusedWhenSpent
  <2>3. CASE Tick \/ ReadCutoff \/ Evict
    <3>1. refused' = None
      BY <2>3 DEF Tick, ReadCutoff, Evict
    <3> QED BY <2>1, <3>1 DEF RefusedWhenSpent
  <2>4. ASSUME NEW k \in Keys, Allow(k) PROVE RefusedWhenSpent'
    <3>1. now' = now /\ ((Grants(k) /\ refused' = None) \/ Refuses(k))
      BY <2>4, AllowCases
    <3>2. CASE refused' = None
      BY <3>2 DEF RefusedWhenSpent
    <3>3. CASE Refuses(k)
      <4> DEFINE b == buckets[k]
                 g == granted[k]
                 n == Len(g)
      <4>1. /\ refused' = k /\ granted' = granted /\ b # None
            /\ Credit(b) = b.credit + (now - b.last) /\ Credit(b) < Cost
        BY <1>2, <3>3, RefusedBucket DEF Refuses
      <4>2. PICK i \in 1 .. n : Owed(n, i) + b.credit = Full + b.last - g[i]
        BY <1>2, <4>1 DEF Exact, PaidFor
      <4>3. /\ g \in Seq(Nat) /\ b \in BucketType /\ now \in Nat
        BY <1>2, <4>1 DEF LimiterType
      <4>4. /\ n \in Nat /\ i \in Nat /\ i <= n /\ g[i] \in Nat /\ i \in DOMAIN g
            /\ b.credit \in Nat /\ b.last \in Nat /\ Full \in Nat /\ Cost \in Nat
        BY <4>3, LenProperties, ElementOfSeq, FullAssumption DEF BucketType
      <4>5. Owed(n, i) \in Nat /\ (n - i + 2) * Cost = Owed(n, i) + Cost
        <5> HIDE DEF n
        <5> QED BY <4>4, OwedStep
      <4> HIDE DEF b, g, n
      <4>6. Owed(n, i) + Cost > Full + now - g[i]
        <5>1. \A o, c, l, a \in Nat :
                 o + c = Full + l - a /\ c + (now - l) < Cost => o + Cost > Full + now - a
          BY <4>3, <4>4
        <5> QED BY <4>1, <4>2, <4>4, <4>5, <5>1
      <4>7. (n - i + 2) * Cost > Burst * Cost + now - g[i]
        BY <4>5, <4>6 DEF Full
      <4> QED BY <3>1, <4>1, <4>4, <4>7 DEF RefusedWhenSpent, g, n
    <3> QED BY <3>1, <3>2, <3>3
  <2> QED BY <1>2, <2>1, <2>2, <2>3, <2>4 DEF Next
<1>3. IInv /\ [Next]_vars => IInv'
  BY <1>2
<1>4. IInv => RefusedWhenSpent
  OBVIOUS
<1> HIDE DEF IInv
<1> QED BY <1>1, <1>3, <1>4, PTL DEF Spec
=============================================================================
