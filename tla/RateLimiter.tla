---------------------------- MODULE RateLimiter -----------------------------
(***************************************************************************)
(* internal/ratelimit and the middleware of internal/api that uses it: one *)
(* token bucket per client, and a goroutine that forgets idle clients.     *)
(*                                                                         *)
(* Time is counted in ticks.  A bucket holds credit: a tick earns one, a   *)
(* request costs Cost, so the rate is 1 / Cost requests per tick.          *)
(***************************************************************************)
EXTENDS Naturals, Sequences

CONSTANTS
    Keys,     \* client addresses
    Cost,     \* ticks per request at the allowed rate (1 / rps)
    Burst,    \* burst
    Idle,     \* idle: when a bucket may be forgotten, and how often that is looked at
    MaxTime,  \* bound: ticks
    None

ASSUME RateAssumption == {Cost, Burst, Idle} \subseteq Nat \ {0}

ASSUME NoneAssumption ==
    None \notin Nat /\ None \notin [credit : Nat, last : Nat, lastSeen : Nat]

VARIABLES
    now,
    buckets,  \* the map: a bucket, or None where there is none
    cutoff,   \* what evictIdle has read before it gets the mutex, or None
    swept,    \* the time of the ticker's last tick that was taken
    granted,  \* the times of the requests let through, by client
    refused   \* the client that has just been answered 429, or None

vars == <<now, buckets, cutoff, swept, granted, refused>>

Init ==
    /\ now = 0
    /\ buckets = [k \in Keys |-> None]
    /\ cutoff = None
    /\ swept = 0
    /\ granted = [k \in Keys |-> <<>>]
    /\ refused = None

-----------------------------------------------------------------------------
\* rate.Limiter: the credit of a bucket now, and a new bucket, which is full.
Credit(b) ==
    LET earned == b.credit + (now - b.last)
    IN  IF earned > Burst * Cost THEN Burst * Cost ELSE earned

NewLimiter == [credit |-> Burst * Cost, last |-> now, lastSeen |-> now]

\* A client that has no bucket yet is given that of another client.
SharedBucket(k) ==
    IF \E j \in Keys : buckets[j] # None
    THEN buckets[CHOOSE j \in Keys : buckets[j] # None]
    ELSE NewLimiter

\* The client's bucket, made on its first request.
Bucket(k) == IF buckets[k] = None THEN NewLimiter ELSE buckets[k]

\* lastSeen is set when the bucket is made and never again.
AllowUnseen(k) ==
    LET b == Bucket(k)
    IN  /\ \/ /\ Credit(b) >= Cost
              /\ buckets' = [buckets EXCEPT ![k] = [b EXCEPT !.credit = Credit(b) - Cost,
                                                             !.last = now]]
              /\ granted' = [granted EXCEPT ![k] = Append(@, now)]
              /\ refused' = None
           \/ /\ Credit(b) < Cost
              /\ buckets' = [buckets EXCEPT ![k] = b]
              /\ refused' = k
              /\ UNCHANGED granted
        /\ UNCHANGED <<now, cutoff, swept>>

\* Allow, under the mutex, with the middleware's answer: the handler or 429.
Allow(k) ==
    LET b == Bucket(k)
    IN  /\ \/ /\ Credit(b) >= Cost
              /\ buckets' = [buckets EXCEPT ![k] = [credit |-> Credit(b) - Cost, last |-> now,
                                                    lastSeen |-> now]]
              /\ granted' = [granted EXCEPT ![k] = Append(@, now)]
              /\ refused' = None
           \/ /\ Credit(b) < Cost
              /\ buckets' = [buckets EXCEPT ![k] = [b EXCEPT !.lastSeen = now]]
              /\ refused' = k
              /\ UNCHANGED granted
        /\ UNCHANGED <<now, cutoff, swept>>

\* The ticker has fired and evictIdle has read the clock, but has no mutex yet.
ReadCutoff ==
    /\ cutoff = None
    /\ now >= swept + Idle
    /\ cutoff' = now
    /\ swept' = now
    /\ refused' = None
    /\ UNCHANGED <<now, buckets, granted>>

\* The rest of evictIdle, under the mutex; lastSeen.Before(cutoff - idle).
Evict ==
    /\ cutoff # None
    /\ buckets' = [k \in Keys |-> IF buckets[k] # None /\ buckets[k].lastSeen + Idle < cutoff
                                  THEN None ELSE buckets[k]]
    /\ cutoff' = None
    /\ refused' = None
    /\ UNCHANGED <<now, swept, granted>>

Tick ==
    /\ now < MaxTime
    /\ now' = now + 1
    /\ refused' = None
    /\ UNCHANGED <<buckets, cutoff, swept, granted>>

Next == Tick \/ ReadCutoff \/ Evict \/ \E k \in Keys : Allow(k)

Spec == Init /\ [][Next]_vars

-----------------------------------------------------------------------------
(***************************************************************************)
(* Properties.                                                             *)
(***************************************************************************)

(***************************************************************************)
(* The limit is kept over every interval of time: the requests of a client *)
(* let through in it are at most burst plus what the rate allows, although *)
(* its bucket is forgotten and made anew, and although evictIdle decides   *)
(* with a clock it read before it had the mutex (limiter.go New: "allowing *)
(* rps requests per second, per key, with the given burst size").          *)
(***************************************************************************)
RateHonoured ==
    \A k \in Keys : \A j \in DOMAIN granted[k] : \A i \in 1 .. j :
        (j - i + 1) * Cost <= Burst * Cost + granted[k][j] - granted[k][i]

(***************************************************************************)
(* A client is only refused when it has spent its own budget: letting the  *)
(* request through would have broken the limit over some interval, whatever*)
(* other clients and the eviction do (limiter.go Allow).                   *)
(***************************************************************************)
RefusedWhenSpent ==
    refused # None =>
        LET g == granted[refused]
        IN  \E i \in DOMAIN g : (Len(g) - i + 2) * Cost > Burst * Cost + now - g[i]
=============================================================================
