----------------------------- MODULE TokenBucket -----------------------------
(***************************************************************************)
(* The limiter behind the guards of the HTTP layer and the public entries  *)
(* of the connectors: a bucket per key, refilled with time, swept when it  *)
(* was idle for long and is full again.  Time is Date.now() in units in    *)
(* which a bucket gains a whole number of tokens.                          *)
(***************************************************************************)
EXTENDS Integers, Sequences

CONSTANTS
    Caller,      \* keys: principals, addresses, connections
    Capacity,
    Refill,      \* tokens gained per unit of time
    MaxIdle,
    SweepEvery,  \* SWEEP_EVERY_OPS
    LastMoment,  \* bound on the clock
    MaxAdmitted  \* bound on the requests admitted per key

ASSUME TokenBucketAssumption ==
    /\ Capacity \in Nat \ {0} /\ Refill \in Nat /\ MaxIdle \in Nat \ {0}
    /\ SweepEvery \in Nat \ {0} /\ LastMoment \in Nat /\ MaxAdmitted \in Nat

VARIABLES
    moment,    \* nowMs
    buckets,   \* per key the tokens and lastRefillMs; -1: no bucket
    sweepIn,   \* calls that are left until the next sweep
    admitted   \* the moments at which requests of a key were let in

bucketVars == <<moment, buckets, sweepIn, admitted>>

NoBucket == [tokens |-> -1, last |-> 0]
FullBucket == [tokens |-> Capacity, last |-> moment]

BucketInit ==
    /\ moment = 0
    /\ buckets = [c \in Caller |-> NoBucket]
    /\ sweepIn = SweepEvery
    /\ admitted = [c \in Caller |-> <<>>]

Least(a, b) == IF a <= b THEN a ELSE b

(* refilled: what a bucket holds now, without storing it.                  *)
Refilled(b) == Least(Capacity, b.tokens + Refill * (moment - b.last))

(* Mutant: idle is enough to be dropped.                                   *)
SweptIdle(bs) ==
    [c \in Caller |->
       IF bs[c] # NoBucket /\ moment - bs[c].last >= MaxIdle THEN NoBucket ELSE bs[c]]

(* sweep drops a bucket that is idle, and full, so that creating it again  *)
(* gives nothing away.                                                     *)
Swept(bs) ==
    [c \in Caller |->
       IF bs[c] # NoBucket /\ moment - bs[c].last >= MaxIdle /\ Refilled(bs[c]) >= Capacity
       THEN NoBucket ELSE bs[c]]

(* tryConsume: the bucket of the key is refilled, the others may be swept, *)
(* and a token, if there is one, is taken.                                 *)
TryConsume(c) ==
    LET b == IF buckets[c] = NoBucket THEN FullBucket ELSE buckets[c]
        filled == [tokens |-> Refilled(b), last |-> moment]
        others == IF sweepIn = 1 THEN Swept(buckets) ELSE buckets
        taken == filled.tokens >= 1
    IN  /\ taken => Len(admitted[c]) < MaxAdmitted
        /\ admitted' = IF taken THEN [admitted EXCEPT ![c] = Append(@, moment)] ELSE admitted
        /\ buckets' = [others EXCEPT ![c] =
                         [filled EXCEPT !.tokens = IF taken THEN @ - 1 ELSE @]]
        /\ sweepIn' = IF sweepIn = 1 THEN SweepEvery ELSE sweepIn - 1
        /\ UNCHANGED moment

TimePasses ==
    /\ moment < LastMoment
    /\ moment' = moment + 1
    /\ UNCHANGED <<buckets, sweepIn, admitted>>

BucketNext == TimePasses \/ \E c \in Caller : TryConsume(c)

BucketSpec == BucketInit /\ [][BucketNext]_bucketVars

Bucket == [tokens : -1..Capacity, last : 0..LastMoment]

BucketTypeOK ==
    /\ moment \in 0..LastMoment
    /\ buckets \in [Caller -> Bucket]
    /\ \A c \in Caller : buckets[c].last <= moment
    /\ sweepIn \in 1..SweepEvery
    /\ admitted \in [Caller -> Seq(0..LastMoment)]

(* In every window of time a key is let in at most Capacity times and once *)
(* more per token the window brings, whatever is swept in between.         *)
RateIsBounded ==
    \A c \in Caller : \A i, j \in DOMAIN admitted[c] :
      i <= j => j - i + 1 <= Capacity + Refill * (admitted[c][j] - admitted[c][i])
=============================================================================
