-------------------------- MODULE TokenBucketProofs --------------------------
(***************************************************************************)
(* The limiter keeps its rate for every capacity, refill, idle time and    *)
(* number of keys.  The bound on every window is not inductive by itself:  *)
(* what was admitted since a moment and what is still in the bucket must   *)
(* be counted together (Charged).                                          *)
(***************************************************************************)
EXTENDS TokenBucket, TLAPS

(* What the key could take now.                                            *)
AvailableNow(c) == IF buckets[c] = NoBucket THEN Capacity ELSE Refilled(buckets[c])

BucketsHold ==
    /\ moment \in Nat
    /\ buckets \in [Caller -> [tokens : Int, last : Nat]]
    /\ \A c \in Caller : buckets[c] # NoBucket =>
         buckets[c].tokens \in 0..Capacity /\ buckets[c].last <= moment

AdmittedOK ==
    /\ admitted \in [Caller -> Seq(Nat)]
    /\ \A c \in Caller : \A i \in DOMAIN admitted[c] : admitted[c][i] <= moment

Charged ==
    \A c \in Caller : \A i \in DOMAIN admitted[c] :
      Len(admitted[c]) - i + 1 + AvailableNow(c)
        <= Capacity + Refill * (moment - admitted[c][i])

BucketInv == BucketsHold /\ AdmittedOK /\ Charged /\ RateIsBounded

-----------------------------------------------------------------------------

LEMMA Products ==
    ASSUME NEW r \in Nat, NEW d \in Nat
    PROVE  r * d \in Nat /\ r * (d + 1) = r * d + r /\ r * 0 = 0
  OBVIOUS

(* A bucket holds between nothing and its capacity.                        *)
LEMMA AvailableBounds ==
    ASSUME BucketsHold, NEW c \in Caller
    PROVE  AvailableNow(c) \in 0..Capacity
  <1>1. CASE buckets[c] = NoBucket
    BY <1>1, TokenBucketAssumption DEF AvailableNow
  <1>2. CASE buckets[c] # NoBucket
    <2> DEFINE b == buckets[c]
    <2>1. b.tokens \in 0..Capacity /\ b.last \in Nat /\ moment - b.last \in Nat
      BY <1>2 DEF BucketsHold
    <2> HIDE DEF b
    <2>2. Refill * (moment - b.last) \in Nat
      BY <2>1, Products, TokenBucketAssumption
    <2>3. Refilled(b) \in 0..Capacity
      BY <2>1, <2>2, TokenBucketAssumption DEF Refilled, Least
    <2> QED BY <1>2, <2>3 DEF AvailableNow, b
  <1> QED BY <1>1, <1>2

LEMMA AvailableBoundsNext ==
    ASSUME BucketsHold', NEW c \in Caller
    PROVE  AvailableNow(c)' \in 0..Capacity
  <1>1. CASE buckets'[c] = NoBucket
    BY <1>1, TokenBucketAssumption DEF AvailableNow, NoBucket
  <1>2. CASE buckets'[c] # NoBucket
    <2> DEFINE b == buckets'[c]
    <2>1. b.tokens \in 0..Capacity /\ b.last \in Nat /\ moment' - b.last \in Nat
      BY <1>2 DEF BucketsHold, NoBucket
    <2>2. AvailableNow(c)' = Least(Capacity, b.tokens + Refill * (moment' - b.last))
      BY <1>2 DEF AvailableNow, Refilled, NoBucket
    <2> HIDE DEF b
    <2>3. Refill * (moment' - b.last) \in Nat
      BY <2>1, Products, TokenBucketAssumption
    <2> QED BY <2>1, <2>2, <2>3, TokenBucketAssumption DEF Least
  <1> QED BY <1>1, <1>2

(* One unit of time brings at most Refill tokens.                          *)
LEMMA TimeRefills ==
    ASSUME BucketsHold, TimePasses, NEW c \in Caller
    PROVE  AvailableNow(c)' <= AvailableNow(c) + Refill
  <1>1. buckets' = buckets /\ moment' = moment + 1 /\ moment \in Nat
    BY DEF TimePasses, BucketsHold
  <1>2. CASE buckets[c] = NoBucket
    BY <1>1, <1>2, TokenBucketAssumption DEF AvailableNow, NoBucket
  <1>3. CASE buckets[c] # NoBucket
    <2> DEFINE b == buckets[c]
               d == moment - b.last
    <2>1. b.tokens \in 0..Capacity /\ b.last \in Nat /\ d \in Nat
      BY <1>3 DEF BucketsHold
    <2>2. Refill * d \in Nat /\ Refill * (d + 1) = Refill * d + Refill
      BY <2>1, Products, TokenBucketAssumption
    <2>3. moment' - b.last = d + 1
      BY <1>1, <2>1
    <2>4. AvailableNow(c) = Least(Capacity, b.tokens + Refill * d)
      BY <1>3 DEF AvailableNow, Refilled
    <2>5. AvailableNow(c)' = Least(Capacity, b.tokens + Refill * (d + 1))
      BY <1>1, <1>3, <2>3 DEF AvailableNow, Refilled, NoBucket
    <2> HIDE DEF b, d
    <2> QED BY <2>1, <2>2, <2>4, <2>5, TokenBucketAssumption DEF Least
  <1> QED BY <1>2, <1>3

LEMMA TimeKeeps ==
    ASSUME BucketInv, TimePasses
    PROVE  BucketInv'
  <1>1. buckets' = buckets /\ admitted' = admitted /\ moment' = moment + 1 /\ moment \in Nat
    BY DEF TimePasses, BucketInv, BucketsHold
  <1>2. BucketsHold'
    BY <1>1 DEF BucketInv, BucketsHold, NoBucket
  <1>3. AdmittedOK'
    BY <1>1 DEF BucketInv, AdmittedOK
  <1>4. Charged'
    <2> SUFFICES ASSUME NEW c \in Caller, NEW i \in DOMAIN admitted'[c]
                 PROVE  (Len(admitted[c]) - i + 1 + AvailableNow(c)
                          <= Capacity + Refill * (moment - admitted[c][i]))'
      BY DEF Charged
    <2> DEFINE d == moment - admitted[c][i]
               n == Len(admitted[c]) - i + 1
               a == AvailableNow(c)
    <2>1. admitted[c] \in Seq(Nat) /\ i \in DOMAIN admitted[c] /\ i \in Nat
          /\ admitted[c][i] \in Nat /\ d \in Nat
      BY <1>1 DEF BucketInv, AdmittedOK
    <2>2. n \in Int
      BY <2>1
    <2>3. AvailableNow(c)' <= AvailableNow(c) + Refill
      BY TimeRefills DEF BucketInv
    <2>4. a \in 0..Capacity /\ AvailableNow(c)' \in 0..Capacity
      <3>1. AvailableNow(c) \in 0..Capacity
        BY AvailableBounds DEF BucketInv
      <3>2. AvailableNow(c)' \in 0..Capacity
        BY <1>2, AvailableBoundsNext
      <3> QED BY <3>1, <3>2
    <2>5. n + a <= Capacity + Refill * d
      BY <2>1 DEF BucketInv, Charged
    <2>6. Refill * d \in Nat /\ Refill * (d + 1) = Refill * d + Refill
      BY <2>1, Products, TokenBucketAssumption
    <2>7. moment' - admitted'[c][i] = d + 1 /\ Len(admitted'[c]) - i + 1 = n
      <3>1. admitted'[c] = admitted[c] /\ moment' = moment + 1 /\ moment \in Nat
        BY <1>1
      <3> QED BY <3>1, <2>1
    <2> HIDE DEF n, d
    <2>8. n + AvailableNow(c)' <= Capacity + Refill * (d + 1)
      BY <2>2, <2>3, <2>4, <2>5, <2>6, TokenBucketAssumption
    <2> HIDE DEF a
    <2> QED BY <2>7, <2>8
  <1>5. RateIsBounded'
    BY <1>1 DEF BucketInv, RateIsBounded
  <1> QED BY <1>2, <1>3, <1>4, <1>5 DEF BucketInv

(* A request charges its bucket what it was let in for, and what the sweep *)
(* drops was full.                                                         *)
LEMMA ConsumeFills ==
    ASSUME BucketsHold, NEW c \in Caller, TryConsume(c)
    PROVE  /\ BucketsHold'
           /\ \A x \in Caller \ {c} : AvailableNow(x)' = AvailableNow(x)
           /\ \/ admitted' = admitted /\ AvailableNow(c)' = AvailableNow(c)
              \/ /\ admitted' = [admitted EXCEPT ![c] = Append(@, moment)]
                 /\ AvailableNow(c)' = AvailableNow(c) - 1
  <1> DEFINE b == IF buckets[c] = NoBucket THEN FullBucket ELSE buckets[c]
             t == Refilled(b)
             u == IF t >= 1 THEN t - 1 ELSE t
             others == IF sweepIn = 1 THEN Swept(buckets) ELSE buckets
  <1>1. moment' = moment /\ moment \in Nat
    BY DEF TryConsume, BucketsHold
  <1>2. t = AvailableNow(c)
    <2>1. Refilled(FullBucket) = Capacity
      <3>1. moment - moment = 0
        BY <1>1
      <3>2. Refill * 0 = 0
        BY Products, TokenBucketAssumption
      <3> QED BY <3>1, <3>2, TokenBucketAssumption DEF Refilled, FullBucket, Least
    <2> QED BY <2>1 DEF AvailableNow
  <1>3. t \in 0..Capacity
    BY <1>2, AvailableBounds
  <1>4. u \in 0..Capacity
    BY <1>3, TokenBucketAssumption
  <1>5. buckets' = [others EXCEPT ![c] = [tokens |-> u, last |-> moment]]
    BY DEF TryConsume
  <1>6. \A x \in Caller : \/ others[x] = buckets[x]
                          \/ others[x] = NoBucket /\ AvailableNow(x) = Capacity
    <2> SUFFICES ASSUME NEW x \in Caller, others[x] # buckets[x]
                 PROVE  others[x] = NoBucket /\ AvailableNow(x) = Capacity
      OBVIOUS
    <2>1. buckets[x] # NoBucket /\ Refilled(buckets[x]) >= Capacity /\ others[x] = NoBucket
      BY DEF Swept
    <2>2. AvailableNow(x) = Refilled(buckets[x]) /\ AvailableNow(x) \in 0..Capacity
      BY <2>1, AvailableBounds DEF AvailableNow
    <2> QED BY <2>1, <2>2, TokenBucketAssumption
  <1>7. NoBucket \in [tokens : Int, last : Nat]
    BY DEF NoBucket
  <1>8. others \in [Caller -> [tokens : Int, last : Nat]]
    BY <1>7 DEF Swept, BucketsHold
  <1>9. [tokens |-> u, last |-> moment] \in [tokens : Int, last : Nat]
    BY <1>1, <1>4, TokenBucketAssumption
  <1> HIDE DEF others, t, u
  <1>10. buckets'[c] = [tokens |-> u, last |-> moment] /\ buckets'[c] # NoBucket
    BY <1>4, <1>5, <1>8 DEF NoBucket
  <1>11. \A x \in Caller \ {c} : buckets'[x] = others[x]
    BY <1>5, <1>8
  <1>12. BucketsHold'
    <2>1. buckets' \in [Caller -> [tokens : Int, last : Nat]]
      BY <1>5, <1>8, <1>9
    <2>2. ASSUME NEW x \in Caller, buckets'[x] # NoBucket
          PROVE  buckets'[x].tokens \in 0..Capacity /\ buckets'[x].last <= moment'
      BY <1>1, <1>4, <1>6, <1>10, <1>11, <2>2 DEF BucketsHold
    <2> QED BY <1>1, <2>1, <2>2 DEF BucketsHold, NoBucket
  <1>13. \A x \in Caller \ {c} : AvailableNow(x)' = AvailableNow(x)
    BY <1>1, <1>6, <1>11 DEF AvailableNow, Refilled, NoBucket
  <1>14. AvailableNow(c)' = u
    <2>1. AvailableNow(c)' = Least(Capacity, u + Refill * (moment - moment))
      BY <1>1, <1>10 DEF AvailableNow, Refilled, NoBucket
    <2>2. moment - moment = 0 /\ Refill * 0 = 0
      BY <1>1, Products, TokenBucketAssumption
    <2> QED BY <1>4, <2>1, <2>2, TokenBucketAssumption DEF Least
  <1>15. \/ t >= 1 /\ admitted' = [admitted EXCEPT ![c] = Append(@, moment)]
         \/ ~(t >= 1) /\ admitted' = admitted
    BY DEF TryConsume, t
  <1> QED BY <1>2, <1>3, <1>12, <1>13, <1>14, <1>15 DEF u

LEMMA ConsumeKeeps ==
    ASSUME BucketInv, NEW c \in Caller, TryConsume(c)
    PROVE  BucketInv'
  <1>1. moment' = moment /\ moment \in Nat
    BY DEF TryConsume, BucketInv, BucketsHold
  <1>2. BucketsHold'
    BY ConsumeFills DEF BucketInv
  <1>3. \A x \in Caller : AvailableNow(x) \in 0..Capacity /\ AvailableNow(x)' \in 0..Capacity
    <2>1. \A x \in Caller : AvailableNow(x) \in 0..Capacity
      BY AvailableBounds DEF BucketInv
    <2>2. \A x \in Caller : AvailableNow(x)' \in 0..Capacity
      BY <1>2, AvailableBoundsNext
    <2> QED BY <2>1, <2>2
  <1>4. CASE admitted' = admitted /\ AvailableNow(c)' = AvailableNow(c)
    <2>1. \A x \in Caller : AvailableNow(x)' = AvailableNow(x)
      BY <1>4, ConsumeFills DEF BucketInv
    <2>2. AdmittedOK' /\ RateIsBounded'
      BY <1>1, <1>4 DEF BucketInv, AdmittedOK, RateIsBounded
    <2>3. Charged'
      BY <1>1, <1>4, <2>1 DEF BucketInv, Charged
    <2> QED BY <1>2, <2>2, <2>3 DEF BucketInv
  <1>5. CASE /\ admitted' = [admitted EXCEPT ![c] = Append(@, moment)]
             /\ AvailableNow(c)' = AvailableNow(c) - 1
    <2>1. \A x \in Caller \ {c} :
            admitted'[x] = admitted[x] /\ AvailableNow(x)' = AvailableNow(x)
      BY <1>5, ConsumeFills DEF BucketInv, AdmittedOK
    <2> DEFINE s == admitted[c]
               z == admitted'[c]
    <2>2. s \in Seq(Nat) /\ z = Append(s, moment)
      BY <1>5 DEF BucketInv, AdmittedOK
    <2>3. /\ Len(s) \in Nat /\ DOMAIN s = 1..Len(s)
          /\ z \in Seq(Nat) /\ Len(z) = Len(s) + 1 /\ DOMAIN z = 1..(Len(s) + 1)
          /\ z[Len(s) + 1] = moment /\ \A i \in DOMAIN s : z[i] = s[i]
      BY <1>1, <2>2
    <2>4. \A i \in DOMAIN s : s[i] \in Nat /\ s[i] <= moment
      BY <2>2, <2>3 DEF BucketInv, AdmittedOK
    <2>5. AdmittedOK'
      <3>1. admitted' \in [Caller -> Seq(Nat)]
        BY <1>5, <2>2, <2>3 DEF BucketInv, AdmittedOK
      <3>2. \A x \in Caller : \A i \in DOMAIN admitted'[x] : admitted'[x][i] <= moment
        <4>1. \A i \in DOMAIN z : z[i] <= moment
          BY <1>1, <2>3, <2>4
        <4>2. \A x \in Caller \ {c} : \A i \in DOMAIN admitted'[x] : admitted'[x][i] <= moment
          BY <2>1 DEF BucketInv, AdmittedOK
        <4> QED BY <4>1, <4>2
      <3> QED BY <1>1, <3>1, <3>2 DEF AdmittedOK
    <2>6. \A i \in DOMAIN z : Len(z) - i + 1 + AvailableNow(c)'
                               <= Capacity + Refill * (moment - z[i])
      <3> SUFFICES ASSUME NEW i \in DOMAIN z
                   PROVE  Len(z) - i + 1 + AvailableNow(c)'
                            <= Capacity + Refill * (moment - z[i])
        OBVIOUS
      <3> DEFINE a == AvailableNow(c)
      <3>1. AvailableNow(c)' = a - 1 /\ a \in 0..Capacity
        BY <1>3, <1>5
      <3>2. CASE i \in DOMAIN s
        <4> DEFINE e == Refill * (moment - s[i])
        <4>1. e \in Nat
          BY <1>1, <2>4, <3>2, Products, TokenBucketAssumption
        <4>2. Len(s) - i + 1 + a <= Capacity + e
          BY <3>2 DEF BucketInv, Charged
        <4>3. z[i] = s[i] /\ i \in Nat
          BY <2>3, <3>2
        <4> HIDE DEF e, a
        <4>4. Len(s) + 1 - i + 1 + (a - 1) <= Capacity + e
          BY <2>3, <3>1, <4>1, <4>2, <4>3, TokenBucketAssumption
        <4> QED BY <2>3, <3>1, <4>3, <4>4 DEF e
      <3>3. CASE i = Len(s) + 1
        <4>1. moment - z[i] = 0 /\ Refill * 0 = 0
          BY <1>1, <2>3, <3>3, Products, TokenBucketAssumption
        <4> HIDE DEF a
        <4>2. Len(z) - i + 1 = 1
          BY <2>3, <3>3
        <4> QED BY <3>1, <4>1, <4>2, TokenBucketAssumption
      <3> QED BY <2>3, <3>2, <3>3
    <2>7. Charged'
      <3> SUFFICES ASSUME NEW x \in Caller, NEW i \in DOMAIN admitted'[x]
                   PROVE  (Len(admitted[x]) - i + 1 + AvailableNow(x)
                            <= Capacity + Refill * (moment - admitted[x][i]))'
        BY DEF Charged
      <3>1. CASE x = c
        BY <1>1, <2>6, <3>1
      <3>2. CASE x # c
        BY <1>1, <2>1, <3>2 DEF BucketInv, Charged
      <3> QED BY <3>1, <3>2
    <2>8. ASSUME NEW i \in DOMAIN z, NEW j \in DOMAIN z, i <= j
          PROVE  j - i + 1 <= Capacity + Refill * (z[j] - z[i])
      <3>1. \A k \in DOMAIN z : k \in Nat /\ (k \in DOMAIN s \/ k = Len(s) + 1)
        BY <2>3
      <3>2. CASE j \in DOMAIN s
        <4>1. i \in DOMAIN s
          BY <2>3, <2>8, <3>2
        <4>2. j - i + 1 <= Capacity + Refill * (s[j] - s[i])
          BY <2>8, <3>2, <4>1 DEF BucketInv, RateIsBounded
        <4>3. z[i] = s[i] /\ z[j] = s[j]
          BY <2>3, <3>2, <4>1
        <4> QED BY <4>2, <4>3
      <3>3. CASE j = Len(s) + 1
        <4>1. z[j] = moment /\ Len(z) = j
          BY <2>3, <3>3
        <4>2. Len(z) - i + 1 + AvailableNow(c)' <= Capacity + Refill * (moment - z[i])
          BY <2>6
        <4>3. z[i] \in Nat /\ moment - z[i] \in Nat
          <5>1. CASE i \in DOMAIN s
            <6>1. z[i] = s[i]
              BY <2>3, <5>1
            <6>2. s[i] \in Nat /\ s[i] <= moment
              BY <2>4, <5>1
            <6> HIDE DEF s, z
            <6> QED BY <1>1, <6>1, <6>2
          <5>2. CASE i = Len(s) + 1
            BY <1>1, <2>3, <5>2
          <5> QED BY <3>1, <5>1, <5>2
        <4>4. Refill * (moment - z[i]) \in Nat
          BY <4>3, Products, TokenBucketAssumption
        <4>5. AvailableNow(c)' \in 0..Capacity
          BY <1>3
        <4> HIDE DEF s, z
        <4> QED BY <3>1, <4>1, <4>2, <4>4, <4>5, TokenBucketAssumption
      <3> QED BY <3>1, <3>2, <3>3
    <2>9. RateIsBounded'
      <3>1. ASSUME NEW x \in Caller \ {c}, NEW i \in DOMAIN admitted'[x],
                   NEW j \in DOMAIN admitted'[x], i <= j
            PROVE  j - i + 1 <= Capacity + Refill * (admitted'[x][j] - admitted'[x][i])
        BY <2>1, <3>1 DEF BucketInv, RateIsBounded
      <3> QED BY <2>8, <3>1 DEF RateIsBounded
    <2> QED BY <1>2, <2>5, <2>7, <2>9 DEF BucketInv
  <1> QED BY <1>4, <1>5, ConsumeFills DEF BucketInv

-----------------------------------------------------------------------------

(* The inductive invariant of the limiter.                                 *)
THEOREM BucketInvariant == BucketSpec => []BucketInv
  <1>1. BucketInit => BucketInv
    BY TokenBucketAssumption
    DEF BucketInit, BucketInv, BucketsHold, AdmittedOK, Charged, RateIsBounded, NoBucket
  <1>2. BucketInv /\ [BucketNext]_bucketVars => BucketInv'
    <2> SUFFICES ASSUME BucketInv, [BucketNext]_bucketVars PROVE BucketInv'
      OBVIOUS
    <2>1. CASE TimePasses
      BY <2>1, TimeKeeps
    <2>2. ASSUME NEW c \in Caller, TryConsume(c) PROVE BucketInv'
      BY <2>2, ConsumeKeeps
    <2>3. CASE UNCHANGED bucketVars
      BY <2>3 DEF bucketVars, BucketInv, BucketsHold, AdmittedOK, Charged, RateIsBounded,
                  AvailableNow, Refilled, NoBucket
    <2> QED BY <2>1, <2>2, <2>3 DEF BucketNext
  <1> QED BY <1>1, <1>2, PTL DEF BucketSpec

(* However requests and sweeps fall, no window of time lets a key in more  *)
(* often than one full bucket and what was refilled in it.                 *)
THEOREM RateIsAlwaysBounded == BucketSpec => []RateIsBounded
  <1>1. BucketInv => RateIsBounded
    BY DEF BucketInv
  <1> QED BY <1>1, BucketInvariant, PTL
=============================================================================
