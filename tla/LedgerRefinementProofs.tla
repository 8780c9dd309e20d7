----------------------- MODULE LedgerRefinementProofs -----------------------
(***************************************************************************)
(* The ledger implements PointLiability, for every instance: what          *)
(* computeLiabilitySnapshot sums from lots and held reservations moves     *)
(* exactly with the general ledger's accounts.                             *)
(*                                                                         *)
(* The snapshot is a sum over rows and the abstract steps speak of the     *)
(* system accounts; double entry links them once the snapshot is known to  *)
(* be what the members have (HeldSum is the part of it that is missing     *)
(* from LedgerInv: the held rows of all members together).                 *)
(***************************************************************************)
EXTENDS LedgerAccountsProofs

(* The points that a reservation row holds, whoever's they are. *)
HeldAmount(x) == IF x.status = "held" THEN x.points ELSE 0
HeldRows == [r \in Key |-> HeldAmount(reservation[r])]

HeldSum == Total(HeldRows) = Total(reserved)
BreakageNat == \A c \in Currency : breakage[c] \in Nat

(* What the accounts say is outstanding. *)
Owed(c) == -issued[c] - redeemed[c] - breakage[c]

(* The snapshot, as the accounts know it. *)
SnapshotIsOwed ==
    \A c \in Currency : SnapshotPoints[c] = Owed(c) /\ Owed(c) \in Nat

-----------------------------------------------------------------------------
(* The snapshot is what the members have. *)

LEMMA HeldAmountNat ==
  ASSUME LedgerInv
  PROVE  \A r \in Key : HeldAmount(reservation[r]) \in Nat
<1> SUFFICES ASSUME NEW r \in Key PROVE HeldAmount(reservation[r]) \in Nat
  OBVIOUS
<1>1. CASE reservation[r] \in Reservation
  <2>1. reservation[r].points \in Amount
    BY <1>1 DEF Reservation
  <2> QED BY <2>1, BasicFacts DEF HeldAmount
<1>2. CASE reservation[r] = NoReservation
  BY <1>2 DEF HeldAmount, NoReservation
<1> QED BY <1>1, <1>2 DEF LedgerInv, TypeOK

(* The part of lots from the first expire_at on is all of them. *)
LEMMA WholePart ==
  ASSUME NEW f \in [Expiry -> Nat]
  PROVE  Part(f, 1 .. Never) = f
  BY DEF Part, Expiry

LEMMA SnapshotIsMembers ==
  ASSUME LedgerInv, HeldSum, NEW c \in Currency
  PROVE  SnapshotPoints[c] = MemberPoints(c)
<1> DEFINE inLots == [o \in Occ |-> Total(Part(lots[o][c], 1 .. Never))]
           inHolds == [r \in Key |-> IF r \in Held
                         THEN Total(Part(reservation[r].slices, 1 .. Never)) ELSE 0]
<1>1. SnapshotPoints[c] = Total(inLots) + (IF c # Group THEN 0 ELSE Total(inHolds))
  BY DEF SnapshotPoints, LivingFrom
<1>2. inLots = [o \in Occ |-> available[o][c]]
  <2> SUFFICES ASSUME NEW o \in Occ
               PROVE  Total(Part(lots[o][c], 1 .. Never)) = available[o][c]
    OBVIOUS
  <2>1. lots[o][c] \in [Expiry -> Nat]
    BY DEF LedgerInv, TypeOK
  <2>2. Part(lots[o][c], 1 .. Never) = lots[o][c]
    BY <2>1, WholePart
  <2> QED BY <2>2 DEF LedgerInv, AvailableIsLots
<1>3. inHolds = HeldRows
  <2> SUFFICES ASSUME NEW r \in Key
               PROVE  (IF r \in Held THEN Total(Part(reservation[r].slices, 1 .. Never)) ELSE 0)
                        = HeldAmount(reservation[r])
    BY DEF HeldRows
  <2>1. CASE r \in Held
    <3>1. reservation[r].status = "held"
      BY <2>1 DEF Held
    <3>2. reservation[r] \in Reservation
      BY <3>1 DEF LedgerInv, TypeOK, NoReservation
    <3>3. reservation[r].slices \in [Expiry -> Nat]
      BY <3>2 DEF Reservation
    <3>4. Part(reservation[r].slices, 1 .. Never) = reservation[r].slices
      BY <3>3, WholePart
    <3>5. Total(reservation[r].slices) = reservation[r].points
      BY <2>1 DEF LedgerInv, HeldSlicesCoverPoints
    <3> QED BY <2>1, <3>1, <3>4, <3>5 DEF HeldAmount
  <2>2. CASE r \notin Held
    BY <2>2 DEF Held, HeldAmount
  <2> QED BY <2>1, <2>2
<1> HIDE DEF inLots, inHolds
<1>4. SnapshotPoints[c] = Total([o \in Occ |-> available[o][c]])
                            + (IF c = Group THEN Total(reserved) ELSE 0)
  BY <1>1, <1>2, <1>3 DEF HeldSum
<1> QED BY <1>4 DEF MemberPoints

LEMMA MemberPointsNat ==
  ASSUME BalancesNat, NEW c \in Currency
  PROVE  MemberPoints(c) \in Nat
<1>1. Total(Column(c)) \in Nat /\ Total(reserved) \in Nat
  BY InvTotals
<1>2. MemberPoints(c) = Total(Column(c)) + (IF c = Group THEN Total(reserved) ELSE 0)
  BY DEF MemberPoints, Column
<1> QED BY <1>1, <1>2

LEMMA InvSnapshot == LedgerInv /\ HeldSum /\ BooksBalance => SnapshotIsOwed
<1> SUFFICES ASSUME LedgerInv, HeldSum, BooksBalance, NEW c \in Currency
             PROVE  SnapshotPoints[c] = Owed(c) /\ Owed(c) \in Nat
  BY DEF SnapshotIsOwed
<1>1. BalancesNat
  BY InvBalancesNat
<1>2. MemberPoints(c) \in Nat /\ SnapshotPoints[c] = MemberPoints(c)
  BY <1>1, MemberPointsNat, SnapshotIsMembers
<1>3. MemberPoints(c) + redeemed[c] + breakage[c] + issued[c] = 0
  BY DEF BooksBalance
<1>4. issued[c] \in Int /\ redeemed[c] \in Int /\ breakage[c] \in Int
  BY SystemTypes
<1>5. Owed(c) = MemberPoints(c)
  BY ONLY <1>2, <1>3, <1>4 DEF Owed
<1> QED BY <1>2, <1>5

-----------------------------------------------------------------------------
(* The held rows of all members add up to the reserved accounts. *)

HeldGrows(n) == Total(HeldRows) \in Nat /\ Total(HeldRows)' = Total(HeldRows) + n

LEMMA HeldRowChange ==
  ASSUME LedgerInv, NEW r \in Key, NEW v, HeldAmount(v) \in Nat, NEW n \in Int,
         HeldAmount(v) = HeldAmount(reservation[r]) + n,
         reservation' = [reservation EXCEPT ![r] = v]
  PROVE  HeldGrows(n)
<1> DEFINE f == HeldRows
           g == [k \in Key |-> HeldAmount(reservation'[k])]
<1>1. DOMAIN reservation = Key
  BY DEF LedgerInv, TypeOK
<1>2. f \in [Key -> Nat] /\ f[r] = HeldAmount(reservation[r])
  BY HeldAmountNat DEF HeldRows
<1>3. g \in [Key -> Nat] /\ g[r] = HeldAmount(v) /\ \A k \in Key \ {r} : g[k] = f[k]
  BY <1>1, HeldAmountNat DEF HeldRows
<1>4. IsFiniteSet(Key)
  BY BasicFacts
<1>5. Total(HeldRows)' = Total(g)
  BY DEF HeldRows, HeldAmount, Total, Units
<1> HIDE DEF f, g
<1>6. Total(f) \in Nat /\ Total(g) = Total(f) - f[r] + g[r]
  BY ONLY <1>2, <1>3, <1>4, r \in Key, TotalType, TotalChange
<1>7. f[r] \in Nat /\ g[r] = f[r] + n
  BY <1>2, <1>3
<1>8. Total(f) \in Nat /\ Total(g) = Total(f) + n
  BY ONLY <1>6, <1>7, n \in Int
<1> QED BY <1>5, <1>8 DEF f, HeldGrows

(* Held rows and reserved accounts that change by the same amount. *)
LEMMA HeldFollows ==
  ASSUME HeldSum, NEW n \in Int, HeldGrows(n), ReservedGrows(n)
  PROVE  HeldSum'
  BY DEF HeldSum, HeldGrows, ReservedGrows

LEMMA HeldRowsSame ==
  ASSUME HeldSum, UNCHANGED <<reservation, reserved>>
  PROVE  HeldSum'
  BY DEF HeldSum, HeldRows, HeldAmount, Total, Units

LEMMA ReserveHeld ==
  ASSUME LedgerInv, HeldSum, BalancesNat, BalancesNat',
         NEW o \in Occ, NEW p \in Amount, NEW k \in Key, Reserve(o, p, k)
  PROVE  HeldSum'
<1>1. PICK take \in FifoTakes(lots[o][Group], p) :
        reservation' = [reservation EXCEPT ![k] =
            [status |-> "held", occ |-> o, points |-> p, slices |-> take]]
  BY DEF Reserve
<1> DEFINE v == [status |-> "held", occ |-> o, points |-> p, slices |-> take]
<1>2. p \in Nat
  BY BasicFacts
<1>3. HeldAmount(v) = p
  BY DEF HeldAmount
<1>4. HeldAmount(reservation[k]) = 0
  <2>1. reservation[k] = NoReservation
    BY DEF Reserve, Commit, LedgerInv, HoldsAreCommitted
  <2> QED BY <2>1 DEF HeldAmount, NoReservation
<1> HIDE DEF v
<1>5. reservation' = [reservation EXCEPT ![k] = v]
  BY <1>1 DEF v
<1>6. HeldAmount(v) \in Nat /\ p \in Int /\ HeldAmount(v) = HeldAmount(reservation[k]) + p
  BY <1>2, <1>3, <1>4
<1>7. HeldGrows(p)
  BY <1>5, <1>6, HeldRowChange
<1>8. ReservedGrows(p)
  BY <1>6, OneReserved DEF Reserve
<1> QED BY <1>6, <1>7, <1>8, HeldFollows

LEMMA SettleHeld ==
  ASSUME LedgerInv, HeldSum, BalancesNat, BalancesNat',
         NEW r \in Key, NEW st \in {"captured", "released"},
         reservation[r] # NoReservation, reservation[r].status = "held",
         reserved' = [reserved EXCEPT ![reservation[r].occ] = @ - reservation[r].points],
         reservation' = [reservation EXCEPT ![r].status = st]
  PROVE  HeldSum'
<1> DEFINE o == reservation[r].occ
           p == reservation[r].points
           v == [reservation[r] EXCEPT !.status = st]
<1>1. reservation' = [reservation EXCEPT ![r] = v]
  OBVIOUS
<1>2. HeldAmount(v) = 0
  <2>1. reservation[r] \in Reservation
    BY DEF LedgerInv, TypeOK
  <2>2. v.status = st
    BY <2>1 DEF Reservation
  <2> QED BY <2>2 DEF HeldAmount
<1>3. HeldAmount(reservation[r]) = p
  BY DEF HeldAmount
<1>4. o \in Occ /\ p \in Int
  BY SettledTypes
<1>5. reserved' = [reserved EXCEPT ![o] = @ - p]
  OBVIOUS
<1> HIDE DEF o, p, v
<1>6. PICK m \in Int : m = -p
  BY <1>4
<1>7. HeldAmount(v) \in Nat /\ HeldAmount(v) = HeldAmount(reservation[r]) + m
  BY ONLY <1>2, <1>3, <1>4, <1>6
<1>8. HeldGrows(m)
  BY <1>1, <1>7, HeldRowChange
<1>9. reserved' = [reserved EXCEPT ![o] = @ + m]
  BY <1>4, <1>5, <1>6 DEF LedgerInv, TypeOK
<1>10. ReservedGrows(m)
  BY <1>4, <1>9, OneReserved
<1> QED BY <1>8, <1>10, HeldFollows

LEMMA InitHeld == Init => HeldSum /\ BreakageNat
<1> SUFFICES ASSUME Init PROVE HeldSum /\ BreakageNat
  OBVIOUS
<1>1. HeldRows \in [Key -> Nat] /\ \A r \in Key : HeldRows[r] = 0
  BY DEF Init, HeldRows, HeldAmount, NoReservation
<1>2. reserved \in [Occ -> Nat] /\ \A o \in Occ : reserved[o] = 0
  BY DEF Init
<1>3. Total(HeldRows) = 0 /\ Total(reserved) = 0
  BY <1>1, <1>2, TotalZero
<1>4. BreakageNat
  BY DEF Init, BreakageNat
<1> QED BY <1>3, <1>4 DEF HeldSum

(* Only expiry adds to the breakage account, and never a negative amount. *)
LEMMA ExpireAdds ==
  ASSUME LedgerInv, NEW o \in Occ, NEW d \in Currency
  PROVE  Total(DuePart(o, d)) \in Nat
<1>1. lots[o][d] \in [Expiry -> Nat]
  BY DEF LedgerInv, TypeOK
<1>2. DuePart(o, d) \in [Expiry -> Nat]
  BY <1>1, PartType DEF DuePart
<1> QED BY <1>2, BasicFacts, TotalType

LEMMA ExpireBreakage ==
  ASSUME LedgerInv, BreakageNat, NEW o \in Occ, ExpireLots(o)
  PROVE  BreakageNat'
<1> SUFFICES ASSUME NEW d \in Currency PROVE breakage'[d] \in Nat
  BY DEF BreakageNat
<1>1. breakage'[d] = breakage[d] + Total(DuePart(o, d))
  BY DEF ExpireLots
<1>2. breakage[d] \in Nat
  BY DEF BreakageNat
<1>3. Total(DuePart(o, d)) \in Nat
  BY ExpireAdds
<1> QED BY ONLY <1>1, <1>2, <1>3

-----------------------------------------------------------------------------
(* The invariant behind the refinement. *)

SnapshotInv ==
    /\ LedgerInv
    /\ BooksBalance
    /\ HeldSum
    /\ BreakageNat

LEMMA BreakageSame == BreakageNat /\ UNCHANGED breakage => BreakageNat'
  BY DEF BreakageNat

LEMMA NextHeld ==
  ASSUME LedgerInv, BalancesNat, BalancesNat', HeldSum, BreakageNat, [Next]_vars
  PROVE  HeldSum' /\ BreakageNat'
<1>1. CASE \E o \in Occ, p \in Amount, k \in Key : Earn(o, p, k)
  BY <1>1, HeldRowsSame, BreakageSame DEF Earn
<1>2. CASE \E o \in Occ, c \in Currency, p \in Amount, k \in Key : PostEarnTx(o, c, p, k)
  BY <1>2, HeldRowsSame, BreakageSame DEF PostEarnTx
<1>3. CASE \E o \in Occ, p \in Amount, k \in Key : Reserve(o, p, k)
  <2> PICK o \in Occ, p \in Amount, k \in Key : Reserve(o, p, k)
    BY <1>3
  <2>1. HeldSum'
    BY ReserveHeld
  <2> QED BY <2>1, BreakageSame DEF Reserve
<1>4. CASE \E o \in Occ, c \in Currency, d \in Currency, p \in Amount, k \in Key :
             Convert(o, c, d, p, k)
  BY <1>4, HeldRowsSame, BreakageSame DEF Convert
<1>5. CASE \E o \in Occ, c \in Currency, p \in Amount, k \in Key : AdjustUp(o, c, p, k)
  BY <1>5, HeldRowsSame, BreakageSame DEF AdjustUp
<1>6. CASE \E o \in Occ, c \in Currency, p \in Amount, k \in Key : AdjustDown(o, c, p, k)
  BY <1>6, HeldRowsSame, BreakageSame DEF AdjustDown
<1>7. CASE \E o \in Occ, q \in Occ, c \in Currency, p \in Amount, k \in Key :
             Transfer(o, q, c, p, k)
  BY <1>7, HeldRowsSame, BreakageSame DEF Transfer
<1>8. CASE \E o \in Occ : ExpireLots(o)
  BY <1>8, HeldRowsSame, ExpireBreakage DEF ExpireLots
<1>9. CASE Tick
  BY <1>9, HeldRowsSame, BreakageSame DEF Tick, balances
<1>10. CASE \E r \in Key, k \in Key : Capture(r, k)
  <2> PICK r \in Key, k \in Key : Capture(r, k)
    BY <1>10
  <2>1. HeldSum'
    BY SettleHeld DEF Capture, CaptureFor
  <2> QED BY <2>1, BreakageSame DEF Capture, CaptureFor
<1>11. CASE \E r \in Key, k \in Key : Release(r, k)
  <2> PICK r \in Key, k \in Key : Release(r, k)
    BY <1>11
  <2>1. HeldSum'
    BY SettleHeld DEF Release, ReleaseFor
  <2> QED BY <2>1, BreakageSame DEF Release, ReleaseFor
<1>12. CASE UNCHANGED vars
  BY <1>12, HeldRowsSame, BreakageSame DEF vars
<1> QED BY <1>1, <1>2, <1>3, <1>4, <1>5, <1>6, <1>7, <1>8, <1>9, <1>10, <1>11, <1>12
           DEF Next, LedgerOp

(* Held rows add up to the reserved accounts, and nothing is ever taken    *)
(* back from breakage (settleReservation, expireLots).                     *)
THEOREM SnapshotInvariant == Spec => []SnapshotInv
<1>1. Init => HeldSum /\ BreakageNat
  BY InitHeld
<1>2. LedgerInv => BalancesNat
  BY InvBalancesNat
<1>3. LedgerInv /\ BalancesNat /\ BalancesNat' /\ HeldSum /\ BreakageNat /\ [Next]_vars
        => HeldSum' /\ BreakageNat'
  BY NextHeld
<1>4. LedgerInv /\ BooksBalance /\ HeldSum /\ BreakageNat => SnapshotInv
  BY DEF SnapshotInv
<1> QED BY <1>1, <1>2, <1>3, <1>4, LedgerInvariant, BooksAlwaysBalance, PTL DEF Spec

-----------------------------------------------------------------------------
(* Every operation is a step of PointLiability, or none of its business. *)

(* An account that goes down is a liability that goes up, and conversely. *)
Negated(f) == [d \in Currency |-> -f[d]]
More(f, g, c, n) == g = [f EXCEPT ![c] = @ + n]
Less(f, g, c, n) == g = [f EXCEPT ![c] = @ - n]
MoreLess(f, g, c, d, p, q) == g = [f EXCEPT ![c] = @ + p, ![d] = @ - q]
LessMore(f, g, c, d, p, q) == g = [f EXCEPT ![c] = @ - p, ![d] = @ + q]

LEMMA NegatedLess ==
  ASSUME NEW f \in [Currency -> Int], NEW g, NEW c \in Currency, NEW n \in Int, Less(f, g, c, n)
  PROVE  More(Negated(f), Negated(g), c, n)
<1> DEFINE h == Negated(f)
<1>1. \A d \in Currency : f[d] \in Int /\ h[d] = -f[d] /\ h[d] \in Int
  BY DEF Negated
<1>2. h = [d \in Currency |-> h[d]]
  BY DEF Negated
<1> HIDE DEF h
<1>3. ASSUME NEW d \in Currency, d # c
      PROVE  -g[d] = h[d]
  BY <1>1, <1>3 DEF Less
<1>4. g[c] = f[c] - n
  BY DEF Less
<1>5. -g[c] = h[c] + n
  BY <1>1, <1>4
<1>6. Negated(g) = [h EXCEPT ![c] = @ + n]
  BY <1>2, <1>3, <1>5 DEF Negated
<1> QED BY <1>6 DEF h, More

LEMMA NegatedMore ==
  ASSUME NEW f \in [Currency -> Int], NEW g, NEW c \in Currency, NEW n \in Int, More(f, g, c, n)
  PROVE  Less(Negated(f), Negated(g), c, n)
<1> DEFINE h == Negated(f)
<1>1. \A d \in Currency : f[d] \in Int /\ h[d] = -f[d] /\ h[d] \in Int
  BY DEF Negated
<1>2. h = [d \in Currency |-> h[d]]
  BY DEF Negated
<1> HIDE DEF h
<1>3. ASSUME NEW d \in Currency, d # c
      PROVE  -g[d] = h[d]
  BY <1>1, <1>3 DEF More
<1>4. g[c] = f[c] + n
  BY DEF More
<1>5. -g[c] = h[c] - n
  BY <1>1, <1>4
<1>6. Negated(g) = [h EXCEPT ![c] = @ - n]
  BY <1>2, <1>3, <1>5 DEF Negated
<1> QED BY <1>6 DEF h, Less

LEMMA NegatedTwo ==
  ASSUME NEW f \in [Currency -> Int], NEW g, NEW c \in Currency, NEW d \in Currency, c # d,
         NEW p \in Int, NEW q \in Int, MoreLess(f, g, c, d, p, q)
  PROVE  LessMore(Negated(f), Negated(g), c, d, p, q)
<1> DEFINE h == Negated(f)
<1>1. \A e \in Currency : f[e] \in Int /\ h[e] = -f[e] /\ h[e] \in Int
  BY DEF Negated
<1>2. h = [e \in Currency |-> h[e]]
  BY DEF Negated
<1> HIDE DEF h
<1>3. ASSUME NEW e \in Currency, e # c, e # d
      PROVE  -g[e] = h[e]
  BY <1>1, <1>3 DEF MoreLess
<1>4. g[c] = f[c] + p /\ g[d] = f[d] - q
  BY DEF MoreLess
<1>5. -g[c] = h[c] - p /\ -g[d] = h[d] + q
  BY <1>1, <1>4
<1>6. Negated(g) = [h EXCEPT ![c] = @ - p, ![d] = @ + q]
  BY <1>2, <1>3, <1>5 DEF Negated
<1> QED BY <1>6 DEF h, LessMore

LEMMA SnapshotFunction ==
  /\ SnapshotPoints = [c \in Currency |-> SnapshotPoints[c]]
  /\ SnapshotPoints' = [c \in Currency |-> SnapshotPoints'[c]]
  BY DEF SnapshotPoints

(* The accounts and the snapshot, as numbers. *)
LEMMA SnapshotNumbers ==
  ASSUME LedgerInv, LedgerInv', SnapshotIsOwed, SnapshotIsOwed'
  PROVE  \A d \in Currency :
           /\ issued[d] \in Int /\ redeemed[d] \in Int /\ breakage[d] \in Int
           /\ issued'[d] \in Int /\ redeemed'[d] \in Int /\ breakage'[d] \in Int
           /\ SnapshotPoints[d] \in Nat /\ SnapshotPoints'[d] \in Nat
           /\ SnapshotPoints[d] = -issued[d] - redeemed[d] - breakage[d]
           /\ SnapshotPoints'[d] = -issued'[d] - redeemed'[d] - breakage'[d]
  BY DEF LedgerInv, TypeOK, SnapshotIsOwed, Owed

LEMMA StepIssue ==
  ASSUME LedgerInv, LedgerInv', SnapshotIsOwed, SnapshotIsOwed',
         NEW o \in Occ, NEW c \in Currency, NEW p \in Amount, Issue(o, c, p),
         UNCHANGED <<redeemed, breakage>>
  PROVE  Liability!Issue(c, p)
<1>1. p \in Nat
  BY BasicFacts
<1>2. issued' = [issued EXCEPT ![c] = @ - p] /\ issued \in [Currency -> Int]
  BY SystemTypes DEF Issue
<1>3. \A d \in Currency : SnapshotPoints'[d] = SnapshotPoints[d] + (IF d = c THEN p ELSE 0)
  BY <1>1, <1>2, SnapshotNumbers
<1>4. SnapshotPoints' = [SnapshotPoints EXCEPT ![c] = @ + p]
  BY <1>1, <1>3, SnapshotNumbers, SnapshotFunction
<1>5. Less(issued, issued', c, p) /\ p \in Int
  BY <1>1, <1>2 DEF Less
<1>6. More(Negated(issued), Negated(issued'), c, p)
  BY <1>2, <1>5, NegatedLess
<1> QED BY <1>4, <1>6 DEF Liability!Issue, Negated, More

LEMMA StepTakeBack ==
  ASSUME LedgerInv, LedgerInv', SnapshotIsOwed, SnapshotIsOwed',
         NEW o \in Occ, NEW c \in Currency, NEW p \in Amount, NEW k \in Key,
         AdjustDown(o, c, p, k)
  PROVE  Liability!TakeBack(c, p)
<1>1. p \in Nat
  BY BasicFacts
<1>2. /\ issued' = [issued EXCEPT ![c] = @ + p] /\ issued \in [Currency -> Int]
      /\ UNCHANGED <<redeemed, breakage>>
  BY SystemTypes DEF AdjustDown
<1>3. \A d \in Currency : SnapshotPoints'[d] = SnapshotPoints[d] - (IF d = c THEN p ELSE 0)
  BY <1>1, <1>2, SnapshotNumbers
<1>4. SnapshotPoints' = [SnapshotPoints EXCEPT ![c] = @ - p]
  BY <1>1, <1>3, SnapshotNumbers, SnapshotFunction
<1>5. p <= SnapshotPoints[c]
  BY <1>1, <1>3, SnapshotNumbers
<1>6. More(issued, issued', c, p) /\ p \in Int
  BY <1>1, <1>2 DEF More
<1>7. Less(Negated(issued), Negated(issued'), c, p)
  BY <1>2, <1>6, NegatedMore
<1> QED BY <1>2, <1>4, <1>5, <1>7 DEF Liability!TakeBack, Negated, Less

LEMMA StepExchange ==
  ASSUME LedgerInv, LedgerInv', SnapshotIsOwed, SnapshotIsOwed',
         NEW o \in Occ, NEW c \in Currency, NEW d \in Currency, NEW p \in Amount, NEW k \in Key,
         Convert(o, c, d, p, k)
  PROVE  \E q \in Amount : Liability!Exchange(c, d, p, q)
<1> DEFINE q == Converted(c, d, p)
<1>1. /\ c # d /\ q \in Amount
      /\ issued' = [issued EXCEPT ![c] = @ + p, ![d] = @ - q] /\ issued \in [Currency -> Int]
      /\ UNCHANGED <<redeemed, breakage>>
  BY SystemTypes DEF Convert
<1> HIDE DEF q
<1>2. p \in Nat /\ q \in Nat
  BY <1>1, BasicFacts
<1>3. \A e \in Currency : SnapshotPoints'[e] =
        SnapshotPoints[e] - (IF e = c THEN p ELSE 0) + (IF e = d THEN q ELSE 0)
  BY <1>1, <1>2, SnapshotNumbers
<1>4. SnapshotPoints' = [SnapshotPoints EXCEPT ![c] = @ - p, ![d] = @ + q]
  <2>1. \A e \in Currency : SnapshotPoints[e] \in Nat
    BY SnapshotNumbers
  <2>2. SnapshotPoints'[c] = SnapshotPoints[c] - p
    BY <1>1, <1>2, <1>3, <2>1
  <2>3. SnapshotPoints'[d] = SnapshotPoints[d] + q
    BY <1>1, <1>2, <1>3, <2>1
  <2>4. \A e \in Currency : e # c /\ e # d => SnapshotPoints'[e] = SnapshotPoints[e]
    BY <1>3, <2>1
  <2> QED BY <1>1, <2>2, <2>3, <2>4, SnapshotFunction
<1>5. p <= SnapshotPoints[c]
  BY <1>1, <1>2, <1>3, SnapshotNumbers
<1>6. MoreLess(issued, issued', c, d, p, q) /\ p \in Int /\ q \in Int
  BY <1>1, <1>2 DEF MoreLess
<1>7. LessMore(Negated(issued), Negated(issued'), c, d, p, q)
  BY <1>1, <1>6, NegatedTwo
<1> QED BY <1>1, <1>4, <1>5, <1>7 DEF Liability!Exchange, Negated, LessMore

LEMMA StepRedeem ==
  ASSUME LedgerInv, LedgerInv', SnapshotIsOwed, SnapshotIsOwed',
         NEW r \in Key, NEW k \in Key, Capture(r, k)
  PROVE  \E p \in Amount : Liability!Redeem(Group, p)
<1> DEFINE p == reservation[r].points
<1>1. /\ redeemed' = [redeemed EXCEPT ![Group] = @ + p] /\ redeemed \in [Currency -> Int]
      /\ UNCHANGED <<issued, breakage>>
  BY SystemTypes DEF Capture, CaptureFor
<1>2. p \in Amount
  <2>1. reservation[r] \in Reservation
    BY DEF Capture, LedgerInv, TypeOK
  <2> QED BY <2>1 DEF Reservation
<1> HIDE DEF p
<1>3. p \in Nat /\ Group \in Currency
  BY <1>2, BasicFacts
<1>4. \A d \in Currency : SnapshotPoints'[d] = SnapshotPoints[d] - (IF d = Group THEN p ELSE 0)
  BY <1>1, <1>3, SnapshotNumbers
<1>5. SnapshotPoints' = [SnapshotPoints EXCEPT ![Group] = @ - p]
  BY <1>3, <1>4, SnapshotNumbers, SnapshotFunction
<1>6. p <= SnapshotPoints[Group]
  BY <1>3, <1>4, SnapshotNumbers
<1> QED BY <1>1, <1>2, <1>5, <1>6 DEF Liability!Redeem

LEMMA StepBreak ==
  ASSUME LedgerInv, LedgerInv', SnapshotIsOwed, SnapshotIsOwed', BreakageNat',
         NEW o \in Occ, ExpireLots(o)
  PROVE  Liability!Break
<1> DEFINE t(d) == Total(DuePart(o, d))
<1>1. /\ breakage' = [d \in Currency |-> breakage[d] + t(d)]
      /\ UNCHANGED <<issued, redeemed>>
  BY DEF ExpireLots
<1>2. \A d \in Currency : t(d) \in Nat
  BY ExpireAdds
<1> HIDE DEF t
<1>3. breakage' \in [Currency -> Nat]
  BY <1>1 DEF BreakageNat
<1>4. \A d \in Currency : /\ breakage'[d] - breakage[d] = t(d)
                          /\ SnapshotPoints'[d] = SnapshotPoints[d] - t(d)
                          /\ t(d) \in 0 .. SnapshotPoints[d]
  BY <1>1, <1>2, SnapshotNumbers
<1> DEFINE lost == [d \in Currency |-> breakage'[d] - breakage[d]]
<1>5. \A d \in Currency : lost[d] = t(d)
  BY <1>4
<1> HIDE DEF lost
<1>6. \A d \in Currency : lost[d] \in 0 .. SnapshotPoints[d]
  BY <1>4, <1>5
<1>7. SnapshotPoints' = [d \in Currency |-> SnapshotPoints[d] - lost[d]]
  BY <1>4, <1>5, SnapshotFunction
<1> QED BY <1>1, <1>3, <1>6, <1>7 DEF Liability!Break, lost

(* Steps that leave the system accounts alone leave the snapshot alone. *)
LEMMA StepInner ==
  ASSUME LedgerInv, LedgerInv', SnapshotIsOwed, SnapshotIsOwed',
         UNCHANGED <<issued, redeemed, breakage>>
  PROVE  UNCHANGED Liability!vars
<1>1. \A d \in Currency : SnapshotPoints'[d] = SnapshotPoints[d]
  BY SnapshotNumbers
<1>2. SnapshotPoints' = SnapshotPoints
  BY <1>1, SnapshotFunction
<1> QED BY <1>2 DEF Liability!vars

LEMMA InitLiability ==
  ASSUME Init, SnapshotIsOwed
  PROVE  Liability!Init
<1>1. /\ issued = [c \in Currency |-> 0]
      /\ redeemed = [c \in Currency |-> 0]
      /\ breakage = [c \in Currency |-> 0]
  BY DEF Init
<1>2. \A n \in Int : -n = 0 - n
  OBVIOUS
<1>3. ASSUME NEW c \in Currency PROVE -issued[c] = 0
  <2>1. issued[c] \in Int /\ 0 - issued[c] = 0
    BY <1>1
  <2> QED BY ONLY <1>2, <2>1
<1>4. \A c \in Currency : SnapshotPoints[c] = 0
  BY <1>1, <1>3 DEF SnapshotIsOwed, Owed
<1>5. SnapshotPoints = [c \in Currency |-> 0]
  BY <1>4, SnapshotFunction
<1>6. [c \in Currency |-> -issued[c]] = [c \in Currency |-> 0]
  BY <1>3
<1> QED BY <1>1, <1>5, <1>6 DEF Liability!Init

LEMMA NextLiability ==
  ASSUME LedgerInv, LedgerInv', SnapshotIsOwed, SnapshotIsOwed', BreakageNat', [Next]_vars
  PROVE  Liability!Next \/ UNCHANGED Liability!vars
<1>1. CASE \E o \in Occ, p \in Amount, k \in Key : Earn(o, p, k)
  <2>1. \E p \in Amount : Liability!Issue(Group, p)
    BY <1>1, BasicFacts, StepIssue DEF Earn
  <2> QED BY <2>1, BasicFacts DEF Liability!Next
<1>2. CASE \E o \in Occ, c \in Currency, p \in Amount, k \in Key : PostEarnTx(o, c, p, k)
  <2>1. \E c \in Currency, p \in Amount : Liability!Issue(c, p)
    BY <1>2, StepIssue DEF PostEarnTx
  <2> QED BY <2>1 DEF Liability!Next
<1>3. CASE \E o \in Occ, p \in Amount, k \in Key : Reserve(o, p, k)
  BY <1>3, StepInner DEF Reserve
<1>4. CASE \E o \in Occ, c \in Currency, d \in Currency, p \in Amount, k \in Key :
             Convert(o, c, d, p, k)
  <2>1. \E c \in Currency, d \in Currency, p \in Amount, q \in Amount :
          Liability!Exchange(c, d, p, q)
    BY <1>4, StepExchange
  <2> QED BY <2>1 DEF Liability!Next
<1>5. CASE \E o \in Occ, c \in Currency, p \in Amount, k \in Key : AdjustUp(o, c, p, k)
  <2>1. \E c \in Currency, p \in Amount : Liability!Issue(c, p)
    BY <1>5, StepIssue DEF AdjustUp
  <2> QED BY <2>1 DEF Liability!Next
<1>6. CASE \E o \in Occ, c \in Currency, p \in Amount, k \in Key : AdjustDown(o, c, p, k)
  <2>1. \E c \in Currency, p \in Amount : Liability!TakeBack(c, p)
    BY <1>6, StepTakeBack
  <2> QED BY <2>1 DEF Liability!Next
<1>7. CASE \E o \in Occ, q \in Occ, c \in Currency, p \in Amount, k \in Key :
             Transfer(o, q, c, p, k)
  BY <1>7, StepInner DEF Transfer
<1>8. CASE \E o \in Occ : ExpireLots(o)
  BY <1>8, StepBreak DEF Liability!Next
<1>9. CASE Tick
  BY <1>9, StepInner DEF Tick, balances
<1>10. CASE \E r \in Key, k \in Key : Capture(r, k)
  <2>1. \E p \in Amount : Liability!Redeem(Group, p)
    BY <1>10, StepRedeem
  <2> QED BY <2>1, BasicFacts DEF Liability!Next
<1>11. CASE \E r \in Key, k \in Key : Release(r, k)
  BY <1>11, StepInner DEF Release, ReleaseFor
<1>12. CASE UNCHANGED vars
  BY <1>12, StepInner DEF vars
<1> QED BY <1>1, <1>2, <1>3, <1>4, <1>5, <1>6, <1>7, <1>8, <1>9, <1>10, <1>11, <1>12
           DEF Next, LedgerOp

(* The liability report agrees with the general ledger                     *)
(* (computeLiabilitySnapshot): in every behaviour of every instance, the   *)
(* points that the snapshot sums from lots and held reservations are       *)
(* issued, taken back, exchanged, redeemed and broken just as the abstract *)
(* ledger of PointLiability says, and by nothing else.                     *)
THEOREM LedgerImplementsLiability == Spec => ImplementsLiability
<1>1. SnapshotInv => LedgerInv /\ SnapshotIsOwed /\ BreakageNat
  BY InvSnapshot DEF SnapshotInv
<1>2. Init /\ SnapshotIsOwed => Liability!Init
  BY InitLiability
<1>3. LedgerInv /\ LedgerInv' /\ SnapshotIsOwed /\ SnapshotIsOwed' /\ BreakageNat' /\ [Next]_vars
        => [Liability!Next]_(Liability!vars)
  BY NextLiability
<1> QED BY <1>1, <1>2, <1>3, SnapshotInvariant, PTL
        DEF Spec, ImplementsLiability, Liability!Spec
=============================================================================
