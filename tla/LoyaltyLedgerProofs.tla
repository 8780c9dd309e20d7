------------------------- MODULE LoyaltyLedgerProofs -------------------------
(***************************************************************************)
(* Proofs about the ledger, for every set of members, currencies and keys, *)
(* every expiration policy and every conversion rate.                      *)
(*                                                                         *)
(* The balances are not inductive by themselves: that no account is        *)
(* overdrawn needs that available points are backed by lots and reserved   *)
(* points by held reservations, and that a release restores the balance    *)
(* needs that the slices kept with the hold cover its points.              *)
(***************************************************************************)
EXTENDS LoyaltyLedger, PointTotalsProofs

(* A reservation row exists only under the committed request that made it. *)
HoldsAreCommitted ==
    \A k \in Key : reservation[k] # NoReservation => txn[k] # NoTxn

LedgerInv ==
    /\ TypeOK
    /\ AvailableIsLots
    /\ ReservedIsHeld
    /\ HeldSlicesCoverPoints
    /\ HoldsAreCommitted

-----------------------------------------------------------------------------
(* Facts about the operators. *)

(* Expiry dates are finitely many, and the amounts are natural numbers. *)
LEMMA BasicFacts ==
  /\ IsFiniteSet(Expiry)
  /\ Expiry \subseteq Nat
  /\ Amount \subseteq Nat \ {0}
  /\ Group \in Currency
  /\ IsFiniteSet(Occ)
  /\ IsFiniteSet(Key)
<1>1. Never \in Nat /\ MaxPoints \in Nat
  BY LedgerAssumption
<1>2. Group \in Currency /\ IsFiniteSet(Occ) /\ IsFiniteSet(Key)
  BY LedgerAssumption
<1> QED BY <1>1, <1>2, FS_Interval DEF Expiry, Amount

(* Restricting a function to some places leaves amounts no larger. *)
LEMMA PartType ==
  ASSUME NEW have \in [Expiry -> Nat], NEW T
  PROVE  /\ Part(have, T) \in [Expiry -> Nat]
         /\ \A e \in Expiry : Part(have, T)[e] <= have[e]
  BY DEF Part

(* consumeLotsFifoTx spends exactly p points, from points that are there. *)
LEMMA FifoTakesTotal ==
  ASSUME NEW have \in [Expiry -> Nat], NEW p \in Nat, NEW take \in FifoTakes(have, p)
  PROVE  /\ take \in [Expiry -> Nat]
         /\ \A e \in Expiry : take[e] <= have[e]
         /\ Total(take) = p
<1>1. PICK last \in Expiry :
        /\ Before(have, last) < p
        /\ p <= Before(have, last) + have[last]
        /\ take = Taken(have, p, last)
  BY DEF FifoTakes
<1> DEFINE low == Part(have, 1 .. last - 1)
           rest == p - Total(low)
           one == Single(Expiry, last, rest)
<1>2. low \in [Expiry -> Nat] /\ Total(low) \in Nat
  BY PartType, BasicFacts, TotalType
<1>3. rest \in Nat /\ rest <= have[last]
  BY <1>1, <1>2 DEF Before
<1>4. one \in [Expiry -> Nat] /\ Total(one) = rest
  <2>1. Total(one) = rest
    BY <1>3, TotalSingle
  <2> QED BY <1>3, <2>1 DEF Single
<1>5. \A e \in Expiry : take[e] = IF e < last THEN have[e] ELSE IF e = last THEN rest ELSE 0
  BY <1>1 DEF Taken, Before
<1>6. take \in [Expiry -> Nat] /\ \A e \in Expiry : take[e] <= have[e]
  <2>1. take = [e \in Expiry |-> take[e]]
    BY <1>1 DEF Taken
  <2>2. \A e \in Expiry : take[e] \in Nat /\ take[e] <= have[e]
    BY <1>3, <1>5
  <2> QED BY <2>1, <2>2
<1>7. Plus(low, one) = take
  <2>1. DOMAIN low = Expiry
    BY DEF Part
  <2>2. \A e \in Expiry : low[e] + one[e] = take[e]
    <3> SUFFICES ASSUME NEW e \in Expiry PROVE low[e] + one[e] = take[e]
      OBVIOUS
    <3>1. e \in Nat /\ e >= 1 /\ last \in Nat /\ have[e] \in Nat
      BY DEF Expiry
    <3>2. low[e] = IF e < last THEN have[e] ELSE 0
      BY <3>1 DEF Part
    <3>3. one[e] = IF e = last THEN rest ELSE 0
      BY DEF Single
    <3> QED BY <1>3, <1>5, <3>1, <3>2, <3>3
  <2>3. take = [e \in Expiry |-> take[e]]
    BY <1>6
  <2> QED BY <2>1, <2>2, <2>3 DEF Plus
<1>8. Total(take) = Total(low) + Total(one)
  <2> HIDE DEF low, one
  <2> QED BY <1>2, <1>4, <1>7, BasicFacts, TotalPlus
<1>9. Total(take) = p
  <2> HIDE DEF low, one
  <2> QED BY <1>2, <1>4, <1>8
<1> QED BY <1>6, <1>9

(* A new lot holds its points under a date the policy gives. *)
LEMMA NewLotTotal ==
  ASSUME TypeOK, NEW c \in Currency, NEW p \in Nat
  PROVE  NewLot(c, p) \in [Expiry -> Nat] /\ Total(NewLot(c, p)) = p
<1>1. Policy[c][now] \in Expiry
  BY LedgerAssumption DEF TypeOK
<1>2. Total(NewLot(c, p)) = p
  BY <1>1, TotalSingle DEF NewLot
<1> QED BY <1>2 DEF NewLot, Single

(* Adding slices to a bucket function and taking some away, by total. *)
LEMMA LotsPlus ==
  ASSUME NEW f \in [Expiry -> Nat], NEW g \in [Expiry -> Nat]
  PROVE  Plus(f, g) \in [Expiry -> Nat] /\ Total(Plus(f, g)) = Total(f) + Total(g)
  BY BasicFacts, TotalPlus

LEMMA LotsMinus ==
  ASSUME NEW f \in [Expiry -> Nat], NEW g \in [Expiry -> Nat],
         \A e \in Expiry : g[e] <= f[e]
  PROVE  Minus(f, g) \in [Expiry -> Nat] /\ Total(Minus(f, g)) = Total(f) - Total(g)
  BY BasicFacts, TotalMinus

-----------------------------------------------------------------------------
(* Facts about one change to the state. *)

(* A wallet and its lots change together: the balance still equals the lots. *)
LEMMA WalletUpdate ==
  ASSUME TypeOK, AvailableIsLots,
         NEW o \in Occ, NEW c \in Currency, NEW f \in [Expiry -> Nat], NEW n \in Int,
         n = Total(f),
         available' = [available EXCEPT ![o][c] = n],
         lots' = [lots EXCEPT ![o][c] = f]
  PROVE  /\ available' \in [Occ -> [Currency -> Int]]
         /\ lots' \in [Occ -> [Currency -> [Expiry -> Nat]]]
         /\ AvailableIsLots'
<1>1. available \in [Occ -> [Currency -> Int]] /\ lots \in [Occ -> [Currency -> [Expiry -> Nat]]]
  BY DEF TypeOK
<1>2. available' \in [Occ -> [Currency -> Int]]
  BY <1>1
<1>3. lots' \in [Occ -> [Currency -> [Expiry -> Nat]]]
  BY <1>1
<1>4. ASSUME NEW x \in Occ, NEW y \in Currency
      PROVE  available'[x][y] = Total(lots'[x][y])
  <2>1. CASE x = o /\ y = c
    BY <1>1, <2>1
  <2>2. CASE ~(x = o /\ y = c)
    <3>1. available'[x][y] = available[x][y] /\ lots'[x][y] = lots[x][y]
      BY <1>1, <2>2
    <3> QED BY <3>1 DEF AvailableIsLots
  <2> QED BY <2>1, <2>2
<1> QED BY <1>2, <1>3, <1>4 DEF AvailableIsLots

(* The wallets of two members change together (transfer). *)
LEMMA TransferUpdate ==
  ASSUME TypeOK, AvailableIsLots,
         NEW o \in Occ, NEW c \in Currency, NEW f \in [Expiry -> Nat], NEW n \in Int,
         NEW q \in Occ, NEW g \in [Expiry -> Nat], NEW m \in Int,
         o # q, n = Total(f), m = Total(g),
         available' = [available EXCEPT ![o][c] = n, ![q][c] = m],
         lots' = [lots EXCEPT ![o][c] = f, ![q][c] = g]
  PROVE  /\ available' \in [Occ -> [Currency -> Int]]
         /\ lots' \in [Occ -> [Currency -> [Expiry -> Nat]]]
         /\ AvailableIsLots'
<1>1. available \in [Occ -> [Currency -> Int]] /\ lots \in [Occ -> [Currency -> [Expiry -> Nat]]]
  BY DEF TypeOK
<1>2. available' \in [Occ -> [Currency -> Int]]
  BY <1>1
<1>3. lots' \in [Occ -> [Currency -> [Expiry -> Nat]]]
  BY <1>1
<1>4. ASSUME NEW x \in Occ, NEW y \in Currency
      PROVE  available'[x][y] = Total(lots'[x][y])
  <2>1. CASE x = o /\ y = c
    BY <1>1, <2>1
  <2>2. CASE x = q /\ y = c
    BY <1>1, <2>2
  <2>3. CASE ~(x = o /\ y = c) /\ ~(x = q /\ y = c)
    <3>1. available'[x][y] = available[x][y] /\ lots'[x][y] = lots[x][y]
      BY <1>1, <2>3
    <3> QED BY <3>1 DEF AvailableIsLots
  <2> QED BY <2>1, <2>2, <2>3
<1> QED BY <1>2, <1>3, <1>4 DEF AvailableIsLots

(* Two wallets of one member change together (convert). *)
LEMMA ConvertUpdate ==
  ASSUME TypeOK, AvailableIsLots,
         NEW o \in Occ, NEW c \in Currency, NEW f \in [Expiry -> Nat], NEW n \in Int,
         NEW d \in Currency, NEW g \in [Expiry -> Nat], NEW m \in Int,
         c # d, n = Total(f), m = Total(g),
         available' = [available EXCEPT ![o][c] = n, ![o][d] = m],
         lots' = [lots EXCEPT ![o][c] = f, ![o][d] = g]
  PROVE  /\ available' \in [Occ -> [Currency -> Int]]
         /\ lots' \in [Occ -> [Currency -> [Expiry -> Nat]]]
         /\ AvailableIsLots'
<1>1. available \in [Occ -> [Currency -> Int]] /\ lots \in [Occ -> [Currency -> [Expiry -> Nat]]]
  BY DEF TypeOK
<1>2. available' \in [Occ -> [Currency -> Int]]
  BY <1>1
<1>3. lots' \in [Occ -> [Currency -> [Expiry -> Nat]]]
  BY <1>1
<1>4. ASSUME NEW x \in Occ, NEW y \in Currency
      PROVE  available'[x][y] = Total(lots'[x][y])
  <2>1. CASE x = o /\ y = c
    BY <1>1, <2>1
  <2>2. CASE x = o /\ y = d
    BY <1>1, <2>2
  <2>3. CASE ~(x = o /\ y = c) /\ ~(x = o /\ y = d)
    <3>1. available'[x][y] = available[x][y] /\ lots'[x][y] = lots[x][y]
      BY <1>1, <2>3
    <3> QED BY <3>1 DEF AvailableIsLots
  <2> QED BY <2>1, <2>2, <2>3
<1> QED BY <1>2, <1>3, <1>4 DEF AvailableIsLots

(* What one reservation row x adds to the points held for member o. *)
Contribution(o, x) == IF x.status = "held" /\ x.occ = o THEN x.points ELSE 0

LEMMA HeldPointsByRow ==
  \A o : HeldPoints(o) = Total([r \in Key |-> Contribution(o, reservation[r])])
  BY DEF HeldPoints, HeldBy, Contribution

(* A change of one reservation row changes the held points by that row. *)
LEMMA ReservationUpdate ==
  ASSUME TypeOK, HeldSlicesCoverPoints,
         NEW r \in Key, NEW v \in Reservation,
         v.status = "held" => Total(v.slices) = v.points,
         reservation' = [reservation EXCEPT ![r] = v]
  PROVE  /\ reservation' \in [Key -> Reservation \cup {NoReservation}]
         /\ HeldSlicesCoverPoints'
         /\ \A o : HeldPoints(o)' =
               HeldPoints(o) - Contribution(o, reservation[r]) + Contribution(o, v)
<1>1. reservation \in [Key -> Reservation \cup {NoReservation}]
  BY DEF TypeOK
<1>2. \A x \in Reservation \cup {NoReservation} : \A o : Contribution(o, x) \in Nat
  <2>1. \A x \in Reservation : \A o : Contribution(o, x) \in Nat
    BY BasicFacts DEF Contribution, Reservation
  <2>2. \A o : Contribution(o, NoReservation) \in Nat
    BY DEF Contribution, NoReservation
  <2> QED BY <2>1, <2>2
<1>3. ASSUME NEW o
      PROVE  HeldPoints(o)' = HeldPoints(o) - Contribution(o, reservation[r]) + Contribution(o, v)
  <2> DEFINE f == [k \in Key |-> Contribution(o, reservation[k])]
  <2>1. f \in [Key -> Nat]
    BY <1>1, <1>2
  <2>2. Contribution(o, v) \in Nat
    BY <1>2
  <2> DEFINE g == [k \in Key |-> Contribution(o, reservation'[k])]
  <2>3. HeldPoints(o)' = Total(g)
    BY DEF HeldPoints, HeldBy, Contribution
  <2>4. g \in [Key -> Nat] /\ g[r] = Contribution(o, v) /\ \A k \in Key \ {r} : g[k] = f[k]
    BY <1>1, <1>2
  <2>5. f[r] = Contribution(o, reservation[r]) /\ HeldPoints(o) = Total(f)
    BY HeldPointsByRow
  <2> HIDE DEF f, g
  <2>6. Total(g) = Total(f) - f[r] + g[r]
    <3>1. IsFiniteSet(Key)
      BY BasicFacts
    <3> QED BY ONLY <2>1, <2>4, <3>1, r \in Key, TotalChange
  <2> QED BY <2>3, <2>4, <2>5, <2>6
<1>4. reservation' \in [Key -> Reservation \cup {NoReservation}]
  BY <1>1
<1>5. HeldSlicesCoverPoints'
  BY <1>1 DEF HeldSlicesCoverPoints, Held
<1> QED BY <1>3, <1>4, <1>5

(* Rows that stay leave the facts about holds alone. *)
LEMMA ReservationsStay ==
  ASSUME ReservedIsHeld, HeldSlicesCoverPoints,
         UNCHANGED <<reserved, reservation>>
  PROVE  ReservedIsHeld' /\ HeldSlicesCoverPoints'
  BY DEF ReservedIsHeld, HeldSlicesCoverPoints, HeldPoints, HeldBy, Held

(* A committed request is a row of loyalty_txn. *)
LEMMA CommitType ==
  ASSUME TypeOK, NEW k \in Key, NEW type, NEW o \in Occ, NEW c \in Currency,
         NEW d \in Currency, NEW p \in Int,
         type \in {"earn", "reserve", "capture", "release", "convert", "adjust", "transfer"},
         Commit(k, type, o, c, d, p)
  PROVE  /\ txn' \in [Key -> Txn \cup {NoTxn}]
         /\ txn[k] = NoTxn
         /\ txn'[k] # NoTxn
         /\ \A j \in Key \ {k} : txn'[j] = txn[j]
<1> DEFINE t == [type |-> type, occ |-> o, cur |-> c, into |-> d, points |-> p]
<1>1. t \in Txn
  BY DEF Txn
<1>2. t # NoTxn
  <2>1. t.type = type /\ NoTxn.type = "none" /\ type # "none"
    BY DEF NoTxn
  <2> QED BY <2>1
<1>3. txn \in [Key -> Txn \cup {NoTxn}] /\ txn' = [txn EXCEPT ![k] = t] /\ txn[k] = NoTxn
  BY DEF Commit, TypeOK
<1> HIDE DEF t
<1> QED BY <1>1, <1>2, <1>3

(* Rows that stay keep their committed requests. *)
LEMMA HoldsStay ==
  ASSUME TypeOK, HoldsAreCommitted, NEW k \in Key,
         UNCHANGED reservation, txn'[k] # NoTxn, \A j \in Key \ {k} : txn'[j] = txn[j]
  PROVE  HoldsAreCommitted'
  BY DEF HoldsAreCommitted
-----------------------------------------------------------------------------
(* Each operation preserves the invariant. *)

(* An issue of points, whatever request it belongs to. *)
LEMMA IssueStep ==
  ASSUME LedgerInv, NEW o \in Occ, NEW c \in Currency, NEW p \in Amount, Issue(o, c, p)
  PROVE  /\ available' \in [Occ -> [Currency -> Int]]
         /\ issued' \in [Currency -> Int]
         /\ lots' \in [Occ -> [Currency -> [Expiry -> Nat]]]
         /\ AvailableIsLots'
<1> DEFINE f == Plus(lots[o][c], NewLot(c, p))
           n == available[o][c] + p
<1>1. p \in Nat
  BY BasicFacts
<1>2. NewLot(c, p) \in [Expiry -> Nat] /\ Total(NewLot(c, p)) = p
  BY <1>1, NewLotTotal DEF LedgerInv
<1>3. lots[o][c] \in [Expiry -> Nat] /\ available[o][c] \in Int
  BY DEF LedgerInv, TypeOK
<1>4. f \in [Expiry -> Nat] /\ Total(f) = Total(lots[o][c]) + p
  BY <1>2, <1>3, LotsPlus
<1>5. n \in Int /\ n = Total(f)
  BY <1>1, <1>3, <1>4 DEF LedgerInv, AvailableIsLots
<1>6. available' = [available EXCEPT ![o][c] = n] /\ lots' = [lots EXCEPT ![o][c] = f]
  BY DEF Issue, Put
<1>7. issued' \in [Currency -> Int]
  BY <1>1 DEF Issue, LedgerInv, TypeOK
<1> HIDE DEF f, n
<1> QED BY <1>4, <1>5, <1>6, <1>7, WalletUpdate DEF LedgerInv

(* Spending p points of one member's wallet through its lots. *)
LEMMA SpendStep ==
  ASSUME LedgerInv, NEW o \in Occ, NEW c \in Currency, NEW p \in Amount,
         NEW take \in FifoTakes(lots[o][c], p),
         available' = [available EXCEPT ![o][c] = available[o][c] - p],
         lots' = Take(o, c, take)
  PROVE  /\ available' \in [Occ -> [Currency -> Int]]
         /\ lots' \in [Occ -> [Currency -> [Expiry -> Nat]]]
         /\ AvailableIsLots'
         /\ take \in [Expiry -> Nat]
         /\ Total(take) = p
<1> DEFINE f == Minus(lots[o][c], take)
           n == available[o][c] - p
<1>1. p \in Nat
  BY BasicFacts
<1>2. lots[o][c] \in [Expiry -> Nat] /\ available[o][c] \in Int
  BY DEF LedgerInv, TypeOK
<1>3. take \in [Expiry -> Nat] /\ Total(take) = p /\ \A e \in Expiry : take[e] <= lots[o][c][e]
  BY <1>1, <1>2, FifoTakesTotal
<1>4. f \in [Expiry -> Nat] /\ Total(f) = Total(lots[o][c]) - p
  BY <1>2, <1>3, LotsMinus
<1>5. n \in Int /\ n = Total(f)
  BY <1>1, <1>2, <1>4 DEF LedgerInv, AvailableIsLots
<1>6. available' = [available EXCEPT ![o][c] = n] /\ lots' = [lots EXCEPT ![o][c] = f]
  BY DEF Take
<1> HIDE DEF f, n
<1>7. /\ available' \in [Occ -> [Currency -> Int]]
      /\ lots' \in [Occ -> [Currency -> [Expiry -> Nat]]]
      /\ AvailableIsLots'
  <2>1. TypeOK /\ AvailableIsLots
    BY DEF LedgerInv
  <2> QED BY ONLY <1>4, <1>5, <1>6, <2>1, o \in Occ, c \in Currency, WalletUpdate
<1> QED BY <1>3, <1>7

(* earn *)
LEMMA EarnStep ==
  ASSUME LedgerInv, NEW o \in Occ, NEW p \in Amount, NEW k \in Key, Earn(o, p, k)
  PROVE  LedgerInv'
<1>1. Group \in Currency /\ p \in Int
  BY BasicFacts
<1>2. /\ txn' \in [Key -> Txn \cup {NoTxn}]
      /\ txn[k] = NoTxn
      /\ txn'[k] # NoTxn
      /\ \A j \in Key \ {k} : txn'[j] = txn[j]
  BY <1>1, CommitType DEF Earn, LedgerInv
<1>3. /\ available' \in [Occ -> [Currency -> Int]]
      /\ issued' \in [Currency -> Int]
      /\ lots' \in [Occ -> [Currency -> [Expiry -> Nat]]]
      /\ AvailableIsLots'
  BY <1>1, IssueStep DEF Earn
<1>4. ReservedIsHeld' /\ HeldSlicesCoverPoints' /\ HoldsAreCommitted'
  BY <1>2, ReservationsStay, HoldsStay DEF Earn, LedgerInv
<1> QED BY <1>2, <1>3, <1>4 DEF Earn, LedgerInv, TypeOK

(* postAutoEarnTx, postBonusEarnTx *)
LEMMA PostEarnStep ==
  ASSUME LedgerInv, NEW o \in Occ, NEW c \in Currency, NEW p \in Amount, NEW k \in Key,
         PostEarnTx(o, c, p, k)
  PROVE  LedgerInv'
<1>1. p \in Int
  BY BasicFacts
<1>2. /\ txn' \in [Key -> Txn \cup {NoTxn}]
      /\ txn[k] = NoTxn
      /\ txn'[k] # NoTxn
      /\ \A j \in Key \ {k} : txn'[j] = txn[j]
  BY <1>1, CommitType DEF PostEarnTx, LedgerInv
<1>3. /\ available' \in [Occ -> [Currency -> Int]]
      /\ issued' \in [Currency -> Int]
      /\ lots' \in [Occ -> [Currency -> [Expiry -> Nat]]]
      /\ AvailableIsLots'
  BY IssueStep DEF PostEarnTx
<1>4. ReservedIsHeld' /\ HeldSlicesCoverPoints' /\ HoldsAreCommitted'
  BY <1>2, ReservationsStay, HoldsStay DEF PostEarnTx, LedgerInv
<1> QED BY <1>2, <1>3, <1>4 DEF PostEarnTx, LedgerInv, TypeOK

(* adjust by a positive amount *)
LEMMA AdjustUpStep ==
  ASSUME LedgerInv, NEW o \in Occ, NEW c \in Currency, NEW p \in Amount, NEW k \in Key,
         AdjustUp(o, c, p, k)
  PROVE  LedgerInv'
<1>1. p \in Int
  BY BasicFacts
<1>2. /\ txn' \in [Key -> Txn \cup {NoTxn}]
      /\ txn[k] = NoTxn
      /\ txn'[k] # NoTxn
      /\ \A j \in Key \ {k} : txn'[j] = txn[j]
  BY <1>1, CommitType DEF AdjustUp, LedgerInv
<1>3. /\ available' \in [Occ -> [Currency -> Int]]
      /\ issued' \in [Currency -> Int]
      /\ lots' \in [Occ -> [Currency -> [Expiry -> Nat]]]
      /\ AvailableIsLots'
  BY IssueStep DEF AdjustUp
<1>4. ReservedIsHeld' /\ HeldSlicesCoverPoints' /\ HoldsAreCommitted'
  BY <1>2, ReservationsStay, HoldsStay DEF AdjustUp, LedgerInv
<1> QED BY <1>2, <1>3, <1>4 DEF AdjustUp, LedgerInv, TypeOK

(* adjust by a negative amount *)
LEMMA AdjustDownStep ==
  ASSUME LedgerInv, NEW o \in Occ, NEW c \in Currency, NEW p \in Amount, NEW k \in Key,
         AdjustDown(o, c, p, k)
  PROVE  LedgerInv'
<1>1. p \in Int /\ -p \in Int
  BY BasicFacts
<1>2. /\ txn' \in [Key -> Txn \cup {NoTxn}]
      /\ txn[k] = NoTxn
      /\ txn'[k] # NoTxn
      /\ \A j \in Key \ {k} : txn'[j] = txn[j]
  BY <1>1, CommitType DEF AdjustDown, LedgerInv
<1>3. PICK take \in FifoTakes(lots[o][c], p) : lots' = Take(o, c, take)
  BY DEF AdjustDown
<1>4. available' = [available EXCEPT ![o][c] = available[o][c] - p]
  BY DEF AdjustDown
<1>5. /\ available' \in [Occ -> [Currency -> Int]]
      /\ lots' \in [Occ -> [Currency -> [Expiry -> Nat]]]
      /\ AvailableIsLots'
  BY <1>3, <1>4, SpendStep
<1>6. issued' \in [Currency -> Int]
  BY <1>1 DEF AdjustDown, LedgerInv, TypeOK
<1>7. ReservedIsHeld' /\ HeldSlicesCoverPoints' /\ HoldsAreCommitted'
  BY <1>2, ReservationsStay, HoldsStay DEF AdjustDown, LedgerInv
<1> QED BY <1>2, <1>5, <1>6, <1>7 DEF AdjustDown, LedgerInv, TypeOK
(* reserve *)
LEMMA ReserveStep ==
  ASSUME LedgerInv, NEW o \in Occ, NEW p \in Amount, NEW k \in Key, Reserve(o, p, k)
  PROVE  LedgerInv'
<1>1. Group \in Currency /\ p \in Nat /\ p \in Int
  BY BasicFacts
<1>2. /\ txn' \in [Key -> Txn \cup {NoTxn}]
      /\ txn[k] = NoTxn
      /\ txn'[k] # NoTxn
      /\ \A j \in Key \ {k} : txn'[j] = txn[j]
  BY <1>1, CommitType DEF Reserve, LedgerInv
<1> DEFINE v(take) == [status |-> "held", occ |-> o, points |-> p, slices |-> take]
<1>3. PICK take \in FifoTakes(lots[o][Group], p) :
        lots' = Take(o, Group, take) /\ reservation' = [reservation EXCEPT ![k] = v(take)]
  BY DEF Reserve
<1>4. available' = [available EXCEPT ![o][Group] = available[o][Group] - p]
  BY DEF Reserve
<1>5. /\ available' \in [Occ -> [Currency -> Int]]
      /\ lots' \in [Occ -> [Currency -> [Expiry -> Nat]]]
      /\ AvailableIsLots'
      /\ take \in [Expiry -> Nat]
      /\ Total(take) = p
  BY <1>1, <1>3, <1>4, SpendStep
<1>6. v(take) \in Reservation /\ Total(v(take).slices) = v(take).points
  BY <1>5 DEF Reservation
<1>7. /\ reservation' \in [Key -> Reservation \cup {NoReservation}]
      /\ HeldSlicesCoverPoints'
      /\ \A x : HeldPoints(x)' =
            HeldPoints(x) - Contribution(x, reservation[k]) + Contribution(x, v(take))
  <2> HIDE DEF v
  <2> QED BY <1>3, <1>6, ReservationUpdate DEF LedgerInv
<1>8. reserved' \in [Occ -> Int]
  BY <1>1 DEF Reserve, LedgerInv, TypeOK
<1>9. reservation[k] = NoReservation
  BY <1>2 DEF LedgerInv, HoldsAreCommitted
<1>10. ReservedIsHeld'
  <2> SUFFICES ASSUME NEW x \in Occ PROVE reserved'[x] = HeldPoints(x)'
    BY DEF ReservedIsHeld
  <2>1. reserved[x] = HeldPoints(x) /\ reserved[x] \in Int
    BY DEF LedgerInv, ReservedIsHeld, TypeOK
  <2>2. Contribution(x, reservation[k]) = 0
    BY <1>9 DEF Contribution, NoReservation
  <2>3. Contribution(x, v(take)) = IF x = o THEN p ELSE 0
    BY DEF Contribution
  <2>4. reserved'[x] = IF x = o THEN reserved[x] + p ELSE reserved[x]
    BY DEF Reserve, LedgerInv, TypeOK
  <2> QED BY <1>1, <1>7, <2>1, <2>2, <2>3, <2>4
<1>11. HoldsAreCommitted'
  <2> SUFFICES ASSUME NEW j \in Key, reservation'[j] # NoReservation
               PROVE  txn'[j] # NoTxn
    BY DEF HoldsAreCommitted
  <2>1. j # k => reservation'[j] = reservation[j]
    BY <1>3 DEF LedgerInv, TypeOK
  <2> QED BY <1>2, <2>1 DEF LedgerInv, HoldsAreCommitted
<1> QED BY <1>2, <1>5, <1>7, <1>8, <1>10, <1>11 DEF Reserve, LedgerInv, TypeOK
(* Settling a held reservation row, as capture and release both do. *)
LEMMA SettleRow ==
  ASSUME LedgerInv, NEW r \in Key, NEW k \in Key, NEW st \in {"captured", "released"},
         reservation[r].status = "held",
         reserved' = [reserved EXCEPT ![reservation[r].occ] = @ - reservation[r].points],
         reservation' = [reservation EXCEPT ![r].status = st],
         txn[k] = NoTxn, txn'[k] # NoTxn, \A j \in Key \ {k} : txn'[j] = txn[j]
  PROVE  /\ reservation[r] \in Reservation
         /\ reserved' \in [Occ -> Int]
         /\ reservation' \in [Key -> Reservation \cup {NoReservation}]
         /\ ReservedIsHeld'
         /\ HeldSlicesCoverPoints'
         /\ HoldsAreCommitted'
<1> DEFINE o == reservation[r].occ
           p == reservation[r].points
           v == [reservation[r] EXCEPT !.status = st]
<1>1. reservation[r] \in Reservation
  BY DEF LedgerInv, TypeOK, NoReservation
<1>2. o \in Occ /\ p \in Nat
  BY <1>1, BasicFacts DEF Reservation
<1>3. v \in Reservation /\ v.status = st
  BY <1>1 DEF Reservation
<1>4. reservation' = [reservation EXCEPT ![r] = v]
  OBVIOUS
<1>5. reserved' \in [Occ -> Int]
  BY <1>2 DEF LedgerInv, TypeOK
<1>6. /\ reservation' \in [Key -> Reservation \cup {NoReservation}]
      /\ HeldSlicesCoverPoints'
      /\ \A x : HeldPoints(x)' =
            HeldPoints(x) - Contribution(x, reservation[r]) + Contribution(x, v)
  <2> HIDE DEF v
  <2> QED BY <1>3, <1>4, ReservationUpdate DEF LedgerInv
<1>7. ReservedIsHeld'
  <2> SUFFICES ASSUME NEW x \in Occ PROVE reserved'[x] = HeldPoints(x)'
    BY DEF ReservedIsHeld
  <2>1. reserved[x] = HeldPoints(x) /\ reserved[x] \in Int
    BY DEF LedgerInv, ReservedIsHeld, TypeOK
  <2>2. Contribution(x, reservation[r]) = IF x = o THEN p ELSE 0
    BY DEF Contribution
  <2>3. Contribution(x, v) = 0
    BY <1>3 DEF Contribution
  <2>4. reserved'[x] = IF x = o THEN reserved[x] - p ELSE reserved[x]
    BY DEF LedgerInv, TypeOK
  <2> QED BY <1>2, <1>6, <2>1, <2>2, <2>3, <2>4
<1>8. HoldsAreCommitted'
  <2> SUFFICES ASSUME NEW j \in Key, reservation'[j] # NoReservation
               PROVE  txn'[j] # NoTxn
    BY DEF HoldsAreCommitted
  <2>1. reservation[r] # NoReservation
    BY DEF NoReservation
  <2>2. j # r => reservation'[j] = reservation[j]
    BY <1>4 DEF LedgerInv, TypeOK
  <2> QED BY <2>1, <2>2 DEF LedgerInv, HoldsAreCommitted
<1> QED BY <1>1, <1>5, <1>6, <1>7, <1>8

(* capture *)
LEMMA CaptureStep ==
  ASSUME LedgerInv, NEW r \in Key, NEW k \in Key, Capture(r, k)
  PROVE  LedgerInv'
<1> DEFINE o == reservation[r].occ
           p == reservation[r].points
<1>1. CaptureFor(o, r, k) /\ reservation[r].status = "held"
  BY DEF Capture, CaptureFor
<1>2. reservation[r] \in Reservation
  BY <1>1 DEF LedgerInv, TypeOK, NoReservation
<1>3. o \in Occ /\ p \in Int /\ Group \in Currency
  <2>1. o \in Occ /\ p \in Nat
    BY <1>2, BasicFacts DEF Reservation
  <2> QED BY <2>1, BasicFacts
<1>4. Commit(k, "capture", o, Group, Group, p)
  BY <1>1 DEF CaptureFor
<1> HIDE DEF o, p
<1>5. /\ txn' \in [Key -> Txn \cup {NoTxn}]
      /\ txn[k] = NoTxn
      /\ txn'[k] # NoTxn
      /\ \A j \in Key \ {k} : txn'[j] = txn[j]
  BY <1>3, <1>4, CommitType DEF LedgerInv
<1>6. /\ reserved' \in [Occ -> Int]
      /\ reservation' \in [Key -> Reservation \cup {NoReservation}]
      /\ ReservedIsHeld'
      /\ HeldSlicesCoverPoints'
      /\ HoldsAreCommitted'
  <2>1. /\ reserved' = [reserved EXCEPT ![o] = @ - p]
        /\ reservation' = [reservation EXCEPT ![r].status = "captured"]
    BY <1>1 DEF CaptureFor, p
  <2> QED BY <1>1, <1>5, <2>1, SettleRow DEF o, p
<1>7. redeemed' \in [Currency -> Int]
  BY <1>1, <1>3 DEF CaptureFor, LedgerInv, TypeOK, p
<1>8. AvailableIsLots'
  BY <1>1 DEF CaptureFor, LedgerInv, AvailableIsLots
<1> QED BY <1>1, <1>5, <1>6, <1>7, <1>8 DEF CaptureFor, LedgerInv, TypeOK

(* release *)
LEMMA ReleaseStep ==
  ASSUME LedgerInv, NEW r \in Key, NEW k \in Key, Release(r, k)
  PROVE  LedgerInv'
<1> DEFINE o == reservation[r].occ
           p == reservation[r].points
           f == Plus(lots[o][Group], reservation[r].slices)
           n == available[o][Group] + p
<1>1. ReleaseFor(o, r, k) /\ reservation[r].status = "held"
  BY DEF Release, ReleaseFor
<1>2. reservation[r] \in Reservation
  BY <1>1 DEF LedgerInv, TypeOK, NoReservation
<1>3. /\ o \in Occ
      /\ p \in Int
      /\ Group \in Currency
      /\ reservation[r].slices \in [Expiry -> Nat]
      /\ Total(reservation[r].slices) = p
  <2>1. o \in Occ /\ p \in Nat
    BY <1>2, BasicFacts DEF Reservation
  <2>3. reservation[r].slices \in [Expiry -> Nat]
    BY <1>2 DEF Reservation
  <2>2. Total(reservation[r].slices) = p
    BY <1>1 DEF LedgerInv, HeldSlicesCoverPoints, Held
  <2> QED BY <2>1, <2>2, <2>3, BasicFacts
<1>4. lots[o][Group] \in [Expiry -> Nat] /\ available[o][Group] \in Int
  BY <1>3 DEF LedgerInv, TypeOK
<1>5. f \in [Expiry -> Nat] /\ Total(f) = Total(lots[o][Group]) + p
  BY <1>3, <1>4, LotsPlus
<1>6. n \in Int /\ n = Total(f)
  BY <1>3, <1>4, <1>5 DEF LedgerInv, AvailableIsLots
<1>7. /\ available' = [available EXCEPT ![o][Group] = n]
      /\ lots' = [lots EXCEPT ![o][Group] = f]
      /\ reserved' = [reserved EXCEPT ![o] = @ - p]
      /\ reservation' = [reservation EXCEPT ![r].status = "released"]
      /\ Commit(k, "release", o, Group, Group, p)
  BY <1>1 DEF ReleaseFor, Put
<1> HIDE DEF o, p, f, n
<1>8. /\ txn' \in [Key -> Txn \cup {NoTxn}]
      /\ txn[k] = NoTxn
      /\ txn'[k] # NoTxn
      /\ \A j \in Key \ {k} : txn'[j] = txn[j]
  BY <1>3, <1>7, CommitType DEF LedgerInv
<1>9. /\ reserved' \in [Occ -> Int]
      /\ reservation' \in [Key -> Reservation \cup {NoReservation}]
      /\ ReservedIsHeld'
      /\ HeldSlicesCoverPoints'
      /\ HoldsAreCommitted'
  BY <1>1, <1>7, <1>8, SettleRow DEF o, p
<1>10. /\ available' \in [Occ -> [Currency -> Int]]
       /\ lots' \in [Occ -> [Currency -> [Expiry -> Nat]]]
       /\ AvailableIsLots'
  BY <1>3, <1>5, <1>6, <1>7, WalletUpdate DEF LedgerInv
<1> QED BY <1>1, <1>8, <1>9, <1>10 DEF ReleaseFor, LedgerInv, TypeOK
(* convert *)
LEMMA ConvertStep ==
  ASSUME LedgerInv, NEW o \in Occ, NEW c \in Currency, NEW d \in Currency,
         NEW p \in Amount, NEW k \in Key, Convert(o, c, d, p, k)
  PROVE  LedgerInv'
<1> DEFINE q == Converted(c, d, p)
<1>1. p \in Nat /\ q \in Nat /\ c # d
  BY BasicFacts DEF Convert
<1>2. /\ txn' \in [Key -> Txn \cup {NoTxn}]
      /\ txn[k] = NoTxn
      /\ txn'[k] # NoTxn
      /\ \A j \in Key \ {k} : txn'[j] = txn[j]
  BY <1>1, CommitType DEF Convert, LedgerInv
<1>3. PICK take \in FifoTakes(lots[o][c], p) :
        lots' = [lots EXCEPT ![o][c] = Minus(lots[o][c], take),
                             ![o][d] = Plus(lots[o][d], NewLot(d, q))]
  BY DEF Convert
<1> DEFINE f == Minus(lots[o][c], take)
           g == Plus(lots[o][d], NewLot(d, q))
           n == available[o][c] - p
           m == available[o][d] + q
<1>4. /\ lots[o][c] \in [Expiry -> Nat]
      /\ lots[o][d] \in [Expiry -> Nat]
      /\ available[o][c] \in Int
      /\ available[o][d] \in Int
  BY DEF LedgerInv, TypeOK
<1>5. available' = [available EXCEPT ![o][c] = n, ![o][d] = m]
  <2>1. available' = [available EXCEPT ![o][c] = @ - p, ![o][d] = @ + q]
    BY DEF Convert
  <2> QED BY <1>1, <2>1 DEF LedgerInv, TypeOK
<1>6. issued' \in [Currency -> Int]
  <2>1. issued' = [issued EXCEPT ![c] = @ + p, ![d] = @ - q]
    BY DEF Convert
  <2> HIDE DEF q
  <2> QED BY <1>1, <2>1 DEF LedgerInv, TypeOK
<1> HIDE DEF q
<1>7. take \in [Expiry -> Nat] /\ Total(take) = p /\ \A e \in Expiry : take[e] <= lots[o][c][e]
  BY <1>1, <1>4, FifoTakesTotal
<1>8. f \in [Expiry -> Nat] /\ Total(f) = Total(lots[o][c]) - p
  BY <1>4, <1>7, LotsMinus
<1>9. g \in [Expiry -> Nat] /\ Total(g) = Total(lots[o][d]) + q
  <2>1. NewLot(d, q) \in [Expiry -> Nat] /\ Total(NewLot(d, q)) = q
    BY <1>1, NewLotTotal DEF LedgerInv
  <2> QED BY <1>4, <2>1, LotsPlus
<1>10. n \in Int /\ n = Total(f) /\ m \in Int /\ m = Total(g)
  BY <1>1, <1>4, <1>8, <1>9 DEF LedgerInv, AvailableIsLots
<1>11. lots' = [lots EXCEPT ![o][c] = f, ![o][d] = g]
  BY <1>3
<1> HIDE DEF f, g, n, m
<1>12. /\ available' \in [Occ -> [Currency -> Int]]
       /\ lots' \in [Occ -> [Currency -> [Expiry -> Nat]]]
       /\ AvailableIsLots'
  <2>1. TypeOK /\ AvailableIsLots
    BY DEF LedgerInv
  <2> QED BY ONLY <1>1, <1>5, <1>8, <1>9, <1>10, <1>11, <2>1, o \in Occ, c \in Currency,
                  d \in Currency, ConvertUpdate
<1>13. ReservedIsHeld' /\ HeldSlicesCoverPoints' /\ HoldsAreCommitted'
  BY <1>2, ReservationsStay, HoldsStay DEF Convert, LedgerInv
<1> QED BY <1>2, <1>6, <1>12, <1>13 DEF Convert, LedgerInv, TypeOK

(* transfer *)
LEMMA TransferStep ==
  ASSUME LedgerInv, NEW o \in Occ, NEW q \in Occ, NEW c \in Currency,
         NEW p \in Amount, NEW k \in Key, Transfer(o, q, c, p, k)
  PROVE  LedgerInv'
<1>1. p \in Nat /\ o # q
  BY BasicFacts DEF Transfer
<1>2. /\ txn' \in [Key -> Txn \cup {NoTxn}]
      /\ txn[k] = NoTxn
      /\ txn'[k] # NoTxn
      /\ \A j \in Key \ {k} : txn'[j] = txn[j]
  BY <1>1, CommitType DEF Transfer, LedgerInv
<1>3. PICK take \in FifoTakes(lots[o][c], p) :
        lots' = [lots EXCEPT ![o][c] = Minus(lots[o][c], take),
                             ![q][c] = Plus(lots[q][c], take)]
  BY DEF Transfer
<1> DEFINE f == Minus(lots[o][c], take)
           g == Plus(lots[q][c], take)
           n == available[o][c] - p
           m == available[q][c] + p
<1>4. /\ lots[o][c] \in [Expiry -> Nat]
      /\ lots[q][c] \in [Expiry -> Nat]
      /\ available[o][c] \in Int
      /\ available[q][c] \in Int
  BY DEF LedgerInv, TypeOK
<1>5. available' = [available EXCEPT ![o][c] = n, ![q][c] = m]
  <2>1. available' = [available EXCEPT ![o][c] = @ - p, ![q][c] = @ + p]
    BY DEF Transfer
  <2> QED BY <1>1, <2>1 DEF LedgerInv, TypeOK
<1>6. take \in [Expiry -> Nat] /\ Total(take) = p /\ \A e \in Expiry : take[e] <= lots[o][c][e]
  BY <1>1, <1>4, FifoTakesTotal
<1>7. f \in [Expiry -> Nat] /\ Total(f) = Total(lots[o][c]) - p
  BY <1>4, <1>6, LotsMinus
<1>8. g \in [Expiry -> Nat] /\ Total(g) = Total(lots[q][c]) + p
  BY <1>4, <1>6, LotsPlus
<1>9. n \in Int /\ n = Total(f) /\ m \in Int /\ m = Total(g)
  BY <1>1, <1>4, <1>7, <1>8 DEF LedgerInv, AvailableIsLots
<1>10. lots' = [lots EXCEPT ![o][c] = f, ![q][c] = g]
  BY <1>3
<1> HIDE DEF f, g, n, m
<1>11. /\ available' \in [Occ -> [Currency -> Int]]
       /\ lots' \in [Occ -> [Currency -> [Expiry -> Nat]]]
       /\ AvailableIsLots'
  <2>1. TypeOK /\ AvailableIsLots
    BY DEF LedgerInv
  <2> QED BY ONLY <1>1, <1>5, <1>7, <1>8, <1>9, <1>10, <2>1, o \in Occ, q \in Occ,
                  c \in Currency, TransferUpdate
<1>12. ReservedIsHeld' /\ HeldSlicesCoverPoints' /\ HoldsAreCommitted'
  BY <1>2, ReservationsStay, HoldsStay DEF Transfer, LedgerInv
<1> QED BY <1>2, <1>11, <1>12 DEF Transfer, LedgerInv, TypeOK
(* The due part of a wallet is lots that are there. *)
LEMMA DuePartType ==
  ASSUME TypeOK, NEW o \in Occ, NEW c \in Currency
  PROVE  /\ lots[o][c] \in [Expiry -> Nat]
         /\ DuePart(o, c) \in [Expiry -> Nat]
         /\ \A e \in Expiry : DuePart(o, c)[e] <= lots[o][c][e]
         /\ Total(DuePart(o, c)) \in Nat
<1>1. lots[o][c] \in [Expiry -> Nat]
  BY DEF TypeOK
<1>2. /\ DuePart(o, c) \in [Expiry -> Nat]
      /\ \A e \in Expiry : DuePart(o, c)[e] <= lots[o][c][e]
  BY <1>1, PartType DEF DuePart
<1>3. Total(DuePart(o, c)) \in Nat
  BY <1>2, BasicFacts, TotalType
<1> QED BY <1>1, <1>2, <1>3

(* expireLots for one member *)
LEMMA ExpireLotsStep ==
  ASSUME LedgerInv, NEW o \in Occ, ExpireLots(o)
  PROVE  LedgerInv'
<1> DEFINE due(c) == Total(DuePart(o, c))
           kept(c) == Minus(lots[o][c], DuePart(o, c))
<1>1. TypeOK /\ AvailableIsLots
  BY DEF LedgerInv
<1>2. \A c \in Currency : /\ due(c) \in Nat
                          /\ kept(c) \in [Expiry -> Nat]
                          /\ Total(kept(c)) = Total(lots[o][c]) - due(c)
  <2> TAKE c \in Currency
  <2> QED BY <1>1, DuePartType, LotsMinus
<1>3. /\ available' = [available EXCEPT ![o] = [c \in Currency |-> available[o][c] - due(c)]]
      /\ breakage' = [c \in Currency |-> breakage[c] + due(c)]
      /\ lots' = [lots EXCEPT ![o] = [c \in Currency |-> kept(c)]]
      /\ UNCHANGED <<now, reserved, issued, redeemed, reservation, txn>>
  BY DEF ExpireLots
<1> HIDE DEF due, kept
<1>4. available \in [Occ -> [Currency -> Int]] /\ lots \in [Occ -> [Currency -> [Expiry -> Nat]]]
  BY <1>1 DEF TypeOK
<1>5. available' \in [Occ -> [Currency -> Int]]
  <2>1. [c \in Currency |-> available[o][c] - due(c)] \in [Currency -> Int]
    BY <1>2, <1>4
  <2> QED BY <1>3, <1>4, <2>1
<1>6. lots' \in [Occ -> [Currency -> [Expiry -> Nat]]]
  <2>1. [c \in Currency |-> kept(c)] \in [Currency -> [Expiry -> Nat]]
    BY <1>2
  <2> QED BY <1>3, <1>4, <2>1
<1>7. breakage' \in [Currency -> Int]
  BY <1>1, <1>2, <1>3 DEF TypeOK
<1>8. ASSUME NEW x \in Occ, NEW c \in Currency
      PROVE  available'[x][c] = Total(lots'[x][c])
  <2>1. available[x][c] = Total(lots[x][c])
    BY <1>1 DEF AvailableIsLots
  <2>2. CASE x = o
    <3>1. available'[x][c] = available[o][c] - due(c) /\ lots'[x][c] = kept(c)
      BY <1>3, <1>4, <2>2
    <3> QED BY <1>2, <2>1, <2>2, <3>1
  <2>3. CASE x # o
    BY <1>3, <1>4, <2>1, <2>3
  <2> QED BY <2>2, <2>3
<1>9. ReservedIsHeld' /\ HeldSlicesCoverPoints'
  BY <1>3, ReservationsStay DEF LedgerInv
<1>10. HoldsAreCommitted'
  BY <1>3 DEF LedgerInv, HoldsAreCommitted
<1> QED BY <1>1, <1>3, <1>5, <1>6, <1>7, <1>8, <1>9, <1>10
       DEF LedgerInv, TypeOK, AvailableIsLots

(* Nothing but the clock moves, or nothing at all. *)
LEMMA QuietStep ==
  ASSUME LedgerInv, Tick \/ UNCHANGED vars
  PROVE  LedgerInv'
<1>1. UNCHANGED <<balances, lots, reservation, txn>>
  BY DEF Tick, vars, balances
<1>2. now' \in Instant
  <2>1. now \in Instant /\ Horizon \in Nat
    BY LedgerAssumption DEF LedgerInv, TypeOK
  <2> QED BY <2>1 DEF Tick, vars, Instant
<1>3. ReservedIsHeld' /\ HeldSlicesCoverPoints'
  BY <1>1, ReservationsStay DEF LedgerInv, balances
<1> QED BY <1>1, <1>2, <1>3
       DEF LedgerInv, TypeOK, AvailableIsLots, HoldsAreCommitted, balances

-----------------------------------------------------------------------------
(* The theorems. *)

(* The empty ledger satisfies the invariant. *)
LEMMA InitInv == Init => LedgerInv
<1> SUFFICES ASSUME Init PROVE LedgerInv
  OBVIOUS
<1>1. NoPoints \in [Expiry -> Nat] /\ Total(NoPoints) = 0
  <2>1. NoPoints \in [Expiry -> Nat] /\ \A e \in Expiry : NoPoints[e] = 0
    BY DEF NoPoints
  <2> QED BY <2>1, TotalZero
<1>2. now \in Instant
  BY LedgerAssumption DEF Init, Instant
<1>3. TypeOK
  BY <1>1, <1>2 DEF Init, TypeOK
<1>4. AvailableIsLots
  BY <1>1 DEF Init, AvailableIsLots
<1>5. Held = {} /\ \A o : HeldBy(o) = {}
  BY DEF Init, Held, HeldBy, NoReservation
<1>6. ReservedIsHeld
  <2> SUFFICES ASSUME NEW o \in Occ PROVE HeldPoints(o) = 0
    BY DEF ReservedIsHeld, Init
  <2> DEFINE f == [r \in Key |-> IF r \in HeldBy(o) THEN reservation[r].points ELSE 0]
  <2>1. f \in [Key -> Nat] /\ \A r \in Key : f[r] = 0
    BY <1>5
  <2> HIDE DEF f
  <2>2. Total(f) = 0
    BY <2>1, TotalZero
  <2> QED BY <2>2 DEF f, HeldPoints
<1> QED BY <1>3, <1>4, <1>5, <1>6 DEF LedgerInv, HeldSlicesCoverPoints, HoldsAreCommitted, Init

(* Every step keeps it, one operation at a time. *)
LEMMA NextInv == LedgerInv /\ [Next]_vars => LedgerInv'
<1> SUFFICES ASSUME LedgerInv, [Next]_vars PROVE LedgerInv'
  OBVIOUS
<1>1. ASSUME NEW o \in Occ, NEW p \in Amount, NEW k \in Key, Earn(o, p, k)
      PROVE  LedgerInv'
  BY <1>1, EarnStep
<1>2. ASSUME NEW o \in Occ, NEW c \in Currency, NEW p \in Amount, NEW k \in Key,
             PostEarnTx(o, c, p, k)
      PROVE  LedgerInv'
  BY <1>2, PostEarnStep
<1>3. ASSUME NEW o \in Occ, NEW p \in Amount, NEW k \in Key, Reserve(o, p, k)
      PROVE  LedgerInv'
  BY <1>3, ReserveStep
<1>4. ASSUME NEW r \in Key, NEW k \in Key, Capture(r, k)
      PROVE  LedgerInv'
  BY <1>4, CaptureStep
<1>5. ASSUME NEW r \in Key, NEW k \in Key, Release(r, k)
      PROVE  LedgerInv'
  BY <1>5, ReleaseStep
<1>6. ASSUME NEW o \in Occ, NEW c \in Currency, NEW d \in Currency, NEW p \in Amount,
             NEW k \in Key, Convert(o, c, d, p, k)
      PROVE  LedgerInv'
  BY <1>6, ConvertStep
<1>7. ASSUME NEW o \in Occ, NEW c \in Currency, NEW p \in Amount, NEW k \in Key,
             AdjustUp(o, c, p, k)
      PROVE  LedgerInv'
  BY <1>7, AdjustUpStep
<1>8. ASSUME NEW o \in Occ, NEW c \in Currency, NEW p \in Amount, NEW k \in Key,
             AdjustDown(o, c, p, k)
      PROVE  LedgerInv'
  BY <1>8, AdjustDownStep
<1>9. ASSUME NEW o \in Occ, NEW q \in Occ, NEW c \in Currency, NEW p \in Amount,
             NEW k \in Key, Transfer(o, q, c, p, k)
      PROVE  LedgerInv'
  BY <1>9, TransferStep
<1>10. ASSUME NEW o \in Occ, ExpireLots(o)
       PROVE  LedgerInv'
  BY <1>10, ExpireLotsStep
<1>11. CASE Tick \/ UNCHANGED vars
  BY <1>11, QuietStep
<1> QED BY <1>1, <1>2, <1>3, <1>4, <1>5, <1>6, <1>7, <1>8, <1>9, <1>10, <1>11 DEF Next, LedgerOp

(* The ledger's inductive invariant, for any members, keys and policies. *)
THEOREM LedgerInvariant == Spec => []LedgerInv
<1>1. Init => LedgerInv
  BY InitInv
<1>2. LedgerInv /\ [Next]_vars => LedgerInv'
  BY NextInv
<1> QED BY <1>1, <1>2, PTL DEF Spec

(* The state always has the shape the tables allow. *)
THEOREM TypeCorrect == Spec => []TypeOK
<1>1. LedgerInv => TypeOK
  BY DEF LedgerInv
<1> QED BY <1>1, LedgerInvariant, PTL

(* A member's available balance is always the sum of its active lots. *)
THEOREM AvailableIsAlwaysLots == Spec => []AvailableIsLots
<1>1. LedgerInv => AvailableIsLots
  BY DEF LedgerInv
<1> QED BY <1>1, LedgerInvariant, PTL

(* A member's reserved balance is always what its held reservations hold. *)
THEOREM ReservedIsAlwaysHeld == Spec => []ReservedIsHeld
<1>1. LedgerInv => ReservedIsHeld
  BY DEF LedgerInv
<1> QED BY <1>1, LedgerInvariant, PTL

(* Balances that are sums of lots and of held points are never negative. *)
LEMMA NoOverdraw == LedgerInv => NoNegativeBalance
<1> SUFFICES ASSUME LedgerInv, NEW o \in Occ
             PROVE  reserved[o] >= 0 /\ \A c \in Currency : available[o][c] >= 0
  BY DEF NoNegativeBalance
<1>1. reserved[o] >= 0
  <2> DEFINE f == [r \in Key |-> Contribution(o, reservation[r])]
  <2>1. f \in [Key -> Nat]
    <3> SUFFICES ASSUME NEW r \in Key PROVE Contribution(o, reservation[r]) \in Nat
      OBVIOUS
    <3>1. CASE reservation[r] \in Reservation
      BY <3>1, BasicFacts DEF Contribution, Reservation
    <3>2. CASE reservation[r] = NoReservation
      BY <3>2 DEF Contribution, NoReservation
    <3> QED BY <3>1, <3>2 DEF LedgerInv, TypeOK
  <2> HIDE DEF f
  <2>2. Total(f) \in Nat
    BY <2>1, BasicFacts, TotalType
  <2>3. reserved[o] = Total(f)
    BY HeldPointsByRow DEF f, LedgerInv, ReservedIsHeld
  <2> QED BY <2>2, <2>3
<1>2. ASSUME NEW c \in Currency PROVE available[o][c] >= 0
  <2>1. Total(lots[o][c]) \in Nat
    <3>1. lots[o][c] \in [Expiry -> Nat]
      BY DEF LedgerInv, TypeOK
    <3> QED BY <3>1, BasicFacts, TotalType
  <2>2. available[o][c] = Total(lots[o][c])
    BY DEF LedgerInv, AvailableIsLots
  <2> QED BY <2>1, <2>2
<1> QED BY <1>1, <1>2

(* No member account is ever overdrawn. *)
THEOREM NeverOverdrawn == Spec => []NoNegativeBalance
  BY LedgerInvariant, NoOverdraw, PTL
=============================================================================
