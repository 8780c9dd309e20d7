------------------------ MODULE LedgerAccountsProofs ------------------------
(***************************************************************************)
(* The accounts of the ledger, for every instance.                         *)
(*                                                                         *)
(* Double entry: whatever an operation gives to or takes from the members' *)
(* accounts, it takes from or gives to a system account.  The sums over    *)
(* the members change at one or two places, which is what the first lemmas *)
(* are about.                                                              *)
(*                                                                         *)
(* Exactly once: the issued and redeemed accounts are the sums over the    *)
(* committed requests, whatever was retried under the same key.  A step    *)
(* that commits request t under a new key adds t's amounts to both sides;  *)
(* that needs the amounts of every row to be natural numbers, which is the *)
(* part of the invariant found there.                                      *)
(***************************************************************************)
EXTENDS LoyaltyLedgerProofs

(* What the members have available of one currency. *)
Column(c) == [o \in Occ |-> available[o][c]]

BalancesNat ==
    /\ reserved \in [Occ -> Nat]
    /\ \A c \in Currency : Column(c) \in [Occ -> Nat]

LEMMA InvBalancesNat == LedgerInv => BalancesNat
<1> SUFFICES ASSUME LedgerInv PROVE BalancesNat
  OBVIOUS
<1>1. NoNegativeBalance
  BY NoOverdraw
<1>2. reserved \in [Occ -> Int] /\ available \in [Occ -> [Currency -> Int]]
  BY DEF LedgerInv, TypeOK
<1>3. reserved \in [Occ -> Nat]
  <2>1. \A o \in Occ : reserved[o] \in Nat
    BY <1>1, <1>2 DEF NoNegativeBalance
  <2> QED BY <1>2, <2>1
<1>4. ASSUME NEW c \in Currency PROVE Column(c) \in [Occ -> Nat]
  <2>1. \A o \in Occ : available[o][c] \in Nat
    BY <1>1, <1>2 DEF NoNegativeBalance
  <2> QED BY <2>1 DEF Column
<1> QED BY <1>3, <1>4 DEF BalancesNat

LEMMA InvTotals ==
  ASSUME BalancesNat
  PROVE  Total(reserved) \in Nat /\ \A c \in Currency : Total(Column(c)) \in Nat
  BY TotalType, BasicFacts DEF BalancesNat

(* One member's amount of a currency changes. *)
LEMMA ColumnChange ==
  ASSUME BalancesNat, BalancesNat', NEW c \in Currency, NEW o \in Occ,
         \A q \in Occ \ {o} : available'[q][c] = available[q][c]
  PROVE  Total(Column(c))' = Total(Column(c)) - available[o][c] + available'[o][c]
<1> DEFINE f == Column(c)
           g == [q \in Occ |-> available'[q][c]]
<1>1. f \in [Occ -> Nat] /\ f[o] = available[o][c]
  BY DEF BalancesNat, Column
<1>2. g \in [Occ -> Nat] /\ g[o] = available'[o][c] /\ Column(c)' = g
  BY DEF BalancesNat, Column
<1>3. \A q \in Occ \ {o} : g[q] = f[q]
  BY DEF Column
<1>4. IsFiniteSet(Occ)
  BY BasicFacts
<1>5. Total(Column(c))' = Total(g)
  BY <1>2 DEF Total, Units
<1> HIDE DEF f, g
<1>6. Total(g) = Total(f) - f[o] + g[o]
  BY ONLY <1>1, <1>2, <1>3, <1>4, o \in Occ, TotalChange
<1> QED BY <1>1, <1>2, <1>5, <1>6 DEF f

(* The member's amounts of a currency all stay. *)
LEMMA ColumnSame ==
  ASSUME NEW c \in Currency, \A q \in Occ : available'[q][c] = available[q][c]
  PROVE  Total(Column(c))' = Total(Column(c))
<1>1. Column(c)' = Column(c)
  BY DEF Column
<1> QED BY <1>1 DEF Total, Units

(* n points of c and none of the other currencies. *)
Gain(c, n) == [d \in Currency |-> IF d = c THEN n ELSE 0]

LEMMA GainValues ==
  ASSUME NEW c \in Currency, NEW n \in Int
  PROVE  /\ Gain(c, n) \in [Currency -> Int]
         /\ Gain(c, n)[c] = n
         /\ \A d \in Currency : d # c => Gain(c, n)[d] = 0
  BY DEF Gain

LEMMA GainNegated ==
  ASSUME NEW c \in Currency, NEW n \in Int, NEW m \in Int, m = -n, NEW d \in Currency
  PROVE  Gain(c, n)[d] \in Int /\ Gain(c, m)[d] = -Gain(c, n)[d]
<1>1. CASE d = c
  BY <1>1, GainValues
<1>2. CASE d # c
  BY <1>2, GainValues
<1> QED BY <1>1, <1>2

LEMMA GainNothing == Group \in Currency /\ \A d \in Currency : Gain(Group, 0)[d] = 0
  BY BasicFacts DEF Gain

(* A system account that is changed by n in one currency. *)
LEMMA AccountChange ==
  ASSUME NEW f \in [Currency -> Int], NEW c \in Currency, NEW n \in Int, NEW d \in Currency
  PROVE  [f EXCEPT ![c] = @ + n][d] = f[d] + Gain(c, n)[d]
<1>1. f[d] \in Int
  OBVIOUS
<1>2. CASE d = c
  BY <1>1, <1>2, GainValues
<1>3. CASE d # c
  BY <1>1, <1>3, GainValues
<1> QED BY <1>2, <1>3

(* What a step does to the books: a[c] more are available to the members   *)
(* in each currency c, r more are reserved, and both are taken out of the  *)
(* system accounts.                                                        *)
AvailableGrows(a) == \A c \in Currency : Total(Column(c))' = Total(Column(c)) + a[c]
ReservedGrows(r) == Total(reserved)' = Total(reserved) + r
SystemGives(a, r) ==
    \A c \in Currency :
        issued'[c] + redeemed'[c] + breakage'[c] + a[c] + Gain(Group, r)[c]
            = issued[c] + redeemed[c] + breakage[c]

(* One member's wallets are changed by a. *)
LEMMA OneMember ==
  ASSUME BalancesNat, BalancesNat', NEW o \in Occ, NEW a \in [Currency -> Int],
         \A d \in Currency : available'[o][d] = available[o][d] + a[d],
         \A q \in Occ \ {o} : available'[q] = available[q]
  PROVE  AvailableGrows(a)
<1> SUFFICES ASSUME NEW d \in Currency
             PROVE  Total(Column(d))' = Total(Column(d)) + a[d]
  BY DEF AvailableGrows
<1>1. Total(Column(d)) \in Nat
  BY InvTotals
<1>2. available[o][d] \in Int
  <2>1. Column(d) \in [Occ -> Nat] /\ Column(d)[o] = available[o][d]
    BY DEF BalancesNat, Column
  <2> QED BY <2>1
<1>3. Total(Column(d))' = Total(Column(d)) - available[o][d] + available'[o][d]
  BY ColumnChange
<1>4. available'[o][d] = available[o][d] + a[d] /\ a[d] \in Int
  OBVIOUS
<1> QED BY ONLY <1>1, <1>2, <1>3, <1>4

(* One wallet is changed by n. *)
LEMMA OneWallet ==
  ASSUME LedgerInv, BalancesNat, BalancesNat', NEW o \in Occ, NEW c \in Currency, NEW n \in Int,
         available' = [available EXCEPT ![o][c] = @ + n]
  PROVE  AvailableGrows(Gain(c, n))
<1>1. available \in [Occ -> [Currency -> Int]]
  BY DEF LedgerInv, TypeOK
<1>2. Gain(c, n) \in [Currency -> Int]
  BY GainValues
<1>3. ASSUME NEW d \in Currency
      PROVE  available'[o][d] = available[o][d] + Gain(c, n)[d]
  <2>1. available'[o] = [available[o] EXCEPT ![c] = @ + n]
    BY <1>1
  <2>2. available[o] \in [Currency -> Int]
    BY <1>1
  <2> QED BY <2>1, <2>2, AccountChange
<1>4. \A q \in Occ \ {o} : available'[q] = available[q]
  BY <1>1
<1> QED BY <1>2, <1>3, <1>4, OneMember

(* No wallet is changed. *)
LEMMA NoWallet ==
  ASSUME BalancesNat, UNCHANGED available
  PROVE  AvailableGrows(Gain(Group, 0))
<1> SUFFICES ASSUME NEW d \in Currency
             PROVE  Total(Column(d))' = Total(Column(d)) + Gain(Group, 0)[d]
  BY DEF AvailableGrows
<1>1. Total(Column(d))' = Total(Column(d)) /\ Total(Column(d)) \in Nat
  BY ColumnSame, InvTotals
<1> QED BY <1>1, GainNothing

(* One member's reserved account is changed by n. *)
LEMMA OneReserved ==
  ASSUME BalancesNat, BalancesNat', NEW o \in Occ, NEW n \in Int,
         reserved' = [reserved EXCEPT ![o] = @ + n]
  PROVE  ReservedGrows(n)
<1>1. reserved \in [Occ -> Nat] /\ reserved' \in [Occ -> Nat]
  BY DEF BalancesNat
<1>2. \A q \in Occ \ {o} : reserved'[q] = reserved[q]
  BY <1>1
<1>3. reserved'[o] = reserved[o] + n /\ reserved[o] \in Int
  BY <1>1
<1> DEFINE f == reserved
           g == reserved'
<1>4. Total(g) = Total(f) - f[o] + g[o]
  <2>1. f \in [Occ -> Nat] /\ g \in [Occ -> Nat] /\ \A q \in Occ \ {o} : g[q] = f[q]
    BY <1>1, <1>2
  <2>2. IsFiniteSet(Occ)
    BY BasicFacts
  <2> HIDE DEF f, g
  <2> QED BY ONLY <2>1, <2>2, o \in Occ, TotalChange
<1>5. Total(reserved) \in Nat
  BY InvTotals
<1>6. Total(reserved)' = Total(reserved')
  BY DEF Total, Units
<1> QED BY <1>3, <1>4, <1>5, <1>6 DEF ReservedGrows

LEMMA NoReserved ==
  ASSUME BalancesNat, UNCHANGED reserved
  PROVE  ReservedGrows(0)
<1>1. Total(reserved)' = Total(reserved)
  BY DEF Total, Units
<1> QED BY <1>1, InvTotals DEF ReservedGrows

(* A step that moves the points of members and system by opposite amounts  *)
(* keeps the books.                                                        *)
LEMMA BooksFollow ==
  ASSUME LedgerInv, LedgerInv', BooksBalance, BalancesNat,
         NEW a \in [Currency -> Int], NEW r \in Int,
         AvailableGrows(a), ReservedGrows(r), SystemGives(a, r)
  PROVE  BooksBalance'
<1> SUFFICES ASSUME NEW d \in Currency
             PROVE  MemberPoints(d)' + redeemed'[d] + breakage'[d] + issued'[d] = 0
  BY DEF BooksBalance
<1>1. MemberPoints(d) + redeemed[d] + breakage[d] + issued[d] = 0
  BY DEF BooksBalance
<1>2. /\ issued[d] \in Int /\ redeemed[d] \in Int /\ breakage[d] \in Int
      /\ issued'[d] \in Int /\ redeemed'[d] \in Int /\ breakage'[d] \in Int
      /\ a[d] \in Int
  BY DEF LedgerInv, TypeOK
<1>3. Gain(Group, r)[d] \in Int
  BY GainNothing, GainValues
<1>4. MemberPoints(d) \in Int /\ MemberPoints(d)' = MemberPoints(d) + a[d] + Gain(Group, r)[d]
  <2> DEFINE x == Total(Column(d))
             y == Total(reserved)
             x1 == Total(Column(d))'
             y1 == Total(reserved)'
  <2>1. x \in Int /\ y \in Int /\ x1 = x + a[d] /\ y1 = y + r
    BY InvTotals DEF AvailableGrows, ReservedGrows
  <2>2. MemberPoints(d) = x + (IF d = Group THEN y ELSE 0)
    BY DEF MemberPoints, Column
  <2>3. MemberPoints(d)' = x1 + (IF d = Group THEN y1 ELSE 0)
    BY DEF MemberPoints, Column
  <2> HIDE DEF x, y, x1, y1
  <2>4. CASE d = Group
    <3>1. MemberPoints(d) = x + y /\ MemberPoints(d)' = x1 + y1
      BY <2>2, <2>3, <2>4
    <3>2. Gain(Group, r)[d] = r
      BY <2>4, GainValues
    <3> QED BY ONLY <1>2, <2>1, <3>1, <3>2, r \in Int
  <2>5. CASE d # Group
    <3>1. MemberPoints(d) = x + 0 /\ MemberPoints(d)' = x1 + 0
      BY <2>2, <2>3, <2>5
    <3>2. Gain(Group, r)[d] = 0
      BY <2>5, GainNothing, GainValues
    <3> QED BY ONLY <1>2, <2>1, <3>1, <3>2
  <2> QED BY <2>4, <2>5
<1>5. issued'[d] + redeemed'[d] + breakage'[d] + a[d] + Gain(Group, r)[d]
        = issued[d] + redeemed[d] + breakage[d]
  BY DEF SystemGives
<1> QED BY ONLY <1>1, <1>2, <1>3, <1>4, <1>5

-----------------------------------------------------------------------------
(* The operations, one by one. *)

LEMMA SystemTypes ==
  ASSUME LedgerInv
  PROVE  /\ issued \in [Currency -> Int]
         /\ redeemed \in [Currency -> Int]
         /\ breakage \in [Currency -> Int]
         /\ \A d \in Currency : issued[d] \in Int /\ redeemed[d] \in Int /\ breakage[d] \in Int
  BY DEF LedgerInv, TypeOK

(* Earning, auto-earning and adjusting upwards. *)
LEMMA IssueBooks ==
  ASSUME LedgerInv, LedgerInv', BooksBalance, BalancesNat, BalancesNat',
         NEW o \in Occ, NEW c \in Currency, NEW p \in Amount, Issue(o, c, p),
         UNCHANGED <<reserved, redeemed, breakage>>
  PROVE  BooksBalance'
<1>1. p \in Int
  BY BasicFacts
<1>2. PICK m \in Int : m = -p
  BY <1>1
<1>3. AvailableGrows(Gain(c, p)) /\ ReservedGrows(0)
  BY <1>1, OneWallet, NoReserved DEF Issue
<1>4. SystemGives(Gain(c, p), 0)
  <2> SUFFICES ASSUME NEW d \in Currency
               PROVE  issued'[d] + redeemed'[d] + breakage'[d] + Gain(c, p)[d] + Gain(Group, 0)[d]
                          = issued[d] + redeemed[d] + breakage[d]
    BY DEF SystemGives
  <2>1. issued' = [issued EXCEPT ![c] = @ + m]
    BY <1>1, <1>2, SystemTypes DEF Issue
  <2>2. issued'[d] = issued[d] + Gain(c, m)[d]
    BY <2>1, SystemTypes, AccountChange
  <2>3. Gain(c, m)[d] = -Gain(c, p)[d] /\ Gain(c, p)[d] \in Int
    BY <1>1, <1>2, GainNegated
  <2>4. redeemed'[d] = redeemed[d] /\ breakage'[d] = breakage[d] /\ Gain(Group, 0)[d] = 0
    BY GainNothing
  <2>5. issued[d] \in Int /\ redeemed[d] \in Int /\ breakage[d] \in Int
    BY SystemTypes
  <2> QED BY ONLY <2>2, <2>3, <2>4, <2>5
<1>5. Gain(c, p) \in [Currency -> Int]
  BY <1>1, GainValues
<1> QED BY <1>3, <1>4, <1>5, BooksFollow

(* Adjusting downwards. *)
LEMMA AdjustDownBooks ==
  ASSUME LedgerInv, LedgerInv', BooksBalance, BalancesNat, BalancesNat',
         NEW o \in Occ, NEW c \in Currency, NEW p \in Amount, NEW k \in Key,
         AdjustDown(o, c, p, k)
  PROVE  BooksBalance'
<1>1. p \in Int
  BY BasicFacts
<1>2. PICK m \in Int : m = -p
  BY <1>1
<1>3. available' = [available EXCEPT ![o][c] = @ + m]
  BY <1>1, <1>2 DEF AdjustDown, LedgerInv, TypeOK
<1>4. AvailableGrows(Gain(c, m)) /\ ReservedGrows(0)
  BY <1>3, OneWallet, NoReserved DEF AdjustDown
<1>5. SystemGives(Gain(c, m), 0)
  <2> SUFFICES ASSUME NEW d \in Currency
               PROVE  issued'[d] + redeemed'[d] + breakage'[d] + Gain(c, m)[d] + Gain(Group, 0)[d]
                          = issued[d] + redeemed[d] + breakage[d]
    BY DEF SystemGives
  <2>1. issued'[d] = issued[d] + Gain(c, p)[d]
    BY <1>1, SystemTypes, AccountChange DEF AdjustDown
  <2>2. Gain(c, m)[d] = -Gain(c, p)[d] /\ Gain(c, p)[d] \in Int
    BY <1>1, <1>2, GainNegated
  <2>3. redeemed'[d] = redeemed[d] /\ breakage'[d] = breakage[d] /\ Gain(Group, 0)[d] = 0
    BY GainNothing DEF AdjustDown
  <2>4. issued[d] \in Int /\ redeemed[d] \in Int /\ breakage[d] \in Int
    BY SystemTypes
  <2> QED BY ONLY <2>1, <2>2, <2>3, <2>4
<1>6. Gain(c, m) \in [Currency -> Int]
  BY GainValues
<1> QED BY <1>4, <1>5, <1>6, BooksFollow

(* Reserving: the points stay the member's. *)
LEMMA ReserveBooks ==
  ASSUME LedgerInv, LedgerInv', BooksBalance, BalancesNat, BalancesNat',
         NEW o \in Occ, NEW p \in Amount, NEW k \in Key, Reserve(o, p, k)
  PROVE  BooksBalance'
<1>1. p \in Int /\ Group \in Currency
  BY BasicFacts
<1>2. PICK m \in Int : m = -p
  BY <1>1
<1>3. available' = [available EXCEPT ![o][Group] = @ + m]
  BY <1>1, <1>2 DEF Reserve, LedgerInv, TypeOK
<1>4. AvailableGrows(Gain(Group, m)) /\ ReservedGrows(p)
  BY <1>1, <1>3, OneWallet, OneReserved DEF Reserve
<1>5. SystemGives(Gain(Group, m), p)
  <2> SUFFICES ASSUME NEW d \in Currency
               PROVE  issued'[d] + redeemed'[d] + breakage'[d] + Gain(Group, m)[d]
                        + Gain(Group, p)[d] = issued[d] + redeemed[d] + breakage[d]
    BY DEF SystemGives
  <2>1. Gain(Group, m)[d] = -Gain(Group, p)[d] /\ Gain(Group, p)[d] \in Int
    BY <1>1, <1>2, GainNegated
  <2>2. issued'[d] = issued[d] /\ redeemed'[d] = redeemed[d] /\ breakage'[d] = breakage[d]
    BY DEF Reserve
  <2>3. issued[d] \in Int /\ redeemed[d] \in Int /\ breakage[d] \in Int
    BY SystemTypes
  <2> QED BY ONLY <2>1, <2>2, <2>3
<1>6. Gain(Group, m) \in [Currency -> Int]
  BY <1>1, GainValues
<1> QED BY <1>1, <1>4, <1>5, <1>6, BooksFollow

(* A hold that is settled, by its member. *)
LEMMA SettledTypes ==
  ASSUME LedgerInv, NEW r \in Key, reservation[r] # NoReservation
  PROVE  reservation[r].occ \in Occ /\ reservation[r].points \in Int
<1>1. reservation[r] \in Reservation
  BY DEF LedgerInv, TypeOK
<1>2. reservation[r].occ \in Occ /\ reservation[r].points \in Amount
  BY <1>1 DEF Reservation
<1>3. \A n \in Amount : n \in Int
  BY BasicFacts
<1> QED BY <1>2, <1>3

(* Capturing: from the reserved account to the redeemed one. *)
LEMMA CaptureBooks ==
  ASSUME LedgerInv, LedgerInv', BooksBalance, BalancesNat, BalancesNat',
         NEW r \in Key, NEW k \in Key, Capture(r, k)
  PROVE  BooksBalance'
<1> DEFINE o == reservation[r].occ
           p == reservation[r].points
<1>1. /\ reserved' = [reserved EXCEPT ![o] = @ - p]
      /\ redeemed' = [redeemed EXCEPT ![Group] = @ + p]
      /\ UNCHANGED <<available, issued, breakage>>
  BY DEF Capture, CaptureFor
<1>2. o \in Occ /\ p \in Int
  BY SettledTypes DEF Capture
<1> HIDE DEF o, p
<1>3. PICK m \in Int : m = -p
  BY <1>2
<1>4. reserved' = [reserved EXCEPT ![o] = @ + m]
  BY <1>1, <1>2, <1>3 DEF LedgerInv, TypeOK
<1>5. AvailableGrows(Gain(Group, 0)) /\ ReservedGrows(m)
  BY <1>1, <1>2, <1>4, NoWallet, OneReserved
<1>6. SystemGives(Gain(Group, 0), m)
  <2> SUFFICES ASSUME NEW d \in Currency
               PROVE  issued'[d] + redeemed'[d] + breakage'[d] + Gain(Group, 0)[d]
                        + Gain(Group, m)[d] = issued[d] + redeemed[d] + breakage[d]
    BY DEF SystemGives
  <2>1. redeemed'[d] = redeemed[d] + Gain(Group, p)[d]
    BY <1>1, <1>2, GainNothing, SystemTypes, AccountChange
  <2>2. Gain(Group, m)[d] = -Gain(Group, p)[d] /\ Gain(Group, p)[d] \in Int
    BY <1>2, <1>3, GainNothing, GainNegated
  <2>3. issued'[d] = issued[d] /\ breakage'[d] = breakage[d] /\ Gain(Group, 0)[d] = 0
    BY <1>1, GainNothing
  <2>4. issued[d] \in Int /\ redeemed[d] \in Int /\ breakage[d] \in Int
    BY SystemTypes
  <2> QED BY ONLY <2>1, <2>2, <2>3, <2>4
<1>7. Gain(Group, 0) \in [Currency -> Int]
  BY GainNothing, GainValues
<1> QED BY <1>5, <1>6, <1>7, BooksFollow

(* Releasing: from the reserved account back to the available one. *)
LEMMA ReleaseBooks ==
  ASSUME LedgerInv, LedgerInv', BooksBalance, BalancesNat, BalancesNat',
         NEW r \in Key, NEW k \in Key, Release(r, k)
  PROVE  BooksBalance'
<1> DEFINE o == reservation[r].occ
           p == reservation[r].points
<1>1. /\ reserved' = [reserved EXCEPT ![o] = @ - p]
      /\ available' = [available EXCEPT ![o][Group] = @ + p]
      /\ UNCHANGED <<issued, redeemed, breakage>>
  BY DEF Release, ReleaseFor
<1>2. o \in Occ /\ p \in Int
  BY SettledTypes DEF Release
<1> HIDE DEF o, p
<1>3. PICK m \in Int : m = -p
  BY <1>2
<1>4. reserved' = [reserved EXCEPT ![o] = @ + m]
  BY <1>1, <1>2, <1>3 DEF LedgerInv, TypeOK
<1>5. AvailableGrows(Gain(Group, p)) /\ ReservedGrows(m)
  BY <1>1, <1>2, <1>4, GainNothing, OneWallet, OneReserved
<1>6. SystemGives(Gain(Group, p), m)
  <2> SUFFICES ASSUME NEW d \in Currency
               PROVE  issued'[d] + redeemed'[d] + breakage'[d] + Gain(Group, p)[d]
                        + Gain(Group, m)[d] = issued[d] + redeemed[d] + breakage[d]
    BY DEF SystemGives
  <2>1. Gain(Group, m)[d] = -Gain(Group, p)[d] /\ Gain(Group, p)[d] \in Int
    BY <1>2, <1>3, GainNothing, GainNegated
  <2>2. issued'[d] = issued[d] /\ redeemed'[d] = redeemed[d] /\ breakage'[d] = breakage[d]
    BY <1>1
  <2>3. issued[d] \in Int /\ redeemed[d] \in Int /\ breakage[d] \in Int
    BY SystemTypes
  <2> QED BY ONLY <2>1, <2>2, <2>3
<1>7. Gain(Group, p) \in [Currency -> Int]
  BY <1>2, GainNothing, GainValues
<1> QED BY <1>5, <1>6, <1>7, BooksFollow

(* Converting: a member's points of c become points of d. *)
LEMMA ConvertBooks ==
  ASSUME LedgerInv, LedgerInv', BooksBalance, BalancesNat, BalancesNat',
         NEW o \in Occ, NEW c \in Currency, NEW d \in Currency, NEW p \in Amount, NEW k \in Key,
         Convert(o, c, d, p, k)
  PROVE  BooksBalance'
<1> DEFINE q == Converted(c, d, p)
           a == [e \in Currency |-> IF e = c THEN -p ELSE IF e = d THEN q ELSE 0]
<1>1. /\ c # d
      /\ q \in Amount
      /\ available' = [available EXCEPT ![o][c] = @ - p, ![o][d] = @ + q]
      /\ issued' = [issued EXCEPT ![c] = @ + p, ![d] = @ - q]
      /\ UNCHANGED <<reserved, redeemed, breakage>>
  BY DEF Convert
<1> HIDE DEF q
<1>2. p \in Int /\ q \in Int
  BY <1>1, BasicFacts
<1>3. a \in [Currency -> Int]
  BY <1>2
<1>4. available \in [Occ -> [Currency -> Int]]
  BY DEF LedgerInv, TypeOK
<1>5. \A e \in Currency : available'[o][e] = available[o][e] + a[e]
  BY <1>1, <1>2, <1>4
<1>6. \A x \in Occ \ {o} : available'[x] = available[x]
  BY <1>1, <1>4
<1>7. SystemGives(a, 0)
  <2> SUFFICES ASSUME NEW e \in Currency
               PROVE  issued'[e] + redeemed'[e] + breakage'[e] + a[e] + Gain(Group, 0)[e]
                          = issued[e] + redeemed[e] + breakage[e]
    BY DEF SystemGives
  <2>1. issued \in [Currency -> Int] /\ issued[e] \in Int
    BY SystemTypes
  <2>2. issued'[e] = issued[e] - a[e] /\ a[e] \in Int
    BY <1>1, <1>2, <2>1
  <2>3. redeemed'[e] = redeemed[e] /\ breakage'[e] = breakage[e] /\ Gain(Group, 0)[e] = 0
    BY <1>1, GainNothing
  <2>4. redeemed[e] \in Int /\ breakage[e] \in Int
    BY SystemTypes
  <2> HIDE DEF a
  <2> QED BY ONLY <2>1, <2>2, <2>3, <2>4
<1>8. ReservedGrows(0)
  BY <1>1, NoReserved
<1> HIDE DEF a
<1>9. AvailableGrows(a)
  BY <1>3, <1>5, <1>6, OneMember
<1> QED BY <1>3, <1>7, <1>8, <1>9, BooksFollow

(* What one member loses and another one gets, the members still have. *)
LEMMA TotalMoved ==
  ASSUME NEW f \in [Occ -> Nat], NEW g \in [Occ -> Nat], NEW o \in Occ, NEW q \in Occ,
         o # q, f[o] + f[q] = g[o] + g[q], \A x \in Occ \ {o, q} : g[x] = f[x]
  PROVE  Total(g) = Total(f)
<1> DEFINE h == [f EXCEPT ![o] = g[o]]
<1>1. h \in [Occ -> Nat] /\ h[o] = g[o] /\ h[q] = f[q]
  OBVIOUS
<1>2. (\A x \in Occ \ {o} : h[x] = f[x]) /\ (\A x \in Occ \ {q} : g[x] = h[x])
  OBVIOUS
<1>3. IsFiniteSet(Occ)
  BY BasicFacts
<1>4. Total(f) \in Nat /\ Total(h) \in Nat
  BY <1>1, <1>3, TotalType
<1> HIDE DEF h
<1>5. Total(h) = Total(f) - f[o] + h[o]
  BY ONLY <1>1, <1>2, <1>3, f \in [Occ -> Nat], o \in Occ, TotalChange
<1>6. Total(g) = Total(h) - h[q] + g[q]
  BY ONLY <1>1, <1>2, <1>3, g \in [Occ -> Nat], q \in Occ, TotalChange
<1>7. f[o] \in Nat /\ f[q] \in Nat /\ g[o] \in Nat /\ g[q] \in Nat
  OBVIOUS
<1> QED BY <1>1, <1>4, <1>5, <1>6, <1>7

(* Transferring: the system accounts take no part. *)
LEMMA TransferBooks ==
  ASSUME LedgerInv, LedgerInv', BooksBalance, BalancesNat, BalancesNat',
         NEW o \in Occ, NEW q \in Occ, NEW c \in Currency, NEW p \in Amount, NEW k \in Key,
         Transfer(o, q, c, p, k)
  PROVE  BooksBalance'
<1>1. /\ o # q
      /\ available' = [available EXCEPT ![o][c] = @ - p, ![q][c] = @ + p]
      /\ UNCHANGED <<reserved, issued, redeemed, breakage>>
  BY DEF Transfer
<1>2. available \in [Occ -> [Currency -> Int]] /\ p \in Int
  BY BasicFacts DEF LedgerInv, TypeOK
<1>3. ASSUME NEW d \in Currency
      PROVE  Total(Column(d))' = Total(Column(d)) + Gain(Group, 0)[d]
  <2> DEFINE f == Column(d)
             g == [x \in Occ |-> available'[x][d]]
  <2>1. f \in [Occ -> Nat] /\ g \in [Occ -> Nat] /\ Column(d)' = g
    BY DEF BalancesNat, Column
  <2>2. f[o] + f[q] = g[o] + g[q]
    BY <1>1, <1>2 DEF Column
  <2>3. \A x \in Occ \ {o, q} : g[x] = f[x]
    BY <1>1, <1>2 DEF Column
  <2>4. Total(Column(d))' = Total(g)
    BY <2>1 DEF Total, Units
  <2>5. Total(Column(d)) \in Nat /\ Gain(Group, 0)[d] = 0
    BY InvTotals, GainNothing
  <2> HIDE DEF g
  <2>6. Total(g) = Total(Column(d))
    BY <1>1, <2>1, <2>2, <2>3, TotalMoved
  <2> QED BY <2>4, <2>5, <2>6
<1>4. AvailableGrows(Gain(Group, 0))
  BY <1>3 DEF AvailableGrows
<1>5. SystemGives(Gain(Group, 0), 0)
  BY <1>1, GainNothing, SystemTypes DEF SystemGives
<1>6. ReservedGrows(0)
  BY <1>1, NoReserved
<1>7. Gain(Group, 0) \in [Currency -> Int]
  BY GainNothing, GainValues
<1> QED BY <1>4, <1>5, <1>6, <1>7, BooksFollow

(* Expiring: from the member's wallets to breakage, in every currency. *)
LEMMA ExpireBooks ==
  ASSUME LedgerInv, LedgerInv', BooksBalance, BalancesNat, BalancesNat',
         NEW o \in Occ, ExpireLots(o)
  PROVE  BooksBalance'
<1> DEFINE t(d) == Total(DuePart(o, d))
           a == [d \in Currency |-> -t(d)]
<1>1. /\ available' = [available EXCEPT ![o] = [d \in Currency |-> available[o][d] - t(d)]]
      /\ breakage' = [d \in Currency |-> breakage[d] + t(d)]
      /\ UNCHANGED <<reserved, issued, redeemed>>
  BY DEF ExpireLots
<1>2. ASSUME NEW d \in Currency
      PROVE  t(d) \in Int
  <2>1. lots[o][d] \in [Expiry -> Nat]
    BY DEF LedgerInv, TypeOK
  <2>2. DuePart(o, d) \in [Expiry -> Nat]
    BY <2>1, PartType DEF DuePart
  <2>3. Total(DuePart(o, d)) \in Nat
    BY <2>2, BasicFacts, TotalType
  <2> QED BY <2>3
<1> HIDE DEF t
<1>3. a \in [Currency -> Int]
  BY <1>2
<1>4. available \in [Occ -> [Currency -> Int]]
  BY DEF LedgerInv, TypeOK
<1>5. \A d \in Currency : available'[o][d] = available[o][d] + a[d]
  BY <1>1, <1>2, <1>4
<1>6. \A x \in Occ \ {o} : available'[x] = available[x]
  BY <1>1, <1>4
<1>7. SystemGives(a, 0)
  <2> SUFFICES ASSUME NEW d \in Currency
               PROVE  issued'[d] + redeemed'[d] + breakage'[d] + a[d] + Gain(Group, 0)[d]
                          = issued[d] + redeemed[d] + breakage[d]
    BY DEF SystemGives
  <2>1. a[d] = -t(d) /\ breakage'[d] = breakage[d] + t(d) /\ t(d) \in Int
    BY <1>1, <1>2
  <2>2. issued'[d] = issued[d] /\ redeemed'[d] = redeemed[d] /\ Gain(Group, 0)[d] = 0
    BY <1>1, GainNothing
  <2>3. issued[d] \in Int /\ redeemed[d] \in Int /\ breakage[d] \in Int
    BY SystemTypes
  <2> HIDE DEF a
  <2> QED BY ONLY <2>1, <2>2, <2>3
<1>8. ReservedGrows(0)
  BY <1>1, NoReserved
<1> HIDE DEF a
<1>9. AvailableGrows(a)
  BY <1>3, <1>5, <1>6, OneMember
<1> QED BY <1>3, <1>7, <1>8, <1>9, BooksFollow

(* The clock, and steps that change nothing. *)
LEMMA QuietBooks ==
  ASSUME BooksBalance, UNCHANGED balances
  PROVE  BooksBalance'
<1> SUFFICES ASSUME NEW c \in Currency
             PROVE  MemberPoints(c)' + redeemed'[c] + breakage'[c] + issued'[c] = 0
  BY DEF BooksBalance
<1>1. MemberPoints(c)' = MemberPoints(c)
  BY DEF balances, MemberPoints, Total, Units
<1> QED BY <1>1 DEF BooksBalance, balances

LEMMA InitBooks == Init => BooksBalance
<1> SUFFICES ASSUME Init, NEW c \in Currency
             PROVE  MemberPoints(c) + redeemed[c] + breakage[c] + issued[c] = 0
  BY DEF BooksBalance
<1>1. Total([o \in Occ |-> available[o][c]]) = 0
  <2> DEFINE f == [o \in Occ |-> available[o][c]]
  <2>1. f \in [Occ -> Nat] /\ \A o \in Occ : f[o] = 0
    BY DEF Init
  <2> HIDE DEF f
  <2>2. Total(f) = 0
    BY <2>1, TotalZero
  <2> QED BY <2>2 DEF f
<1>2. Total(reserved) = 0
  <2>1. reserved \in [Occ -> Nat] /\ \A o \in Occ : reserved[o] = 0
    BY DEF Init
  <2> QED BY <2>1, TotalZero
<1>3. MemberPoints(c) = 0
  BY <1>1, <1>2 DEF MemberPoints
<1> QED BY <1>3 DEF Init

LEMMA NextBooks ==
  ASSUME LedgerInv, LedgerInv', BooksBalance, BalancesNat, BalancesNat', [Next]_vars
  PROVE  BooksBalance'
<1>1. CASE \E o \in Occ, p \in Amount, k \in Key : Earn(o, p, k)
  BY <1>1, BasicFacts, IssueBooks DEF Earn
<1>2. CASE \E o \in Occ, c \in Currency, p \in Amount, k \in Key : PostEarnTx(o, c, p, k)
  BY <1>2, IssueBooks DEF PostEarnTx
<1>3. CASE \E o \in Occ, p \in Amount, k \in Key : Reserve(o, p, k)
  BY <1>3, ReserveBooks
<1>4. CASE \E o \in Occ, c \in Currency, d \in Currency, p \in Amount, k \in Key :
             Convert(o, c, d, p, k)
  BY <1>4, ConvertBooks
<1>5. CASE \E o \in Occ, c \in Currency, p \in Amount, k \in Key : AdjustUp(o, c, p, k)
  BY <1>5, IssueBooks DEF AdjustUp
<1>6. CASE \E o \in Occ, c \in Currency, p \in Amount, k \in Key : AdjustDown(o, c, p, k)
  BY <1>6, AdjustDownBooks
<1>7. CASE \E o \in Occ, q \in Occ, c \in Currency, p \in Amount, k \in Key :
             Transfer(o, q, c, p, k)
  BY <1>7, TransferBooks
<1>8. CASE \E o \in Occ : ExpireLots(o)
  BY <1>8, ExpireBooks
<1>9. CASE Tick
  BY <1>9, QuietBooks DEF Tick
<1>10. CASE \E r \in Key, k \in Key : Capture(r, k)
  BY <1>10, CaptureBooks
<1>11. CASE \E r \in Key, k \in Key : Release(r, k)
  BY <1>11, ReleaseBooks
<1>12. CASE UNCHANGED vars
  BY <1>12, QuietBooks DEF vars, balances
<1> QED BY <1>1, <1>2, <1>3, <1>4, <1>5, <1>6, <1>7, <1>8, <1>9, <1>10, <1>11, <1>12
           DEF Next, LedgerOp

-----------------------------------------------------------------------------
(* Double entry (LoyaltyService's operations post deltas that cancel out): *)
(* in every reachable state of every instance, what the members have       *)
(* available or reserved of a currency is what the issued, redeemed and    *)
(* breakage accounts say they have been given.                             *)
THEOREM BooksAlwaysBalance == Spec => []BooksBalance
<1>1. Init => BooksBalance
  BY InitBooks
<1>2. LedgerInv => BalancesNat
  BY InvBalancesNat
<1>3. LedgerInv /\ LedgerInv' /\ BalancesNat /\ BalancesNat' /\ BooksBalance /\ [Next]_vars
        => BooksBalance'
  BY NextBooks
<1> QED BY <1>1, <1>2, <1>3, LedgerInvariant, PTL DEF Spec

-----------------------------------------------------------------------------
(* The log of requests. *)

(* What request t moves in and out of the system accounts. *)
AmountsNat(t) ==
    \A c \in Currency :
        IssuedBy(t, c) \in Nat /\ TakenBackBy(t, c) \in Nat /\ RedeemedBy(t, c) \in Nat

LogInv ==
    /\ \A k \in Key : AmountsNat(txn[k])
    /\ LogExplainsSystemAccounts

(* The log's sums, and the accounts that they explain. *)
LogIssued(c) == [k \in Key |-> IssuedBy(txn[k], c)]
LogTakenBack(c) == [k \in Key |-> TakenBackBy(txn[k], c)]
LogRedeemed(c) == [k \in Key |-> RedeemedBy(txn[k], c)]

LEMMA LogSums ==
  LogExplainsSystemAccounts <=>
    \A c \in Currency : /\ -issued[c] = Total(LogIssued(c)) - Total(LogTakenBack(c))
                        /\ redeemed[c] = Total(LogRedeemed(c))
  BY DEF LogExplainsSystemAccounts, LogIssued, LogTakenBack, LogRedeemed

(* An empty row counts for nothing. *)
LEMMA EmptyRow ==
  ASSUME NEW c
  PROVE  IssuedBy(NoTxn, c) = 0 /\ TakenBackBy(NoTxn, c) = 0 /\ RedeemedBy(NoTxn, c) = 0
  BY DEF IssuedBy, TakenBackBy, RedeemedBy, NoTxn

(* A sum over the rows grows by what the new row adds. *)
LEMMA RowSum ==
  ASSUME NEW f \in [Key -> Nat], NEW g \in [Key -> Nat], NEW k \in Key,
         f[k] = 0, \A j \in Key \ {k} : g[j] = f[j]
  PROVE  Total(f) \in Nat /\ Total(g) = Total(f) + g[k]
<1>1. IsFiniteSet(Key)
  BY BasicFacts
<1>2. Total(f) \in Nat
  BY <1>1, TotalType
<1>3. Total(g) = Total(f) - f[k] + g[k]
  BY <1>1, TotalChange
<1>4. g[k] \in Nat
  OBVIOUS
<1> QED BY ONLY <1>2, <1>3, <1>4, f[k] = 0

(* What a step that commits request t must do to the system accounts. *)
AccountsMove(t) ==
    \A c \in Currency :
        /\ issued'[c] = issued[c] - IssuedBy(t, c) + TakenBackBy(t, c)
        /\ redeemed'[c] = redeemed[c] + RedeemedBy(t, c)

LEMMA RowAdded ==
  ASSUME LedgerInv, LogInv, NEW k \in Key, NEW t,
         txn[k] = NoTxn, txn' = [txn EXCEPT ![k] = t], AmountsNat(t), AccountsMove(t)
  PROVE  LogInv'
<1>1. DOMAIN txn = Key /\ issued \in [Currency -> Int] /\ redeemed \in [Currency -> Int]
  BY DEF LedgerInv, TypeOK
<1>2. txn'[k] = t /\ \A j \in Key \ {k} : txn'[j] = txn[j]
  BY <1>1
<1>3. (\A j \in Key : AmountsNat(txn[j]))'
  <2>1. \A j \in Key : AmountsNat(txn'[j])
    BY <1>2 DEF LogInv
  <2> QED BY <2>1 DEF AmountsNat, IssuedBy, TakenBackBy, RedeemedBy
<1>4. ASSUME NEW c \in Currency
      PROVE  /\ -issued'[c] = Total(LogIssued(c))' - Total(LogTakenBack(c))'
             /\ redeemed'[c] = Total(LogRedeemed(c))'
  <2> DEFINE fi == LogIssued(c)
             ft == LogTakenBack(c)
             fr == LogRedeemed(c)
             gi == [j \in Key |-> IssuedBy(txn'[j], c)]
             gt == [j \in Key |-> TakenBackBy(txn'[j], c)]
             gr == [j \in Key |-> RedeemedBy(txn'[j], c)]
  <2>1. fi \in [Key -> Nat] /\ ft \in [Key -> Nat] /\ fr \in [Key -> Nat]
    BY DEF LogInv, AmountsNat, LogIssued, LogTakenBack, LogRedeemed
  <2>2. gi \in [Key -> Nat] /\ gt \in [Key -> Nat] /\ gr \in [Key -> Nat]
    <3>1. \A j \in Key : AmountsNat(txn'[j])
      BY <1>2 DEF LogInv
    <3> QED BY <3>1 DEF AmountsNat
  <2>3. fi[k] = 0 /\ ft[k] = 0 /\ fr[k] = 0
    BY EmptyRow DEF LogIssued, LogTakenBack, LogRedeemed
  <2>4. \A j \in Key \ {k} : gi[j] = fi[j] /\ gt[j] = ft[j] /\ gr[j] = fr[j]
    BY <1>2 DEF LogIssued, LogTakenBack, LogRedeemed
  <2>5. gi[k] = IssuedBy(t, c) /\ gt[k] = TakenBackBy(t, c) /\ gr[k] = RedeemedBy(t, c)
    BY <1>2
  <2>6. /\ Total(LogIssued(c))' = Total(gi)
        /\ Total(LogTakenBack(c))' = Total(gt)
        /\ Total(LogRedeemed(c))' = Total(gr)
    BY DEF LogIssued, LogTakenBack, LogRedeemed, IssuedBy, TakenBackBy, RedeemedBy,
           Total, Units
  <2>7. -issued[c] = Total(fi) - Total(ft) /\ redeemed[c] = Total(fr)
    BY LogSums DEF LogInv
  <2>8. issued[c] \in Int /\ gi[k] \in Nat /\ gt[k] \in Nat /\ gr[k] \in Nat
    BY <1>1, <2>2
  <2>9. /\ issued'[c] = issued[c] - IssuedBy(t, c) + TakenBackBy(t, c)
        /\ redeemed'[c] = redeemed[c] + RedeemedBy(t, c)
    BY DEF AccountsMove
  <2> HIDE DEF fi, ft, fr, gi, gt, gr
  <2>10. Total(fi) \in Nat /\ Total(gi) = Total(fi) + gi[k]
    BY <2>1, <2>2, <2>3, <2>4, RowSum
  <2>11. Total(ft) \in Nat /\ Total(gt) = Total(ft) + gt[k]
    BY <2>1, <2>2, <2>3, <2>4, RowSum
  <2>12. Total(fr) \in Nat /\ Total(gr) = Total(fr) + gr[k]
    BY <2>1, <2>2, <2>3, <2>4, RowSum
  <2> QED BY ONLY <2>5, <2>6, <2>7, <2>8, <2>9, <2>10, <2>11, <2>12
<1>5. LogExplainsSystemAccounts'
  BY <1>4, LogSums DEF LogExplainsSystemAccounts, LogIssued, LogTakenBack, LogRedeemed
<1> QED BY <1>3, <1>5 DEF LogInv

(* A step that commits nothing and leaves the two accounts alone. *)
LEMMA NoRow ==
  ASSUME LogInv, UNCHANGED <<txn, issued, redeemed>>
  PROVE  LogInv'
<1>1. (\A k \in Key : AmountsNat(txn[k]))'
  BY DEF LogInv, AmountsNat, IssuedBy, TakenBackBy, RedeemedBy
<1>2. LogExplainsSystemAccounts'
  <2> SUFFICES ASSUME NEW c \in Currency
               PROVE  /\ -issued'[c] = Total(LogIssued(c))' - Total(LogTakenBack(c))'
                      /\ redeemed'[c] = Total(LogRedeemed(c))'
    BY DEF LogExplainsSystemAccounts, LogIssued, LogTakenBack, LogRedeemed
  <2>1. Total(LogIssued(c))' = Total(LogIssued(c))
    BY DEF LogIssued, IssuedBy, Total, Units
  <2>2. Total(LogTakenBack(c))' = Total(LogTakenBack(c))
    BY DEF LogTakenBack, TakenBackBy, Total, Units
  <2>3. Total(LogRedeemed(c))' = Total(LogRedeemed(c))
    BY DEF LogRedeemed, RedeemedBy, Total, Units
  <2> QED BY <2>1, <2>2, <2>3, LogSums DEF LogInv
<1> QED BY <1>1, <1>2 DEF LogInv

-----------------------------------------------------------------------------
(* The operations: which amounts their row stands for. *)

Row(type, o, c, into, p) == [type |-> type, occ |-> o, cur |-> c, into |-> into, points |-> p]

LEMMA AmountIsNat == \A n \in Amount : n \in Nat /\ n > 0
  BY BasicFacts

(* Earning and auto-earning: p is issued. *)
LEMMA EarnRow ==
  ASSUME LedgerInv, LogInv, NEW type \in {"earn", "adjust"}, NEW o, NEW c \in Currency,
         NEW p \in Amount, NEW k \in Key,
         Commit(k, type, o, c, c, p), Issue(o, c, p), UNCHANGED redeemed
  PROVE  LogInv'
<1> DEFINE t == Row(type, o, c, c, p)
<1>1. p \in Nat /\ p > 0
  BY AmountIsNat
<1>2. \A d \in Currency : /\ IssuedBy(t, d) = IF d = c THEN p ELSE 0
                          /\ TakenBackBy(t, d) = 0 /\ RedeemedBy(t, d) = 0
  BY <1>1 DEF IssuedBy, TakenBackBy, RedeemedBy, Row
<1>3. txn[k] = NoTxn /\ txn' = [txn EXCEPT ![k] = t]
  BY DEF Commit, Row
<1> HIDE DEF t
<1>4. AmountsNat(t)
  BY <1>1, <1>2 DEF AmountsNat
<1>5. AccountsMove(t)
  BY <1>1, <1>2, SystemTypes DEF AccountsMove, Issue
<1> QED BY <1>3, <1>4, <1>5, RowAdded

(* Reserving, releasing and transferring: the system accounts take no part. *)
LEMMA InnerRow ==
  ASSUME LedgerInv, LogInv, NEW type \in {"reserve", "release", "transfer"}, NEW o,
         NEW c \in Currency, NEW p, NEW k \in Key,
         Commit(k, type, o, c, c, p), UNCHANGED <<issued, redeemed>>
  PROVE  LogInv'
<1> DEFINE t == Row(type, o, c, c, p)
<1>1. \A d \in Currency : IssuedBy(t, d) = 0 /\ TakenBackBy(t, d) = 0 /\ RedeemedBy(t, d) = 0
  BY DEF IssuedBy, TakenBackBy, RedeemedBy, Row
<1>2. txn[k] = NoTxn /\ txn' = [txn EXCEPT ![k] = t]
  BY DEF Commit, Row
<1> HIDE DEF t
<1>3. AmountsNat(t)
  BY <1>1 DEF AmountsNat
<1>4. AccountsMove(t)
  BY <1>1, SystemTypes DEF AccountsMove
<1> QED BY <1>2, <1>3, <1>4, RowAdded

(* Adjusting downwards: p is taken back. *)
LEMMA AdjustDownRow ==
  ASSUME LedgerInv, LogInv, NEW o \in Occ, NEW c \in Currency, NEW p \in Amount,
         NEW k \in Key, AdjustDown(o, c, p, k)
  PROVE  LogInv'
<1> DEFINE t == Row("adjust", o, c, c, -p)
<1>1. p \in Nat /\ p > 0
  BY AmountIsNat
<1>2. \A d \in Currency : /\ TakenBackBy(t, d) = IF d = c THEN p ELSE 0
                          /\ IssuedBy(t, d) = 0 /\ RedeemedBy(t, d) = 0
  BY <1>1 DEF IssuedBy, TakenBackBy, RedeemedBy, Row
<1>3. txn[k] = NoTxn /\ txn' = [txn EXCEPT ![k] = t]
  BY DEF AdjustDown, Commit, Row
<1> HIDE DEF t
<1>4. AmountsNat(t)
  BY <1>1, <1>2 DEF AmountsNat
<1>5. AccountsMove(t)
  BY <1>1, <1>2, SystemTypes DEF AccountsMove, AdjustDown
<1> QED BY <1>3, <1>4, <1>5, RowAdded

(* Converting: q of d is issued for the p of c that are taken back. *)
LEMMA ConvertRow ==
  ASSUME LedgerInv, LogInv, NEW o \in Occ, NEW c \in Currency, NEW d \in Currency,
         NEW p \in Amount, NEW k \in Key, Convert(o, c, d, p, k)
  PROVE  LogInv'
<1> DEFINE t == Row("convert", o, c, d, p)
           q == Converted(c, d, p)
<1>1. /\ c # d /\ q \in Amount
      /\ issued' = [issued EXCEPT ![c] = @ + p, ![d] = @ - q]
      /\ UNCHANGED redeemed
      /\ txn[k] = NoTxn /\ txn' = [txn EXCEPT ![k] = t]
  BY DEF Convert, Commit, Row
<1>2. t.type = "convert" /\ t.cur = c /\ t.into = d /\ t.points = p
  BY DEF Row
<1>3. \A e \in Currency : /\ IssuedBy(t, e) = IF e = d THEN q ELSE 0
                          /\ TakenBackBy(t, e) = IF e = c THEN p ELSE 0
                          /\ RedeemedBy(t, e) = 0
  BY <1>2 DEF IssuedBy, TakenBackBy, RedeemedBy
<1> HIDE DEF t, q
<1>4. p \in Nat /\ q \in Nat
  BY <1>1, AmountIsNat
<1>5. AmountsNat(t)
  BY <1>3, <1>4 DEF AmountsNat
<1>6. AccountsMove(t)
  BY <1>1, <1>3, <1>4, SystemTypes DEF AccountsMove
<1> QED BY <1>1, <1>5, <1>6, RowAdded

(* Capturing: the points of the hold are redeemed. *)
LEMMA CaptureRow ==
  ASSUME LedgerInv, LogInv, NEW r \in Key, NEW k \in Key, Capture(r, k)
  PROVE  LogInv'
<1> DEFINE p == reservation[r].points
           t == Row("capture", reservation[r].occ, Group, Group, p)
<1>1. /\ redeemed' = [redeemed EXCEPT ![Group] = @ + p]
      /\ UNCHANGED issued
      /\ txn[k] = NoTxn /\ txn' = [txn EXCEPT ![k] = t]
  BY DEF Capture, CaptureFor, Commit, Row
<1>2. p \in Nat
  <2>1. reservation[r] \in Reservation
    BY DEF Capture, LedgerInv, TypeOK
  <2>2. p \in Amount
    BY <2>1 DEF Reservation
  <2> QED BY <2>2, AmountIsNat
<1>3. t.type = "capture" /\ t.cur = Group /\ t.points = p
  BY DEF Row
<1>4. \A d \in Currency : /\ RedeemedBy(t, d) = IF d = Group THEN p ELSE 0
                          /\ IssuedBy(t, d) = 0 /\ TakenBackBy(t, d) = 0
  BY <1>3 DEF IssuedBy, TakenBackBy, RedeemedBy
<1> HIDE DEF p, t
<1>5. AmountsNat(t)
  BY <1>2, <1>4 DEF AmountsNat
<1>6. AccountsMove(t)
  BY <1>1, <1>2, <1>4, SystemTypes DEF AccountsMove
<1> QED BY <1>1, <1>5, <1>6, RowAdded

(* At the start there are no rows, and the accounts are empty. *)
LEMMA InitLog == Init => LogInv
<1> SUFFICES ASSUME Init PROVE LogInv
  OBVIOUS
<1>1. \A k \in Key : txn[k] = NoTxn
  BY DEF Init
<1>2. \A k \in Key : AmountsNat(txn[k])
  BY <1>1, EmptyRow DEF AmountsNat
<1>3. ASSUME NEW c \in Currency
      PROVE  /\ -issued[c] = Total(LogIssued(c)) - Total(LogTakenBack(c))
             /\ redeemed[c] = Total(LogRedeemed(c))
  <2> DEFINE fi == LogIssued(c)
             ft == LogTakenBack(c)
             fr == LogRedeemed(c)
  <2>1. fi \in [Key -> Nat] /\ \A k \in Key : fi[k] = 0
    BY <1>1, EmptyRow DEF LogIssued
  <2>2. ft \in [Key -> Nat] /\ \A k \in Key : ft[k] = 0
    BY <1>1, EmptyRow DEF LogTakenBack
  <2>3. fr \in [Key -> Nat] /\ \A k \in Key : fr[k] = 0
    BY <1>1, EmptyRow DEF LogRedeemed
  <2> HIDE DEF fi, ft, fr
  <2>4. Total(fi) = 0 /\ Total(ft) = 0 /\ Total(fr) = 0
    BY <2>1, <2>2, <2>3, TotalZero
  <2>5. Total(LogIssued(c)) = 0 /\ Total(LogTakenBack(c)) = 0 /\ Total(LogRedeemed(c)) = 0
    BY <2>4 DEF fi, ft, fr
  <2>6. issued[c] = 0 /\ redeemed[c] = 0
    BY DEF Init
  <2>7. -issued[c] = 0
    <3>1. \A n \in Int : -n = 0 - n
      OBVIOUS
    <3>2. issued[c] \in Int /\ 0 - issued[c] = 0
      BY <2>6
    <3> QED BY ONLY <3>1, <3>2
  <2>8. Total(LogIssued(c)) - Total(LogTakenBack(c)) = 0
    BY ONLY <2>5
  <2> QED BY <2>5, <2>6, <2>7, <2>8
<1> QED BY <1>2, <1>3, LogSums DEF LogInv

LEMMA NextLog ==
  ASSUME LedgerInv, LogInv, [Next]_vars
  PROVE  LogInv'
<1>1. CASE \E o \in Occ, p \in Amount, k \in Key : Earn(o, p, k)
  BY <1>1, BasicFacts, EarnRow DEF Earn
<1>2. CASE \E o \in Occ, c \in Currency, p \in Amount, k \in Key : PostEarnTx(o, c, p, k)
  BY <1>2, EarnRow DEF PostEarnTx
<1>3. CASE \E o \in Occ, p \in Amount, k \in Key : Reserve(o, p, k)
  BY <1>3, BasicFacts, InnerRow DEF Reserve
<1>4. CASE \E o \in Occ, c \in Currency, d \in Currency, p \in Amount, k \in Key :
             Convert(o, c, d, p, k)
  BY <1>4, ConvertRow
<1>5. CASE \E o \in Occ, c \in Currency, p \in Amount, k \in Key : AdjustUp(o, c, p, k)
  BY <1>5, EarnRow DEF AdjustUp
<1>6. CASE \E o \in Occ, c \in Currency, p \in Amount, k \in Key : AdjustDown(o, c, p, k)
  BY <1>6, AdjustDownRow
<1>7. CASE \E o \in Occ, q \in Occ, c \in Currency, p \in Amount, k \in Key :
             Transfer(o, q, c, p, k)
  BY <1>7, InnerRow DEF Transfer
<1>8. CASE \E o \in Occ : ExpireLots(o)
  BY <1>8, NoRow DEF ExpireLots
<1>9. CASE Tick
  BY <1>9, NoRow DEF Tick, balances
<1>10. CASE \E r \in Key, k \in Key : Capture(r, k)
  BY <1>10, CaptureRow
<1>11. CASE \E r \in Key, k \in Key : Release(r, k)
  BY <1>11, BasicFacts, InnerRow DEF Release, ReleaseFor
<1>12. CASE UNCHANGED vars
  BY <1>12, NoRow DEF vars
<1> QED BY <1>1, <1>2, <1>3, <1>4, <1>5, <1>6, <1>7, <1>8, <1>9, <1>10, <1>11, <1>12
           DEF Next, LedgerOp

-----------------------------------------------------------------------------
(* Exactly once (runOp's idempotency key): in every reachable state of     *)
(* every instance the issued and redeemed accounts are the sums over the   *)
(* committed requests, each of them counted once.                          *)
THEOREM LogAlwaysExplains == Spec => []LogExplainsSystemAccounts
<1>1. Init => LogInv
  BY InitLog
<1>2. LedgerInv /\ LogInv /\ [Next]_vars => LogInv'
  BY NextLog
<1>3. LogInv => LogExplainsSystemAccounts
  BY DEF LogInv
<1> QED BY <1>1, <1>2, <1>3, LedgerInvariant, PTL DEF Spec
=============================================================================
