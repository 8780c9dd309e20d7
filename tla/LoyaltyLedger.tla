---------------------------- MODULE LoyaltyLedger ----------------------------
(***************************************************************************)
(* The points ledger of core-api: loyalty/loyalty.service.ts over the      *)
(* tables of migrations 003, 025 and 026.                                  *)
(*                                                                         *)
(* Every operation runs in one database transaction that first takes the   *)
(* advisory lock loyalty:{occ} of each member it touches, and every other  *)
(* writer of those members' rows takes the same lock, so an operation is   *)
(* one action here.  What an operation reads before its lock is constant   *)
(* in this module (rates, the member of a reservation); LedgerMerge        *)
(* composes the ledger with the merges that change it in between.          *)
(*                                                                         *)
(* A guard that fails is a ROLLBACK, and a request whose key is already    *)
(* committed is answered from the committed row or with a conflict; both   *)
(* leave the tables alone and are stuttering steps.                        *)
(***************************************************************************)
EXTENDS PointTotals

CONSTANTS
    Occ,        \* members (occ_id)
    Currency,   \* point currencies other than the stored-value one
    Group,      \* the group currency OCC_POINT
    Key,        \* idempotency keys
    MaxPoints,  \* MAX_POINTS, the largest amount of one request
    Horizon,    \* bound: the last instant of the model's clock
    Never,      \* stands for expire_at NULL, later than every instant
    Policy,     \* Policy[c][t]: expire_at of a lot of c created at t
    Rate        \* Rate[c][d]: num/den points of d for one of c; num = 0: none

Instant == 0 .. Horizon
Expiry == 1 .. Never
Amount == 1 .. MaxPoints

(* expiration_policy dates every new lot after its creation (ROLLING,      *)
(* FIXED) or never (NONE); point_conversion holds a rate above 0 per pair. *)
ASSUME LedgerAssumption ==
    /\ IsFiniteSet(Occ)
    /\ IsFiniteSet(Key)
    /\ Group \in Currency
    /\ MaxPoints \in Nat
    /\ Horizon \in Nat
    /\ Never \in Nat
    /\ Horizon < Never
    /\ Policy \in [Currency -> [Instant -> Expiry]]
    /\ \A c \in Currency : \A t \in Instant : t < Policy[c][t]
    /\ Rate \in [Currency -> [Currency -> [num : Nat, den : Nat \ {0}]]]

VARIABLES
    now,            \* the database clock
    available,      \* sum(delta) of member:{occ}:available, per currency
    reserved,       \* sum(delta) of member:{occ}:reserved, in Group
    issued,         \* sum(delta) of system:issued, per currency
    redeemed,       \* sum(delta) of system:redeemed, per currency
    breakage,       \* sum(delta) of system:breakage, per currency
    lots,           \* points_remaining of the active lots, by expire_at
    reservation,    \* loyalty_reservation, by the key of its reserve_txn
    txn             \* loyalty_txn, by idempotency_key

balances == <<available, reserved, issued, redeemed, breakage>>
vars == <<now, available, reserved, issued, redeemed, breakage, lots, reservation, txn>>

NoPoints == [e \in Expiry |-> 0]
NoReservation == [status |-> "none"]
NoTxn == [type |-> "none"]

Reservation ==
    [status : {"held", "captured", "released"}, occ : Occ, points : Amount,
     slices : [Expiry -> Nat]]
Txn ==
    [type : {"earn", "reserve", "capture", "release", "convert", "adjust", "transfer"},
     occ : Occ, cur : Currency, into : Currency, points : Int]

TypeOK ==
    /\ now \in Instant
    /\ available \in [Occ -> [Currency -> Int]]
    /\ reserved \in [Occ -> Int]
    /\ issued \in [Currency -> Int]
    /\ redeemed \in [Currency -> Int]
    /\ breakage \in [Currency -> Int]
    /\ lots \in [Occ -> [Currency -> [Expiry -> Nat]]]
    /\ reservation \in [Key -> Reservation \cup {NoReservation}]
    /\ txn \in [Key -> Txn \cup {NoTxn}]

Init ==
    /\ now = 0
    /\ available = [o \in Occ |-> [c \in Currency |-> 0]]
    /\ reserved = [o \in Occ |-> 0]
    /\ issued = [c \in Currency |-> 0]
    /\ redeemed = [c \in Currency |-> 0]
    /\ breakage = [c \in Currency |-> 0]
    /\ lots = [o \in Occ |-> [c \in Currency |-> NoPoints]]
    /\ reservation = [k \in Key |-> NoReservation]
    /\ txn = [k \in Key |-> NoTxn]

-----------------------------------------------------------------------------
(* Lots.  Lots of one member, currency and expire_at are one bucket: the   *)
(* code orders them by created_at, which nothing below tells apart.        *)

Before(have, e) == Total(Part(have, 1 .. e - 1))

(* Mutant: the last lot is charged all of p. *)
TakenWhole(have, p, last) ==
    [e \in Expiry |-> IF e < last THEN have[e] ELSE IF e = last THEN p ELSE 0]

(* consumeLotsFifoTx: what is taken from each bucket when p points are     *)
(* spent, the earliest expire_at first; last is the bucket that completes  *)
(* p.  No last exists when the lots hold less than p: INSUFFICIENT_BALANCE. *)
Taken(have, p, last) ==
    [e \in Expiry |-> IF e < last THEN have[e]
                      ELSE IF e = last THEN p - Before(have, last) ELSE 0]

FifoTakes(have, p) ==
    {Taken(have, p, last) : last \in {e \in Expiry :
        Before(have, e) < p /\ p <= Before(have, e) + have[e]}}

(* createLotTx: a new lot dated by the currency's policy, from now on. *)
NewLot(c, p) == Single(Expiry, Policy[c][now], p)

(* createLotsFromSlicesTx: slices keep the expire_at they had. *)
Put(o, c, slices) == [lots EXCEPT ![o][c] = Plus(lots[o][c], slices)]
Take(o, c, slices) == [lots EXCEPT ![o][c] = Minus(lots[o][c], slices)]

-----------------------------------------------------------------------------
(* Mutant: a replayed key is worked again. *)
CommitAgain(k, type, o, c, into, p) ==
    txn' = [txn EXCEPT ![k] =
              [type |-> type, occ |-> o, cur |-> c, into |-> into, points |-> p]]

(* runOp: the key must be new (unique idempotency_key), and the row commits *)
(* with the work.                                                          *)
Commit(k, type, o, c, into, p) ==
    /\ txn[k] = NoTxn
    /\ txn' = [txn EXCEPT ![k] =
                 [type |-> type, occ |-> o, cur |-> c, into |-> into, points |-> p]]

(* +available / -issued and a new lot. *)
Issue(o, c, p) ==
    /\ available' = [available EXCEPT ![o][c] = @ + p]
    /\ issued' = [issued EXCEPT ![c] = @ - p]
    /\ lots' = Put(o, c, NewLot(c, p))

Earn(o, p, k) ==
    /\ Commit(k, "earn", o, Group, Group, p)
    /\ Issue(o, Group, p)
    /\ UNCHANGED <<now, reserved, redeemed, breakage, reservation>>

(* postAutoEarnTx and postBonusEarnTx: earn in any currency inside the     *)
(* caller's transaction, ON CONFLICT (idempotency_key) DO NOTHING.         *)
PostEarnTx(o, c, p, k) ==
    /\ Commit(k, "earn", o, c, c, p)
    /\ Issue(o, c, p)
    /\ UNCHANGED <<now, reserved, redeemed, breakage, reservation>>

Reserve(o, p, k) ==
    /\ Commit(k, "reserve", o, Group, Group, p)
    /\ available[o][Group] - p >= 0
    /\ available' = [available EXCEPT ![o][Group] = @ - p]
    /\ reserved' = [reserved EXCEPT ![o] = @ + p]
    /\ \E take \in FifoTakes(lots[o][Group], p) :
         /\ lots' = Take(o, Group, take)
         /\ reservation' = [reservation EXCEPT ![k] =
                [status |-> "held", occ |-> o, points |-> p, slices |-> take]]
    /\ UNCHANGED <<now, issued, redeemed, breakage>>

(* Mutant: the status of the reservation is not checked under the lock. *)
CaptureAnyStatus(o, r, k) ==
    LET p == reservation[r].points IN
    /\ reservation[r] # NoReservation
    /\ Commit(k, "capture", o, Group, Group, p)
    /\ reserved' = [reserved EXCEPT ![o] = @ - p]
    /\ redeemed' = [redeemed EXCEPT ![Group] = @ + p]
    /\ reservation' = [reservation EXCEPT ![r].status = "captured"]
    /\ UNCHANGED <<now, available, issued, breakage, lots>>

(* Mutant: the reservation stays held. *)
CaptureStaysHeld(o, r, k) ==
    LET p == reservation[r].points IN
    /\ reservation[r].status = "held"
    /\ Commit(k, "capture", o, Group, Group, p)
    /\ reserved' = [reserved EXCEPT ![o] = @ - p]
    /\ redeemed' = [redeemed EXCEPT ![Group] = @ + p]
    /\ UNCHANGED <<now, available, issued, breakage, lots, reservation>>

(* Mutant: the redeemed account is not credited. *)
CaptureOneSided(o, r, k) ==
    LET p == reservation[r].points IN
    /\ reservation[r].status = "held"
    /\ Commit(k, "capture", o, Group, Group, p)
    /\ reserved' = [reserved EXCEPT ![o] = @ - p]
    /\ reservation' = [reservation EXCEPT ![r].status = "captured"]
    /\ UNCHANGED <<now, available, issued, redeemed, breakage, lots>>

(* settleReservation under the lock of member o: capture. *)
CaptureFor(o, r, k) ==
    LET p == reservation[r].points IN
    /\ reservation[r].status = "held"
    /\ Commit(k, "capture", o, Group, Group, p)
    /\ reserved' = [reserved EXCEPT ![o] = @ - p]
    /\ redeemed' = [redeemed EXCEPT ![Group] = @ + p]
    /\ reservation' = [reservation EXCEPT ![r].status = "captured"]
    /\ UNCHANGED <<now, available, issued, breakage, lots>>

(* Mutant: the points return without their lots. *)
ReleaseWithoutLots(o, r, k) ==
    LET p == reservation[r].points IN
    /\ reservation[r].status = "held"
    /\ Commit(k, "release", o, Group, Group, p)
    /\ reserved' = [reserved EXCEPT ![o] = @ - p]
    /\ available' = [available EXCEPT ![o][Group] = @ + p]
    /\ reservation' = [reservation EXCEPT ![r].status = "released"]
    /\ UNCHANGED <<now, issued, redeemed, breakage, lots>>

(* settleReservation under the lock of member o: release, which puts the   *)
(* consumed slices back with the expire_at they had.                       *)
ReleaseFor(o, r, k) ==
    LET p == reservation[r].points IN
    /\ reservation[r].status = "held"
    /\ Commit(k, "release", o, Group, Group, p)
    /\ reserved' = [reserved EXCEPT ![o] = @ - p]
    /\ available' = [available EXCEPT ![o][Group] = @ + p]
    /\ lots' = Put(o, Group, reservation[r].slices)
    /\ reservation' = [reservation EXCEPT ![r].status = "released"]
    /\ UNCHANGED <<now, issued, redeemed, breakage>>

(* Without merges the member read before the lock is the reservation's. *)
Capture(r, k) == reservation[r] # NoReservation /\ CaptureFor(reservation[r].occ, r, k)
Release(r, k) == reservation[r] # NoReservation /\ ReleaseFor(reservation[r].occ, r, k)

(* computeConvertedPoints: floor(points * rate). *)
Converted(c, d, p) == (p * Rate[c][d].num) \div Rate[c][d].den

Convert(o, c, d, p, k) ==
    LET q == Converted(c, d, p) IN
    /\ c # d
    /\ q \in Amount
    /\ Commit(k, "convert", o, c, d, p)
    /\ available[o][c] - p >= 0
    /\ available' = [available EXCEPT ![o][c] = @ - p, ![o][d] = @ + q]
    /\ issued' = [issued EXCEPT ![c] = @ + p, ![d] = @ - q]
    /\ \E take \in FifoTakes(lots[o][c], p) :
         lots' = [lots EXCEPT ![o][c] = Minus(lots[o][c], take),
                              ![o][d] = Plus(lots[o][d], NewLot(d, q))]
    /\ UNCHANGED <<now, reserved, redeemed, breakage, reservation>>

AdjustUp(o, c, p, k) ==
    /\ Commit(k, "adjust", o, c, c, p)
    /\ available[o][c] + p >= 0
    /\ Issue(o, c, p)
    /\ UNCHANGED <<now, reserved, redeemed, breakage, reservation>>

AdjustDown(o, c, p, k) ==
    /\ Commit(k, "adjust", o, c, c, -p)
    /\ available[o][c] - p >= 0
    /\ available' = [available EXCEPT ![o][c] = @ - p]
    /\ issued' = [issued EXCEPT ![c] = @ + p]
    /\ \E take \in FifoTakes(lots[o][c], p) : lots' = Take(o, c, take)
    /\ UNCHANGED <<now, reserved, redeemed, breakage, reservation>>

(* transfer, under the locks of both members in sorted order. *)
Transfer(o, q, c, p, k) ==
    /\ o # q
    /\ Commit(k, "transfer", o, c, c, p)
    /\ available[o][c] - p >= 0
    /\ available' = [available EXCEPT ![o][c] = @ - p, ![q][c] = @ + p]
    /\ \E take \in FifoTakes(lots[o][c], p) :
         lots' = [lots EXCEPT ![o][c] = Minus(lots[o][c], take),
                              ![q][c] = Plus(lots[q][c], take)]
    /\ UNCHANGED <<now, reserved, issued, redeemed, breakage, reservation>>

(* Mutant: expire_at < now. *)
DueEarlier(o, c) == Part(lots[o][c], 1 .. now - 1)

(* expireLots for one member: every due lot of every currency, each under  *)
(* its own sys:expire:{lot} key, in one transaction.                       *)
DuePart(o, c) == Part(lots[o][c], 1 .. now)

(* Mutant: the breakage account is not credited. *)
ExpireUnbooked(o) ==
    /\ \E c \in Currency : Total(DuePart(o, c)) > 0
    /\ available' = [available EXCEPT ![o] =
                       [c \in Currency |-> available[o][c] - Total(DuePart(o, c))]]
    /\ lots' = [lots EXCEPT ![o] =
                  [c \in Currency |-> Minus(lots[o][c], DuePart(o, c))]]
    /\ UNCHANGED <<now, reserved, issued, redeemed, breakage, reservation, txn>>

ExpireLots(o) ==
    /\ \E c \in Currency : Total(DuePart(o, c)) > 0
    /\ available' = [available EXCEPT ![o] =
                       [c \in Currency |-> available[o][c] - Total(DuePart(o, c))]]
    /\ breakage' = [c \in Currency |-> breakage[c] + Total(DuePart(o, c))]
    /\ lots' = [lots EXCEPT ![o] =
                  [c \in Currency |-> Minus(lots[o][c], DuePart(o, c))]]
    /\ UNCHANGED <<now, reserved, issued, redeemed, reservation, txn>>

Tick ==
    /\ now < Horizon
    /\ now' = now + 1
    /\ UNCHANGED <<balances, lots, reservation, txn>>

(* Everything but the settlement of holds. *)
LedgerOp ==
    \/ \E o \in Occ, p \in Amount, k \in Key : Earn(o, p, k)
    \/ \E o \in Occ, c \in Currency, p \in Amount, k \in Key : PostEarnTx(o, c, p, k)
    \/ \E o \in Occ, p \in Amount, k \in Key : Reserve(o, p, k)
    \/ \E o \in Occ, c \in Currency, d \in Currency, p \in Amount, k \in Key :
         Convert(o, c, d, p, k)
    \/ \E o \in Occ, c \in Currency, p \in Amount, k \in Key : AdjustUp(o, c, p, k)
    \/ \E o \in Occ, c \in Currency, p \in Amount, k \in Key : AdjustDown(o, c, p, k)
    \/ \E o \in Occ, q \in Occ, c \in Currency, p \in Amount, k \in Key :
         Transfer(o, q, c, p, k)
    \/ \E o \in Occ : ExpireLots(o)
    \/ Tick

Next ==
    \/ LedgerOp
    \/ \E r \in Key, k \in Key : Capture(r, k)
    \/ \E r \in Key, k \in Key : Release(r, k)

Spec == Init /\ [][Next]_vars

(* The expiry scheduler runs expireLots every TICK_MS for as long as the   *)
(* service is up, so a member with a due lot is swept in the end.          *)
LiveSpec == Spec /\ \A o \in Occ : WF_vars(ExpireLots(o))
-----------------------------------------------------------------------------
(* Properties. *)

HeldBy(o) == {r \in Key : reservation[r].status = "held" /\ reservation[r].occ = o}
Held == {r \in Key : reservation[r].status = "held"}

(* Points held for member o, as the sum over the reservation rows. *)
HeldPoints(o) ==
    Total([r \in Key |-> IF r \in HeldBy(o) THEN reservation[r].points ELSE 0])

(* "available(occ,cur) == sum of active lots' points_remaining": the rule  *)
(* the expiry sweep relies on, kept by every operation that moves either.  *)
AvailableIsLots ==
    \A o \in Occ, c \in Currency : available[o][c] = Total(lots[o][c])

(* The reserved account of a member is exactly what its held reservations  *)
(* hold, so each can still be captured or released in full, once.          *)
ReservedIsHeld == \A o \in Occ : reserved[o] = HeldPoints(o)

(* A held reservation can give back the lots of all of its points. *)
HeldSlicesCoverPoints ==
    \A r \in Held : Total(reservation[r].slices) = reservation[r].points

(* Double entry: over all accounts the deltas of a currency cancel out. *)
MemberPoints(c) ==
    Total([o \in Occ |-> available[o][c]]) + (IF c = Group THEN Total(reserved) ELSE 0)
BooksBalance ==
    \A c \in Currency : MemberPoints(c) + redeemed[c] + breakage[c] + issued[c] = 0

(* No member account is ever overdrawn ("cam balance am", migration 003),  *)
(* whatever the order of holds, transfers, conversions and expiries.       *)
NoNegativeBalance ==
    \A o \in Occ : reserved[o] >= 0 /\ \A c \in Currency : available[o][c] >= 0

(* What the committed request t issued, took back and redeemed in c. *)
IssuedBy(t, c) ==
    IF t.type = "convert" THEN IF t.into = c THEN Converted(t.cur, c, t.points) ELSE 0
    ELSE IF t.type \in {"earn", "adjust"} /\ t.cur = c /\ t.points > 0 THEN t.points ELSE 0
TakenBackBy(t, c) ==
    IF t.type = "convert" THEN IF t.cur = c THEN t.points ELSE 0
    ELSE IF t.type = "adjust" /\ t.cur = c /\ t.points < 0 THEN -t.points ELSE 0
RedeemedBy(t, c) == IF t.type = "capture" /\ t.cur = c THEN t.points ELSE 0

(* Exactly once: the issued and redeemed accounts are the sums over the    *)
(* committed requests, each idempotency key counted once.                  *)
LogExplainsSystemAccounts ==
    \A c \in Currency :
        /\ -issued[c] = Total([k \in Key |-> IssuedBy(txn[k], c)])
                          - Total([k \in Key |-> TakenBackBy(txn[k], c)])
        /\ redeemed[c] = Total([k \in Key |-> RedeemedBy(txn[k], c)])

(* Points of c, in lots or held, that expire at e or later. *)
LivingFrom(c, e) ==
    Total([o \in Occ |-> Total(Part(lots[o][c], e .. Never))])
      + (IF c # Group THEN 0
         ELSE Total([r \in Key |-> IF r \in Held
                        THEN Total(Part(reservation[r].slices, e .. Never)) ELSE 0]))

(* The liability report and the general ledger agree: what                 *)
(* computeLiabilitySnapshot sums from the rows (active lots, and the slices *)
(* of held reservations in Group) behaves as PointLiability's outstanding  *)
(* points beside the system accounts.                                      *)
SnapshotPoints == [c \in Currency |-> LivingFrom(c, 1)]
Liability == INSTANCE PointLiability WITH
    outstanding <- SnapshotPoints,
    issued <- [c \in Currency |-> -issued[c]],
    redeemed <- redeemed,
    broken <- breakage
ImplementsLiability == Liability!Spec

(* No immortal points: hold, release, transfer or expiry never gives a     *)
(* point a later expire_at; only newly issued points live longer.          *)
LifeNeverExtended ==
    [][\A c \in Currency, e \in Expiry :
         LivingFrom(c, e)' > LivingFrom(c, e) => issued'[c] < issued[c]]_vars

(* Breakage happens: an available lot that is past its expire_at is swept  *)
(* (or spent) in the end, also one that a release put back when overdue.   *)
OverdueLotsAreSwept ==
    \A o \in Occ, c \in Currency, e \in Expiry :
        (e <= now /\ lots[o][c][e] > 0) ~> (lots[o][c][e] = 0)
=============================================================================
