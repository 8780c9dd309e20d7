------------------------------- MODULE Rewards -------------------------------
(***************************************************************************)
(* Rewards and vouchers (loyalty/reward.service.ts) and the settlement     *)
(* between companies that a redemption records (loyalty/liability.service).*)
(*                                                                         *)
(* Every operation is one transaction that locks what it changes before it *)
(* reads it (the wallet, then the reward row; the voucher row), so it is   *)
(* one action.  Its now() is the instant at which it began, which is before *)
(* it waited for the lock: s below, up to Wait before the commit.          *)
(*                                                                         *)
(* The points of a member are his active lots here (AvailableIsLots of     *)
(* LoyaltyLedger); earning and holding them is the ledger's.  Point prices *)
(* are a set of issuers here; ConfigVersions has their rows.               *)
(***************************************************************************)
EXTENDS PointTotals

CONSTANTS
    Holder,         \* members
    Lot,            \* point lots, numbers in FIFO order (expire_at, created_at)
    LotPoints,      \* LotPoints[l]
    LotIssuer,      \* LotIssuer[l]: issuing company, or NoCompany
    Company, NoCompany,
    Brand,
    CompanyOf,      \* CompanyOf[b]: company of a brand
    Reward,         \* rewards on sale
    RewardKind,     \* RewardKind[r]: "fixed", "once" (PERCENT, PRODUCT) or "gift" (no voucher)
    Cost, Value,    \* Cost[r] points; Value[r] of a fixed voucher
    SpentAt,        \* SpentAt[r]: set of brands where r is spent: one, or all of them
    Stock,          \* Stock[r] for a reward with a stock (stock IS NOT NULL)
    TierMin, Level, \* TierMin[r], Level[o]
    Days,           \* validity_days of the vouchers
    SpendKey,       \* idempotency keys of loyalty_txn, numbers
    UseKey,         \* idempotency keys of voucher_redemption, numbers
    LastDay, Wait   \* bounds: the last instant; the longest wait for a lock

VARIABLES
    day,
    lot,            \* loyalty_lot: member and points_remaining
    spend,          \* loyalty_txn of the redemptions
    stock,          \* reward_catalog_item.stock
    priced,         \* issuers with a point_price; NoCompany: a price for all of them
    settled,        \* settlement_txn: (redemption, issuer) -> points
    voucher,        \* voucher of a redemption
    usage,          \* voucher_redemption
    survivor        \* occ_identity.merged_into; the member itself while active

rewardVars == <<day, lot, spend, stock, priced, settled, voucher, usage, survivor>>
Limited == DOMAIN Stock

(* The instants at which a transaction that commits now can have begun. *)
Began == {s \in 0 .. day : s >= day - Wait}

Left(o) == [l \in Lot |-> IF lot[l].occ = o THEN lot[l].left ELSE 0]
Balance(o) == Total(Left(o))

(* consumeLotsFifoTx: what each lot of o gives for p points. *)
Least(a, b) == IF a < b THEN a ELSE b
Burned(o, p) ==
    LET left == Left(o)
        before(l) == Total(Part(left, {m \in Lot : m < l}))
    IN  [l \in Lot |-> IF before(l) >= p THEN 0 ELSE Least(left[l], p - before(l))]

(* Companies that issued burned points. *)
BurnedOf(burned, c) == Total(Part(burned, {l \in Lot : LotIssuer[l] = c}))

(* The company at which the points are spent: that of the reward's brand, or *)
(* NoCompany (null) for a reward of all brands.                            *)
SpendingCompany(r) ==
    IF Cardinality(SpentAt[r]) = 1 THEN CompanyOf[CHOOSE b \in SpentAt[r] : TRUE] ELSE NoCompany

(* Mutant: the points of the own company are settled too. *)
OwedEvenAtHome(burned, r) == {c \in Company : BurnedOf(burned, c) > 0}

(* recordSettlementForRedeemTx: the issuers that owe for a redemption. *)
Owing(burned, r) ==
    {c \in Company : BurnedOf(burned, c) > 0 /\ c # SpendingCompany(r)}

Priced(c) == {c, NoCompany} \cap priced # {}

RewardInit ==
    /\ day = 0
    /\ \E owner \in [Lot -> Holder] :
         lot = [l \in Lot |-> [occ |-> owner[l], left |-> LotPoints[l]]]
    /\ spend = <<>>
    /\ stock = Stock
    /\ priced = {}
    /\ settled = <<>>
    /\ voucher = <<>>
    /\ usage = <<>>
    /\ survivor = [o \in Holder |-> o]

-----------------------------------------------------------------------------
(* setPointPrice for one issuer or for all.  A price never lapses          *)
(* (PriceNeverLapses of ConfigVersions).                                   *)
Reprice(c) ==
    /\ priced' = priced \cup {c}
    /\ UNCHANGED <<day, lot, spend, stock, settled, voucher, usage, survivor>>

(* f with one more key. *)
With(f, k, x) == [j \in DOMAIN f \cup {k} |-> IF j = k THEN x ELSE f[j]]

(* redeemReward, a first request: the points are burned, what foreign      *)
(* issuers owe is recorded, and the voucher is issued, all or nothing.     *)
RedeemReward(k, o, r, s) ==
    LET burned == Burned(o, Cost[r]) IN
    /\ TierMin[r] <= Level[o]
    /\ Balance(o) >= Cost[r]
    /\ r \in Limited => stock[r] > 0
    /\ \A c \in Owing(burned, r) : Priced(c)
    /\ stock' = [q \in Limited |-> IF q = r THEN stock[q] - 1 ELSE stock[q]]
    /\ lot' = [l \in Lot |-> [lot[l] EXCEPT !.left = @ - burned[l]]]
    /\ spend' = With(spend, k, [occ |-> o, reward |-> r, burned |-> burned])
    /\ settled' = [x \in DOMAIN settled \cup ({k} \X Owing(burned, r)) |->
                     IF x[1] = k THEN BurnedOf(burned, x[2]) ELSE settled[x]]
    /\ voucher' = IF RewardKind[r] = "gift" THEN voucher
                  ELSE With(voucher, k,
                          [reward |-> r, state |-> "active", expireAt |-> s + Days,
                           remaining |-> IF RewardKind[r] = "fixed" THEN Value[r] ELSE 0])
    /\ UNCHANGED <<day, priced, usage, survivor>>

-----------------------------------------------------------------------------
(* The voucher after a use; the amount of a fixed one may be a part of it. *)
AfterUse(v, amount) ==
    IF RewardKind[v.reward] = "fixed"
    THEN [v EXCEPT !.remaining = @ - amount,
                   !.state = IF v.remaining = amount THEN "redeemed" ELSE "active"]
    ELSE [v EXCEPT !.state = "redeemed"]

(* useVoucher with a fresh key at a brand: a fixed voucher is spent in parts, *)
(* the others once.  (No amount stands for all that remains.)              *)
UseVoucher(u, k, b, amount, s) ==
    LET v == voucher[k] IN
    /\ v.state = "active" /\ s < v.expireAt
    /\ b \in SpentAt[v.reward]
    /\ RewardKind[v.reward] = "fixed" => amount <= v.remaining
    /\ voucher' = [voucher EXCEPT ![k] = AfterUse(v, amount)]
    /\ usage' = With(usage, u, [of |-> k, amount |-> amount, at |-> s])
    /\ UNCHANGED <<day, lot, spend, stock, priced, settled, survivor>>

(* expireVouchers, one statement of the expiry scheduler. *)
Overdue(k) == voucher[k].state = "active" /\ voucher[k].expireAt <= day
ExpireVouchers ==
    /\ \E k \in DOMAIN voucher : Overdue(k)
    /\ voucher' = [k \in DOMAIN voucher |->
                     IF Overdue(k) THEN [voucher[k] EXCEPT !.state = "expired"] ELSE voucher[k]]
    /\ UNCHANGED <<day, lot, spend, stock, priced, settled, usage, survivor>>

(* The merge of the resolver: lots, balances and transactions move to the  *)
(* survivor; vouchers and cards stay.                                      *)
MergeHolder(from, to) ==
    /\ from # to /\ survivor[from] = from /\ survivor[to] = to
    /\ survivor' = [survivor EXCEPT ![from] = to]
    /\ lot' = [l \in Lot |-> IF lot[l].occ = from THEN [lot[l] EXCEPT !.occ = to] ELSE lot[l]]
    /\ spend' = [k \in DOMAIN spend |-> IF spend[k].occ = from
                                        THEN [spend[k] EXCEPT !.occ = to] ELSE spend[k]]
    /\ UNCHANGED <<day, stock, priced, settled, voucher, usage>>

NextDay ==
    /\ day < LastDay
    /\ day' = day + 1
    /\ UNCHANGED <<lot, spend, stock, priced, settled, voucher, usage, survivor>>

(* A fresh key: the keys are taken in order, since they are told apart only  *)
(* by being equal or not.  A used one changes nothing.                     *)
Fresh(keys, f) == {k \in keys : k \notin DOMAIN f /\ \A j \in keys : j < k => j \in DOMAIN f}

RewardNext ==
    \/ \E c \in Company \cup {NoCompany} : Reprice(c)
    \/ \E k \in Fresh(SpendKey, spend), o \in Holder, r \in Reward, s \in Began :
         RedeemReward(k, o, r, s)
    \/ \E u \in Fresh(UseKey, usage), k \in DOMAIN voucher, b \in Brand, s \in Began :
         \E amount \in 1 .. Value[voucher[k].reward] : UseVoucher(u, k, b, amount, s)
    \/ ExpireVouchers
    \/ \E from \in Holder, to \in Holder : MergeHolder(from, to)
    \/ NextDay

RewardSpec == RewardInit /\ [][RewardNext]_rewardVars

-----------------------------------------------------------------------------
(* Properties. *)

RewardTypeOK ==
    /\ day \in 0 .. LastDay
    /\ \A l \in Lot : lot[l].occ \in Holder /\ lot[l].left \in 0 .. LotPoints[l]
    /\ DOMAIN spend \subseteq SpendKey
    /\ \A k \in DOMAIN spend : spend[k].occ \in Holder /\ spend[k].reward \in Reward
    /\ priced \subseteq Company \cup {NoCompany}
    /\ DOMAIN settled \subseteq SpendKey \X Company
    /\ DOMAIN voucher \subseteq SpendKey /\ DOMAIN usage \subseteq UseKey
    /\ \A k \in DOMAIN voucher : voucher[k].state \in {"active", "redeemed", "expired"}
    /\ survivor \in [Holder -> Holder]

(* redeemReward is all or nothing, for any order of redemptions, retries,  *)
(* prices and merges: the points that left the lots are the costs of the   *)
(* redemptions, the stock fell by their number, each has its voucher, and  *)
(* what an issuer owes is what was spent elsewhere of its points.          *)
RedemptionsAddUp ==
    /\ Total(LotPoints) - Total([l \in Lot |-> lot[l].left])
         = Total([k \in DOMAIN spend |-> Cost[spend[k].reward]])
    /\ \A r \in Limited :
         stock[r] >= 0 /\ Stock[r] - stock[r] = Cardinality({k \in DOMAIN spend : spend[k].reward = r})
    /\ DOMAIN voucher = {k \in DOMAIN spend : RewardKind[spend[k].reward] # "gift"}
    /\ \A k \in DOMAIN spend, c \in Company :
         (IF <<k, c>> \in DOMAIN settled THEN settled[<<k, c>>] ELSE 0)
           = IF c = SpendingCompany(spend[k].reward) THEN 0 ELSE BurnedOf(spend[k].burned, c)

(* A voucher is worth what it was issued for, however it is spent in parts,  *)
(* retried or raced with its expiry: what remains and what was used add up, *)
(* the others are used once, it is redeemed when nothing is left, and no   *)
(* use began after it ran out.                                             *)
UsedOf(k) == [u \in DOMAIN usage |-> IF usage[u].of = k THEN usage[u].amount ELSE 0]
VouchersAddUp ==
    \A k \in DOMAIN voucher :
        LET v == voucher[k]
            uses == {u \in DOMAIN usage : usage[u].of = k}
        IN  /\ \A u \in uses : usage[u].at < v.expireAt
            /\ IF RewardKind[v.reward] = "fixed"
               THEN v.remaining >= 0 /\ v.remaining + Total(UsedOf(k)) = Value[v.reward]
                      /\ (v.state = "redeemed" <=> v.remaining = 0)
               ELSE Cardinality(uses) = IF v.state = "redeemed" THEN 1 ELSE 0

(* From the points that are spent to the last use of a voucher, what was   *)
(* paid and what was received add up: both of the above.                   *)
RewardsAddUp == RedemptionsAddUp /\ VouchersAddUp
=============================================================================
