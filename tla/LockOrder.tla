------------------------------ MODULE LockOrder ------------------------------
(***************************************************************************)
(* Who waits for whom: the locks that the transactions of core-api take    *)
(* around the points ledger, in the order their code takes them.  Each     *)
(* holds what it took until it ends (advisory xact locks and row locks),   *)
(* so requests that take them in different orders can wait for each other  *)
(* in a circle.  Postgres kills one of them, unless a wait of the circle is *)
(* not in the database: a journey tick holds the row of a participant on   *)
(* one connection while it awaits its bonus on another one.                *)
(*                                                                         *)
(* Only transactions that wait for one lock while they hold another are    *)
(* here.  Strong identifiers are locked first and in sorted order and are  *)
(* left to IdentityResolve.                                                *)
(***************************************************************************)
EXTENDS Integers, Sequences

CONSTANTS
    Proc,       \* concurrent requests
    Member,     \* members, numbers in the order of their uuid
    Kinds       \* the kinds of request that are made

VARIABLES todo, held

lockVars == <<todo, held>>

(* A lock and how it is taken: exclusively, or shared with other sharers. *)
Wallet(o) == [lock |-> <<"loyalty", o>>, mode |-> "X"]       \* advisory loyalty:{occ}
PurchaseRow(o) == [lock |-> <<"purchase", o>>, mode |-> "X"]    \* a canonical_transaction of o
Hold(o) == [lock |-> <<"reservation", o>>, mode |-> "X"]     \* a loyalty_reservation of o
InviteRow(o) == [lock |-> <<"referral", o>>, mode |-> "X"]      \* the referral row of referee o
Choice(o) == [lock |-> <<"consent", o>>, mode |-> "X"]       \* advisory consent:{occ}:{purpose}
Participant(o) == [lock |-> <<"participant", o>>, mode |-> "X"] \* a journey_participant of o
Chain == [lock |-> <<"consent-chain", 0>>, mode |-> "X"]     \* advisory consent-chain
RewardRow == [lock |-> <<"reward", 0>>, mode |-> "X"]           \* reward_catalog_item row

(* The row of the point currency: every inserted entry or lot references   *)
(* it (FOR KEY SHARE); redeemReward locks it FOR UPDATE through its join.  *)
Spend == [lock |-> <<"currency", 0>>, mode |-> "S"]
Price == [lock |-> <<"currency", 0>>, mode |-> "X"]

(* Mutant: the wallets in the order of the arguments. *)
Unsorted(o, q) == <<Wallet(o), Wallet(q)>>

Sorted(o, q) == IF o < q THEN <<Wallet(o), Wallet(q)>> ELSE <<Wallet(q), Wallet(o)>>

(* The scripts of the transactions, from their code.  LedgerOp:            *)
(* earn, reserve, convert, adjust, expireLots, birthday and challenge      *)
(* bonuses, stored value: one wallet, then entries.                        *)
LedgerOp(o) == <<Wallet(o), Spend>>
SettleReservation(o) == <<Wallet(o), Hold(o), Spend>>
TransferOp(o, q) == Sorted(o, q) \o <<Spend>>
RedeemOp(o) == <<Wallet(o), RewardRow, Price, Spend>>
ProcessReferralReward(o, q) == <<InviteRow(o)>> \o Sorted(o, q) \o <<Spend>>
RecordConsent(o) == <<Choice(o), Chain>>
EarnForTransaction(o) == <<PurchaseRow(o), Wallet(o), Spend>>
JourneyBonus(o) == <<Participant(o), Wallet(o), Spend>>

(* One round of mergeOthers, for a member with purchases, points, a hold, a *)
(* consent newer than the survivor's and a journey.                        *)
MergeRound(from, to) ==
    Sorted(from, to) \o <<PurchaseRow(from), Spend, Hold(from), Chain, Participant(from)>>

Others == {x \in Member \X Member : x[1] # x[2]}

(* The requests of a kind.  A resolve merges one member, or two in turn. *)
Scripts(kind) ==
    CASE kind = "ledger" -> {LedgerOp(o) : o \in Member}
      [] kind = "settle" -> {SettleReservation(o) : o \in Member}
      [] kind = "transfer" -> {TransferOp(x[1], x[2]) : x \in Others}
      [] kind = "redeem" -> {RedeemOp(o) : o \in Member}
      [] kind = "referral" -> {ProcessReferralReward(x[1], x[2]) : x \in Others}
      [] kind = "consent" -> {RecordConsent(o) : o \in Member}
      [] kind = "autoEarn" -> {EarnForTransaction(o) : o \in Member}
      [] kind = "journey" -> {JourneyBonus(o) : o \in Member}
      [] kind = "merge" -> {MergeRound(x[1], x[2]) : x \in Others}
      [] kind = "mergeTwo" ->
           {MergeRound(x[1], x[2]) \o MergeRound(p, x[2]) : x \in Others, p \in Member}

LockInit ==
    /\ todo \in [Proc -> UNION {Scripts(kind) : kind \in Kinds}]
    /\ held = [p \in Proc |-> {}]

(* q holds a lock that the next lock of p conflicts with. *)
Blocks(q, p) ==
    /\ q # p
    /\ \E h \in held[q] :
         /\ h.lock = Head(todo[p]).lock
         /\ h.mode = "X" \/ Head(todo[p]).mode = "X"

Acquire(p) ==
    /\ todo[p] # <<>>
    /\ ~ \E q \in Proc : Blocks(q, p)
    /\ held' = [held EXCEPT ![p] = @ \cup {Head(todo[p])}]
    /\ todo' = [todo EXCEPT ![p] = Tail(@)]

(* COMMIT or ROLLBACK. *)
End(p) ==
    /\ todo[p] = <<>>
    /\ held[p] # {}
    /\ held' = [held EXCEPT ![p] = {}]
    /\ UNCHANGED todo

LockNext == \E p \in Proc : Acquire(p) \/ End(p)

LockSpec == LockInit /\ [][LockNext]_lockVars
-----------------------------------------------------------------------------
(* Properties. *)

(* "sort -- to avoid deadlock with the loyalty operations": no requests wait *)
(* for each other in a circle.                                             *)
NoDeadlock ==
    \A D \in SUBSET Proc : D # {} =>
        \E p \in D : todo[p] = <<>> \/ \A q \in D : ~ Blocks(q, p)
=============================================================================
