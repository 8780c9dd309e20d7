------------------------------- MODULE AutoEarn -------------------------------
(***************************************************************************)
(* Auto-earn: loyalty/earn-rule.service.ts and its scheduler.  A purchase  *)
(* earns points by the best rule of its date, times the multiplier of the  *)
(* tier its member has when the scheduler gets to it.                      *)
(*                                                                         *)
(* earnForTransaction claims the purchase, takes the wallet lock (as the   *)
(* recomputation of a tier does) and posts: it is one action.  A sweep is  *)
(* not: the list it works on is read first, and several instances and the  *)
(* endpoint may work at the same time.                                     *)
(***************************************************************************)
EXTENDS Integers, FiniteSets

CONSTANTS
    Guest,          \* members
    Bill,           \* purchases, 1 .. n in the order of received_at
    Amounts,        \* totals a purchase may have
    Dates,          \* instants a purchase may be dated
    Rules,          \* earn_rule rows in the order of the ORDER BY: a sequence of
                    \* [rate, min, from, to]; rate is rate_per_unit * multiplier
    MaxPoints,      \* MAX_POINTS
    MaxBigint,      \* the largest bigint
    Factors,        \* earn_multiplier values of the tiers
    EarnBatch       \* LOYALTY_EARN_BATCH

VARIABLES
    bill,           \* canonical_transaction: owner, total, occ_timestamp, loyalty_earned
    points,         \* loyalty_txn sys:autoearn:{message_id}: its points
    earnList,       \* the purchases the running sweep still has to process
    factor          \* getMemberEarnMultiplier of each member

earnVars == <<bill, points, earnList, factor>>

Smaller(a, b) == IF a < b THEN a ELSE b

EarnInit ==
    /\ bill = <<>>
    /\ points = <<>>
    /\ earnList = {}
    /\ factor = [o \in Guest |-> 1]

(* External: a purchase of a member is ingested. *)
BillArrives(o, total, at) ==
    LET p == Cardinality(DOMAIN bill) + 1 IN
    /\ p \in Bill
    /\ bill' = [q \in DOMAIN bill \cup {p} |-> IF q # p THEN bill[q]
                  ELSE [occ |-> o, total |-> total, at |-> at, earned |-> FALSE]]
    /\ UNCHANGED <<points, earnList, factor>>

(* The tier of a member changes (Tiers). *)
ChangeFactor(o, f) ==
    /\ factor' = [factor EXCEPT ![o] = f]
    /\ UNCHANGED <<bill, points, earnList>>

-----------------------------------------------------------------------------
Unearned == {p \in DOMAIN bill : ~ bill[p].earned}

(* The candidates of the SELECT for a purchase: rules in force at its date. *)
Candidates(b) ==
    {i \in DOMAIN Rules : /\ Rules[i].from <= b.at /\ b.at < Rules[i].to
                          /\ b.total >= Rules[i].min}

(* Its bigint cast of total * rate fails the statement for every candidate. *)
Overflows(b) == \E i \in Candidates(b) : b.total * Rules[i].rate > MaxBigint

(* The points of the first candidate, capped, times the tier's multiplier, *)
(* capped again.                                                           *)
PointsFor(b) ==
    LET best == CHOOSE i \in Candidates(b) : \A j \in Candidates(b) : i <= j
    IN  IF Candidates(b) = {} THEN 0
        ELSE Smaller(Smaller(b.total * Rules[best].rate, MaxPoints) * factor[b.occ], MaxPoints)

(* Mutant: a purchase without points keeps its flag. *)
EarnPaidOnly(p) ==
    /\ ~ bill[p].earned /\ ~ Overflows(bill[p])
    /\ bill' = [bill EXCEPT ![p].earned = PointsFor(bill[p]) > 0]
    /\ points' = IF PointsFor(bill[p]) > 0 /\ p \notin DOMAIN points
                 THEN [q \in DOMAIN points \cup {p} |->
                         IF q = p THEN PointsFor(bill[p]) ELSE points[q]]
                 ELSE points

(* earnForTransaction: posts the points, if any, and sets the flag. *)
Earn(p) ==
    /\ ~ bill[p].earned /\ ~ Overflows(bill[p])
    /\ bill' = [bill EXCEPT ![p].earned = TRUE]
    /\ points' = IF PointsFor(bill[p]) > 0 /\ p \notin DOMAIN points
                 THEN [q \in DOMAIN points \cup {p} |->
                         IF q = p THEN PointsFor(bill[p]) ELSE points[q]]
                 ELSE points

(* The purchases that a sweep processes: the longest waiting ones. *)
DueForEarning == {p \in Unearned : Cardinality({q \in Unearned : q < p}) < EarnBatch}

(* processUnearnedTransactions reads its list, when no sweep runs. *)
BeginEarnSweep ==
    /\ earnList = {} /\ DueForEarning # {}
    /\ earnList' = DueForEarning
    /\ UNCHANGED <<bill, points, factor>>

(* The next purchase of the list: earned, already taken by another instance, *)
(* or failed, which leaves it to a later sweep.                            *)
EarnNext ==
    \E p \in earnList :
        /\ \A q \in earnList : p <= q
        /\ earnList' = earnList \ {p}
        /\ IF ~ bill[p].earned /\ ~ Overflows(bill[p])
           THEN Earn(p) ELSE UNCHANGED <<bill, points>>
        /\ UNCHANGED factor

(* Another instance, or the endpoint, gets to a purchase first. *)
EarnElsewhere(p) ==
    /\ Earn(p)
    /\ UNCHANGED <<earnList, factor>>

AutoEarnNext ==
    \/ \E o \in Guest, total \in Amounts, at \in Dates : BillArrives(o, total, at)
    \/ \E o \in Guest, f \in Factors : ChangeFactor(o, f)
    \/ BeginEarnSweep \/ EarnNext
    \/ \E p \in DOMAIN bill : EarnElsewhere(p)

(* The scheduler ticks forever. *)
AutoEarnSpec ==
    EarnInit /\ [][AutoEarnNext]_earnVars
      /\ WF_earnVars(BeginEarnSweep \/ EarnNext)

-----------------------------------------------------------------------------
(* Properties. *)

AutoEarnTypeOK ==
    /\ DOMAIN bill = 1 .. Cardinality(DOMAIN bill) /\ DOMAIN bill \subseteq Bill
    /\ DOMAIN points \subseteq DOMAIN bill /\ \A p \in DOMAIN points : points[p] \in 1 .. MaxPoints
    /\ earnList \subseteq DOMAIN bill
    /\ factor \in [Guest -> {1} \cup Factors]

(* "an error in one purchase does not block the batch", "the cap keeps a   *)
(* very large bill from getting stuck" (processUnearnedTransactions,       *)
(* earnForTransaction): every purchase of a member is earned in the end.   *)
EveryPurchaseIsEarned ==
    \A p \in Bill : (p \in DOMAIN bill) ~> (p \in DOMAIN bill /\ bill[p].earned)

=============================================================================
