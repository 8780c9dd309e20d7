-------------------------------- MODULE Tiers --------------------------------
(***************************************************************************)
(* Member tiers: loyalty/tier.service.ts and its scheduler.  The purchases *)
(* of a window decide the tier, which rises at once and falls at a review  *)
(* only.  recomputeMemberTier runs under the wallet lock and is one action; *)
(* the scheduler's sweep over the members is not.                          *)
(***************************************************************************)
EXTENDS PointTotals

CONSTANTS
    Shopper,    \* members, positive numbers in the order of their uuid
    Visit,      \* purchases, 1 .. n
    Totals,     \* totals a purchase may have
    Threshold,  \* Threshold[n]: tier.threshold of level n, 1 being the lowest
    Keep,       \* Keep[n]: downgrade_threshold (the threshold itself for NULL)
    Cycle,      \* review_cycle: "ROLLING" or "CALENDAR"
    Period,     \* review_months; the length of a year for CALENDAR
    LastDate    \* bound: the last instant

VARIABLES
    date,
    visit,          \* canonical_transaction: owner, total, occ_timestamp
    tier,           \* member_tier: level and review_at; level 0: no row
    history,        \* member_tier_history: per member, in order
    sweep,          \* recomputeAllTiers: "idle", "due" (reviews) or "scan" (shoppers)
    cursor          \* the last member of the scan; 0 before the first

tierVars == <<date, visit, tier, history, sweep, cursor>>

Levels == DOMAIN Threshold

TierInit ==
    /\ date = 0
    /\ visit = <<>>
    /\ tier = [o \in Shopper |-> [level |-> 0, review |-> 0]]
    /\ history = [o \in Shopper |-> <<>>]
    /\ sweep = "idle"
    /\ cursor = 0

(* External: a purchase is ingested. *)
Shop(o, total) ==
    LET p == Cardinality(DOMAIN visit) + 1 IN
    /\ p \in Visit
    /\ visit' = [q \in DOMAIN visit \cup {p} |-> IF q # p THEN visit[q]
                   ELSE [occ |-> o, total |-> total, at |-> date]]
    /\ UNCHANGED <<date, tier, history, sweep, cursor>>

-----------------------------------------------------------------------------
(* windowStartExpr and the next review. *)
WindowStart == IF Cycle = "CALENDAR" THEN (date \div Period) * Period ELSE date - Period
NextReview == IF Cycle = "CALENDAR" THEN (date \div Period + 1) * Period ELSE date + Period

InWindow(o) == {p \in DOMAIN visit : visit[p].occ = o /\ visit[p].at >= WindowStart}

(* computeMetric, SPEND (VISITS counts, POINTS sums the qualifying points). *)
Spent(o) == Total([p \in InWindow(o) |-> visit[p].total])

(* The highest level whose threshold is reached, or the lowest. *)
Reached(value) ==
    CHOOSE n \in Levels :
        /\ n = 1 \/ value >= Threshold[n]
        /\ \A m \in Levels : m > n => value < Threshold[m]

MoveTo(o, level, review) ==
    /\ tier' = [tier EXCEPT ![o] = [level |-> level, review |-> review]]
    /\ history' = [history EXCEPT ![o] =
         [i \in 1 .. Cardinality(DOMAIN @) + 1 |->
            IF i \in DOMAIN @ THEN @[i] ELSE [from |-> tier[o].level, to |-> level, at |-> date]]]

(* Mutant: the review stays where it was when the tier changes. *)
RecomputeKeepsReview(o) ==
    LET value == Spent(o)
        now == tier[o]
        reached == Reached(value)
        past == now.review <= date
    IN  IF \/ now.level = 0
           \/ reached > now.level
           \/ reached < now.level /\ past /\ value < Keep[now.level]
        THEN MoveTo(o, reached, IF now.level = 0 \/ past THEN NextReview ELSE now.review)
        ELSE /\ tier' = [tier EXCEPT ![o].review = IF past THEN NextReview ELSE @]
             /\ UNCHANGED history

(* recomputeMemberTier: the first tier, a rise at any time, a fall at a    *)
(* review that finds less than the level is kept for, and otherwise a new  *)
(* review date if this one has passed.                                     *)
Recompute(o) ==
    LET value == Spent(o)
        now == tier[o]
        reached == Reached(value)
        past == now.review <= date
    IN  IF \/ now.level = 0
           \/ reached > now.level
           \/ reached < now.level /\ past /\ value < Keep[now.level]
        THEN MoveTo(o, reached, NextReview)
        ELSE /\ tier' = [tier EXCEPT ![o].review = IF past THEN NextReview ELSE @]
             /\ UNCHANGED history

DueForReview == {o \in Shopper : tier[o].level > 0 /\ tier[o].review <= date}

(* ORDER BY review_at, occ_id *)
Sooner(o, q) ==
    tier[o].review < tier[q].review \/ (tier[o].review = tier[q].review /\ o <= q)

BeginTierSweep ==
    /\ sweep = "idle"
    /\ sweep' = "due"
    /\ UNCHANGED <<date, visit, tier, history, cursor>>

(* The first part of recomputeAllTiers, due reviews until none is left. *)
ReviewNext ==
    /\ sweep = "due"
    /\ \E o \in DueForReview :
         /\ \A q \in DueForReview : Sooner(o, q)
         /\ Recompute(o)
    /\ UNCHANGED <<date, visit, sweep, cursor>>

(* Mutant: the second part is not run (each sweep drains the reviews only). *)
ReviewsOnly ==
    /\ sweep = "due" /\ DueForReview = {}
    /\ sweep' = "idle"
    /\ UNCHANGED <<date, visit, tier, history, cursor>>

(* Then the members with purchases in the window.  Their SELECT passes three *)
(* parameters; for CALENDAR its text uses $1 and $3 only, and Postgres     *)
(* refuses it (the type of $2 is unknown): the sweep ends there.           *)
ReviewsDone ==
    /\ sweep = "due" /\ DueForReview = {}
    /\ sweep' = IF Cycle = "CALENDAR" THEN "idle" ELSE "scan"
    /\ cursor' = 0
    /\ UNCHANGED <<date, visit, tier, history>>

Later == {q \in Shopper : q > cursor /\ InWindow(q) # {}}

ScanNext ==
    /\ sweep = "scan"
    /\ \E o \in Later :
         /\ \A q \in Later : o <= q
         /\ Recompute(o)
         /\ cursor' = o
    /\ UNCHANGED <<date, visit, sweep>>

ScanDone ==
    /\ sweep = "scan" /\ Later = {}
    /\ sweep' = "idle"
    /\ cursor' = 0
    /\ UNCHANGED <<date, visit, tier, history>>

(* The endpoint that recomputes one member. *)
RecomputeByHand(o) ==
    /\ Recompute(o)
    /\ UNCHANGED <<date, visit, sweep, cursor>>

NextDate ==
    /\ date < LastDate
    /\ date' = date + 1
    /\ UNCHANGED <<visit, tier, history, sweep, cursor>>

TierNext ==
    \/ \E o \in Shopper, total \in Totals : Shop(o, total)
    \/ BeginTierSweep \/ ReviewNext \/ ReviewsDone \/ ScanNext \/ ScanDone
    \/ \E o \in Shopper : RecomputeByHand(o)
    \/ NextDate

(* The scheduler ticks forever, and a sweep that began goes on. *)
TierSpec ==
    TierInit /\ [][TierNext]_tierVars
      /\ WF_tierVars(BeginTierSweep \/ ReviewNext \/ ReviewsDone \/ ScanNext \/ ScanDone)

-----------------------------------------------------------------------------
(* Properties. *)

TierTypeOK ==
    /\ date \in 0 .. LastDate
    /\ DOMAIN visit = 1 .. Cardinality(DOMAIN visit) /\ DOMAIN visit \subseteq Visit
    /\ tier \in [Shopper -> [level : {0} \cup Levels, review : 0 .. LastDate + Period]]
    /\ sweep \in {"idle", "due", "scan"} /\ cursor \in {0} \cup Shopper

(* The history explains the tier: each entry starts where the last one     *)
(* ended, the last one is the tier, and a level once reached was kept for a *)
(* whole review period before it fell (soft landing).                      *)
HistoryExplainsTier ==
    \A o \in Shopper :
        LET h == history[o]
            n == Cardinality(DOMAIN h)
        IN  /\ IF n = 0 THEN tier[o].level = 0 ELSE h[1].from = 0 /\ h[n].to = tier[o].level
            /\ \A i \in 2 .. n :
                 /\ h[i].from = h[i - 1].to
                 /\ h[i].to < h[i].from =>
                      h[i].at >= IF Cycle = "CALENDAR" THEN (h[i - 1].at \div Period + 1) * Period
                                 ELSE h[i - 1].at + Period

(* "members with purchases in the window, by keyset, so that nobody is left  *)
(* out" (recomputeAllTiers, all active groups): whoever bought in the window *)
(* gets a tier.                                                            *)
ShoppersGetTiers ==
    \A o \in Shopper : (InWindow(o) # {}) ~> (tier[o].level > 0 \/ InWindow(o) = {})
=============================================================================
