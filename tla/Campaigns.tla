------------------------------ MODULE Campaigns ------------------------------
(***************************************************************************)
(* Challenges, referrals and birthday gifts: loyalty/campaign.service.ts   *)
(* and its scheduler, over the purchases of canonical_transaction.         *)
(*                                                                         *)
(* A bonus is posted under a key of the system (sys:challenge:..,          *)
(* sys:referral:.., sys:birthday:..), ON CONFLICT DO NOTHING.  Each update *)
(* of a member runs under the wallet lock of that member, and a merge      *)
(* takes the same locks, so they are one action each.  The reward of a     *)
(* referral is two: it locks the referral row and reads the referrer, and  *)
(* locks the wallets after that.                                           *)
(***************************************************************************)
EXTENDS Integers, FiniteSets

CONSTANTS
    Occ,            \* members, in the order of their uuid
    Purchase,       \* purchases (message_id)
    Challenge,      \* SPEND and VISITS challenges
    Target,         \* Target[c]: purchases that complete one cycle of c
    Window,         \* Window[c]: window_days; 0 stands for NULL
    Repeatable,     \* the challenges that open a new cycle after each one
    Invite,         \* referral rows
    Celebrating,    \* the members whose birthday falls within the horizon
    Ahead,          \* how far ahead of now() a purchase may be dated
    Horizon,        \* bound: the last instant
    MaxCycle        \* bound: cycles of one challenge

ASSUME CampaignAssumption ==
    /\ Target \in [Challenge -> Nat \ {0}]
    /\ Window \in [Challenge -> Nat]
    /\ Repeatable \subseteq Challenge
    /\ Ahead \in Nat /\ Horizon \in Nat /\ MaxCycle \in Nat

VARIABLES
    now,
    purchase,       \* canonical_transaction: its member and occ_timestamp
    cycles,         \* member_challenge_progress: the cycles of a member and challenge
    invite,         \* referral
    posted,         \* loyalty_txn of the bonuses: key -> member
    rewarding,      \* processReferralReward in flight: the invites that are locked
    mergedInto      \* occ_identity.merged_into; the member itself while active

campaignVars == <<now, purchase, cycles, invite, posted, rewarding, mergedInto>>

Instant == 0 .. Horizon
None == [none |-> TRUE]
Active(o) == mergedInto[o] = o

(* now() of a transaction as a bound on occ_timestamp: it falls after the  *)
(* purchases dated now and before those dated now + 1.                     *)
Stamp == now + 1

(* CycleRow n of a challenge; counted (which the code does not keep) are the    *)
(* purchases its metric counted when it was completed.                     *)
Running == Horizon + 2
CycleRow == [started : Int, done : 1 .. Running, counted : SUBSET Purchase]

Keys ==
    {<<"challenge", o, c, n>> : o \in Occ, c \in Challenge, n \in 1 .. MaxCycle}
      \cup {<<"referral", i, side>> : i \in Invite, side \in {"referrer", "referee"}}
      \cup {<<"birthday", o>> : o \in Occ}

CampaignTypeOK ==
    /\ now \in Instant
    /\ purchase \in [Purchase -> {None} \cup [occ : Occ, at : 0 .. Horizon + Ahead]]
    /\ \A o \in Occ, c \in Challenge :
         /\ DOMAIN cycles[o][c] = 1 .. Cardinality(DOMAIN cycles[o][c])
         /\ \A n \in DOMAIN cycles[o][c] : cycles[o][c][n] \in CycleRow
    /\ \A i \in Invite : invite[i].state \in {"none", "pending", "joined", "rewarded"}
    /\ DOMAIN posted \subseteq Keys
    /\ rewarding \subseteq {i \in Invite : invite[i].state = "joined"}
    /\ mergedInto \in [Occ -> Occ]

CampaignInit ==
    /\ now = 0
    /\ purchase = [p \in Purchase |-> None]
    /\ cycles = [o \in Occ |-> [c \in Challenge |-> <<>>]]
    /\ invite = [i \in Invite |-> [state |-> "none"]]
    /\ posted = <<>>
    /\ rewarding = {}
    /\ mergedInto = [o \in Occ |-> o]

-----------------------------------------------------------------------------
(* External: a purchase is ingested for an active member.  occ_timestamp is *)
(* the client's; nothing compares it with now().                           *)
Buy(p, o, at) ==
    /\ purchase[p] = None
    /\ Active(o)
    /\ at <= now + Ahead
    /\ purchase' = [purchase EXCEPT ![p] = [occ |-> o, at |-> at]]
    /\ UNCHANGED <<now, cycles, invite, posted, rewarding, mergedInto>>

PurchasesSince(o, t) == {p \in Purchase : purchase[p] # None /\ purchase[p].occ = o
                                             /\ purchase[p].at >= t}

(* challengeMetric: the purchases since the start of the cycle, and within *)
(* the rolling window.  The amounts of SPEND are all 1.                    *)
Metric(o, c, started) ==
    LET from == Stamp - Window[c] IN
    PurchasesSince(o, IF Window[c] > 0 /\ from > started THEN from ELSE started)

(* Mutant: a repeated cycle starts where the first one did. *)
NextStartAgain(cs) == cs[1].started

(* The next cycle counts from the completion of the one before. *)
NextStart(cs) == cs[Cardinality(DOMAIN cs)].done

(* The cycles of o in c once the row of the running one exists: the first  *)
(* starts a window ago, or now; a completed one is followed by the next if *)
(* the challenge repeats.                                                  *)
WithRunning(o, c) ==
    LET cs == cycles[o][c]
        n == Cardinality(DOMAIN cs)
        fresh(s) == [started |-> s, done |-> Running, counted |-> {}]
    IN  IF n = 0 THEN <<fresh(Stamp - Window[c])>>
        ELSE IF cs[n].done = Running \/ c \notin Repeatable THEN cs
        ELSE [m \in 1 .. n + 1 |-> IF m <= n THEN cs[m] ELSE fresh(NextStart(cs))]

(* updateChallengesForMember for one challenge: the running cycle completes  *)
(* when its metric reaches the target.                                     *)
Progressed(o, c) ==
    LET cs == WithRunning(o, c)
        n == Cardinality(DOMAIN cs)
        hits == Metric(o, c, cs[n].started)
    IN  IF cs[n].done = Running /\ Cardinality(hits) >= Target[c]
        THEN [cs EXCEPT ![n].done = Stamp, ![n].counted = hits]
        ELSE cs

Completed(cs) == {n \in DOMAIN cs : cs[n].done # Running}

(* postBonusEarnTx: ON CONFLICT DO NOTHING under the keys of owner. *)
Post(owner) ==
    [k \in DOMAIN posted \cup DOMAIN owner |->
       IF k \in DOMAIN posted THEN posted[k] ELSE owner[k]]

(* updateChallengesForMember, all active challenges in one transaction.  The *)
(* scheduler calls it for members with purchases.                          *)
UpdateChallenges(o) ==
    /\ PurchasesSince(o, 0) # {}
    /\ \A c \in Challenge : Cardinality(DOMAIN cycles[o][c]) < MaxCycle
    /\ cycles' = [cycles EXCEPT ![o] = [c \in Challenge |-> Progressed(o, c)]]
    /\ posted' = Post([k \in UNION {{<<"challenge", o, c, n>> : n \in Completed(cycles'[o][c])}
                                     : c \in Challenge} |-> o])
    /\ UNCHANGED <<now, purchase, invite, rewarding, mergedInto>>

-----------------------------------------------------------------------------
(* createReferralCode: the pending code of the member, or a new one. *)
CreateReferralCode(i, o) ==
    /\ invite[i].state = "none"
    /\ ~ \E j \in Invite : invite[j].state = "pending" /\ invite[j].referrer = o
    /\ invite' = [invite EXCEPT ![i] = [state |-> "pending", referrer |-> o]]
    /\ UNCHANGED <<now, purchase, cycles, posted, rewarding, mergedInto>>

(* joinReferral: nobody invites himself or is invited twice (which the     *)
(* unique index uq_referral_referee backs).                                *)
JoinReferral(i, o) ==
    /\ invite[i].state = "pending"
    /\ invite[i].referrer # o
    /\ ~ \E j \in Invite : invite[j].state \in {"joined", "rewarded"} /\ invite[j].referee = o
    /\ invite' = [invite EXCEPT ![i] = [state |-> "joined", referrer |-> @.referrer,
                                        referee |-> o, at |-> Stamp]]
    /\ UNCHANGED <<now, purchase, cycles, posted, rewarding, mergedInto>>

(* processReferralReward up to the wallets: the row is locked, and the     *)
(* referee has bought after joining.                                       *)
LockReferral(i) ==
    /\ invite[i].state = "joined"
    /\ i \notin rewarding
    /\ PurchasesSince(invite[i].referee, invite[i].at) # {}
    /\ rewarding' = rewarding \cup {i}
    /\ UNCHANGED <<now, purchase, cycles, invite, posted, mergedInto>>

BothPaid(i) ==
    [k \in {<<"referral", i, side>> : side \in {"referrer", "referee"}} |->
       IF k[3] = "referrer" THEN invite[i].referrer ELSE invite[i].referee]

(* Mutant: the row is marked before the bonuses, in a transaction of its own. *)
RewardLost(i) ==
    /\ i \in rewarding
    /\ invite' = [invite EXCEPT ![i].state = "rewarded"]
    /\ rewarding' = rewarding \ {i}
    /\ \/ UNCHANGED posted
       \/ posted' = Post(BothPaid(i))
    /\ UNCHANGED <<now, purchase, cycles, mergedInto>>

(* ... and under the wallets of both: both are paid, with the row. *)
RewardReferral(i) ==
    /\ i \in rewarding
    /\ posted' = Post(BothPaid(i))
    /\ invite' = [invite EXCEPT ![i].state = "rewarded"]
    /\ rewarding' = rewarding \ {i}
    /\ UNCHANGED <<now, purchase, cycles, mergedInto>>

(* The transaction fails: the next run of the scheduler takes it up again. *)
AbortReferral(i) ==
    /\ i \in rewarding
    /\ rewarding' = rewarding \ {i}
    /\ UNCHANGED <<now, purchase, cycles, invite, posted, mergedInto>>

(* grantBirthdayBonus on the birthday of o: the key carries the year, and  *)
(* the horizon is within one.                                              *)
GrantBirthday(o) ==
    /\ o \in Celebrating /\ Active(o)
    /\ posted' = Post([k \in {<<"birthday", o>>} |-> o])
    /\ UNCHANGED <<now, purchase, cycles, invite, rewarding, mergedInto>>

(* The merge of the resolver: purchases and transactions of the merged     *)
(* member become the survivor's; progress and referrals stay.              *)
Merge(from, to) ==
    /\ from # to /\ Active(from) /\ Active(to)
    /\ mergedInto' = [mergedInto EXCEPT ![from] = to]
    /\ purchase' = [p \in Purchase |-> IF purchase[p] # None /\ purchase[p].occ = from
                                       THEN [purchase[p] EXCEPT !.occ = to] ELSE purchase[p]]
    /\ posted' = [k \in DOMAIN posted |-> IF posted[k] = from THEN to ELSE posted[k]]
    /\ UNCHANGED <<now, cycles, invite, rewarding>>

Tick ==
    /\ now < Horizon
    /\ now' = now + 1
    /\ UNCHANGED <<purchase, cycles, invite, posted, rewarding, mergedInto>>

CampaignNext ==
    \/ \E p \in Purchase, o \in Occ, at \in 0 .. Horizon + Ahead : Buy(p, o, at)
    \/ \E o \in Occ : UpdateChallenges(o)
    \/ \E i \in Invite, o \in Occ : CreateReferralCode(i, o)
    \/ \E i \in Invite, o \in Occ : JoinReferral(i, o)
    \/ \E i \in Invite : LockReferral(i) \/ RewardReferral(i) \/ AbortReferral(i)
    \/ \E o \in Occ : GrantBirthday(o)
    \/ \E from \in Occ, to \in Occ : Merge(from, to)
    \/ Tick

CampaignSpec == CampaignInit /\ [][CampaignNext]_campaignVars

-----------------------------------------------------------------------------
(* Properties. *)

(* "no activity that was rewarded is counted again" (updateChallengesForMember, *)
(* where the next cycle opens): a purchase completes at most one cycle of a *)
(* challenge, over all members and cycles, unless it moved with a merge    *)
(* between the members of the two cycles: progress does not move with it.  *)
Rewarded(c) == UNION {{<<o, n>> : n \in Completed(cycles[o][c])} : o \in Occ}
ActivityRewardedOnce ==
    \A c \in Challenge : \A x \in Rewarded(c), y \in Rewarded(c) :
        (x # y /\ cycles[x[1]][c][x[2]].counted \cap cycles[y[1]][c][y[2]].counted # {})
            => x[1] # y[1] /\ ~(Active(x[1]) /\ Active(y[1]))

(* A referral that is rewarded has paid both sides, one that is not has paid *)
(* none, and nobody is paid for more than one invitation as a referee.     *)
PaidSides(i) == {side \in {"referrer", "referee"} : <<"referral", i, side>> \in DOMAIN posted}
ReferralPaysBothOnce ==
    /\ \A i \in Invite : PaidSides(i) = IF invite[i].state = "rewarded"
                                        THEN {"referrer", "referee"} ELSE {}
    /\ \A i \in Invite, j \in Invite :
         (i # j /\ invite[i].state = "rewarded" /\ invite[j].state = "rewarded")
            => invite[i].referee # invite[j].referee
=============================================================================
