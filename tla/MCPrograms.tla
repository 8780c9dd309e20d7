----------------------------- MODULE MCPrograms -----------------------------
(***************************************************************************)
(* The loyalty programs around the ledger and what is computed from the    *)
(* purchases, one at a time: they share no variable, so the initial state  *)
(* picks the component that runs (focus) and the state spaces add up       *)
(* instead of multiplying.                                                 *)
(***************************************************************************)
EXTENDS Campaigns, Rewards, StoredValue, ConfigVersions, LockOrder, Derived, Models,
        MasterData, Reports, Assistant, TLC

VARIABLE focus

(* A challenge that every purchase completes, within a window of 1. *)
mcTarget == [c \in Challenge |-> 1]
mcWindow == [c \in Challenge |-> 1]

(* One point of company A, two of B; a fixed voucher for brand a alone, and   *)
(* one that is used once and has a stock of one.                           *)
mcLotPoints == <<1, 2>>
mcLotIssuer == <<"A", "B">>
mcCompanyOf == [b \in Brand |-> IF b = "a" THEN "A" ELSE "B"]
mcKind == [r \in Reward |-> IF r = "cut" THEN "fixed" ELSE "once"]
mcCost == [r \in Reward |-> IF r = "cut" THEN 2 ELSE 1]
mcValue == [r \in Reward |-> 2]
mcSpentAt == [r \in Reward |-> IF r = "cut" THEN {"a"} ELSE Brand]
mcStock == [r \in {"off"} |-> 1]
mcTierMin == [r \in Reward |-> IF r = "off" THEN 1 ELSE 0]
mcLevel == [o \in Holder |-> o]

mcModels == <<"churn", "clv">>

(* Two brands sell at one till, under the same SKU.                        *)
mcSoldBy == [m \in Sale |-> IF m = "m1" THEN "a" ELSE "b"]
mcSoldAt == [m \in Sale |-> "s"]
mcSoldSku == [m \in Sale |-> "k"]
mcOrderTotal == [o \in Order |-> 1]

(* Bill, Batch, Genre, Order, Journey and Slot are given the same values: one *)
(* component runs at a time.                                               *)
mcSymmetric == Permutations(Bill)

(* Requests are interchangeable: those that wait for locks are numbered by *)
(* the number of locks they take and the members of the first two.         *)
mcRank(p) == Len(todo[p]) * 100 + todo[p][1].lock[2] * 10 + todo[p][2].lock[2]

programVars ==
    <<campaignVars, rewardVars, storedVars, configVars, lockVars, derivedVars, modelVars,
      masterVars, reportVars, assistantVars, focus>>

(* A component that does not run starts in one state.                      *)
Init ==
    /\ focus \in {"campaigns", "rewards", "stored", "config", "locks", "derived", "models",
                  "master", "reports", "assistant"}
    /\ CampaignInit /\ RewardInit /\ StoredInit /\ ConfigInit /\ ModelInit /\ MasterInit
    /\ ReportInit /\ AssistantInit
    /\ IF focus = "locks"
       THEN LockInit /\ \A p, q \in Proc : p < q => mcRank(p) <= mcRank(q)
       ELSE todo = [p \in Proc |-> <<>>] /\ held = [p \in Proc |-> {}]
    /\ DerivedInit
    /\ focus # "rewards" => \A l \in Lot : lot[l].occ = 0
    /\ focus # "derived" => \A b \in Bill : billOf[b] = 1

Next ==
    /\ UNCHANGED focus
    /\ \/ /\ focus = "campaigns" /\ CampaignNext
          /\ UNCHANGED <<rewardVars, storedVars, configVars, lockVars, derivedVars,
                         modelVars, masterVars, reportVars, assistantVars>>
       \/ /\ focus = "rewards" /\ RewardNext
          /\ UNCHANGED <<campaignVars, storedVars, configVars, lockVars, derivedVars,
                         modelVars, masterVars, reportVars, assistantVars>>
       \/ /\ focus = "stored" /\ StoredNext
          /\ UNCHANGED <<campaignVars, rewardVars, configVars, lockVars, derivedVars,
                         modelVars, masterVars, reportVars, assistantVars>>
       \/ /\ focus = "config" /\ ConfigNext
          /\ UNCHANGED <<campaignVars, rewardVars, storedVars, lockVars, derivedVars,
                         modelVars, masterVars, reportVars, assistantVars>>
       \/ /\ focus = "locks" /\ LockNext
          /\ UNCHANGED <<campaignVars, rewardVars, storedVars, configVars, derivedVars,
                         modelVars, masterVars, reportVars, assistantVars>>
       \/ /\ focus = "derived" /\ DerivedNext
          /\ UNCHANGED <<campaignVars, rewardVars, storedVars, configVars, lockVars,
                         modelVars, masterVars, reportVars, assistantVars>>
       \/ /\ focus = "models" /\ ModelNext
          /\ UNCHANGED <<campaignVars, rewardVars, storedVars, configVars, lockVars,
                         derivedVars, masterVars, reportVars, assistantVars>>
       \/ /\ focus = "master" /\ MasterNext
          /\ UNCHANGED <<campaignVars, rewardVars, storedVars, configVars, lockVars,
                         derivedVars, modelVars, reportVars, assistantVars>>
       \/ /\ focus = "reports" /\ ReportNext
          /\ UNCHANGED <<campaignVars, rewardVars, storedVars, configVars, lockVars,
                         derivedVars, modelVars, masterVars, assistantVars>>
       \/ /\ focus = "assistant" /\ AssistantNext
          /\ UNCHANGED <<campaignVars, rewardVars, storedVars, configVars, lockVars,
                         derivedVars, modelVars, masterVars, reportVars>>

Spec == Init /\ [][Next]_programVars
=============================================================================
