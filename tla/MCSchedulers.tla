---------------------------- MODULE MCSchedulers ----------------------------
(***************************************************************************)
(* What has to happen in the end, one component at a time (focus, as in    *)
(* MCPrograms): the earn sweep, the tier sweep, the pull of a connection.  *)
(***************************************************************************)
EXTENDS AutoEarn, Tiers, Pull

VARIABLE focus

(* A rule that is in force from 1 to 2 for bills of 2, and one that always is. *)
mcRules == <<[rate |-> 2, min |-> 2, from |-> 1, to |-> 2],
             [rate |-> 1, min |-> 1, from |-> -9, to |-> 99]>>

mcThreshold == <<0, 2, 4>>
mcKeep == <<0, 2, 3>>

(* Three rows share a stamp, one more than a batch; the last one is refused. *)
Row(stamp, tie) == [stamp |-> stamp, tie |-> tie]
mcRows == {Row(3, 1), Row(3, 2), Row(3, 3), Row(5, 1)}
mcPoison == {Row(5, 1)}

schedulerVars == <<earnVars, tierVars, pullVars, focus>>

Init ==
    /\ focus \in {"earn", "tiers", "pull"}
    /\ EarnInit /\ TierInit /\ PullInit

OnlyEarn == focus = "earn" /\ UNCHANGED <<tierVars, pullVars, focus>>
OnlyTiers == focus = "tiers" /\ UNCHANGED <<earnVars, pullVars, focus>>
OnlyPull == focus = "pull" /\ UNCHANGED <<earnVars, tierVars, focus>>

Next ==
    \/ OnlyEarn /\ AutoEarnNext
    \/ OnlyTiers /\ TierNext
    \/ OnlyPull /\ PullNext

(* The steps that AutoEarnSpec, TierSpec and PullSpec are fair to.  The focus  *)
(* never changes, so one fairness condition stands for the three.          *)
Progress ==
    \/ OnlyEarn /\ (BeginEarnSweep \/ EarnNext)
    \/ OnlyTiers /\ (BeginTierSweep \/ ReviewNext \/ ReviewsDone \/ ScanNext \/ ScanDone)
    \/ OnlyPull /\ \E p \in Runner : RunPull(p)

Spec ==
    /\ Init /\ [][Next]_schedulerVars
    /\ WF_schedulerVars(Progress)
=============================================================================
